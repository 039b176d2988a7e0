------------------------ MODULE ControlServer_proofs ------------------------
(***************************************************************************)
(* Proofs about the control server, for any clients, servers, runtimes and *)
(* threads: whoever competes for the control socket, a listening server    *)
(* keeps it and clients start one server among them; in the registry of    *)
(* its runtimes a thread has one owner, and children are joined before     *)
(* their parents; and on a connection nothing is kept that nobody holds,   *)
(* and what a client sees of a subscription is whole.                      *)
(***************************************************************************)
EXTENDS ControlStart, RuntimeHub, ControlConnection, TLAPS

ClientStage == {"probing", "locking", "locked", "starting", "waiting", "ready", "failed"}
Owning == {"owner", "removing", "cleared", "bound", "serving", "closed", "leaving", "unlinked"}
StartTypeOK ==
    /\ caller \in [Client -> [stage : ClientStage, started : Server \cup {Nothing}]]
    /\ server \in [Server -> {"new", "launched", "exited"} \cup Owning]
    /\ deaths \in Nat

(* A server past the lifetime lock holds it.                               *)
OwnersLocked == \A s \in Server : server[s] \in Owning => lifetime = s
(* A client past the startup lock holds it.                                *)
StartersLocked == \A c \in Client :
    caller[c].stage \in {"locked", "starting", "waiting"} => startup = c

(* Until something fails, a client that has started a server waits for one *)
(* or has one, and a client about to start one is the first.               *)
Undisturbed == deaths = 0 /\ \A c \in Client : caller[c].stage # "failed"
StartedServed == \A c \in Client :
    caller[c].started # Nothing =>
        caller[c].stage = "waiting" \/ (caller[c].stage = "ready" /\ Reachable)
FirstStarts == \A c \in Client :
    caller[c].stage = "starting" => \A d \in Client : caller[d].started = Nothing
OneStarted == \A c, d \in Client :
    caller[c].started # Nothing /\ caller[d].started # Nothing => c = d

SocketInv == StartTypeOK /\ OwnersLocked /\ SocketKept
StartInv ==
    /\ SocketInv /\ StartersLocked
    /\ Undisturbed => StartedServed /\ FirstStarts /\ OneStarted

(* It holds before anyone looks for a server.                              *)
LEMMA StartInitial == StartInit => StartInv
<1> SUFFICES ASSUME StartInit PROVE StartInv
    OBVIOUS
<1>1. SocketInv
    BY DEF StartInit, SocketInv, StartTypeOK, ClientStage, Owning, OwnersLocked, SocketKept, Listening
<1>2. StartersLocked /\ StartedServed /\ FirstStarts /\ OneStarted
    BY DEF StartInit, StartersLocked, StartedServed, FirstStarts, OneStarted
<1>. QED
    BY <1>1, <1>2 DEF StartInv

(* A step of a server that changes its stage changes no other's.           *)
LEMMA OnlyGoes ==
    ASSUME StartTypeOK, NEW s \in Server, NEW stage \in {"new", "launched", "exited"} \cup Owning, Goes(s, stage)
    PROVE  /\ server' \in [Server -> {"new", "launched", "exited"} \cup Owning]
           /\ server'[s] = stage
           /\ \A t \in Server : t # s => server'[t] = server[t]
BY DEF StartTypeOK, Goes

(* A step of a client changes no other client.                             *)
LEMMA OnlySteps ==
    ASSUME StartTypeOK, NEW c \in Client, NEW stage \in ClientStage, Step(c, stage)
    PROVE  /\ caller' \in [Client -> [stage : ClientStage, started : Server \cup {Nothing}]]
           /\ caller'[c].stage = stage
           /\ caller'[c].started = caller[c].started
           /\ \A d \in Client : d # c => caller'[d] = caller[d]
BY DEF StartTypeOK, Step

-----------------------------------------------------------------------------
(* Clients leave the servers alone, but for launching one.                 *)

(* A client that only moves keeps who owns what.                           *)
LEMMA ClientKeepsSocket ==
    ASSUME SocketInv, NEW c \in Client, NEW stage \in ClientStage, Step(c, stage),
           UNCHANGED <<server, lifetime, socket, deaths>>
    PROVE  SocketInv' /\ Reachable' = Reachable
<1>1. StartTypeOK'
    BY OnlySteps DEF SocketInv, StartTypeOK
<1>. QED
    BY <1>1 DEF SocketInv, OwnersLocked, SocketKept, Listening, Reachable

(* The startup lock is given up by its holder only.                        *)
LEMMA EndKeeps ==
    ASSUME StartInv, NEW c \in Client, NEW stage \in {"ready", "failed"}, End(c, stage),
           caller[c].stage # "failed", stage = "ready" => Reachable,
           UNCHANGED <<server, lifetime, socket, deaths>>
    PROVE  StartInv'
<1>1. StartTypeOK /\ stage \in ClientStage /\ Step(c, stage)
    BY DEF StartInv, SocketInv, ClientStage, End
<1>2. SocketInv' /\ Reachable' = Reachable
    BY <1>1, ClientKeepsSocket DEF StartInv
<1>3. /\ caller'[c].stage = stage /\ caller'[c].started = caller[c].started
      /\ \A d \in Client : d # c => caller'[d] = caller[d]
    BY <1>1, OnlySteps
<1>4. StartersLocked'
    BY <1>3 DEF StartInv, StartersLocked, End
<1>5. ASSUME Undisturbed' PROVE StartedServed' /\ FirstStarts' /\ OneStarted'
    <2>1. stage = "ready" /\ Undisturbed
        BY <1>3, <1>5 DEF Undisturbed
    <2>. QED
        BY <1>2, <1>3, <2>1 DEF StartInv, StartedServed, FirstStarts, OneStarted
<1>. QED
    BY <1>2, <1>4, <1>5 DEF StartInv

(* Going on to look for a server, or for the lock, promises nothing.       *)
LEMMA LookingKeeps ==
    ASSUME StartInv, NEW c \in Client, Step(c, "locking"), caller[c].stage = "probing",
           UNCHANGED <<server, startup, lifetime, socket, deaths>>
    PROVE  StartInv'
<1>1. StartTypeOK /\ "locking" \in ClientStage
    BY DEF StartInv, SocketInv, ClientStage
<1>2. SocketInv' /\ Reachable' = Reachable
    BY <1>1, ClientKeepsSocket DEF StartInv
<1>3. /\ caller'[c].stage = "locking" /\ caller'[c].started = caller[c].started
      /\ \A d \in Client : d # c => caller'[d] = caller[d]
    BY <1>1, OnlySteps
<1>4. StartersLocked'
    BY <1>3 DEF StartInv, StartersLocked
<1>5. ASSUME Undisturbed' PROVE StartedServed' /\ FirstStarts' /\ OneStarted'
    <2>1. Undisturbed
        BY <1>3, <1>5 DEF Undisturbed
    <2>. QED
        BY <1>2, <1>3, <2>1 DEF StartInv, StartedServed, FirstStarts, OneStarted
<1>. QED
    BY <1>2, <1>4, <1>5 DEF StartInv

(* The startup lock goes to one client.                                    *)
LEMMA LockKeeps == ASSUME StartInv, NEW c \in Client, LockStartup(c) PROVE StartInv'
<1>1. StartTypeOK /\ "locked" \in ClientStage /\ Step(c, "locked")
    BY DEF StartInv, SocketInv, ClientStage, LockStartup
<1>2. SocketInv' /\ Reachable' = Reachable
    BY <1>1, ClientKeepsSocket DEF StartInv, LockStartup
<1>3. /\ caller'[c].stage = "locked" /\ caller'[c].started = caller[c].started
      /\ \A d \in Client : d # c => caller'[d] = caller[d]
    BY <1>1, OnlySteps
<1>4. StartersLocked'
    BY <1>3, Processes DEF StartInv, StartersLocked, LockStartup
<1>5. ASSUME Undisturbed' PROVE StartedServed' /\ FirstStarts' /\ OneStarted'
    <2>1. Undisturbed
        BY <1>3, <1>5 DEF Undisturbed, LockStartup
    <2>. QED
        BY <1>2, <1>3, <2>1 DEF StartInv, StartedServed, FirstStarts, OneStarted, LockStartup
<1>. QED
    BY <1>2, <1>4, <1>5 DEF StartInv

(* Behind the lock, with nobody reachable, nobody has started a server.    *)
LEMMA SecondProbeKeeps == ASSUME StartInv, NEW c \in Client, SecondProbe(c) PROVE StartInv'
<1>1. CASE Reachable
    BY <1>1, EndKeeps DEF SecondProbe, Probe
<1>2. CASE ~Reachable
    <2>1. /\ StartTypeOK /\ "starting" \in ClientStage /\ Step(c, "starting")
          /\ caller[c].stage = "locked"
          /\ UNCHANGED <<server, startup, lifetime, socket, deaths>>
        BY <1>2 DEF StartInv, SocketInv, ClientStage, SecondProbe, Probe
    <2>2. SocketInv' /\ Reachable' = Reachable
        BY <2>1, ClientKeepsSocket DEF StartInv
    <2>3. /\ caller'[c].stage = "starting" /\ caller'[c].started = caller[c].started
          /\ \A d \in Client : d # c => caller'[d] = caller[d]
        BY <2>1, OnlySteps
    <2>4. StartersLocked'
        BY <2>1, <2>3 DEF StartInv, StartersLocked
    <2>5. ASSUME Undisturbed' PROVE StartedServed' /\ FirstStarts' /\ OneStarted'
        <3>1. Undisturbed
            BY <2>1, <2>3, <2>5 DEF Undisturbed
        <3>2. \A d \in Client : caller[d].started = Nothing
            BY <1>2, <2>1, <3>1 DEF StartInv, StartersLocked, StartedServed
        <3>3. \A d \in Client : caller'[d].started = Nothing
            BY <2>3, <3>2
        <3>. QED
            BY <3>3 DEF StartedServed, FirstStarts, OneStarted
    <2>. QED
        BY <2>2, <2>4, <2>5 DEF StartInv
<1>. QED
    BY <1>1, <1>2

(* The holder of the startup lock starts the only server.                  *)
LEMMA StartServerKeeps == ASSUME StartInv, NEW c \in Client, StartServer(c) PROVE StartInv'
<1> PICK s \in Server :
        /\ server[s] = "new" /\ server' = [server EXCEPT ![s] = "launched"]
        /\ caller' = [caller EXCEPT ![c] = [stage |-> "waiting", started |-> s]]
    BY DEF StartServer
<1>1. StartTypeOK /\ caller[c].stage = "starting" /\ UNCHANGED <<startup, lifetime, socket, deaths>>
    BY DEF StartInv, SocketInv, StartServer
<1>2. /\ caller'[c].stage = "waiting"
      /\ \A d \in Client : d # c => caller'[d] = caller[d]
      /\ caller' \in [Client -> [stage : ClientStage, started : Server \cup {Nothing}]]
    BY <1>1 DEF StartTypeOK, ClientStage
<1>3. /\ server'[s] = "launched" /\ \A t \in Server : t # s => server'[t] = server[t]
      /\ server' \in [Server -> {"new", "launched", "exited"} \cup Owning]
    BY <1>1 DEF StartTypeOK
<1>4. SocketInv'
    BY <1>1, <1>2, <1>3 DEF StartInv, SocketInv, StartTypeOK, OwnersLocked, Owning, SocketKept, Listening
<1>5. StartersLocked'
    BY <1>1, <1>2 DEF StartInv, StartersLocked
<1>6. ASSUME Undisturbed' PROVE StartedServed' /\ FirstStarts' /\ OneStarted'
    <2>1. Undisturbed
        BY <1>1, <1>2, <1>6 DEF Undisturbed
    <2>2. \A d \in Client : caller[d].started = Nothing
        BY <1>1, <2>1 DEF StartInv, FirstStarts
    <2>3. \A d \in Client : d # c => caller'[d].started = Nothing /\ caller'[d].stage # "starting"
        BY <1>1, <1>2, <2>2 DEF StartInv, StartersLocked
    <2>. QED
        BY <1>2, <2>3 DEF StartedServed, FirstStarts, OneStarted
<1>. QED
    BY <1>4, <1>5, <1>6 DEF StartInv

-----------------------------------------------------------------------------
(* Servers leave the clients alone.                                        *)

(* A client is served as long as the socket that is reached stays so.      *)
LEMMA ServerKeeps ==
    ASSUME StartInv, SocketInv', UNCHANGED <<caller, startup>>, deaths' \in Nat, deaths' >= deaths,
           deaths' = 0 /\ Reachable => Reachable'
    PROVE  StartInv'
<1>1. StartersLocked'
    BY DEF StartInv, StartersLocked
<1>2. ASSUME Undisturbed' PROVE StartedServed' /\ FirstStarts' /\ OneStarted'
    <2>1. deaths \in Nat
        BY DEF StartInv, SocketInv, StartTypeOK
    <2>2. Undisturbed /\ deaths' = 0
        BY <1>2, <2>1 DEF Undisturbed
    <2>. QED
        BY <2>2 DEF StartInv, StartedServed, FirstStarts, OneStarted
<1>. QED
    BY <1>1, <1>2 DEF StartInv

(* A server that neither had nor gets the lifetime lock changes nothing.   *)
LEMMA IdleKeeps ==
    ASSUME StartInv, NEW s \in Server, NEW stage \in {"launched", "exited"}, Goes(s, stage),
           server[s] \in {"new", "launched"},
           UNCHANGED <<caller, startup, lifetime, socket, deaths>>
    PROVE  StartInv'
<1>1. StartTypeOK
    BY DEF StartInv, SocketInv
<1>2. /\ server' \in [Server -> {"new", "launched", "exited"} \cup Owning]
      /\ server'[s] = stage /\ \A t \in Server : t # s => server'[t] = server[t]
    BY <1>1, OnlyGoes
<1>3. SocketInv'
    BY <1>1, <1>2 DEF StartInv, SocketInv, StartTypeOK, OwnersLocked, Owning, SocketKept, Listening
<1>4. Reachable => Reachable'
    BY <1>2 DEF Reachable, Listening
<1>. QED
    BY <1>1, <1>3, <1>4, ServerKeeps DEF StartTypeOK

(* The holder of the lifetime lock works on the socket.                    *)
LEMMA OwnerKeeps ==
    ASSUME StartInv, NEW s \in Server, NEW stage \in Owning, Goes(s, stage), lifetime' = s,
           lifetime = s \/ (lifetime = Nothing /\ server[s] = "launched"),
           server[s] \in Owning \cup {"launched"},
           UNCHANGED <<caller, startup>>,
           deaths' \in Nat, deaths' >= deaths,
           socket' = socket \/ ~Listening(s),
           stage \in {"bound", "serving"} => socket' = s,
           deaths' = 0 /\ Listening(s) => stage \in {"bound", "serving"}
    PROVE  StartInv'
<1>1. StartTypeOK
    BY DEF StartInv, SocketInv
<1>2. /\ server' \in [Server -> {"new", "launched", "exited"} \cup Owning]
      /\ server'[s] = stage /\ \A t \in Server : t # s => server'[t] = server[t]
    BY <1>1, OnlyGoes
<1>3. \A t \in Server : t # s => server[t] \notin Owning
    BY Processes DEF StartInv, SocketInv, OwnersLocked
<1>4. StartTypeOK' /\ OwnersLocked'
    BY <1>1, <1>2, <1>3 DEF StartTypeOK, OwnersLocked
<1>5. \A t \in Server : Listening(t)' => t = s /\ stage \in {"bound", "serving"}
    BY <1>2, <1>3 DEF Listening, Owning
<1>6. SocketKept'
    BY <1>5 DEF SocketKept
<1>7. deaths' = 0 /\ Reachable => Reachable'
    BY <1>2, <1>3 DEF Reachable, Listening, Owning
<1>. QED
    BY <1>4, <1>6, <1>7, ServerKeeps DEF SocketInv

(* The holder of the lifetime lock ends, without having a socket unless it *)
(* dies.                                                                   *)
LEMMA ExitKeeps ==
    ASSUME StartInv, NEW s \in Server, Goes(s, "exited"), Unlocked(s),
           server[s] # "new",
           UNCHANGED <<caller, startup, socket>>,
           deaths' \in Nat, deaths' >= deaths,
           deaths' = 0 => ~Listening(s)
    PROVE  StartInv'
<1>1. StartTypeOK
    BY DEF StartInv, SocketInv
<1>2. /\ server' \in [Server -> {"new", "launched", "exited"} \cup Owning]
      /\ server'[s] = "exited" /\ \A t \in Server : t # s => server'[t] = server[t]
    BY <1>1, OnlyGoes
<1>3. StartTypeOK'
    BY <1>1, <1>2 DEF StartTypeOK
<1>4. OwnersLocked'
    BY <1>2 DEF StartInv, SocketInv, OwnersLocked, Unlocked, Owning
<1>5. SocketKept'
    BY <1>2 DEF StartInv, SocketInv, SocketKept, Listening
<1>6. deaths' = 0 /\ Reachable => Reachable'
    BY <1>2 DEF Reachable, Listening
<1>. QED
    BY <1>3, <1>4, <1>5, <1>6, ServerKeeps DEF SocketInv

-----------------------------------------------------------------------------
(* Every step of a server preserves the invariant.                         *)
LEMMA ServerPreserves ==
    ASSUME StartInv, NEW s \in Server, ServerStep(s) \/ LaunchOther(s) \/ Stop(s) \/ Die(s)
    PROVE  StartInv'
<1>1. deaths \in Nat /\ (server[s] \in Owning => lifetime = s) /\ (Listening(s) => socket = s)
    BY DEF StartInv, SocketInv, StartTypeOK, OwnersLocked, SocketKept
<1>2. CASE LaunchOther(s)
    BY <1>2, IdleKeeps DEF LaunchOther
<1>3. CASE LockLifetime(s)
    <2>1. CASE lifetime = Nothing
        BY <1>1, <1>3, <2>1, OwnerKeeps DEF LockLifetime, Owning, Listening
    <2>2. CASE lifetime # Nothing
        BY <1>3, <2>2, IdleKeeps DEF LockLifetime
    <2>. QED
        BY <2>1, <2>2
<1>4. CASE Reclaim(s)
    <2>0. server[s] = "owner" /\ UNCHANGED <<caller, startup, socket, deaths>>
        BY <1>4 DEF Reclaim
    <2>1. CASE socket = Nothing
        <3>1. ~Reachable
            BY <2>1, Processes DEF Reachable, Listening
        <3>2. Goes(s, "cleared") /\ lifetime' = lifetime
            BY <1>4, <2>1, <3>1 DEF Reclaim
        <3>. QED
            BY <1>1, <2>0, <3>2, OwnerKeeps DEF Owning, Listening
    <2>2. CASE socket # Nothing /\ Reachable
        BY <1>1, <1>4, <2>0, <2>2, ExitKeeps DEF Reclaim, Listening
    <2>3. CASE socket # Nothing /\ ~Reachable
        BY <1>1, <1>4, <2>0, <2>3, OwnerKeeps DEF Reclaim, Owning, Listening
    <2>. QED
        BY <2>1, <2>2, <2>3
<1>5. CASE RemoveStale(s)
    BY <1>1, <1>5, OwnerKeeps DEF RemoveStale, Owning, Listening
<1>6. CASE Bind(s)
    <2>1. CASE socket = Nothing
        BY <1>1, <1>6, <2>1, OwnerKeeps DEF Bind, Owning, Listening
    <2>2. CASE socket # Nothing
        BY <1>1, <1>6, <2>2, ExitKeeps DEF Bind, Listening
    <2>. QED
        BY <2>1, <2>2
<1>7. CASE Serve(s)
    BY <1>1, <1>7, OwnerKeeps DEF Serve, Owning, Listening
<1>8. CASE CheckOwn(s)
    <2>1. CASE socket = s
        BY <1>1, <1>8, <2>1, OwnerKeeps DEF CheckOwn, Owning, Listening
    <2>2. CASE socket # s
        BY <1>1, <1>8, <2>2, OwnerKeeps DEF CheckOwn, Owning, Listening
    <2>. QED
        BY <2>1, <2>2
<1>9. CASE Unlink(s)
    BY <1>1, <1>9, OwnerKeeps DEF Unlink, Owning, Listening
<1>10. CASE Unlock(s)
    BY <1>1, <1>10, ExitKeeps DEF Unlock, Listening
<1>11. CASE Stop(s)
    <2>1. deaths' \in Nat /\ deaths' >= deaths /\ deaths' # 0
        BY <1>1, <1>11 DEF Stop
    <2>. QED
        BY <1>1, <1>11, <2>1, OwnerKeeps DEF Stop, Owning, Listening
<1>12. CASE Die(s)
    <2>1. deaths' \in Nat /\ deaths' >= deaths /\ deaths' # 0
        BY <1>1, <1>12 DEF Die
    <2>. QED
        BY <1>12, <2>1, ExitKeeps DEF Die
<1>. QED
    BY <1>2, <1>3, <1>4, <1>5, <1>6, <1>7, <1>8, <1>9, <1>10, <1>11, <1>12 DEF ServerStep

(* Every step preserves the invariant.                                     *)
LEMMA StartStep == StartInv /\ [StartNext]_startVars => StartInv'
<1> SUFFICES ASSUME StartInv, [StartNext]_startVars PROVE StartInv'
    OBVIOUS
<1>1. ASSUME NEW c \in Client, FirstProbe(c) PROVE StartInv'
    <2>1. CASE Reachable
        BY <1>1, <2>1, EndKeeps DEF FirstProbe, Probe
    <2>2. CASE ~Reachable
        BY <1>1, <2>2, LookingKeeps DEF FirstProbe, Probe
    <2>. QED
        BY <2>1, <2>2
<1>2. ASSUME NEW c \in Client, LockStartup(c) PROVE StartInv'
    BY <1>2, LockKeeps
<1>3. ASSUME NEW c \in Client, SecondProbe(c) PROVE StartInv'
    BY <1>3, SecondProbeKeeps
<1>4. ASSUME NEW c \in Client, StartServer(c) PROVE StartInv'
    BY <1>4, StartServerKeeps
<1>5. ASSUME NEW c \in Client, WaitReady(c) PROVE StartInv'
    BY <1>5, EndKeeps DEF WaitReady, Probe
<1>6. ASSUME NEW c \in Client, GiveUp(c) PROVE StartInv'
    BY <1>6, EndKeeps DEF GiveUp
<1>7. ASSUME NEW s \in Server, ServerStep(s) \/ LaunchOther(s) \/ Stop(s) \/ Die(s) PROVE StartInv'
    BY <1>7, ServerPreserves
<1>8. CASE UNCHANGED startVars
    BY <1>8 DEF startVars, StartInv, SocketInv, StartTypeOK, OwnersLocked, SocketKept, Listening,
                StartersLocked, Undisturbed, StartedServed, FirstStarts, OneStarted, Reachable
<1>. QED
    BY <1>1, <1>2, <1>3, <1>4, <1>5, <1>6, <1>7, <1>8 DEF StartNext, ClientStep

(* The invariant holds in every reachable state.                           *)
LEMMA StartInvariant == StartSpec => []StartInv
BY StartInitial, StartStep, PTL DEF StartSpec

(* However many servers compete, stop and die, nobody removes or replaces  *)
(* the socket of one that listens (control_socket.go).                     *)
THEOREM SocketsKept == StartSpec => []SocketKept
<1>1. StartInv => SocketKept
    BY DEF StartInv, SocketInv
<1>. QED
    BY <1>1, StartInvariant, PTL

(* However many clients find no server, one of them starts one, unless     *)
(* something fails (control_start.go, EnsureControl).                      *)
THEOREM ServersStartedOnce == StartSpec => []StartedOnce
<1>1. ASSUME StartInv PROVE StartedOnce
    <2> SUFFICES ASSUME NEW c \in Client, NEW d \in Client, c # d,
                        caller[c].started # Nothing, caller[d].started # Nothing, Undisturbed
                 PROVE  FALSE
        BY <1>1 DEF StartedOnce, Undisturbed, StartInv, SocketInv, StartTypeOK
    <2>. QED
        BY <1>1 DEF StartInv, OneStarted
<1>. QED
    BY <1>1, StartInvariant, PTL

-----------------------------------------------------------------------------
(* The registry of runtimes.                                               *)

(* The stages of a runtime, and what is recorded of it.                    *)
RuntimeStage == {"new", "running", "returned", "joining", "done"}
RuntimeRecord ==
    [stage : RuntimeStage, resume : HubThread \cup {NoThread}, id : HubThread \cup {NoThread},
     above : SUBSET Runtime, parent : Runtime \cup {NoRuntime}, canceled : BOOLEAN,
     awaits : SUBSET Runtime]
HubTypes ==
    /\ runtime \in [Runtime -> RuntimeRecord]
    /\ sessions \in [HubThread -> Runtime \cup {NoRuntime}]
    /\ hub \in [ended : BOOLEAN, close : {"open", "joining", "closed"}]

(* A thread that is registered is its runtime's, and the other way about.  *)
Registered ==
    /\ \A t \in HubThread :
        sessions[t] # NoRuntime => sessions[t] \in Members /\ runtime[sessions[t]].id = t
    /\ \A m \in Members : runtime[m].id # NoThread => sessions[runtime[m].id] = m

(* A thread about to be opened is no other runtime's.                      *)
OpenedOnce == \A m, n \in Members : m # n /\ runtime[m].resume # NoThread =>
    runtime[n].resume # runtime[m].resume /\ runtime[n].id # runtime[m].resume

(* A runtime that waits for others has them all, as its context has ended. *)
Joining ==
    /\ \A m \in Runtime : runtime[m].stage \in {"joining", "done"} => runtime[m].canceled
    /\ \A m, c \in Members : runtime[m].stage = "joining" /\ runtime[c].parent = m =>
            c \in runtime[m].awaits

(* Whatever is below a runtime is so through one started under it that is  *)
(* still a member.                                                         *)
Linked == \A m \in Runtime, c \in Members : m \in runtime[c].above =>
    /\ m \in Members
    /\ \E d \in Members : runtime[d].parent = m /\ (d = c \/ d \in runtime[c].above)

(* A runtime not yet started has no thread.                                *)
Unstarted == \A m \in Runtime : runtime[m].stage = "new" => runtime[m].id = NoThread

Closing == hub.close = "closed" => Members = {}

HubInv == HubTypes /\ Unstarted /\ Registered /\ OpenedOnce /\ Joining /\ Linked /\ Closing
-----------------------------------------------------------------------------
(* Nothing is registered, opened or waited for at first.                   *)
LEMMA InitHub == HubInit => HubInv
BY Registry DEF HubInit, Blank, HubInv, HubTypes, RuntimeRecord, RuntimeStage, Unstarted, Registered, OpenedOnce, Joining, Linked, Closing, Members

(* A runtime whose new record is well typed leaves all of them so.         *)
LEMMA RecordKept ==
    ASSUME HubTypes, NEW m \in Runtime, NEW r \in RuntimeRecord,
           runtime' = [runtime EXCEPT ![m] = r]
    PROVE  runtime' \in [Runtime -> RuntimeRecord]
BY DEF HubTypes

(* Admission: the thread is nobody's, and the parent has not ended.        *)
LEMMA AdmitKeeps ==
    ASSUME NEW m \in Runtime, NEW t \in HubThread \cup {NoThread},
           NEW p \in Runtime \cup {NoRuntime}, HubInv, AdmitRuntime(m, t, p)
    PROVE  HubInv'
<1>. USE Registry DEF Members
<1>1. Members' = Members \cup {m}
    BY DEF HubInv, HubTypes, RuntimeRecord, RuntimeStage, AdmitRuntime, Admissible, Reserved, Ended, Stopping
<1>2. HubTypes'
  <2> DEFINE r == [runtime[m] EXCEPT
        !.stage = "running", !.resume = t, !.parent = p,
        !.above = IF p = NoRuntime THEN {} ELSE runtime[p].above \cup {p}]
  <2>1. r \in RuntimeRecord
    <3>1. runtime[m] \in RuntimeRecord /\ \A p1 \in Runtime : runtime[p1].above \subseteq Runtime
      BY DEF HubInv, HubTypes, RuntimeRecord
    <3>2. QED
      BY <3>1 DEF RuntimeRecord, RuntimeStage
  <2>2. runtime' = [runtime EXCEPT ![m] = r]
    BY DEF HubInv, HubTypes, AdmitRuntime
  <2>3. runtime' \in [Runtime -> RuntimeRecord]
    <3>. HIDE DEF r
    <3>. QED BY <2>1, <2>2, RecordKept DEF HubInv
  <2>4. QED
    BY <2>3 DEF HubInv, HubTypes, AdmitRuntime
<1>3. Unstarted'
    BY <1>1 DEF HubInv, HubTypes, RuntimeRecord, RuntimeStage, Unstarted, AdmitRuntime, Admissible, Reserved, Ended, Stopping
<1>4. Registered'
    BY <1>1 DEF HubInv, HubTypes, RuntimeRecord, RuntimeStage, Registered, AdmitRuntime, Admissible, Reserved, Ended, Stopping, Unstarted
<1>5. OpenedOnce'
    BY <1>1 DEF HubInv, HubTypes, RuntimeRecord, RuntimeStage, OpenedOnce, AdmitRuntime, Admissible, Reserved, Ended, Stopping, Registered, Unstarted
<1>6. Joining'
    BY <1>1 DEF HubInv, HubTypes, RuntimeRecord, RuntimeStage, Joining, AdmitRuntime, Admissible, Reserved, Ended, Stopping, Registered
<1>7. Linked'
    BY <1>1 DEF HubInv, HubTypes, RuntimeRecord, RuntimeStage, Linked, AdmitRuntime, Admissible, Reserved, Ended, Stopping, Registered, Joining
<1>8. Closing'
    BY <1>1 DEF HubInv, HubTypes, RuntimeRecord, RuntimeStage, Closing, AdmitRuntime, Admissible, Reserved, Ended, Stopping
<1>9. QED
    BY <1>2, <1>3, <1>4, <1>5, <1>6, <1>7, <1>8 DEF HubInv

(* Opening another thread: it is nobody else's.                            *)
LEMMA ReserveKeeps ==
    ASSUME NEW m \in Runtime, NEW t \in HubThread \cup {NoThread}, HubInv, ReserveThread(m, t)
    PROVE  HubInv'
<1>. USE Registry DEF Members
<1>1. Members' = Members
    BY DEF HubInv, HubTypes, RuntimeRecord, RuntimeStage, ReserveThread, Reserved
<1>2. HubTypes'
    BY <1>1 DEF HubInv, HubTypes, RuntimeRecord, RuntimeStage, ReserveThread, Reserved
<1>3. Unstarted'
    BY <1>1 DEF HubInv, HubTypes, RuntimeRecord, RuntimeStage, Unstarted, ReserveThread, Reserved
<1>4. Registered'
    BY <1>1 DEF HubInv, HubTypes, RuntimeRecord, RuntimeStage, Registered, ReserveThread, Reserved
<1>5. OpenedOnce'
    BY <1>1 DEF HubInv, HubTypes, RuntimeRecord, RuntimeStage, OpenedOnce, ReserveThread, Reserved, Registered
<1>6. Joining'
    BY <1>1 DEF HubInv, HubTypes, RuntimeRecord, RuntimeStage, Joining, ReserveThread, Reserved
<1>7. Linked'
    BY <1>1 DEF HubInv, HubTypes, RuntimeRecord, RuntimeStage, Linked, ReserveThread, Reserved
<1>8. Closing'
    BY <1>1 DEF HubInv, HubTypes, RuntimeRecord, RuntimeStage, Closing, ReserveThread, Reserved
<1>9. QED
    BY <1>2, <1>3, <1>4, <1>5, <1>6, <1>7, <1>8 DEF HubInv

(* Registration: of a thread that is nobody else's, in place of the last.  *)
LEMMA RegisterKeeps ==
    ASSUME NEW m \in Runtime, NEW t \in HubThread, HubInv, RegisterSummary(m, t)
    PROVE  HubInv'
<1>. USE Registry DEF Members
<1>1. Members' = Members
    BY DEF HubInv, HubTypes, RuntimeRecord, RuntimeStage, RegisterSummary, Reserved
<1>2. HubTypes'
  <2> DEFINE r == [runtime[m] EXCEPT
        !.id = t, !.resume = IF @ = t THEN NoThread ELSE @]
  <2>1. r \in RuntimeRecord
    <3>1. runtime[m] \in RuntimeRecord /\ \A p1 \in Runtime : runtime[p1].above \subseteq Runtime
      BY DEF HubInv, HubTypes, RuntimeRecord
    <3>2. QED
      BY <3>1 DEF RuntimeRecord, RuntimeStage
  <2>2. runtime' = [runtime EXCEPT ![m] = r]
    BY DEF HubInv, HubTypes, RegisterSummary
  <2>3. runtime' \in [Runtime -> RuntimeRecord]
    <3>. HIDE DEF r
    <3>. QED BY <2>1, <2>2, RecordKept DEF HubInv
  <2>4. QED
    BY <2>3 DEF HubInv, HubTypes, RegisterSummary
<1>3. Unstarted'
    BY <1>1 DEF HubInv, HubTypes, RuntimeRecord, RuntimeStage, Unstarted, RegisterSummary, Reserved
<1>4. Registered'
    BY <1>1 DEF HubInv, HubTypes, RuntimeRecord, RuntimeStage, Registered, RegisterSummary, Reserved
<1>5. OpenedOnce'
    BY <1>1 DEF HubInv, HubTypes, RuntimeRecord, RuntimeStage, OpenedOnce, RegisterSummary, Reserved
<1>6. Joining'
    BY <1>1 DEF HubInv, HubTypes, RuntimeRecord, RuntimeStage, Joining, RegisterSummary, Reserved
<1>7. Linked'
  <2>1. \A c \in Runtime : runtime'[c].above = runtime[c].above /\ runtime'[c].parent = runtime[c].parent
    BY DEF HubInv, HubTypes, RuntimeRecord, RegisterSummary
  <2>2. QED
    BY <1>1, <2>1 DEF HubInv, HubTypes, RuntimeRecord, Linked, RegisterSummary
<1>8. Closing'
    BY <1>1 DEF HubInv, HubTypes, RuntimeRecord, RuntimeStage, Closing, RegisterSummary, Reserved
<1>9. QED
    BY <1>2, <1>3, <1>4, <1>5, <1>6, <1>7, <1>8 DEF HubInv

(* Cancellation and the end of a run.                                      *)
LEMMA EndsKeep ==
    ASSUME NEW m \in Runtime, HubInv, CancelRuntime(m) \/ RunReturns(m)
    PROVE  HubInv'
<1>. USE Registry DEF Members
<1>1. Members' = Members
    BY DEF HubInv, HubTypes, RuntimeRecord, RuntimeStage, CancelRuntime, RunReturns
<1>2. HubTypes'
  <2>. runtime[m] \in RuntimeRecord
    BY DEF HubInv, HubTypes
  <2>1. [runtime[m] EXCEPT !.canceled = TRUE] \in RuntimeRecord
    BY DEF RuntimeRecord
  <2>2. [runtime[m] EXCEPT !.stage = "returned"] \in RuntimeRecord
    BY DEF RuntimeRecord, RuntimeStage
  <2>3. runtime' \in [Runtime -> RuntimeRecord]
    BY <2>1, <2>2 DEF HubInv, HubTypes, CancelRuntime, RunReturns
  <2>4. QED
    BY <2>3 DEF HubInv, HubTypes, CancelRuntime, RunReturns
<1>3. Unstarted'
    BY <1>1 DEF HubInv, HubTypes, RuntimeRecord, RuntimeStage, Unstarted, CancelRuntime, RunReturns
<1>4. Registered'
    BY <1>1 DEF HubInv, HubTypes, RuntimeRecord, RuntimeStage, Registered, CancelRuntime, RunReturns
<1>5. OpenedOnce'
    BY <1>1 DEF HubInv, HubTypes, RuntimeRecord, RuntimeStage, OpenedOnce, CancelRuntime, RunReturns
<1>6. Joining'
    BY <1>1 DEF HubInv, HubTypes, RuntimeRecord, RuntimeStage, Joining, CancelRuntime, RunReturns
<1>7. Linked'
  <2>1. \A c \in Runtime : runtime'[c].above = runtime[c].above /\ runtime'[c].parent = runtime[c].parent
    BY DEF HubInv, HubTypes, RuntimeRecord, CancelRuntime, RunReturns
  <2>2. QED
    BY <1>1, <2>1 DEF HubInv, HubTypes, RuntimeRecord, Linked, CancelRuntime, RunReturns
<1>8. Closing'
    BY <1>1 DEF HubInv, HubTypes, RuntimeRecord, RuntimeStage, Closing, CancelRuntime, RunReturns
<1>9. QED
    BY <1>2, <1>3, <1>4, <1>5, <1>6, <1>7, <1>8 DEF HubInv

(* Children are looked for once none can be added.                         *)
LEMMA AwaitKeeps ==
    ASSUME NEW m \in Runtime, HubInv, AwaitChildren(m)
    PROVE  HubInv'
<1>. USE Registry DEF Members
<1>1. Members' = Members
    BY DEF HubInv, HubTypes, RuntimeRecord, RuntimeStage, AwaitChildren, Children
<1>2. HubTypes'
  <2> DEFINE r == [runtime[m] EXCEPT
        !.stage = "joining", !.canceled = TRUE, !.awaits = Children(m)]
  <2>1. r \in RuntimeRecord
    <3>1. runtime[m] \in RuntimeRecord /\ \A p1 \in Runtime : runtime[p1].above \subseteq Runtime
      BY DEF HubInv, HubTypes, RuntimeRecord
    <3>2. QED
      BY <3>1 DEF RuntimeRecord, RuntimeStage, Children
  <2>2. runtime' = [runtime EXCEPT ![m] = r]
    BY DEF HubInv, HubTypes, AwaitChildren
  <2>3. runtime' \in [Runtime -> RuntimeRecord]
    <3>. HIDE DEF r
    <3>. QED BY <2>1, <2>2, RecordKept DEF HubInv
  <2>4. QED
    BY <2>3 DEF HubInv, HubTypes, AwaitChildren
<1>3. Unstarted'
    BY <1>1 DEF HubInv, HubTypes, RuntimeRecord, RuntimeStage, Unstarted, AwaitChildren, Children
<1>4. Registered'
    BY <1>1 DEF HubInv, HubTypes, RuntimeRecord, RuntimeStage, Registered, AwaitChildren, Children
<1>5. OpenedOnce'
    BY <1>1 DEF HubInv, HubTypes, RuntimeRecord, RuntimeStage, OpenedOnce, AwaitChildren, Children
<1>6. Joining'
    BY <1>1 DEF HubInv, HubTypes, RuntimeRecord, RuntimeStage, Joining, AwaitChildren, Children
<1>7. Linked'
    BY <1>1 DEF HubInv, HubTypes, RuntimeRecord, RuntimeStage, Linked, AwaitChildren, Children
<1>8. Closing'
    BY <1>1 DEF HubInv, HubTypes, RuntimeRecord, RuntimeStage, Closing, AwaitChildren, Children
<1>9. QED
    BY <1>2, <1>3, <1>4, <1>5, <1>6, <1>7, <1>8 DEF HubInv

(* A runtime leaves when none of its children is left, so nothing below it *)
(* is.                                                                     *)
LEMMA RemoveKeeps ==
    ASSUME NEW m \in Runtime, HubInv, RemoveRuntime(m)
    PROVE  HubInv'
<1>. USE Registry DEF Members
<1>1. Members' = Members \ {m}
    BY DEF HubInv, HubTypes, RuntimeRecord, RuntimeStage, RemoveRuntime, Unregistered, Blank
<1>2. HubTypes'
    BY <1>1 DEF HubInv, HubTypes, RuntimeRecord, RuntimeStage, RemoveRuntime, Unregistered, Blank
<1>3. Unstarted'
    BY <1>1 DEF HubInv, HubTypes, RuntimeRecord, RuntimeStage, Unstarted, RemoveRuntime, Unregistered, Blank
<1>4. Registered'
    BY <1>1 DEF HubInv, HubTypes, RuntimeRecord, RuntimeStage, Registered, RemoveRuntime, Unregistered, Blank
<1>5. OpenedOnce'
    BY <1>1 DEF HubInv, HubTypes, RuntimeRecord, RuntimeStage, OpenedOnce, RemoveRuntime, Unregistered, Blank
<1>6. Joining'
    BY <1>1 DEF HubInv, HubTypes, RuntimeRecord, RuntimeStage, Joining, RemoveRuntime, Unregistered, Blank
<1>7. Linked'
    BY <1>1 DEF HubInv, HubTypes, RuntimeRecord, RuntimeStage, Linked, RemoveRuntime, Unregistered, Blank, Joining
<1>8. Closing'
    BY <1>1 DEF HubInv, HubTypes, RuntimeRecord, RuntimeStage, Closing, RemoveRuntime, Unregistered, Blank
<1>9. QED
    BY <1>2, <1>3, <1>4, <1>5, <1>6, <1>7, <1>8 DEF HubInv

(* The server's own end.                                                   *)
LEMMA HubKeeps ==
    ASSUME HubInv, EndServer \/ CloseHub \/ HubClosed
    PROVE  HubInv'
<1>. USE Registry DEF Members
<1>1. Members' = Members
    BY DEF HubInv, HubTypes, RuntimeRecord, RuntimeStage, EndServer, CloseHub, HubClosed
<1>2. HubTypes'
  <2>1. ASSUME NEW c \in Runtime PROVE [runtime[c] EXCEPT !.canceled = TRUE] \in RuntimeRecord
    <3>1. runtime[c] \in RuntimeRecord
      BY DEF HubInv, HubTypes
    <3>2. QED
      BY <3>1 DEF RuntimeRecord
  <2>2. runtime' \in [Runtime -> RuntimeRecord]
    BY <2>1 DEF HubInv, HubTypes, EndServer, CloseHub, HubClosed
  <2>3. QED
    BY <2>2 DEF HubInv, HubTypes, EndServer, CloseHub, HubClosed
<1>3. Unstarted'
    BY <1>1 DEF HubInv, HubTypes, RuntimeRecord, RuntimeStage, Unstarted, EndServer, CloseHub, HubClosed
<1>4. Registered'
    BY <1>1 DEF HubInv, HubTypes, RuntimeRecord, RuntimeStage, Registered, EndServer, CloseHub, HubClosed
<1>5. OpenedOnce'
    BY <1>1 DEF HubInv, HubTypes, RuntimeRecord, RuntimeStage, OpenedOnce, EndServer, CloseHub, HubClosed
<1>6. Joining'
    BY <1>1 DEF HubInv, HubTypes, RuntimeRecord, RuntimeStage, Joining, EndServer, CloseHub, HubClosed
<1>7. Linked'
    BY <1>1 DEF HubInv, HubTypes, RuntimeRecord, RuntimeStage, Linked, EndServer, CloseHub, HubClosed
<1>8. Closing'
    BY <1>1 DEF HubInv, HubTypes, RuntimeRecord, RuntimeStage, Closing, EndServer, CloseHub, HubClosed
<1>9. QED
    BY <1>2, <1>3, <1>4, <1>5, <1>6, <1>7, <1>8 DEF HubInv

-----------------------------------------------------------------------------
(* The registry's invariant holds of every behaviour (hub.go).             *)
LEMMA HubInvariant == HubSpec => []HubInv
<1>1. HubInv /\ [HubNext]_hubVars => HubInv'
  <2>. SUFFICES ASSUME HubInv, [HubNext]_hubVars PROVE HubInv'
    OBVIOUS
  <2>1. CASE UNCHANGED hubVars
    BY <2>1 DEF hubVars, HubInv, HubTypes, RuntimeRecord, RuntimeStage, Unstarted, Registered, OpenedOnce, Joining, Linked, Closing, Members
  <2>2. CASE HubNext
    BY <2>2, AdmitKeeps, ReserveKeeps, RegisterKeeps, EndsKeep, AwaitKeeps, RemoveKeeps, HubKeeps
    DEF HubNext, RuntimeStep
  <2>3. QED
    BY <2>1, <2>2
<1>2. QED
    BY InitHub, <1>1, PTL DEF HubSpec

(* No thread ever has two owners (hub.go, admitRuntime, reserveThread and  *)
(* registerSummary).                                                       *)
THEOREM ThreadsOwnedOnce == HubSpec => []ThreadOwnedOnce
<1>1. HubInv => ThreadOwnedOnce
    BY Registry DEF HubInv, HubTypes, RuntimeRecord, Registered, OpenedOnce, Members,
                    ThreadOwnedOnce, ThreadOwners
<1>2. QED
    BY <1>1, HubInvariant, PTL

(* A runtime is done only after everything started under it, and a closed  *)
(* hub has nothing left (hub.go, run and Close).                           *)
THEOREM ChildrenJoined == HubSpec => []JoinedLast
<1>1. HubInv => JoinedLast
    BY Registry DEF HubInv, HubTypes, RuntimeRecord, Registered, Linked, Closing, Members, JoinedLast
<1>2. QED
    BY <1>1, HubInvariant, PTL

-----------------------------------------------------------------------------
(* A connection: what its variables and its two channels hold.             *)

ObserverStage == {"new", "calling", "open", "ended", "gone"}
Unanswered == {"none", "accepted", "subscribing", "admitted", "refused"}
RequestStage == Unanswered \cup {"answered", "done"}
ViewStage == {"none", "reserved", "installed", "active", "gone"}

(* What the two channels and the writer's queue carry.                     *)
UpCall ==
    [kind : {"subscribe", "unsubscribe", "cancel"}, of : Subscription]
        \cup [kind : {"page", "cancel"}, of : Page]
Ack == [kind : {"ack"}, delivery : Nat \ {0}]
UpMessage == UpCall \cup Ack
EventMessage == [kind : {"event"}, of : Subscription, n : Nat, delivery : Nat \ {0}, patch : BOOLEAN]
PageMessage == [kind : {"page"}, of : Page, n : Nat, delivery : Nat \ {0}]
Notice == [kind : {"result", "closed", "failure"}, of : Subscription] \cup [kind : {"failure"}, of : Page]
DownMessage == Notice \cup EventMessage \cup PageMessage
Publications == [kind : {"snapshot", "patch"}, n : Nat]

Events == Seq(EventMessage)
Queue == Seq(Publications)
Observer == [stage : ObserverStage, events : Events, shown : Nat]
Request == [stage : RequestStage, canceled : BOOLEAN]
View == [stage : ViewStage, canceled : BOOLEAN, queue : Queue, early : BOOLEAN]
ConnTypeOK ==
    /\ version \in Nat
    /\ observer \in [Subscription -> Observer]
    /\ asked \in [Page -> {"new", "calling", "gone"}]
    /\ unsent \subseteq UpMessage /\ forgone \subseteq UpMessage /\ up \in Seq(UpMessage)
    /\ down \in Seq(DownMessage) /\ replies \in Seq(Notice)
    /\ request \in [ConnCall -> Request] /\ view \in [Subscription -> View]
    /\ waiting \in Page \cup {Nobody} /\ written \in Subscription \cup {Nobody}
    /\ credit \in Nat /\ last \in Nat

-----------------------------------------------------------------------------
(* Messages in a channel.                                                  *)
Has(q, kind, s) == \E i \in DOMAIN q : q[i].kind = kind /\ q[i].of = s
Single(q, s) == \A i, j \in DOMAIN q :
    q[i].kind = "subscribe" /\ q[i].of = s /\ q[j].kind = "subscribe" /\ q[j].of = s => i = j
Ordered(q, first, next, s) == \A j \in DOMAIN q :
    q[j].kind = next /\ q[j].of = s =>
        \E i \in 1 .. j - 1 : q[i].kind = first /\ q[i].of = s

(* A channel with one more message has that one too.                       *)
LEMMA HasAppended ==
    ASSUME NEW S, NEW q \in Seq(S), NEW m \in S, NEW kind, NEW s
    PROVE  Has(Append(q, m), kind, s) <=> Has(q, kind, s) \/ (m.kind = kind /\ m.of = s)
<1>. DEFINE r == Append(q, m)
<1>1. /\ Len(q) \in Nat /\ DOMAIN q = 1 .. Len(q) /\ DOMAIN r = 1 .. Len(q) + 1
      /\ r[Len(q) + 1] = m /\ \A i \in DOMAIN q : r[i] = q[i] /\ i \in DOMAIN r /\ i # Len(q) + 1
    OBVIOUS
<1>. HIDE DEF r
<1>2. \A i \in DOMAIN r : i = Len(q) + 1 \/ i \in DOMAIN q
    BY <1>1
<1>3. Len(q) + 1 \in DOMAIN r
    BY <1>1
<1>4. Has(r, kind, s) <=> Has(q, kind, s) \/ (m.kind = kind /\ m.of = s)
    BY <1>1, <1>2, <1>3 DEF Has
<1>. QED
    BY <1>4 DEF r

(* One whose first message is taken keeps the others.                      *)
LEMMA HasLeft ==
    ASSUME NEW S, NEW q \in Seq(S), q # <<>>, NEW kind, NEW s
    PROVE  Has(q, kind, s) <=> Has(Tail(q), kind, s) \/ (Head(q).kind = kind /\ Head(q).of = s)
<1>. DEFINE r == Tail(q)
<1>1. /\ Len(q) \in Nat \ {0} /\ DOMAIN q = 1 .. Len(q) /\ DOMAIN r = 1 .. Len(q) - 1
      /\ Head(q) = q[1] /\ \A i \in DOMAIN r : r[i] = q[i + 1]
    OBVIOUS
<1>. HIDE DEF r
<1>2. \A i \in DOMAIN q : i = 1 \/ (i - 1 \in DOMAIN r /\ r[i - 1] = q[i])
    BY <1>1
<1>3. /\ 1 \in DOMAIN q
      /\ \A i \in DOMAIN r : i + 1 \in DOMAIN q
    BY <1>1
<1>4. Has(q, kind, s) <=> Has(r, kind, s) \/ (Head(q).kind = kind /\ Head(q).of = s)
    BY <1>1, <1>2, <1>3 DEF Has
<1>. QED
    BY <1>4 DEF r

(* The first message of its kind is the only one.                          *)
LEMMA SingleAppended ==
    ASSUME NEW S, NEW q \in Seq(S), NEW m \in S, NEW s, Single(q, s),
           m.kind = "subscribe" /\ m.of = s => ~Has(q, "subscribe", s)
    PROVE  Single(Append(q, m), s)
<1>. DEFINE r == Append(q, m)
<1>1. /\ Len(q) \in Nat /\ DOMAIN q = 1 .. Len(q) /\ DOMAIN r = 1 .. Len(q) + 1
      /\ r[Len(q) + 1] = m /\ \A i \in DOMAIN q : r[i] = q[i] /\ i # Len(q) + 1
    OBVIOUS
<1>. HIDE DEF r
<1>2. \A i \in DOMAIN r : i = Len(q) + 1 \/ i \in DOMAIN q
    BY <1>1
<1>3. Single(r, s)
    BY <1>1, <1>2 DEF Has, Single
<1>. QED
    BY <1>3 DEF r

(* Once the only one is taken there is none; other messages are the only   *)
(* ones still.                                                             *)
LEMMA SingleLeft ==
    ASSUME NEW S, NEW q \in Seq(S), q # <<>>, NEW s, Single(q, s)
    PROVE  /\ Single(Tail(q), s)
           /\ Head(q).kind = "subscribe" /\ Head(q).of = s => ~Has(Tail(q), "subscribe", s)
<1>. DEFINE r == Tail(q)
<1>1. /\ Len(q) \in Nat \ {0} /\ DOMAIN q = 1 .. Len(q) /\ DOMAIN r = 1 .. Len(q) - 1
      /\ Head(q) = q[1] /\ \A i \in DOMAIN r : r[i] = q[i + 1]
    OBVIOUS
<1>. HIDE DEF r
<1>2. 1 \in DOMAIN q /\ \A i \in DOMAIN r : i \in Int /\ i + 1 \in DOMAIN q /\ i + 1 # 1
    BY <1>1
<1>3. Single(r, s)
    BY <1>1, <1>2 DEF Single
<1>4. Head(q).kind = "subscribe" /\ Head(q).of = s => ~Has(r, "subscribe", s)
    BY <1>1, <1>2 DEF Single, Has
<1>. QED
    BY <1>3, <1>4 DEF r

(* A message at the end of the channel follows those in it.                *)
LEMMA OrderedAppended ==
    ASSUME NEW S, NEW q \in Seq(S), NEW m \in S, NEW s, NEW first, NEW next, Ordered(q, first, next, s),
           m.kind = next /\ m.of = s => Has(q, first, s)
    PROVE  Ordered(Append(q, m), first, next, s)
<1>. DEFINE r == Append(q, m)
<1>1. /\ Len(q) \in Nat /\ DOMAIN q = 1 .. Len(q) /\ DOMAIN r = 1 .. Len(q) + 1
      /\ r[Len(q) + 1] = m /\ \A i \in DOMAIN q : r[i] = q[i] /\ i # Len(q) + 1
    OBVIOUS
<1>. HIDE DEF r
<1>2. SUFFICES ASSUME NEW j \in DOMAIN r, r[j].kind = next /\ r[j].of = s
               PROVE  \E i \in 1 .. j - 1 : r[i].kind = first /\ r[i].of = s
    BY <1>1 DEF Ordered, r
<1>3. CASE j = Len(q) + 1
    BY <1>1, <1>2, <1>3 DEF Has
<1>4. CASE j \in DOMAIN q
    <2>1. PICK i \in 1 .. j - 1 : q[i].kind = first /\ q[i].of = s
        BY <1>1, <1>2, <1>4 DEF Ordered
    <2>2. i \in DOMAIN q
        BY <1>1, <1>4
    <2>. QED
        BY <1>1, <2>1, <2>2
<1>. QED
    BY <1>1, <1>3, <1>4

(* Taking another message leaves the order as it is; and what comes first  *)
(* is not what follows.                                                    *)
LEMMA OrderedLeft ==
    ASSUME NEW S, NEW q \in Seq(S), q # <<>>, NEW s, NEW first, NEW next, Ordered(q, first, next, s)
    PROVE  /\ ~(Head(q).kind = next /\ Head(q).of = s)
           /\ ~(Head(q).kind = first /\ Head(q).of = s) => Ordered(Tail(q), first, next, s)
<1>. DEFINE r == Tail(q)
<1>1. /\ Len(q) \in Nat \ {0} /\ DOMAIN q = 1 .. Len(q) /\ DOMAIN r = 1 .. Len(q) - 1
      /\ Head(q) = q[1] /\ \A i \in DOMAIN r : r[i] = q[i + 1]
    OBVIOUS
<1>. HIDE DEF r
<1>2. ~(Head(q).kind = next /\ Head(q).of = s)
    BY <1>1 DEF Ordered
<1>3. ASSUME ~(Head(q).kind = first /\ Head(q).of = s), NEW j \in DOMAIN r,
             r[j].kind = next /\ r[j].of = s
      PROVE  \E i \in 1 .. j - 1 : r[i].kind = first /\ r[i].of = s
    <2>1. j + 1 \in DOMAIN q /\ q[j + 1] = r[j]
        BY <1>1
    <2>2. PICK i \in 1 .. (j + 1) - 1 : q[i].kind = first /\ q[i].of = s
        BY <1>3, <2>1 DEF Ordered
    <2>3. i # 1
        BY <1>1, <1>3, <2>2
    <2>4. i - 1 \in 1 .. j - 1 /\ i - 1 \in DOMAIN r /\ r[i - 1] = q[i]
        BY <1>1, <2>2, <2>3
    <2>. QED
        BY <2>2, <2>4
<1>4. ~(Head(q).kind = first /\ Head(q).of = s) => Ordered(r, first, next, s)
    BY <1>3 DEF Ordered
<1>. QED
    BY <1>2, <1>4 DEF r

-----------------------------------------------------------------------------
(* Types.                                                                  *)

(* What is sent and answered is what the channels carry.                   *)
LEMMA Carried ==
    /\ \A s \in Subscription, kind \in {"subscribe", "unsubscribe", "cancel"} : Message(kind, s) \in UpMessage
    /\ \A p \in Page, kind \in {"page", "cancel"} : Message(kind, p) \in UpMessage
    /\ \A d \in Nat \ {0} : Receipt(d) \in UpMessage
    /\ \A s \in Subscription, kind \in {"result", "closed", "failure"} : Message(kind, s) \in Notice
    /\ \A p \in Page : Message("failure", p) \in Notice
    /\ \A p \in Page, d \in Nat \ {0} : Data("page", p, 0, d) \in DownMessage
    /\ Notice \subseteq DownMessage /\ EventMessage \subseteq DownMessage
BY DEF Message, Receipt, Data, UpMessage, UpCall, Ack, Notice, DownMessage, PageMessage

(* What a message is says whom it is about.                                *)
LEMMA UpRead ==
    ASSUME NEW m \in UpMessage
    PROVE  /\ m.kind \in {"subscribe", "unsubscribe", "cancel", "page", "ack"}
           /\ m.kind \in {"subscribe", "unsubscribe"} => m.of \in Subscription
           /\ m.kind = "page" => m.of \in Page
           /\ m.kind = "cancel" => m.of \in ConnCall
           /\ m.kind = "ack" => m.delivery \in Nat \ {0} /\ m = Receipt(m.delivery)
BY DEF UpMessage, UpCall, Ack, ConnCall, Receipt

(* The same of what the client reads.                                      *)
LEMMA DownRead ==
    ASSUME NEW m \in DownMessage
    PROVE  /\ m.kind \in {"result", "closed", "failure", "event", "page"}
           /\ m.kind \in {"result", "closed", "event"} => m.of \in Subscription
           /\ m.kind = "page" => m.of \in Page
           /\ m.kind = "failure" => m.of \in ConnCall
           /\ m.kind = "event" => m \in EventMessage
           /\ m.kind \in {"event", "page"} => m.delivery \in Nat \ {0}
BY DEF DownMessage, EventMessage, PageMessage, Notice, ConnCall

(* The stages there are.                                                   *)
LEMMA Stages ==
    /\ {"new", "calling", "open", "ended", "gone"} \subseteq ObserverStage
    /\ {"none", "accepted", "subscribing", "admitted", "refused", "answered", "done"} \subseteq RequestStage
    /\ {"none", "reserved", "installed", "active", "gone"} \subseteq ViewStage
    /\ <<>> \in Events /\ <<>> \in Queue
BY DEF ObserverStage, RequestStage, Unanswered, ViewStage, Events, Queue

(* A subscription that changes is the only one.                            *)
LEMMA ObserverChanged ==
    ASSUME ConnTypeOK, NEW s \in Subscription
    PROVE  /\ \A stage \in ObserverStage : [observer EXCEPT ![s].stage = stage] \in [Subscription -> Observer]
           /\ \A events \in Events : [observer EXCEPT ![s].events = events] \in [Subscription -> Observer]
           /\ [observer EXCEPT ![s].stage = "gone", ![s].events = <<>>] \in [Subscription -> Observer]
           /\ \A events \in Events, shown \in Nat :
                [observer EXCEPT ![s].events = events, ![s].shown = shown] \in [Subscription -> Observer]
<1>1. \A f \in [Subscription -> Observer], stage \in ObserverStage : [f EXCEPT ![s].stage = stage] \in [Subscription -> Observer]
    BY DEF Observer
<1>2. \A f \in [Subscription -> Observer], events \in Events : [f EXCEPT ![s].events = events] \in [Subscription -> Observer]
    BY DEF Observer
<1>3. \A f \in [Subscription -> Observer], stage \in ObserverStage, events \in Events :
        [f EXCEPT ![s].stage = stage, ![s].events = events] \in [Subscription -> Observer]
    BY DEF Observer
<1>4. \A f \in [Subscription -> Observer], events \in Events, shown \in Nat :
        [f EXCEPT ![s].events = events, ![s].shown = shown] \in [Subscription -> Observer]
    BY DEF Observer
<1>. QED
    BY <1>1, <1>2, <1>3, <1>4, Stages DEF ConnTypeOK

(* The writer's queue and the way to the client grow by what they carry.   *)
LEMMA Answering ==
    ASSUME ConnTypeOK
    PROVE  /\ \A m \in Notice : Append(replies, m) \in Seq(Notice)
           /\ \A s \in Subscription, kind \in {"result", "closed", "failure"} :
                Append(replies, Message(kind, s)) \in Seq(Notice)
           /\ \A p \in Page : Append(replies, Message("failure", p)) \in Seq(Notice)
           /\ \A m \in DownMessage : Append(down, m) \in Seq(DownMessage)
<1>1. \A m \in Notice : Append(replies, m) \in Seq(Notice)
    BY DEF ConnTypeOK
<1>2. \A m \in DownMessage : Append(down, m) \in Seq(DownMessage)
    BY DEF ConnTypeOK
<1>. QED
    BY <1>1, <1>2, Carried

(* Giving a subscription up is well typed.                                 *)
LEMMA RetireTyped ==
    ASSUME ConnTypeOK, NEW s \in Subscription, NEW messages \in SUBSET UpMessage, Retire(s, messages)
    PROVE  /\ observer' \in [Subscription -> Observer]
           /\ unsent' \subseteq UpMessage
           /\ observer'[s].stage = "gone" /\ observer'[s].events = <<>>
           /\ \A t \in Subscription : t # s => observer'[t] = observer[t]
<1>1. observer[s].events \in Seq(EventMessage)
    BY DEF ConnTypeOK, Observer, Events
<1>2. \A e \in ToSet(observer[s].events) : e \in EventMessage
    BY <1>1 DEF ToSet
<1>3. Receipts(s) \subseteq UpMessage
    BY <1>2, Carried DEF Receipts, EventMessage
<1>4. unsent' \subseteq UpMessage
    BY <1>3 DEF ConnTypeOK, Retire
<1>5. observer' \in [Subscription -> Observer]
    BY Stages, ObserverChanged DEF ConnTypeOK, Retire
<1>6. /\ observer'[s].stage = "gone" /\ observer'[s].events = <<>>
      /\ \A t \in Subscription : t # s => observer'[t] = observer[t]
    BY DEF ConnTypeOK, Retire, Observer
<1>. QED
    BY <1>4, <1>5, <1>6

(* What a client does to its subscriptions is well typed.                  *)
LEMMA ClientTyped ==
    ASSUME ConnTypeOK, NEW s \in Subscription, SubscriberStep(s)
    PROVE  ConnTypeOK'
<1>1. CASE Subscribe(s)
    <2>1. observer' \in [Subscription -> Observer]
        BY <1>1, Stages, ObserverChanged DEF ConnTypeOK, Subscribe
    <2>2. up' \in Seq(UpMessage)
        BY <1>1, Carried DEF ConnTypeOK, Subscribe
    <2>. QED
        BY <1>1, <2>1, <2>2 DEF ConnTypeOK, Subscribe, serverVars, writerVars
<1>2. CASE GiveUpSubscribe(s)
    BY <1>2, Carried, RetireTyped DEF ConnTypeOK, GiveUpSubscribe, serverVars, writerVars
<1>3. CASE CloseSubscription(s)
    BY <1>3, Carried, RetireTyped DEF ConnTypeOK, CloseSubscription, serverVars, writerVars
<1>4. CASE ConsumeEvent(s)
    <2>. DEFINE e == Head(observer[s].events)
                rest == Tail(observer[s].events)
    <2>1. e \in EventMessage /\ rest \in Events
        BY <1>4 DEF ConnTypeOK, ConsumeEvent, Observer, Events
    <2>2. e.n \in Nat /\ Receipt(e.delivery) \in UpMessage
        BY <2>1, Carried DEF EventMessage
    <2>. HIDE DEF e, rest
    <2>3. observer' = [observer EXCEPT ![s].events = rest, ![s].shown = e.n]
          /\ unsent' = unsent \cup {Receipt(e.delivery)}
        BY <1>4 DEF ConsumeEvent, e, rest
    <2>4. observer' \in [Subscription -> Observer]
        BY <2>1, <2>2, <2>3, ObserverChanged DEF ConnTypeOK
    <2>. QED
        BY <1>4, <2>2, <2>3, <2>4 DEF ConnTypeOK, ConsumeEvent, serverVars, writerVars
<1>. QED
    BY <1>1, <1>2, <1>3, <1>4 DEF SubscriberStep

(* So is what it asks.                                                     *)
LEMMA AskTyped ==
    ASSUME ConnTypeOK, NEW p \in Page, AskPage(p) \/ AbandonPage(p)
    PROVE  ConnTypeOK'
<1>1. CASE AskPage(p)
    <2>1. up' \in Seq(UpMessage)
        BY <1>1, Carried DEF ConnTypeOK, AskPage
    <2>. QED
        BY <1>1, <2>1 DEF ConnTypeOK, AskPage, serverVars, writerVars
<1>2. CASE AbandonPage(p)
    BY <1>2, Carried DEF ConnTypeOK, AbandonPage, serverVars, writerVars
<1>. QED
    BY <1>1, <1>2

(* What is sent or given up was to be sent.                                *)
LEMMA SendTyped ==
    ASSUME ConnTypeOK, NEW m \in unsent, SendOne(m) \/ Forgo(m)
    PROVE  ConnTypeOK'
<1>1. CASE SendOne(m)
    BY <1>1 DEF ConnTypeOK, SendOne, serverVars, writerVars
<1>2. CASE Forgo(m)
    BY <1>2 DEF ConnTypeOK, Forgo, serverVars, writerVars
<1>. QED
    BY <1>1, <1>2

(* A failure ends a call, of a subscription or of a page.                  *)
LEMMA FailureRead ==
    ASSUME ConnTypeOK, NEW m \in DownMessage, m.kind = "failure", ReadReply(m)
    PROVE  \/ /\ m.of \in Subscription /\ observer[m.of].stage = "calling"
              /\ Retire(m.of, {Message("unsubscribe", m.of)}) /\ UNCHANGED asked
           \/ /\ m.of \in Subscription /\ observer[m.of].stage # "calling"
              /\ UNCHANGED <<observer, asked, unsent>>
           \/ /\ m.of \in Page /\ asked' = [asked EXCEPT ![m.of] = "gone"]
              /\ UNCHANGED <<observer, unsent>>
BY ConnectionBounds DEF ReadReply

(* An acknowledgement opens what is waited for, an end ends what is held.  *)
LEMMA NoticeRead ==
    ASSUME ConnTypeOK, NEW m \in DownMessage, m.kind \in {"result", "closed"}, ReadReply(m)
    PROVE  /\ m.of \in Subscription /\ UNCHANGED <<asked, unsent>>
           /\ observer' = [observer EXCEPT ![m.of].stage =
                IF m.kind = "result" THEN (IF @ = "calling" THEN "open" ELSE @)
                ELSE IF Held(m.of) THEN "ended" ELSE @]
BY DownRead DEF ReadReply

(* What a client reads, it reads into well-typed state.                    *)
LEMMA ReadTyped ==
    ASSUME ConnTypeOK, ClientReads
    PROVE  ConnTypeOK'
<1>. DEFINE m == Head(down)
<1>1. m \in DownMessage /\ down' \in Seq(DownMessage) /\ (IF m.kind = "event" THEN ReadEvent(m) ELSE ReadReply(m))
    BY DEF ConnTypeOK, ClientReads
<1>. HIDE DEF m
<1>2. observer' \in [Subscription -> Observer] /\ unsent' \subseteq UpMessage /\ asked' \in [Page -> {"new", "calling", "gone"}]
    <2>1. CASE m.kind = "event"
        <3>1. m \in EventMessage /\ m.of \in Subscription /\ Receipt(m.delivery) \in UpMessage
            BY <1>1, <2>1, DownRead, Carried
        <3>. DEFINE longer == Append(observer[m.of].events, m)
        <3>2. longer \in Events
            BY <3>1 DEF ConnTypeOK, Events, Observer
        <3>. HIDE DEF longer
        <3>3. CASE Held(m.of)
            <4>1. observer' = [observer EXCEPT ![m.of].events = longer] /\ UNCHANGED <<asked, unsent>>
                BY <1>1, <2>1, <3>1, <3>3 DEF ConnTypeOK, ReadEvent, longer
            <4>. QED
                BY <3>1, <3>2, <4>1, ObserverChanged DEF ConnTypeOK
        <3>4. CASE ~Held(m.of)
            BY <1>1, <2>1, <3>1, <3>4 DEF ConnTypeOK, ReadEvent
        <3>. QED
            BY <3>3, <3>4
    <2>2. CASE m.kind \in {"result", "closed"}
        <3>. DEFINE stage == IF m.kind = "result" THEN (IF observer[m.of].stage = "calling" THEN "open" ELSE observer[m.of].stage)
                             ELSE IF Held(m.of) THEN "ended" ELSE observer[m.of].stage
        <3>1. m.of \in Subscription /\ UNCHANGED <<asked, unsent>> /\ observer' = [observer EXCEPT ![m.of].stage = stage]
            BY <1>1, <2>2, NoticeRead DEF ConnTypeOK
        <3>2. stage \in ObserverStage
            BY <3>1, Stages DEF ConnTypeOK, Observer
        <3>. HIDE DEF stage
        <3>. QED
            BY <3>1, <3>2, ObserverChanged DEF ConnTypeOK
    <2>3. CASE m.kind = "failure"
        <3>1. CASE m.of \in Subscription /\ Retire(m.of, {Message("unsubscribe", m.of)}) /\ UNCHANGED asked
            BY <3>1, RetireTyped, Carried DEF ConnTypeOK
        <3>2. CASE UNCHANGED <<observer, asked, unsent>>
            BY <3>2 DEF ConnTypeOK
        <3>3. CASE m.of \in Page /\ asked' = [asked EXCEPT ![m.of] = "gone"] /\ UNCHANGED <<observer, unsent>>
            BY <3>3 DEF ConnTypeOK
        <3>. QED
            BY <1>1, <2>3, <3>1, <3>2, <3>3, FailureRead
    <2>4. CASE m.kind = "page"
        <3>1. m.of \in Page /\ Receipt(m.delivery) \in UpMessage
            BY <1>1, <2>4, DownRead, Carried
        <3>. QED
            BY <1>1, <2>4, <3>1 DEF ConnTypeOK, ReadReply
    <2>. QED
        BY <1>1, <2>1, <2>2, <2>3, <2>4, DownRead
<1>. QED
    BY <1>1, <1>2 DEF ConnTypeOK, ClientReads, serverVars, writerVars

-----------------------------------------------------------------------------
(* The server changes one request and one view at a time.                  *)

(* A request that goes on is the only one.                                 *)
LEMMA StageChanges ==
    ASSUME ConnTypeOK, NEW c \in ConnCall, NEW stage \in RequestStage, Stage(c, stage)
    PROVE  /\ request' \in [ConnCall -> Request]
           /\ request'[c].stage = stage /\ request'[c].canceled = request[c].canceled
           /\ \A d \in ConnCall : d # c => request'[d] = request[d]
BY DEF ConnTypeOK, Stage, Request

(* A view that is removed is gone, and its end is written after all else.  *)
LEMMA RemoveChanges ==
    ASSUME ConnTypeOK, NEW s \in Subscription, RemoveView(s)
    PROVE  /\ view' \in [Subscription -> View] /\ replies' \in Seq(Notice)
           /\ view'[s].stage = "gone" /\ view'[s].queue = <<>>
           /\ view'[s].canceled = view[s].canceled /\ view'[s].early = view[s].early
           /\ \A t \in Subscription : t # s => view'[t] = view[t]
           /\ replies' = Append(replies, Message("closed", s))
<1>1. \A f \in [Subscription -> View], stage \in ViewStage, queue \in Queue :
          [f EXCEPT ![s].stage = stage, ![s].queue = queue] \in [Subscription -> View]
    BY DEF View
<1>2. view' \in [Subscription -> View]
    BY <1>1, Stages DEF ConnTypeOK, RemoveView
<1>3. replies' \in Seq(Notice)
    BY Carried DEF ConnTypeOK, RemoveView
<1>. QED
    BY <1>2, <1>3 DEF ConnTypeOK, RemoveView, View

(* A view's stage, cancellation and early release change alone.            *)
LEMMA ViewChanges ==
    ASSUME ConnTypeOK, NEW s \in Subscription
    PROVE  /\ \A stage \in ViewStage : [view EXCEPT ![s].stage = stage] \in [Subscription -> View]
           /\ \A queue \in Queue : [view EXCEPT ![s].queue = queue] \in [Subscription -> View]
           /\ \A stage \in ViewStage, queue \in Queue :
                [view EXCEPT ![s].stage = stage, ![s].queue = queue] \in [Subscription -> View]
           /\ \A b \in BOOLEAN : [view EXCEPT ![s].canceled = b] \in [Subscription -> View]
           /\ \A b \in BOOLEAN : [view EXCEPT ![s].early = b] \in [Subscription -> View]
<1>1. \A f \in [Subscription -> View], stage \in ViewStage : [f EXCEPT ![s].stage = stage] \in [Subscription -> View]
    BY DEF View
<1>2. \A f \in [Subscription -> View], queue \in Queue : [f EXCEPT ![s].queue = queue] \in [Subscription -> View]
    BY DEF View
<1>3. \A f \in [Subscription -> View], stage \in ViewStage, queue \in Queue :
        [f EXCEPT ![s].stage = stage, ![s].queue = queue] \in [Subscription -> View]
    BY DEF View
<1>4. \A f \in [Subscription -> View], b \in BOOLEAN :
        /\ [f EXCEPT ![s].canceled = b] \in [Subscription -> View]
        /\ [f EXCEPT ![s].early = b] \in [Subscription -> View]
    BY DEF View
<1>. QED
    BY <1>1, <1>2, <1>3, <1>4 DEF ConnTypeOK

(* What is published is of a version.                                      *)
LEMMA Published ==
    ASSUME NEW n \in Nat, NEW queue \in Queue
    PROVE  /\ Queued(queue, n) \in Queue /\ <<Publication("snapshot", n)>> \in Queue
           /\ Len(Queued(queue, n)) = 1 /\ Queued(queue, n)[1].n = n
           /\ Queued(queue, n)[1].kind = (IF queue = <<>> THEN "patch" ELSE "snapshot")
<1>. DEFINE first == Publication("snapshot", n)
            next == Publication("patch", n)
<1>1. /\ first \in Publications /\ first.n = n /\ first.kind = "snapshot"
      /\ next \in Publications /\ next.n = n /\ next.kind = "patch"
    BY DEF Publication, Publications
<1>2. Queued(queue, n) = IF queue = <<>> THEN <<next>> ELSE <<first>>
    BY DEF Queued
<1>. HIDE DEF first, next
<1>3. /\ <<first>> \in Queue /\ <<next>> \in Queue /\ Len(<<first>>) = 1 /\ Len(<<next>>) = 1
      /\ <<first>>[1] = first /\ <<next>>[1] = next
    BY <1>1 DEF Queue
<1>4. /\ Queued(queue, n) \in Queue /\ Len(Queued(queue, n)) = 1 /\ Queued(queue, n)[1].n = n
      /\ Queued(queue, n)[1].kind = (IF queue = <<>> THEN "patch" ELSE "snapshot")
    BY <1>1, <1>2, <1>3
<1>. QED
    BY <1>3, <1>4 DEF first

(* A publication changes queues.                                           *)
LEMMA PublishTyped == ASSUME ConnTypeOK, PublishVersion PROVE ConnTypeOK'
<1>1. version' \in Nat /\ version' = version + 1
    BY DEF ConnTypeOK, PublishVersion
<1>2. ASSUME NEW s \in Subscription PROVE view'[s] \in View
    <2>1. view[s] \in View /\ view[s].queue \in Queue
        BY DEF ConnTypeOK, View
    <2>. DEFINE queue == Queued(view[s].queue, version + 1)
    <2>2. queue \in Queue
        BY <1>1, <2>1, Published
    <2>. HIDE DEF queue
    <2>3. view'[s] = view[s] \/ view'[s] = [view[s] EXCEPT !.queue = queue]
        BY DEF PublishVersion, queue
    <2>. QED
        BY <2>1, <2>2, <2>3 DEF View
<1>3. view' = [s \in Subscription |-> view'[s]]
    BY DEF PublishVersion
<1>. QED
    BY <1>1, <1>2, <1>3 DEF ConnTypeOK, PublishVersion, clientVars, writerVars

(* Every request keeps one of its stages.                                  *)
LEMMA RequestTyped ==
    ASSUME ConnTypeOK, NEW s \in Subscription, RequestStep(s)
    PROVE  ConnTypeOK'
<1>1. s \in ConnCall
    BY DEF ConnCall
<1>2. CASE Reserve(s)
    <2>1. request' \in [ConnCall -> Request]
        BY <1>1, <1>2, Stages, StageChanges DEF Reserve
    <2>2. view' \in [Subscription -> View]
        <3>1. CASE view' = [view EXCEPT ![s].stage = "reserved"]
            BY <3>1, Stages, ViewChanges
        <3>2. CASE UNCHANGED view
            BY <3>2 DEF ConnTypeOK
        <3>. QED
            BY <1>2, <3>1, <3>2 DEF Reserve
    <2>. QED
        BY <1>2, <2>1, <2>2 DEF ConnTypeOK, Reserve, clientVars, writerVars
<1>3. CASE Install(s)
    <2>1. request' \in [ConnCall -> Request]
        BY <1>1, <1>3, Stages, StageChanges DEF Install
    <2>2. <<Publication("snapshot", version)>> \in Queue
        BY Stages, Published DEF ConnTypeOK
    <2>3. view' \in [Subscription -> View]
        <3>1. CASE view' = [view EXCEPT ![s].stage = "installed", ![s].queue = <<Publication("snapshot", version)>>]
            BY <2>2, <3>1, Stages, ViewChanges
        <3>2. CASE view' = [view EXCEPT ![s].stage = "gone"]
            BY <3>2, Stages, ViewChanges
        <3>. QED
            BY <1>3, <3>1, <3>2 DEF Install
    <2>. QED
        BY <1>3, <2>1, <2>3 DEF ConnTypeOK, Install, clientVars, writerVars
<1>4. CASE Reply(s)
    <2>1. request' \in [ConnCall -> Request]
        BY <1>1, <1>4, Stages, StageChanges DEF Reply
    <2>2. replies' \in Seq(Notice)
        BY <1>4, Answering DEF Reply
    <2>. QED
        BY <1>4, <2>1, <2>2 DEF ConnTypeOK, Reply, clientVars, writerVars
<1>5. CASE GoneUnanswered(s)
    <2>1. request' \in [ConnCall -> Request]
        BY <1>1, <1>5, Stages, StageChanges DEF GoneUnanswered
    <2>. QED
        BY <1>5, <2>1 DEF ConnTypeOK, GoneUnanswered, clientVars, writerVars
<1>. QED
    BY <1>2, <1>3, <1>4, <1>5 DEF RequestStep

(* So do the callbacks and the writer, for a view.                         *)
LEMMA ViewTyped ==
    ASSUME ConnTypeOK, NEW s \in Subscription, ViewStep(s)
    PROVE  ConnTypeOK'
<1>1. CASE CancelView(s)
    <2>1. view' \in [Subscription -> View]
        BY <1>1, ViewChanges DEF CancelView
    <2>. QED
        BY <1>1, <2>1 DEF ConnTypeOK, CancelView, clientVars, writerVars
<1>2. CASE RemoveCanceled(s)
    BY <1>2, RemoveChanges DEF ConnTypeOK, RemoveCanceled, clientVars, writerVars
<1>3. CASE NoteWritten(s)
    <2>1. request' \in [ConnCall -> Request]
        BY <1>3, Stages, StageChanges DEF NoteWritten, ConnCall
    <2>2. view' \in [Subscription -> View] /\ replies' \in Seq(Notice)
        <3>1. CASE view' = [view EXCEPT ![s].stage = "active"] /\ UNCHANGED replies
            BY <3>1, Stages, ViewChanges DEF ConnTypeOK
        <3>2. CASE RemoveView(s)
            BY <3>2, RemoveChanges
        <3>3. CASE UNCHANGED <<view, replies>>
            BY <3>3 DEF ConnTypeOK
        <3>. QED
            BY <1>3, <3>1, <3>2, <3>3 DEF NoteWritten
    <2>. QED
        BY <1>3, <2>1, <2>2 DEF ConnTypeOK, NoteWritten, clientVars, writerVars
<1>4. CASE WriteEvent(s)
    <2>. DEFINE e == Head(view[s].queue)
                m == [kind |-> "event", of |-> s, n |-> e.n, delivery |-> last', patch |-> e.kind = "patch"]
    <2>1. last' \in Nat \ {0} /\ credit' \in Nat
        BY <1>4 DEF ConnTypeOK, WriteEvent, SpendCredit
    <2>2. e \in Publications
        BY <1>4 DEF ConnTypeOK, WriteEvent, View, Queue
    <2>3. m \in EventMessage
        BY <2>1, <2>2 DEF EventMessage, Publications
    <2>. HIDE DEF m
    <2>4. down' = Append(down, m)
        BY <1>4 DEF WriteEvent, m
    <2>5. down' \in Seq(DownMessage)
        BY <2>3, <2>4, Carried DEF ConnTypeOK
    <2>6. view' \in [Subscription -> View]
        BY <1>4, Stages, ViewChanges DEF WriteEvent
    <2>. QED
        BY <1>4, <2>1, <2>5, <2>6 DEF ConnTypeOK, WriteEvent, clientVars
<1>5. CASE EndView(s)
    BY <1>5, RemoveChanges DEF ConnTypeOK, EndView, clientVars, writerVars
<1>. QED
    BY <1>1, <1>2, <1>3, <1>4, <1>5 DEF ViewStep

(* A page is asked for, waits and is written.                              *)
LEMMA PageTyped ==
    ASSUME ConnTypeOK, NEW p \in Page, ReplyPage(p) \/ PageCanceled(p)
    PROVE  ConnTypeOK'
<1>1. request' \in [ConnCall -> Request]
    BY Stages, StageChanges DEF ReplyPage, PageCanceled, ConnCall
<1>2. replies' \in Seq(Notice)
    BY Answering DEF ConnTypeOK, ReplyPage, PageCanceled
<1>. QED
    BY <1>1, <1>2 DEF ConnTypeOK, ReplyPage, PageCanceled, clientVars

(* The writer writes what is queued.                                       *)
LEMMA WriterTyped ==
    ASSUME ConnTypeOK, WriteReply \/ WritePage
    PROVE  ConnTypeOK'
<1>1. CASE WriteReply
    <2>. DEFINE m == Head(replies)
    <2>1. m \in Notice /\ replies' \in Seq(Notice)
        BY <1>1 DEF ConnTypeOK, WriteReply
    <2>2. m \in DownMessage /\ (m.kind = "result" => m.of \in Subscription)
        BY <2>1, Carried, DownRead
    <2>3. down' = Append(down, m) /\ written' = IF m.kind = "result" THEN m.of ELSE Nobody
        BY <1>1 DEF WriteReply
    <2>. HIDE DEF m
    <2>4. down' \in Seq(DownMessage) /\ written' \in Subscription \cup {Nobody}
        BY <2>2, <2>3 DEF ConnTypeOK
    <2>. QED
        BY <1>1, <2>1, <2>4 DEF ConnTypeOK, WriteReply, clientVars
<1>2. CASE WritePage
    <2>1. waiting \in Page /\ waiting \in ConnCall
        BY <1>2 DEF ConnTypeOK, WritePage, ConnCall
    <2>2. CASE request[waiting].canceled
        BY <1>2, <2>2 DEF ConnTypeOK, WritePage, clientVars
    <2>3. CASE ~request[waiting].canceled
        <3>1. last' \in Nat \ {0} /\ credit' \in Nat
            BY <1>2, <2>3 DEF ConnTypeOK, WritePage, SpendCredit
        <3>2. Data("page", waiting, 0, last') \in DownMessage
            BY <2>1, <3>1, Carried
        <3>3. down' \in Seq(DownMessage)
            BY <1>2, <2>3, <3>2, Answering DEF WritePage
        <3>4. request' \in [ConnCall -> Request]
            BY <1>2, <2>1, <2>3, Stages, StageChanges DEF WritePage
        <3>. QED
            BY <1>2, <2>3, <3>1, <3>3, <3>4 DEF ConnTypeOK, WritePage, clientVars
    <2>. QED
        BY <2>2, <2>3
<1>. QED
    BY <1>1, <1>2

(* The server's reader changes requests, views or the credit.              *)
LEMMA ServerTyped ==
    ASSUME ConnTypeOK, ServerReads
    PROVE  ConnTypeOK'
<1>. DEFINE m == Head(up)
<1>1. m \in UpMessage /\ up' \in Seq(UpMessage)
    BY DEF ConnTypeOK, ServerReads
<1>2. \/ m.kind \in {"subscribe", "page"} /\ Accept(m.of)
      \/ m.kind = "unsubscribe" /\ Unsubscribe(m.of)
      \/ m.kind = "cancel" /\ CancelRequest(m.of)
      \/ m.kind = "ack" /\ TakeReceipt(m.delivery)
    BY DEF ServerReads
<1>. HIDE DEF m
<1>3. /\ request' \in [ConnCall -> Request] /\ view' \in [Subscription -> View] /\ replies' \in Seq(Notice)
      /\ waiting' \in Page \cup {Nobody} /\ credit' \in Nat /\ UNCHANGED <<last, written>>
    <2>1. CASE m.kind \in {"subscribe", "page"} /\ Accept(m.of)
        <3>1. m.of \in ConnCall /\ Stage(m.of, "accepted")
            BY <1>1, <2>1, UpRead DEF Accept, Stage, ConnCall
        <3>. QED
            BY <2>1, <3>1, Stages, StageChanges DEF ConnTypeOK, Accept, writerVars
    <2>2. CASE m.kind = "unsubscribe" /\ Unsubscribe(m.of)
        <3>1. m.of \in Subscription
            BY <1>1, <2>2, UpRead
        <3>2. CASE RemoveView(m.of)
            BY <2>2, <3>1, <3>2, RemoveChanges DEF ConnTypeOK, Unsubscribe, writerVars
        <3>3. CASE view' = [view EXCEPT ![m.of].early = request[m.of].stage = "accepted"] /\ UNCHANGED replies
            BY <2>2, <3>1, <3>3, ViewChanges DEF ConnTypeOK, Unsubscribe, writerVars
        <3>. QED
            BY <2>2, <3>2, <3>3 DEF Unsubscribe
    <2>3. CASE m.kind = "cancel" /\ CancelRequest(m.of)
        <3>1. m.of \in ConnCall
            BY <1>1, <2>3, UpRead
        <3>2. Pending(m.of) \in BOOLEAN
            BY DEF Pending
        <3>3. request' \in [ConnCall -> Request]
            BY <2>3, <3>1, <3>2 DEF ConnTypeOK, CancelRequest, Request
        <3>. QED
            BY <2>3, <3>3 DEF ConnTypeOK, CancelRequest
    <2>4. CASE m.kind = "ack" /\ TakeReceipt(m.delivery)
        BY <2>4 DEF ConnTypeOK, TakeReceipt
    <2>. QED
        BY <1>2, <2>1, <2>2, <2>3, <2>4
<1>. QED
    BY <1>1, <1>3 DEF ConnTypeOK, ServerReads, clientVars

(* Every step is well typed.                                               *)
LEMMA ConnTyped == ConnTypeOK /\ [ConnectionNext]_connectionVars => ConnTypeOK'
<1> SUFFICES ASSUME ConnTypeOK, [ConnectionNext]_connectionVars PROVE ConnTypeOK'
    OBVIOUS
<1>1. CASE UNCHANGED connectionVars
    BY <1>1 DEF ConnTypeOK, connectionVars, clientVars, serverVars, writerVars
<1>2. CASE \E s \in Subscription : SubscriberStep(s) \/ RequestStep(s) \/ ViewStep(s)
    BY <1>2, ClientTyped, RequestTyped, ViewTyped
<1>3. CASE \E p \in Page : PageStep(p)
    BY <1>3, AskTyped, PageTyped DEF PageStep
<1>4. CASE \E m \in unsent : SendOne(m) \/ Forgo(m)
    BY <1>4, SendTyped
<1>5. CASE PublishVersion \/ ClientReads \/ ServerReads \/ WriteReply \/ WritePage
    BY <1>5, PublishTyped, ReadTyped, ServerTyped, WriterTyped
<1>. QED
    BY <1>1, <1>2, <1>3, <1>4, <1>5 DEF ConnectionNext

-----------------------------------------------------------------------------
(* Subscriptions and their release.                                        *)

OnWay(kind, s) == Has(replies, kind, s) \/ Has(down, kind, s)
ToRelease(s) == \E m \in unsent \cup forgone : m.kind = "unsubscribe" /\ m.of = s
NotToBegin(s) == \A m \in unsent : m.kind = "subscribe" => m.of # s

(* A subscription is asked for once, and released after that.              *)
Begun(s) ==
    /\ observer[s].stage = "new" => request[s].stage = "none" /\ ~Has(up, "subscribe", s)
    /\ Has(up, "subscribe", s) => request[s].stage = "none"
    /\ Single(up, s)
    /\ request[s].stage = "none" =>
        (observer[s].stage = "new" \/ Has(up, "subscribe", s)) /\ Ordered(up, "subscribe", "unsubscribe", s)
    /\ NotToBegin(s) /\ (ToRelease(s) => observer[s].stage # "new")

(* A view is there once its request has begun, and the client has it only  *)
(* once it has been answered.                                              *)
Staged(s) ==
    /\ Present(s) => request[s].stage \notin {"none", "accepted"}
    /\ view[s].stage = "reserved" => request[s].stage = "subscribing"
    /\ request[s].stage \in Unanswered =>
        ~OnWay("result", s) /\ observer[s].stage # "open" /\ written # s

(* What the client has or will have is there, or its end is on its way.    *)
Promised(s) ==
    \/ observer[s].stage = "open"
    \/ observer[s].stage = "calling" /\ (OnWay("result", s) \/ request[s].stage = "admitted")
Upheld(s) == Promised(s) => Present(s) \/ OnWay("closed", s)

(* What the client has released is not there, and will not be, but for one *)
(* released before it was begun.                                           *)
Released(s) ==
    observer[s].stage = "gone" /\ ~Has(up, "unsubscribe", s) /\ ~ToRelease(s)
        => view[s].early \/ (~Present(s) /\ request[s].stage \notin {"none", "accepted"})

(* A client that waits has not been answered, or the answer is on its way. *)
Replied(s) ==
    observer[s].stage = "calling" /\ request[s].stage \in {"answered", "done"}
        => OnWay("result", s) \/ OnWay("failure", s)

(* What has ended does not come back.                                      *)
EndsOnce(s) ==
    OnWay("closed", s) \/ observer[s].stage = "ended"
        => view[s].stage = "gone" /\ request[s].stage \notin {"none", "accepted"}

ReleaseOf(s) == Begun(s) /\ Staged(s) /\ Upheld(s) /\ Released(s) /\ Replied(s) /\ EndsOnce(s)
ReleaseInv == \A s \in Subscription : ReleaseOf(s)

(* A call sent is in the channel, behind the others.                       *)
LEMMA CallSent ==
    ASSUME ConnTypeOK, NEW m \in UpMessage, up' = Append(up, m), NEW s
    PROVE  /\ Has(up', "subscribe", s) <=> Has(up, "subscribe", s) \/ (m.kind = "subscribe" /\ m.of = s)
           /\ Has(up', "unsubscribe", s) <=> Has(up, "unsubscribe", s) \/ (m.kind = "unsubscribe" /\ m.of = s)
           /\ Single(up, s) /\ (m.kind = "subscribe" /\ m.of = s => ~Has(up, "subscribe", s)) => Single(up', s)
           /\ Ordered(up, "subscribe", "unsubscribe", s) /\ (m.kind = "unsubscribe" /\ m.of = s => Has(up, "subscribe", s)) => Ordered(up', "subscribe", "unsubscribe", s)
<1>1. up \in Seq(UpMessage)
    BY DEF ConnTypeOK
<1>. QED
    BY <1>1, HasAppended, SingleAppended, OrderedAppended

(* A call taken leaves the others.                                         *)
LEMMA CallTaken ==
    ASSUME ConnTypeOK, up # <<>>, up' = Tail(up), NEW s
    PROVE  /\ Has(up, "subscribe", s) <=> Has(up', "subscribe", s) \/ (Head(up).kind = "subscribe" /\ Head(up).of = s)
           /\ Has(up, "unsubscribe", s) <=> Has(up', "unsubscribe", s) \/ (Head(up).kind = "unsubscribe" /\ Head(up).of = s)
           /\ Single(up, s) =>
                /\ Single(up', s)
                /\ Head(up).kind = "subscribe" /\ Head(up).of = s => ~Has(up', "subscribe", s)
           /\ Ordered(up, "subscribe", "unsubscribe", s) =>
                /\ ~(Head(up).kind = "unsubscribe" /\ Head(up).of = s)
                /\ ~(Head(up).kind = "subscribe" /\ Head(up).of = s) => Ordered(up', "subscribe", "unsubscribe", s)
<1>1. up \in Seq(UpMessage)
    BY DEF ConnTypeOK
<1>. QED
    BY <1>1, HasLeft, SingleLeft, OrderedLeft

(* A notice queued is on its way to the client.                            *)
LEMMA NoticeQueued ==
    ASSUME ConnTypeOK, NEW m \in Notice, replies' = Append(replies, m), down' = down
    PROVE  \A kind, s : OnWay(kind, s)' <=> OnWay(kind, s) \/ (m.kind = kind /\ m.of = s)
<1>1. replies \in Seq(Notice)
    BY DEF ConnTypeOK
<1>2. \A kind, s : Has(Append(replies, m), kind, s) <=> Has(replies, kind, s) \/ (m.kind = kind /\ m.of = s)
    BY <1>1, HasAppended
<1>. QED
    BY <1>2 DEF OnWay

(* It stays there when the writer writes it.                               *)
LEMMA NoticeWritten ==
    ASSUME ConnTypeOK, replies # <<>>, replies' = Tail(replies), down' = Append(down, Head(replies))
    PROVE  \A kind, s : OnWay(kind, s)' <=> OnWay(kind, s)
<1>. DEFINE m == Head(replies)
<1>1. replies \in Seq(Notice) /\ down \in Seq(DownMessage) /\ m \in Notice
    BY DEF ConnTypeOK
<1>2. m \in DownMessage
    BY <1>1, Carried
<1>. HIDE DEF m
<1>3. \A kind, s : Has(Append(down, m), kind, s) <=> Has(down, kind, s) \/ (m.kind = kind /\ m.of = s)
    BY <1>1, <1>2, HasAppended
<1>4. \A kind, s : Has(replies, kind, s) <=> Has(Tail(replies), kind, s) \/ (m.kind = kind /\ m.of = s)
    BY <1>1, HasLeft DEF m
<1>5. down' = Append(down, m)
    BY DEF m
<1>. QED
    BY <1>3, <1>4, <1>5 DEF OnWay

(* Data written does not change which notices are on their way.            *)
LEMMA DataWritten ==
    ASSUME ConnTypeOK, NEW m \in DownMessage, m.kind \in {"event", "page"}, down' = Append(down, m), replies' = replies
    PROVE  \A kind \in {"result", "closed", "failure"} : \A s : OnWay(kind, s)' <=> OnWay(kind, s)
<1>1. down \in Seq(DownMessage)
    BY DEF ConnTypeOK
<1>2. \A kind, s : Has(Append(down, m), kind, s) <=> Has(down, kind, s) \/ (m.kind = kind /\ m.of = s)
    BY <1>1, HasAppended
<1>. QED
    BY <1>2 DEF OnWay

(* What the client reads was on its way, and the others are still.         *)
LEMMA NoticeTaken ==
    ASSUME ConnTypeOK, down # <<>>, down' = Tail(down), replies' = replies
    PROVE  \A kind, s : OnWay(kind, s) <=> OnWay(kind, s)' \/ (Head(down).kind = kind /\ Head(down).of = s)
<1>1. down \in Seq(DownMessage)
    BY DEF ConnTypeOK
<1>2. \A kind, s : Has(down, kind, s) <=> Has(Tail(down), kind, s) \/ (Head(down).kind = kind /\ Head(down).of = s)
    BY <1>1, HasLeft
<1>. QED
    BY <1>2 DEF OnWay

(* What the release of a subscription depends on.                          *)
SubscribeKept(s) ==
    /\ Has(up, "subscribe", s)' <=> Has(up, "subscribe", s)
    /\ Single(up, s) => Single(up, s)'
    /\ Ordered(up, "subscribe", "unsubscribe", s) => Ordered(up, "subscribe", "unsubscribe", s)'
    /\ (ToRelease(s)' <=> ToRelease(s)) /\ (NotToBegin(s) => NotToBegin(s)')
CallsKept(s) == SubscribeKept(s) /\ (Has(up, "unsubscribe", s)' <=> Has(up, "unsubscribe", s))
NoticesKept(s) == \A kind \in {"result", "closed", "failure"} : OnWay(kind, s)' <=> OnWay(kind, s)
StagesKept(s) ==
    /\ observer'[s].stage = observer[s].stage /\ request'[s].stage = request[s].stage
    /\ view'[s].stage = view[s].stage /\ (view[s].early => view'[s].early)
    /\ written' = s => written = s

(* A subscription for which none of it changes stays as it is.             *)
LEMMA ReleaseStays ==
    ASSUME NEW s, ReleaseOf(s), CallsKept(s), NoticesKept(s), StagesKept(s)
    PROVE  ReleaseOf(s)'
BY DEF ReleaseOf, SubscribeKept, CallsKept, NoticesKept, StagesKept, Begun, Staged, Promised, Upheld, Released, Replied,
       EndsOnce, Present, Unanswered

(* Channels that do not change.                                            *)
LEMMA CallsStay == ASSUME UNCHANGED <<up, unsent, forgone>> PROVE \A s : CallsKept(s)
BY DEF SubscribeKept, CallsKept, Has, Single, Ordered, ToRelease, NotToBegin
(* The same of those to the client.                                        *)
LEMMA NoticesStay == ASSUME UNCHANGED <<down, replies>> PROVE \A s : NoticesKept(s)
BY DEF NoticesKept, OnWay, Has

-----------------------------------------------------------------------------
(* The client's steps.                                                     *)

(* A first call.                                                           *)
LEMMA SubscribeReleases ==
    ASSUME ConnTypeOK, ReleaseInv, NEW s \in Subscription, Subscribe(s)
    PROVE  ReleaseInv'
<1>1. /\ observer[s].stage = "new" /\ observer'[s].stage = "calling"
      /\ \A t \in Subscription : t # s => observer'[t] = observer[t]
      /\ UNCHANGED <<unsent, forgone, down, request, view, replies, written>>
    BY DEF ConnTypeOK, Observer, Subscribe, serverVars, writerVars
<1>2. Message("subscribe", s) \in UpMessage /\ up' = Append(up, Message("subscribe", s))
    BY Carried DEF Subscribe
<1>3. ~Has(up, "subscribe", s)
    BY DEF ReleaseInv, ReleaseOf, Begun, Subscribe
<1>4. ASSUME NEW t \in Subscription PROVE
        /\ Has(up', "subscribe", t) <=> Has(up, "subscribe", t) \/ t = s
        /\ Has(up', "unsubscribe", t) <=> Has(up, "unsubscribe", t)
        /\ Single(up, t) => Single(up', t)
        /\ Ordered(up, "subscribe", "unsubscribe", t) => Ordered(up', "subscribe", "unsubscribe", t)
        /\ (ToRelease(t)' <=> ToRelease(t)) /\ (NotToBegin(t) => NotToBegin(t)')
    BY <1>1, <1>2, <1>3, CallSent DEF Message, ToRelease, NotToBegin
<1>5. \A t \in Subscription : NoticesKept(t)
    BY <1>1, NoticesStay
<1>6. ReleaseOf(s)'
    BY <1>1, <1>4, <1>5 DEF ReleaseInv, ReleaseOf, NoticesKept, Begun, Staged, Promised, Upheld, Released,
        Replied, EndsOnce, Present, Unanswered
<1>7. ASSUME NEW t \in Subscription, t # s PROVE ReleaseOf(t)'
    <2>1. CallsKept(t) /\ NoticesKept(t) /\ StagesKept(t)
        BY <1>1, <1>4, <1>5, <1>7 DEF SubscribeKept, CallsKept, StagesKept
    <2>. QED
        BY <2>1, ReleaseStays DEF ReleaseInv
<1>. QED
    BY <1>6, <1>7 DEF ReleaseInv

(* A subscription given up is to be released.                              *)
LEMMA RetireReleases ==
    ASSUME ConnTypeOK, ReleaseInv, NEW s \in Subscription, NEW messages \in SUBSET UpMessage, Retire(s, messages),
           Message("unsubscribe", s) \in messages, \A m \in messages : m.kind = "cancel" \/ m = Message("unsubscribe", s),
           observer[s].stage \in {"calling", "open", "ended"},
           UNCHANGED <<forgone, up, request, view, written, replies>>,
           \A t \in Subscription : \A kind \in {"result", "closed"} : OnWay(kind, t)' <=> OnWay(kind, t),
           \A t \in Subscription : t # s => NoticesKept(t)
    PROVE  ReleaseInv'
<1>1. /\ observer'[s].stage = "gone" /\ \A t \in Subscription : t # s => observer'[t] = observer[t]
      /\ unsent' = unsent \cup Receipts(s) \cup messages
    BY RetireTyped DEF Retire
<1>2. \A r \in Receipts(s) : r.kind = "ack"
    BY DEF Receipts, Receipt
<1>3. ToRelease(s)'
    BY <1>1 DEF ToRelease, Message
<1>4. \A t \in Subscription :
        (t # s => (ToRelease(t)' <=> ToRelease(t))) /\ (NotToBegin(t) => NotToBegin(t)')
    BY <1>1, <1>2 DEF ToRelease, NotToBegin, Message
<1>5. ASSUME NEW t \in Subscription PROVE
        /\ Has(up', "subscribe", t) <=> Has(up, "subscribe", t)
        /\ Has(up', "unsubscribe", t) <=> Has(up, "unsubscribe", t)
        /\ Single(up, t) => Single(up', t)
        /\ Ordered(up, "subscribe", "unsubscribe", t) => Ordered(up', "subscribe", "unsubscribe", t)
    OBVIOUS
<1>6. ReleaseOf(s)'
    BY <1>1, <1>3, <1>4, <1>5 DEF ReleaseInv, ReleaseOf, Begun, Staged, Promised, Upheld, Released,
        Replied, EndsOnce, Present
<1>7. ASSUME NEW t \in Subscription, t # s PROVE ReleaseOf(t)'
    <2>1. CallsKept(t) /\ NoticesKept(t) /\ StagesKept(t)
        BY <1>1, <1>4, <1>5, <1>7 DEF SubscribeKept, CallsKept, StagesKept
    <2>. QED
        BY <2>1, ReleaseStays DEF ReleaseInv
<1>. QED
    BY <1>6, <1>7 DEF ReleaseInv

(* Whoever gives up, gives up so.                                          *)
LEMMA GiveUpReleases ==
    ASSUME ConnTypeOK, ReleaseInv, NEW s \in Subscription, GiveUpSubscribe(s) \/ CloseSubscription(s)
    PROVE  ReleaseInv'
<1>1. UNCHANGED <<forgone, up, down, request, view, written, replies>>
    BY DEF GiveUpSubscribe, CloseSubscription, serverVars, writerVars
<1>2. \A t \in Subscription : NoticesKept(t)
    BY <1>1, NoticesStay
<1>3. PICK messages \in SUBSET UpMessage :
        /\ Retire(s, messages)
        /\ messages \in {{Message("cancel", s), Message("unsubscribe", s)}, {Message("unsubscribe", s)}}
    BY Carried DEF GiveUpSubscribe, CloseSubscription
<1>4. Message("unsubscribe", s) \in messages /\ \A m \in messages : m.kind = "cancel" \/ m = Message("unsubscribe", s)
    BY <1>3 DEF Message
<1>5. observer[s].stage \in {"calling", "open", "ended"}
    BY DEF GiveUpSubscribe, CloseSubscription
<1>. QED
    BY <1>1, <1>2, <1>3, <1>4, <1>5, RetireReleases DEF NoticesKept

(* Receipts and cancellations, once sent, release nothing.                 *)
LEMMA SendReleases ==
    ASSUME ConnTypeOK, ReleaseInv, NEW m \in unsent, SendOne(m)
    PROVE  ReleaseInv'
<1>1. /\ m \in UpMessage /\ up' = Append(up, m) /\ unsent' = unsent \ {m}
      /\ UNCHANGED <<observer, forgone, down, request, view, replies, written>>
    BY DEF ConnTypeOK, SendOne, serverVars, writerVars
<1>2. SUFFICES ASSUME NEW t \in Subscription PROVE ReleaseOf(t)'
    BY DEF ReleaseInv
<1>3. NoticesKept(t) /\ StagesKept(t) /\ ReleaseOf(t)
    BY <1>1, NoticesStay DEF StagesKept, ReleaseInv
<1>4. ~(m.kind = "subscribe" /\ m.of = t)
    BY <1>3 DEF ReleaseOf, Begun, NotToBegin
<1>5. NotToBegin(t) => NotToBegin(t)'
    BY <1>1 DEF NotToBegin
<1>6. CASE m.kind = "unsubscribe" /\ m.of = t
    <2>1. ToRelease(t)
        BY <1>6 DEF ToRelease
    <2>2. /\ Has(up', "subscribe", t) <=> Has(up, "subscribe", t)
          /\ Has(up', "unsubscribe", t)
          /\ Single(up, t) => Single(up', t)
          /\ Has(up, "subscribe", t) /\ Ordered(up, "subscribe", "unsubscribe", t) => Ordered(up', "subscribe", "unsubscribe", t)
        BY <1>1, <1>4, <1>6, CallSent
    <2>3. ToRelease(t)' => ToRelease(t)
        BY <1>1 DEF ToRelease
    <2>. QED
        BY <1>1, <1>3, <1>5, <2>1, <2>2, <2>3 DEF ReleaseOf, NoticesKept, StagesKept, Begun, Staged, Promised, Upheld,
            Released, Replied, EndsOnce, Present, Unanswered
<1>7. CASE ~(m.kind = "unsubscribe" /\ m.of = t)
    <2>1. ToRelease(t)' <=> ToRelease(t)
        BY <1>1, <1>7 DEF ToRelease
    <2>2. CallsKept(t)
        BY <1>1, <1>4, <1>5, <1>7, <2>1, CallSent DEF SubscribeKept, CallsKept
    <2>. QED
        BY <1>3, <2>2, ReleaseStays
<1>. QED
    BY <1>6, <1>7

(* Given up, a release is as little to come as it is to be sent.           *)
LEMMA ForgoReleases ==
    ASSUME ConnTypeOK, ReleaseInv, NEW m \in unsent, Forgo(m)
    PROVE  ReleaseInv'
<1>1. /\ unsent' \cup forgone' = unsent \cup forgone /\ unsent' \subseteq unsent
      /\ UNCHANGED <<observer, up, down, request, view, replies, written>>
    BY DEF Forgo, serverVars, writerVars
<1>2. \A t \in Subscription : CallsKept(t)
    BY <1>1 DEF SubscribeKept, CallsKept, Has, Single, Ordered, ToRelease, NotToBegin
<1>3. \A t \in Subscription : NoticesKept(t) /\ StagesKept(t)
    BY <1>1, NoticesStay DEF StagesKept
<1>. QED
    BY <1>2, <1>3, ReleaseStays DEF ReleaseInv

(* Consuming and asking for pages concern no subscription's release.       *)
LEMMA OthersRelease ==
    ASSUME ConnTypeOK, ReleaseInv,
           \/ \E s \in Subscription : ConsumeEvent(s)
           \/ \E p \in Page : AskPage(p) \/ AbandonPage(p)
    PROVE  ReleaseInv'
<1>1. CASE \E s \in Subscription : ConsumeEvent(s)
    <2>1. PICK s \in Subscription : ConsumeEvent(s)
        BY <1>1
    <2>2. \A t \in Subscription : observer'[t].stage = observer[t].stage
        BY <2>1 DEF ConnTypeOK, Observer, ConsumeEvent
    <2>3. UNCHANGED <<forgone, up, down, request, view, replies, written>>
        BY <2>1 DEF ConsumeEvent, serverVars, writerVars
    <2>4. \A m \in unsent' : m \in unsent \/ m.kind = "ack"
        BY <2>1 DEF ConsumeEvent, Receipt
    <2>5. unsent \subseteq unsent'
        BY <2>1 DEF ConsumeEvent
    <2>6. \A t \in Subscription : CallsKept(t) /\ NoticesKept(t) /\ StagesKept(t)
        BY <2>2, <2>3, <2>4, <2>5, NoticesStay DEF SubscribeKept, CallsKept, StagesKept, ToRelease, NotToBegin
    <2>. QED
        BY <2>6, ReleaseStays DEF ReleaseInv
<1>2. CASE \E p \in Page : AskPage(p)
    <2>1. PICK p \in Page : AskPage(p)
        BY <1>2
    <2>2. /\ Message("page", p) \in UpMessage /\ up' = Append(up, Message("page", p))
          /\ UNCHANGED <<observer, unsent, forgone, down, request, view, replies, written>>
        BY <2>1, Carried DEF AskPage, serverVars, writerVars
    <2>3. \A t \in Subscription : CallsKept(t)
        BY <2>2, CallSent DEF SubscribeKept, CallsKept, Message, ToRelease, NotToBegin
    <2>4. \A t \in Subscription : NoticesKept(t) /\ StagesKept(t)
        BY <2>2, NoticesStay DEF StagesKept
    <2>. QED
        BY <2>3, <2>4, ReleaseStays DEF ReleaseInv
<1>3. CASE \E p \in Page : AbandonPage(p)
    <2>1. PICK p \in Page : AbandonPage(p)
        BY <1>3
    <2>2. UNCHANGED <<observer, forgone, up, down, request, view, replies, written>>
        BY <2>1 DEF AbandonPage, serverVars, writerVars
    <2>3. \A m \in unsent' : m \in unsent \/ m.kind = "cancel"
        BY <2>1 DEF AbandonPage, Message
    <2>4. unsent \subseteq unsent'
        BY <2>1 DEF AbandonPage
    <2>5. \A t \in Subscription : CallsKept(t) /\ NoticesKept(t) /\ StagesKept(t)
        BY <2>2, <2>3, <2>4, NoticesStay DEF SubscribeKept, CallsKept, StagesKept, ToRelease, NotToBegin
    <2>. QED
        BY <2>5, ReleaseStays DEF ReleaseInv
<1>. QED
    BY <1>1, <1>2, <1>3

(* What the client reads.                                                  *)
LEMMA ReadReleases ==
    ASSUME ConnTypeOK, ReleaseInv, ClientReads
    PROVE  ReleaseInv'
<1>. DEFINE m == Head(down)
<1>1. /\ m \in DownMessage /\ (IF m.kind = "event" THEN ReadEvent(m) ELSE ReadReply(m))
      /\ UNCHANGED <<forgone, up, request, view, replies, written>>
    BY DEF ConnTypeOK, ClientReads, serverVars, writerVars
<1>2. \A kind, t : OnWay(kind, t) <=> OnWay(kind, t)' \/ (m.kind = kind /\ m.of = t)
    BY NoticeTaken DEF ClientReads, serverVars
<1>. HIDE DEF m
<1>3. CASE m.kind \in {"event", "page"}
    <2>1. \A t \in Subscription : NoticesKept(t)
        BY <1>2, <1>3 DEF NoticesKept
    <2>2. \A t \in Subscription : observer'[t].stage = observer[t].stage
        <3>1. \A f \in [Subscription -> Observer], t \in Subscription : \A events :
                \A u \in Subscription : [f EXCEPT ![t].events = events][u].stage = f[u].stage
            BY DEF Observer
        <3>2. CASE UNCHANGED observer
            BY <3>2
        <3>3. CASE observer' = [observer EXCEPT ![m.of].events = Append(@, m)]
            BY <3>1, <3>3 DEF ConnTypeOK, Observer
        <3>. QED
            BY <1>1, <1>3, <3>2, <3>3 DEF ReadEvent, ReadReply
    <2>3. unsent \subseteq unsent' /\ \A r \in unsent' : r \in unsent \/ r.kind = "ack"
        BY <1>1, <1>3 DEF ReadEvent, ReadReply, Receipt
    <2>4. \A t \in Subscription : CallsKept(t) /\ StagesKept(t)
        BY <1>1, <2>2, <2>3 DEF SubscribeKept, CallsKept, StagesKept, ToRelease, NotToBegin
    <2>. QED
        BY <2>1, <2>4, ReleaseStays DEF ReleaseInv
<1>4. CASE m.kind \in {"result", "closed"}
    <2>. PICK s : s = m.of
        OBVIOUS
    <2>1. /\ s \in Subscription /\ UNCHANGED <<unsent, forgone>>
          /\ observer'[s].stage =
                IF m.kind = "result" THEN (IF observer[s].stage = "calling" THEN "open" ELSE observer[s].stage)
                ELSE IF Held(s) THEN "ended" ELSE observer[s].stage
          /\ \A t \in Subscription : t # s => observer'[t] = observer[t]
        <3>. DEFINE stage == IF m.kind = "result" THEN (IF observer[s].stage = "calling" THEN "open" ELSE observer[s].stage)
                             ELSE IF Held(s) THEN "ended" ELSE observer[s].stage
        <3>1. s \in Subscription /\ UNCHANGED <<unsent, forgone>> /\ observer' = [observer EXCEPT ![s].stage = stage]
            BY <1>1, <1>4, NoticeRead DEF ConnTypeOK
        <3>. HIDE DEF stage
        <3>2. observer'[s].stage = stage /\ \A t \in Subscription : t # s => observer'[t] = observer[t]
            BY <3>1 DEF ConnTypeOK, Observer
        <3>. QED
            BY <3>1, <3>2 DEF stage
    <2>2. \A t \in Subscription : CallsKept(t)
        BY <1>1, <2>1, CallsStay
    <2>3. OnWay(m.kind, s) /\ \A kind, t : t # s => (OnWay(kind, t)' <=> OnWay(kind, t))
        BY <1>2
    <2>4. \A kind : kind # m.kind => (OnWay(kind, s)' <=> OnWay(kind, s))
        BY <1>2
    <2>5. \A kind : OnWay(kind, s)' => OnWay(kind, s)
        BY <1>2
    <2>6. ReleaseOf(s)'
        <3>1. ReleaseOf(s) /\ CallsKept(s)
            BY <2>1, <2>2 DEF ReleaseInv
        <3>2. CASE m.kind = "result"
            BY <1>1, <2>1, <2>3, <2>4, <2>5, <3>1, <3>2 DEF ReleaseOf, SubscribeKept, CallsKept, Begun, Staged, Promised, Upheld,
                Released, Replied, EndsOnce, Present, Unanswered
        <3>3. CASE m.kind = "closed"
            BY <1>1, <2>1, <2>3, <2>4, <2>5, <3>1, <3>3 DEF ReleaseOf, SubscribeKept, CallsKept, Begun, Staged, Promised, Upheld,
                Released, Replied, EndsOnce, Present, Unanswered, Held
        <3>. QED
            BY <1>4, <3>2, <3>3
    <2>7. ASSUME NEW t \in Subscription, t # s PROVE ReleaseOf(t)'
        <3>1. NoticesKept(t) /\ StagesKept(t)
            BY <1>1, <2>1, <2>3, <2>7 DEF NoticesKept, StagesKept
        <3>. QED
            BY <2>2, <3>1, ReleaseStays DEF ReleaseInv
    <2>. QED
        BY <2>6, <2>7 DEF ReleaseInv
<1>5. CASE m.kind = "failure"
    <2>. PICK s : s = m.of
        OBVIOUS
    <2>1. \A t \in Subscription : \A kind \in {"result", "closed"} : OnWay(kind, t)' <=> OnWay(kind, t)
        BY <1>2, <1>5
    <2>2. \A t \in Subscription : t # s => NoticesKept(t)
        BY <1>2 DEF NoticesKept
    <2>3. CASE /\ s \in Subscription /\ observer[s].stage = "calling"
               /\ Retire(s, {Message("unsubscribe", s)})
        <3>1. Message("unsubscribe", s) \in UpMessage
            BY <2>3, Carried
        <3>. QED
            BY <1>1, <2>1, <2>2, <2>3, <3>1, RetireReleases
    <2>4. CASE UNCHANGED <<observer, unsent, forgone>> /\ (s \in Subscription => observer[s].stage # "calling")
        <3>1. \A t \in Subscription : CallsKept(t) /\ StagesKept(t)
            BY <1>1, <2>4, CallsStay DEF StagesKept
        <3>2. ASSUME NEW t \in Subscription PROVE ReleaseOf(t)'
            <4>1. CASE t = s
                BY <1>1, <2>1, <2>4, <3>1, <4>1 DEF ReleaseInv, ReleaseOf, SubscribeKept, CallsKept, StagesKept, Begun, Staged, Promised,
                    Upheld, Released, Replied, EndsOnce, Present, Unanswered
            <4>2. CASE t # s
                BY <2>2, <3>1, <4>2, ReleaseStays DEF ReleaseInv
            <4>. QED
                BY <4>1, <4>2
        <3>. QED
            BY <3>2 DEF ReleaseInv
    <2>5. s \in Page => s \notin Subscription
        BY ConnectionBounds
    <2>. QED
        BY <1>1, <1>5, <2>3, <2>4, <2>5, FailureRead DEF clientVars
<1>. QED
    BY <1>1, <1>3, <1>4, <1>5, DownRead

-----------------------------------------------------------------------------
(* The server's steps.                                                     *)

(* A publication changes no stage.                                         *)
LEMMA PublishReleases ==
    ASSUME ConnTypeOK, ReleaseInv, PublishVersion
    PROVE  ReleaseInv'
<1>1. ASSUME NEW t \in Subscription PROVE view'[t].stage = view[t].stage /\ view'[t].early = view[t].early
    <2>1. view'[t] = view[t] \/ \E queue : view'[t] = [view[t] EXCEPT !.queue = queue]
        BY DEF PublishVersion
    <2>2. view[t] \in View
        BY DEF ConnTypeOK
    <2>. QED
        BY <2>1, <2>2 DEF View
<1>2. UNCHANGED <<observer, unsent, forgone, up, down, request, replies, written>>
    BY DEF PublishVersion, clientVars, writerVars
<1>3. \A t \in Subscription : CallsKept(t) /\ NoticesKept(t) /\ StagesKept(t)
    BY <1>1, <1>2, CallsStay, NoticesStay DEF StagesKept
<1>. QED
    BY <1>3, ReleaseStays DEF ReleaseInv

(* A view changes its stage alone.                                         *)
LEMMA ViewStaged ==
    ASSUME ConnTypeOK, NEW s \in Subscription, NEW stage \in ViewStage,
           \/ view' = [view EXCEPT ![s].stage = stage]
           \/ \E queue \in Queue : view' = [view EXCEPT ![s].stage = stage, ![s].queue = queue]
    PROVE  /\ view'[s].stage = stage /\ view'[s].early = view[s].early /\ view'[s].canceled = view[s].canceled
           /\ \A t \in Subscription : t # s => view'[t] = view[t]
BY DEF ConnTypeOK, View

(* A request that goes on without an answer.                               *)
LEMMA RequestReleases ==
    ASSUME ConnTypeOK, ReleaseInv, NEW s \in Subscription, Reserve(s) \/ Install(s) \/ GoneUnanswered(s)
    PROVE  ReleaseInv'
<1>1. UNCHANGED <<observer, unsent, forgone, up, down, replies, written>> /\ s \in ConnCall
    BY DEF Reserve, Install, GoneUnanswered, clientVars, writerVars, ConnCall
<1>2. \A t \in Subscription : CallsKept(t) /\ NoticesKept(t)
    BY <1>1, CallsStay, NoticesStay
<1>3. PICK stage \in RequestStage : Stage(s, stage)
    BY Stages DEF Reserve, Install, GoneUnanswered
<1>4. request'[s].stage = stage /\ \A c \in ConnCall : c # s => request'[c] = request[c]
    BY <1>1, <1>3, StageChanges
<1>5. /\ \A t \in Subscription : t # s => view'[t] = view[t]
      /\ view'[s].early = view[s].early
      /\ \/ request[s].stage = "accepted" /\ request'[s].stage = "subscribing" /\ view'[s].stage = "reserved"
         \/ request[s].stage = "accepted" /\ request'[s].stage = "refused" /\ UNCHANGED view
         \/ /\ request[s].stage = "subscribing" /\ request'[s].stage = "admitted"
            /\ view[s].stage = "reserved" /\ view'[s].stage = "installed"
         \/ request[s].stage = "subscribing" /\ request'[s].stage = "refused" /\ view'[s].stage = "gone"
         \/ request[s].stage = "answered" /\ request'[s].stage = "done" /\ UNCHANGED view
    <2>1. CASE Reserve(s)
        <3>1. CASE Stage(s, "subscribing") /\ view' = [view EXCEPT ![s].stage = "reserved"]
            BY <1>1, <2>1, <3>1, Stages, StageChanges, ViewStaged DEF Reserve
        <3>2. CASE Stage(s, "refused") /\ UNCHANGED view
            BY <1>1, <2>1, <3>2, Stages, StageChanges DEF Reserve
        <3>. QED
            BY <2>1, <3>1, <3>2 DEF Reserve
    <2>2. CASE Install(s)
        <3>1. CASE /\ Installable(s) /\ Stage(s, "admitted")
                   /\ view' = [view EXCEPT ![s].stage = "installed", ![s].queue = <<Publication("snapshot", version)>>]
            <4>1. <<Publication("snapshot", version)>> \in Queue
                BY Stages, Published DEF ConnTypeOK
            <4>. QED
                BY <1>1, <2>2, <3>1, <4>1, Stages, StageChanges, ViewStaged DEF Install, Installable
        <3>2. CASE Stage(s, "refused") /\ view' = [view EXCEPT ![s].stage = "gone"]
            BY <1>1, <2>2, <3>2, Stages, StageChanges, ViewStaged DEF Install
        <3>. QED
            BY <2>2, <3>1, <3>2 DEF Install
    <2>3. CASE GoneUnanswered(s)
        BY <1>1, <2>3, Stages, StageChanges DEF GoneUnanswered
    <2>. QED
        BY <2>1, <2>2, <2>3
<1>6. ReleaseOf(s)'
    <2>1. ReleaseOf(s) /\ CallsKept(s) /\ NoticesKept(s)
        BY <1>2 DEF ReleaseInv
    <2>. QED
        BY <1>1, <1>5, <2>1 DEF ReleaseOf, SubscribeKept, CallsKept, NoticesKept, Begun, Staged, Promised, Upheld, Released, Replied,
            EndsOnce, Present, Unanswered
<1>7. ASSUME NEW t \in Subscription, t # s PROVE ReleaseOf(t)'
    <2>1. StagesKept(t)
        BY <1>1, <1>4, <1>5, <1>7 DEF StagesKept, ConnCall
    <2>. QED
        BY <1>2, <2>1, ReleaseStays DEF ReleaseInv
<1>. QED
    BY <1>6, <1>7 DEF ReleaseInv

(* A request that is answered.                                             *)
LEMMA ReplyReleases ==
    ASSUME ConnTypeOK, ReleaseInv, NEW s \in Subscription, Reply(s)
    PROVE  ReleaseInv'
<1>1. UNCHANGED <<observer, unsent, forgone, up, down, view, written>> /\ s \in ConnCall
    BY DEF Reply, clientVars, writerVars, ConnCall
<1>2. \A t \in Subscription : CallsKept(t)
    BY <1>1, CallsStay
<1>3. PICK kind \in {"result", "failure"} :
        /\ replies' = Append(replies, Message(kind, s))
        /\ IF kind = "result" THEN request[s].stage = "admitted" /\ Stage(s, "answered")
                              ELSE request[s].stage = "refused" /\ Stage(s, "done")
    BY DEF Reply
<1>4. Message(kind, s) \in Notice /\ Message(kind, s).kind = kind /\ Message(kind, s).of = s
    BY Carried DEF Message
<1>5. \A k, t : OnWay(k, t)' <=> OnWay(k, t) \/ (kind = k /\ s = t)
    BY <1>1, <1>3, <1>4, NoticeQueued
<1>6. /\ request'[s].stage = (IF kind = "result" THEN "answered" ELSE "done")
      /\ \A c \in ConnCall : c # s => request'[c] = request[c]
    BY <1>1, <1>3, Stages, StageChanges
<1>7. ReleaseOf(s)'
    <2>1. ReleaseOf(s) /\ CallsKept(s)
        BY <1>2 DEF ReleaseInv
    <2>. QED
        BY <1>1, <1>3, <1>5, <1>6, <2>1 DEF ReleaseOf, SubscribeKept, CallsKept, Begun, Staged, Promised, Upheld, Released, Replied,
            EndsOnce, Present, Unanswered
<1>8. ASSUME NEW t \in Subscription, t # s PROVE ReleaseOf(t)'
    <2>1. StagesKept(t) /\ NoticesKept(t)
        BY <1>1, <1>5, <1>6, <1>8 DEF StagesKept, NoticesKept, ConnCall
    <2>. QED
        BY <1>2, <2>1, ReleaseStays DEF ReleaseInv
<1>. QED
    BY <1>7, <1>8 DEF ReleaseInv

(* A view that is removed sends its end after it.                          *)
LEMMA RemoveReleases ==
    ASSUME ConnTypeOK, ReleaseInv, NEW s \in Subscription, RemoveView(s), view[s].stage \in {"reserved", "installed", "active"},
           UNCHANGED <<observer, down>>, written' \in {written, Nobody},
           \/ request'[s].stage = request[s].stage
           \/ request[s].stage \in {"answered", "done"} /\ request'[s].stage = "done",
           SubscribeKept(s),
           \A t \in Subscription : t # s => CallsKept(t) /\ request'[t].stage = request[t].stage
    PROVE  ReleaseInv'
<1>1. Message("closed", s) \in Notice /\ Message("closed", s).kind = "closed" /\ Message("closed", s).of = s
    BY Carried DEF Message
<1>2. \A k, t : OnWay(k, t)' <=> OnWay(k, t) \/ ("closed" = k /\ s = t)
    BY <1>1, NoticeQueued DEF RemoveView
<1>3. /\ view'[s].stage = "gone" /\ view'[s].early = view[s].early
      /\ \A t \in Subscription : t # s => view'[t] = view[t]
    BY RemoveChanges
<1>4. ReleaseOf(s)'
    <2>1. ReleaseOf(s) /\ s # Nobody
        BY ConnectionBounds DEF ReleaseInv
    <2>. QED
        BY <1>2, <1>3, <2>1 DEF ReleaseOf, SubscribeKept, CallsKept, Begun, Staged, Promised, Upheld, Released, Replied,
            EndsOnce, Present, Unanswered
<1>5. ASSUME NEW t \in Subscription, t # s PROVE ReleaseOf(t)'
    <2>1. StagesKept(t) /\ NoticesKept(t)
        BY <1>2, <1>3, <1>5, ConnectionBounds DEF StagesKept, NoticesKept
    <2>. QED
        BY <1>5, <2>1, ReleaseStays DEF ReleaseInv
<1>. QED
    BY <1>4, <1>5 DEF ReleaseInv

(* The callbacks and the writer, for a view.                               *)
LEMMA ViewReleases ==
    ASSUME ConnTypeOK, ReleaseInv, NEW s \in Subscription, ViewStep(s)
    PROVE  ReleaseInv'
<1>1. /\ UNCHANGED <<observer, unsent, forgone, up>> /\ s \in ConnCall
      /\ \A t \in Subscription : CallsKept(t) /\ SubscribeKept(t)
    BY CallsStay DEF ViewStep, CancelView, RemoveCanceled, NoteWritten, WriteEvent, EndView, clientVars, ConnCall, CallsKept
<1>2. CASE CancelView(s)
    <2>1. \A t \in Subscription : view'[t].stage = view[t].stage /\ view'[t].early = view[t].early
        BY <1>2 DEF ConnTypeOK, View, CancelView
    <2>2. \A t \in Subscription : NoticesKept(t) /\ StagesKept(t)
        BY <1>1, <1>2, <2>1, NoticesStay DEF CancelView, StagesKept, writerVars
    <2>. QED
        BY <1>1, <2>2, ReleaseStays DEF ReleaseInv
<1>3. CASE RemoveCanceled(s) \/ EndView(s)
    <2>1. /\ RemoveView(s) /\ view[s].stage \in {"reserved", "installed", "active"}
          /\ UNCHANGED <<down, request, written>>
        BY <1>3 DEF RemoveCanceled, EndView, writerVars
    <2>. QED
        BY <1>1, <2>1, RemoveReleases
<1>4. CASE NoteWritten(s)
    <2>1. /\ written = s /\ written' = Nobody /\ down' = down /\ Stage(s, "done")
        BY <1>4 DEF NoteWritten
    <2>2. request'[s].stage = "done" /\ \A c \in ConnCall : c # s => request'[c] = request[c]
        BY <1>1, <2>1, Stages, StageChanges
    <2>3. request[s].stage \in {"answered", "done"}
        BY <2>1 DEF ReleaseInv, ReleaseOf, Staged, ConnTypeOK, Request, RequestStage, ConnCall
    <2>4. CASE view[s].stage = "installed" /\ RemoveView(s)
        BY <1>1, <2>1, <2>2, <2>3, <2>4, RemoveReleases DEF ConnCall
    <2>5. CASE UNCHANGED replies /\ (UNCHANGED view \/ (view[s].stage = "installed" /\ view' = [view EXCEPT ![s].stage = "active"]))
        <3>1. /\ Present(s)' <=> Present(s)
              /\ view'[s].stage = "reserved" <=> view[s].stage = "reserved"
              /\ view'[s].stage = "gone" <=> view[s].stage = "gone"
              /\ view'[s].early = view[s].early
              /\ \A t \in Subscription : t # s => view'[t] = view[t]
            BY <2>5, Stages, ViewStaged DEF Present
        <3>2. s # Nobody /\ \A t \in Subscription : NoticesKept(t)
            BY <2>1, <2>5, NoticesStay, ConnectionBounds
        <3>3. ReleaseOf(s) /\ CallsKept(s) /\ NoticesKept(s)
            BY <1>1, <3>2 DEF ReleaseInv
        <3>4. ReleaseOf(s)'
            BY <1>1, <2>1, <2>2, <2>3, <3>1, <3>2, <3>3 DEF ReleaseOf, SubscribeKept, CallsKept, NoticesKept, Begun,
                Staged, Promised, Upheld, Released, Replied, EndsOnce, Unanswered
        <3>5. ASSUME NEW t \in Subscription, t # s PROVE ReleaseOf(t)'
            <4>1. StagesKept(t)
                BY <1>1, <2>1, <2>2, <3>1, <3>5, ConnectionBounds DEF StagesKept, ConnCall
            <4>. QED
                BY <1>1, <3>2, <4>1, ReleaseStays DEF ReleaseInv
        <3>. QED
            BY <3>4, <3>5 DEF ReleaseInv
    <2>. QED
        BY <1>4, <2>4, <2>5 DEF NoteWritten, Activatable
<1>5. CASE WriteEvent(s)
    <2>. DEFINE e == Head(view[s].queue)
                m == [kind |-> "event", of |-> s, n |-> e.n, delivery |-> last', patch |-> e.kind = "patch"]
    <2>1. last' \in Nat \ {0} /\ e \in Publications
        BY <1>5 DEF ConnTypeOK, WriteEvent, SpendCredit, View, Queue
    <2>2. m \in DownMessage /\ m.kind = "event"
        BY <2>1, Carried DEF EventMessage, Publications
    <2>3. down' = Append(down, m) /\ replies' = replies
        BY <1>5 DEF WriteEvent
    <2>. HIDE DEF m
    <2>4. \A t \in Subscription : NoticesKept(t)
        BY <2>2, <2>3, DataWritten DEF NoticesKept
    <2>5. \A t \in Subscription : view'[t].stage = view[t].stage /\ view'[t].early = view[t].early
        BY <1>5 DEF ConnTypeOK, View, WriteEvent
    <2>6. \A t \in Subscription : StagesKept(t)
        BY <1>1, <1>5, <2>5 DEF WriteEvent, StagesKept
    <2>. QED
        BY <1>1, <2>4, <2>6, ReleaseStays DEF ReleaseInv
<1>. QED
    BY <1>2, <1>3, <1>4, <1>5 DEF ViewStep

(* Pages have requests of their own.                                       *)
LEMMA PageReleases ==
    ASSUME ConnTypeOK, ReleaseInv, NEW p \in Page, ReplyPage(p) \/ PageCanceled(p)
    PROVE  ReleaseInv'
<1>1. UNCHANGED <<observer, unsent, forgone, up, down, view, written>> /\ p \in ConnCall
    BY DEF ReplyPage, PageCanceled, clientVars, ConnCall
<1>2. \A t \in Subscription : request'[t] = request[t] /\ t # p
    BY <1>1, Stages, StageChanges, ConnectionBounds DEF ReplyPage, PageCanceled, ConnCall
<1>3. \A t \in Subscription : NoticesKept(t)
    <2>1. CASE UNCHANGED replies
        BY <1>1, <2>1, NoticesStay
    <2>2. CASE replies' = Append(replies, Message("failure", p))
        <3>1. Message("failure", p) \in Notice /\ Message("failure", p).of = p
            BY Carried DEF Message
        <3>2. \A kind, t : OnWay(kind, t)' <=> OnWay(kind, t) \/ (Message("failure", p).kind = kind /\ p = t)
            BY <1>1, <2>2, <3>1, NoticeQueued
        <3>. QED
            BY <1>2, <3>2 DEF NoticesKept
    <2>. QED
        BY <2>1, <2>2 DEF ReplyPage, PageCanceled
<1>4. \A t \in Subscription : CallsKept(t) /\ StagesKept(t)
    BY <1>1, <1>2, CallsStay DEF StagesKept
<1>. QED
    BY <1>3, <1>4, ReleaseStays DEF ReleaseInv

(* The writer's replies and pages.                                         *)
LEMMA WriterReleases ==
    ASSUME ConnTypeOK, ReleaseInv, WriteReply \/ WritePage
    PROVE  ReleaseInv'
<1>1. CASE WriteReply
    <2>1. UNCHANGED <<observer, unsent, forgone, up, request, view>>
        BY <1>1 DEF WriteReply, clientVars
    <2>2. \A kind, s : OnWay(kind, s)' <=> OnWay(kind, s)
        BY <1>1, NoticeWritten DEF WriteReply
    <2>. PICK m : m = Head(replies)
        OBVIOUS
    <2>3. /\ written' = (IF m.kind = "result" THEN m.of ELSE Nobody)
          /\ m.kind = "result" => OnWay("result", m.of)
        <3>1. 1 \in DOMAIN replies /\ m = replies[1]
            BY <1>1 DEF ConnTypeOK, WriteReply
        <3>. QED
            BY <1>1, <3>1 DEF WriteReply, OnWay, Has
    <2>4. ASSUME NEW s \in Subscription PROVE ReleaseOf(s)'
        <3>1. CallsKept(s) /\ ReleaseOf(s) /\ s # Nobody
            BY <2>1, CallsStay, ConnectionBounds DEF ReleaseInv
        <3>2. written' = s => request[s].stage \notin Unanswered
            BY <2>3, <3>1 DEF ReleaseOf, Staged
        <3>. QED
            BY <2>1, <2>2, <3>1, <3>2 DEF ReleaseOf, SubscribeKept, CallsKept, Begun, Staged, Promised, Upheld, Released,
                Replied, EndsOnce, Present
    <2>. QED
        BY <2>4 DEF ReleaseInv
<1>2. CASE WritePage
    <2>1. UNCHANGED <<observer, unsent, forgone, up, view, replies, written>> /\ waiting \in Page /\ waiting \in ConnCall
        BY <1>2 DEF ConnTypeOK, WritePage, clientVars, ConnCall
    <2>2. CASE request[waiting].canceled
        <3>1. \A t \in Subscription : CallsKept(t) /\ NoticesKept(t) /\ StagesKept(t)
            BY <1>2, <2>1, <2>2, CallsStay, NoticesStay DEF WritePage, StagesKept
        <3>. QED
            BY <3>1, ReleaseStays DEF ReleaseInv
    <2>3. CASE ~request[waiting].canceled
        <3>1. last' \in Nat \ {0}
            BY <1>2, <2>3 DEF ConnTypeOK, WritePage, SpendCredit
        <3>2. Data("page", waiting, 0, last') \in DownMessage /\ Data("page", waiting, 0, last').kind = "page"
            BY <2>1, <3>1, Carried DEF Data
        <3>3. \A t \in Subscription : NoticesKept(t)
            BY <1>2, <2>1, <2>3, <3>2, DataWritten DEF WritePage, NoticesKept
        <3>4. \A t \in Subscription : request'[t] = request[t]
            BY <1>2, <2>1, <2>3, Stages, StageChanges, ConnectionBounds DEF WritePage, ConnCall
        <3>5. \A t \in Subscription : CallsKept(t) /\ StagesKept(t)
            BY <2>1, <3>4, CallsStay DEF StagesKept
        <3>. QED
            BY <3>3, <3>5, ReleaseStays DEF ReleaseInv
    <2>. QED
        BY <2>2, <2>3
<1>. QED
    BY <1>1, <1>2

(* The server's reader.                                                    *)
LEMMA ServerReleases ==
    ASSUME ConnTypeOK, ReleaseInv, ServerReads
    PROVE  ReleaseInv'
<1>. PICK m : m = Head(up)
    OBVIOUS
<1>1. /\ m \in UpMessage /\ UNCHANGED <<observer, unsent, forgone, down, written>>
      /\ up # <<>> /\ up' = Tail(up)
    BY DEF ConnTypeOK, ServerReads, clientVars, Accept, Unsubscribe, CancelRequest, TakeReceipt, writerVars
<1>2. ASSUME NEW t \in Subscription PROVE
        /\ Has(up, "subscribe", t) <=> Has(up', "subscribe", t) \/ (m.kind = "subscribe" /\ m.of = t)
        /\ Has(up, "unsubscribe", t) <=> Has(up', "unsubscribe", t) \/ (m.kind = "unsubscribe" /\ m.of = t)
        /\ Single(up, t) =>
            Single(up', t) /\ (m.kind = "subscribe" /\ m.of = t => ~Has(up', "subscribe", t))
        /\ Ordered(up, "subscribe", "unsubscribe", t) =>
            /\ ~(m.kind = "unsubscribe" /\ m.of = t)
            /\ ~(m.kind = "subscribe" /\ m.of = t) => Ordered(up', "subscribe", "unsubscribe", t)
        /\ (ToRelease(t)' <=> ToRelease(t)) /\ (NotToBegin(t) => NotToBegin(t)')
    BY <1>1, CallTaken DEF ToRelease, NotToBegin
<1>3. \A t \in Subscription : m.kind # "subscribe" \/ m.of # t => SubscribeKept(t)
    BY <1>2 DEF SubscribeKept
<1>4. \A t \in Subscription : m.kind \notin {"subscribe", "unsubscribe"} \/ m.of # t => CallsKept(t)
    BY <1>2, <1>3 DEF CallsKept
<1>5. CASE m.kind = "subscribe" /\ Accept(m.of)
    <2>. PICK s : s = m.of
        OBVIOUS
    <2>1. s \in Subscription /\ s \in ConnCall
        BY <1>1, <1>5, UpRead DEF ConnCall
    <2>2. /\ request'[s].stage = "accepted" /\ \A c \in ConnCall : c # s => request'[c] = request[c]
          /\ UNCHANGED <<view, replies>>
        BY <1>5, <2>1, Stages, StageChanges DEF Accept, Stage
    <2>3. \A t \in Subscription : NoticesKept(t)
        BY <1>1, <2>2, NoticesStay
    <2>4. ReleaseOf(s)'
        <3>1. ReleaseOf(s) /\ NoticesKept(s)
            BY <2>1, <2>3 DEF ReleaseInv
        <3>2. request[s].stage = "none" /\ ~Has(up', "subscribe", s) /\ Ordered(up, "subscribe", "unsubscribe", s)
            BY <1>2, <1>5, <2>1, <3>1 DEF ReleaseOf, Begun
        <3>3. Has(up', "unsubscribe", s) <=> Has(up, "unsubscribe", s)
            BY <1>2, <1>5, <2>1
        <3>4. ~(observer[s].stage = "gone" /\ ~Has(up', "unsubscribe", s) /\ ~ToRelease(s)) \/ view[s].early
            BY <3>1, <3>2, <3>3 DEF ReleaseOf, Released
        <3>. QED
            BY <1>1, <1>2, <1>5, <2>1, <2>2, <3>1, <3>2, <3>3, <3>4 DEF ReleaseOf, NoticesKept, Begun, Staged, Promised,
                Upheld, Released, Replied, EndsOnce, Present, Unanswered
    <2>5. ASSUME NEW t \in Subscription, t # s PROVE ReleaseOf(t)'
        <3>1. CallsKept(t) /\ StagesKept(t)
            BY <1>1, <1>4, <2>2, <2>5 DEF StagesKept, ConnCall
        <3>. QED
            BY <2>3, <3>1, ReleaseStays DEF ReleaseInv
    <2>. QED
        BY <2>4, <2>5 DEF ReleaseInv
<1>6. CASE m.kind = "unsubscribe" /\ Unsubscribe(m.of)
    <2>. PICK s : s = m.of
        OBVIOUS
    <2>1. s \in Subscription /\ UNCHANGED request
        BY <1>1, <1>6, UpRead DEF Unsubscribe
    <2>2. SubscribeKept(s) /\ \A t \in Subscription : t # s => CallsKept(t)
        BY <1>3, <1>4, <1>6, <2>1
    <2>3. CASE Present(s)
        <3>1. RemoveView(s)
            BY <1>6, <2>3 DEF Unsubscribe
        <3>. QED
            BY <1>1, <2>1, <2>2, <2>3, <3>1, RemoveReleases DEF Present
    <2>4. CASE ~Present(s)
        <3>1. view' = [view EXCEPT ![s].early = request[s].stage = "accepted"] /\ UNCHANGED replies
            BY <1>6, <2>4 DEF Unsubscribe
        <3>2. /\ view'[s].stage = view[s].stage /\ (request[s].stage = "accepted" => view'[s].early)
              /\ \A t \in Subscription : t # s => view'[t] = view[t]
            BY <2>1, <3>1 DEF ConnTypeOK, View
        <3>3. \A t \in Subscription : NoticesKept(t)
            BY <1>1, <3>1, NoticesStay
        <3>4. ReleaseOf(s)'
            <4>1. ReleaseOf(s) /\ NoticesKept(s)
                BY <2>1, <3>3 DEF ReleaseInv
            <4>2. request[s].stage # "none"
                BY <1>2, <1>6, <2>1, <4>1 DEF ReleaseOf, Begun
            <4>. QED
                BY <1>1, <2>1, <2>2, <2>4, <3>2, <4>1, <4>2 DEF ReleaseOf, SubscribeKept, NoticesKept, Begun, Staged, Promised,
                    Upheld, Released, Replied, EndsOnce, Present, Unanswered
        <3>5. ASSUME NEW t \in Subscription, t # s PROVE ReleaseOf(t)'
            <4>1. CallsKept(t) /\ StagesKept(t)
                BY <1>1, <2>1, <2>2, <3>2, <3>5 DEF StagesKept
            <4>. QED
                BY <3>3, <4>1, ReleaseStays DEF ReleaseInv
        <3>. QED
            BY <3>4, <3>5 DEF ReleaseInv
    <2>. QED
        BY <2>3, <2>4
<1>7. CASE /\ m.kind \notin {"subscribe", "unsubscribe"}
           /\ (m.kind = "page" /\ Accept(m.of)) \/ (m.kind = "cancel" /\ CancelRequest(m.of))
              \/ (m.kind = "ack" /\ TakeReceipt(m.delivery))
    <2>1. \A t \in Subscription : request'[t].stage = request[t].stage
        <3>1. CASE m.kind = "page" /\ Accept(m.of)
            BY <1>1, <3>1, UpRead, ConnectionBounds DEF Accept, ConnTypeOK, Request, ConnCall
        <3>2. CASE m.kind = "cancel" /\ CancelRequest(m.of)
            BY <1>1, <3>2, UpRead DEF CancelRequest, ConnTypeOK, Request, ConnCall
        <3>3. CASE m.kind = "ack" /\ TakeReceipt(m.delivery)
            BY <3>3 DEF TakeReceipt
        <3>. QED
            BY <1>7, <3>1, <3>2, <3>3
    <2>2. UNCHANGED <<view, replies>>
        BY <1>7 DEF Accept, CancelRequest, TakeReceipt
    <2>3. \A t \in Subscription : CallsKept(t) /\ NoticesKept(t) /\ StagesKept(t)
        BY <1>1, <1>4, <1>7, <2>1, <2>2, NoticesStay DEF StagesKept
    <2>. QED
        BY <2>3, ReleaseStays DEF ReleaseInv
<1>. QED
    <2>1. \/ m.kind \in {"subscribe", "page"} /\ Accept(m.of)
          \/ m.kind = "unsubscribe" /\ Unsubscribe(m.of)
          \/ m.kind = "cancel" /\ CancelRequest(m.of)
          \/ m.kind = "ack" /\ TakeReceipt(m.delivery)
        BY DEF ServerReads
    <2>. QED
        BY <1>5, <1>6, <1>7, <2>1

-----------------------------------------------------------------------------
(* Nothing is subscribed at first.                                         *)
LEMMA ReleaseInitial == ConnectionInit => ConnTypeOK /\ ReleaseInv
<1> SUFFICES ASSUME ConnectionInit PROVE ConnTypeOK /\ ReleaseInv
    OBVIOUS
<1>1. observer \in [Subscription -> Observer] /\ view \in [Subscription -> View]
    BY Stages DEF ConnectionInit, Observer, View
<1>2. request \in [ConnCall -> Request]
    BY Stages DEF ConnectionInit, Request
<1>3. ConnTypeOK
    BY <1>1, <1>2 DEF ConnectionInit, ConnTypeOK
<1>4. \A kind, s : ~Has(up, kind, s) /\ ~OnWay(kind, s)
    BY DEF ConnectionInit, Has, OnWay
<1>5. \A s \in Subscription : /\ observer[s].stage = "new" /\ request[s].stage = "none"
                              /\ view[s].stage = "none" /\ written # s
    BY ConnectionBounds DEF ConnectionInit, ConnCall
<1>6. \A s : Single(up, s) /\ Ordered(up, "subscribe", "unsubscribe", s) /\ ~ToRelease(s) /\ NotToBegin(s)
    BY DEF ConnectionInit, Single, Ordered, ToRelease, NotToBegin
<1>7. ReleaseInv
    BY <1>4, <1>5, <1>6 DEF ReleaseInv, ReleaseOf, Begun, Staged, Promised, Upheld, Released, Replied, EndsOnce, Present
<1>. QED
    BY <1>3, <1>7

(* Every step keeps what the release of subscriptions rests on.            *)
LEMMA ReleaseStep == ConnTypeOK /\ ReleaseInv /\ [ConnectionNext]_connectionVars => ReleaseInv'
<1> SUFFICES ASSUME ConnTypeOK, ReleaseInv, [ConnectionNext]_connectionVars PROVE ReleaseInv'
    OBVIOUS
<1>1. CASE UNCHANGED connectionVars
    <2>1. \A t \in Subscription : CallsKept(t) /\ NoticesKept(t) /\ StagesKept(t)
        BY <1>1, CallsStay, NoticesStay DEF StagesKept, connectionVars, clientVars, serverVars, writerVars
    <2>. QED
        BY <2>1, ReleaseStays DEF ReleaseInv
<1>2. ASSUME NEW s \in Subscription, SubscriberStep(s) \/ RequestStep(s) \/ ViewStep(s) PROVE ReleaseInv'
    BY <1>2, SubscribeReleases, GiveUpReleases, OthersRelease, RequestReleases, ReplyReleases, ViewReleases
        DEF SubscriberStep, RequestStep
<1>3. CASE \E p \in Page : PageStep(p)
    BY <1>3, OthersRelease, PageReleases DEF PageStep
<1>4. CASE \E m \in unsent : SendOne(m) \/ Forgo(m)
    BY <1>4, SendReleases, ForgoReleases
<1>5. CASE PublishVersion \/ ClientReads \/ ServerReads \/ WriteReply \/ WritePage
    BY <1>5, PublishReleases, ReadReleases, ServerReleases, WriterReleases
<1>. QED
    BY <1>1, <1>2, <1>3, <1>4, <1>5 DEF ConnectionNext

(* Then at rest the server has what the client holds, and nothing else.    *)
LEMMA RestReleases == ConnTypeOK /\ ReleaseInv => ReleasedAtRest
<1> SUFFICES ASSUME ConnTypeOK, ReleaseInv, Rest, NEW s \in Subscription
             PROVE  /\ observer[s].stage = "open" => Present(s)
                    /\ Present(s) => observer[s].stage = "open" \/ view[s].early \/ Unreleased(s)
    BY DEF ReleasedAtRest
<1>1. ReleaseOf(s) /\ s \in ConnCall
    BY DEF ReleaseInv, ConnCall
<1>2. /\ \A kind : ~Has(up, kind, s) /\ ~OnWay(kind, s)
      /\ request[s].stage \in {"none", "done"}
    BY <1>1 DEF Rest, Has, OnWay, Pending
<1>3. observer[s].stage \in {"new", "calling", "open", "ended", "gone"}
    BY DEF ConnTypeOK, Observer, ObserverStage
<1>4. ToRelease(s) => Unreleased(s)
    <2>1. \A m \in UpMessage : m.kind = "unsubscribe" /\ m.of = s => m = Message("unsubscribe", s)
        BY DEF UpMessage, UpCall, Ack, Message
    <2>. QED
        BY <2>1 DEF Rest, ToRelease, Unreleased, ConnTypeOK
<1>. QED
    BY <1>1, <1>2, <1>3, <1>4 DEF ReleaseOf, Begun, Staged, Promised, Upheld, Released, Replied, EndsOnce, Present

(* Whoever gives up when, at rest a connection keeps every subscription    *)
(* that somebody holds, and of the others only those whose release the     *)
(* client has dropped or the server has read before it began: releases     *)
(* overtake answers, cancellations are dropped or overtake releases, and   *)
(* views are removed by the reader, the writer and their own callbacks.    *)
THEOREM SubscriptionsReleased == ConnectionSpec => []ReleasedAtRest
<1>1. ConnectionInit => ConnTypeOK /\ ReleaseInv
    BY ReleaseInitial
<1>2. ConnTypeOK /\ ReleaseInv /\ [ConnectionNext]_connectionVars => (ConnTypeOK /\ ReleaseInv)'
    BY ConnTyped, ReleaseStep
<1>3. ConnTypeOK /\ ReleaseInv => ReleasedAtRest
    BY RestReleases
<1>. QED
    BY <1>1, <1>2, <1>3, PTL DEF ConnectionSpec

-----------------------------------------------------------------------------
(* Data on its way.                                                        *)

Datum(e) == e.kind \in {"event", "page"}
OneDatum(q) == \A i, j \in DOMAIN q : Datum(q[i]) /\ Datum(q[j]) => i = j
NoDatum(q) == \A e \in ToSet(q) : ~Datum(e)
EndLast(q, s) == \A i \in DOMAIN q :
    q[i].kind = "closed" /\ q[i].of = s => \A j \in i + 1 .. Len(q) : ~(q[j].kind = "event" /\ q[j].of = s)

(* A longer channel has the same messages and one more.                    *)
LEMMA ElementsAppended ==
    ASSUME NEW S, NEW q \in Seq(S), NEW m \in S
    PROVE  ToSet(Append(q, m)) = ToSet(q) \cup {m}
<1>. DEFINE r == Append(q, m)
<1>1. /\ Len(q) \in Nat /\ DOMAIN q = 1 .. Len(q) /\ DOMAIN r = 1 .. Len(q) + 1
      /\ r[Len(q) + 1] = m /\ \A i \in DOMAIN q : r[i] = q[i] /\ i \in DOMAIN r
    OBVIOUS
<1>. HIDE DEF r
<1>2. Len(q) + 1 \in DOMAIN r /\ \A i \in DOMAIN r : i = Len(q) + 1 \/ i \in DOMAIN q
    BY <1>1
<1>3. ToSet(r) = ToSet(q) \cup {m}
    BY <1>1, <1>2 DEF ToSet
<1>. QED
    BY <1>3 DEF r

(* A shorter one has but the first.                                        *)
LEMMA ElementsLeft ==
    ASSUME NEW S, NEW q \in Seq(S), q # <<>>
    PROVE  ToSet(q) = ToSet(Tail(q)) \cup {Head(q)}
<1>. DEFINE r == Tail(q)
<1>1. /\ Len(q) \in Nat \ {0} /\ DOMAIN q = 1 .. Len(q) /\ DOMAIN r = 1 .. Len(q) - 1
      /\ Head(q) = q[1] /\ \A i \in DOMAIN r : r[i] = q[i + 1]
    OBVIOUS
<1>. HIDE DEF r
<1>2. 1 \in DOMAIN q /\ \A i \in DOMAIN q : i = 1 \/ (i - 1 \in DOMAIN r /\ r[i - 1] = q[i])
    BY <1>1
<1>3. \A i \in DOMAIN r : i + 1 \in DOMAIN q
    BY <1>1
<1>4. ToSet(q) = ToSet(r) \cup {Head(q)}
    BY <1>1, <1>2, <1>3 DEF ToSet
<1>. QED
    BY <1>4 DEF r

(* There is one datum after another is written to a channel without.       *)
LEMMA DatumAppended ==
    ASSUME NEW S, NEW q \in Seq(S), NEW m \in S, OneDatum(q), Datum(m) => NoDatum(q)
    PROVE  OneDatum(Append(q, m))
<1>. DEFINE r == Append(q, m)
<1>1. /\ Len(q) \in Nat /\ DOMAIN q = 1 .. Len(q) /\ DOMAIN r = 1 .. Len(q) + 1
      /\ r[Len(q) + 1] = m /\ \A i \in DOMAIN q : r[i] = q[i]
    OBVIOUS
<1>. HIDE DEF r
<1>2. \A i \in DOMAIN r : i = Len(q) + 1 \/ i \in DOMAIN q
    BY <1>1
<1>3. \A i \in DOMAIN q : Datum(m) => ~Datum(q[i])
    BY DEF NoDatum, ToSet
<1>. HIDE DEF Datum
<1>4. OneDatum(r)
    BY <1>1, <1>2, <1>3 DEF OneDatum
<1>. QED
    BY <1>4 DEF r

(* There is none after the one is read.                                    *)
LEMMA DatumLeft ==
    ASSUME NEW S, NEW q \in Seq(S), q # <<>>, OneDatum(q)
    PROVE  OneDatum(Tail(q)) /\ (Datum(Head(q)) => NoDatum(Tail(q)))
<1>. DEFINE r == Tail(q)
<1>1. /\ Len(q) \in Nat \ {0} /\ DOMAIN q = 1 .. Len(q) /\ DOMAIN r = 1 .. Len(q) - 1
      /\ Head(q) = q[1] /\ \A i \in DOMAIN r : r[i] = q[i + 1]
    OBVIOUS
<1>. HIDE DEF r
<1>2. 1 \in DOMAIN q /\ \A i \in DOMAIN r : i \in Int /\ i + 1 \in DOMAIN q /\ i + 1 # 1
    BY <1>1
<1>3. OneDatum(r)
    BY <1>1, <1>2 DEF OneDatum
<1>4. Datum(Head(q)) => NoDatum(r)
    BY <1>1, <1>2 DEF OneDatum, NoDatum, ToSet
<1>. QED
    BY <1>3, <1>4 DEF r

(* Nothing follows the end of a subscription, if no event does.            *)
LEMMA EndAppended ==
    ASSUME NEW S, NEW q \in Seq(S), NEW m \in S, NEW s, EndLast(q, s),
           m.kind = "event" /\ m.of = s => ~Has(q, "closed", s)
    PROVE  EndLast(Append(q, m), s)
<1>. DEFINE r == Append(q, m)
<1>1. /\ Len(q) \in Nat /\ DOMAIN q = 1 .. Len(q) /\ DOMAIN r = 1 .. Len(q) + 1 /\ Len(r) = Len(q) + 1
      /\ r[Len(q) + 1] = m /\ \A i \in DOMAIN q : r[i] = q[i]
    OBVIOUS
<1>. HIDE DEF r
<1>2. SUFFICES ASSUME NEW i \in DOMAIN r, r[i].kind = "closed" /\ r[i].of = s, NEW j \in i + 1 .. Len(r)
               PROVE  ~(r[j].kind = "event" /\ r[j].of = s)
    BY DEF EndLast, r
<1>3. i \in DOMAIN q /\ q[i] = r[i]
    BY <1>1, <1>2
<1>4. CASE j = Len(q) + 1
    BY <1>1, <1>2, <1>3, <1>4 DEF Has
<1>5. CASE j # Len(q) + 1
    <2>1. j \in i + 1 .. Len(q) /\ j \in DOMAIN q
        BY <1>1, <1>3, <1>5
    <2>. QED
        BY <1>1, <1>2, <1>3, <2>1 DEF EndLast
<1>. QED
    BY <1>4, <1>5

(* What follows its first message follows it still.                        *)
LEMMA EndLeft ==
    ASSUME NEW S, NEW q \in Seq(S), q # <<>>, NEW s, EndLast(q, s)
    PROVE  /\ EndLast(Tail(q), s)
           /\ Head(q).kind = "closed" /\ Head(q).of = s => ~Has(Tail(q), "event", s)
<1>. DEFINE r == Tail(q)
<1>1. /\ Len(q) \in Nat \ {0} /\ DOMAIN q = 1 .. Len(q) /\ DOMAIN r = 1 .. Len(q) - 1 /\ Len(r) = Len(q) - 1
      /\ Head(q) = q[1] /\ \A i \in DOMAIN r : r[i] = q[i + 1]
    OBVIOUS
<1>. HIDE DEF r
<1>2. ASSUME NEW i \in DOMAIN r, r[i].kind = "closed" /\ r[i].of = s, NEW j \in i + 1 .. Len(r)
      PROVE  ~(r[j].kind = "event" /\ r[j].of = s)
    <2>1. i + 1 \in DOMAIN q /\ j + 1 \in (i + 1) + 1 .. Len(q) /\ j \in DOMAIN r
        BY <1>1
    <2>. QED
        BY <1>1, <1>2, <2>1 DEF EndLast
<1>3. EndLast(r, s)
    BY <1>2 DEF EndLast
<1>4. ASSUME Head(q).kind = "closed" /\ Head(q).of = s, NEW j \in DOMAIN r
      PROVE  ~(r[j].kind = "event" /\ r[j].of = s)
    <2>1. 1 \in DOMAIN q /\ j + 1 \in 1 + 1 .. Len(q)
        BY <1>1
    <2>. QED
        BY <1>1, <1>4, <2>1 DEF EndLast
<1>. QED
    BY <1>3, <1>4 DEF Has, r

-----------------------------------------------------------------------------
(* Credit: one page or publication is outstanding at a time, from the      *)
(* writer to whoever consumes it, and its receipt gives back the credit.   *)

Unread(s) == observer[s].events # <<>>
Clear == NoDatum(down) /\ \A s \in Subscription : ~Unread(s)
Mail == unsent \cup ToSet(up)
CreditInv ==
    /\ credit <= last /\ OneDatum(down)
    /\ \A e \in ToSet(down) : Datum(e) => e.delivery = credit
    /\ \A s \in Subscription : Unread(s) =>
        /\ Len(observer[s].events) = 1 /\ observer[s].events[1].delivery = credit
        /\ NoDatum(down)
        /\ \A t \in Subscription : Unread(t) => s = t
    /\ \A r \in Mail : r.kind = "ack" => r.delivery <= last /\ (r.delivery = credit => Clear)

(* Steps without data, receipts and consumers.                             *)
LEMMA CreditStays ==
    ASSUME CreditInv, UNCHANGED <<credit, last>>, OneDatum(down)',
           \A e \in ToSet(down') : Datum(e) => e \in ToSet(down),
           \A s \in Subscription : observer'[s].events = observer[s].events,
           \A r \in Mail' : r.kind = "ack" => r \in Mail
    PROVE  CreditInv' /\ (Clear => Clear')
<1>1. NoDatum(down) => NoDatum(down)'
    BY DEF NoDatum
<1>2. \A s \in Subscription : Unread(s)' <=> Unread(s)
    BY DEF Unread
<1>3. Clear => Clear'
    BY <1>1, <1>2 DEF Clear
<1>. HIDE DEF Datum
<1>. QED
    BY <1>1, <1>2, <1>3 DEF CreditInv

(* With credit nothing is outstanding.                                     *)
LEMMA CreditClear == ConnTypeOK /\ CreditInv /\ credit = 0 => Clear
<1> SUFFICES ASSUME ConnTypeOK, CreditInv, credit = 0 PROVE Clear
    OBVIOUS
<1>1. NoDatum(down)
    <2>1. \A e \in ToSet(down) : e \in DownMessage
        BY DEF ConnTypeOK, ToSet
    <2>. QED
        BY <2>1, DownRead DEF CreditInv, NoDatum, Datum
<1>2. ASSUME NEW s \in Subscription, Unread(s) PROVE FALSE
    <2>1. observer[s].events \in Seq(EventMessage) /\ Len(observer[s].events) = 1
        BY <1>2 DEF ConnTypeOK, Observer, Events, CreditInv
    <2>2. observer[s].events[1] \in EventMessage
        BY <2>1
    <2>. QED
        BY <1>2, <2>2 DEF CreditInv, EventMessage
<1>. QED
    BY <1>1, <1>2 DEF Clear

(* What is written with credit is the one thing outstanding.               *)
LEMMA CreditSpent ==
    ASSUME ConnTypeOK, CreditInv, NEW m \in DownMessage, credit = 0, credit' = last + 1, last' = last + 1,
           Datum(m), m.delivery = last + 1, down' = Append(down, m), UNCHANGED <<observer, unsent, up>>
    PROVE  CreditInv'
<1>1. Clear /\ down \in Seq(DownMessage)
    BY CreditClear DEF ConnTypeOK
<1>2. OneDatum(down)' /\ ToSet(down') = ToSet(down) \cup {m}
    BY <1>1, DatumAppended, ElementsAppended DEF CreditInv, Clear
<1>3. \A s \in Subscription : ~Unread(s)'
    BY <1>1 DEF Clear, Unread
<1>4. \A e \in ToSet(down') : Datum(e) => e.delivery = credit'
    BY <1>1, <1>2 DEF Clear, NoDatum
<1>5. \A r \in Mail' : r.kind = "ack" => r.delivery <= last
    BY DEF Mail, CreditInv
<1>6. \A r \in Mail' : r.kind = "ack" => r.delivery \in Nat
    <2>1. \A r \in Mail' : r \in UpMessage
        BY DEF Mail, ConnTypeOK, ToSet
    <2>. QED
        BY <2>1, UpRead
<1>7. \A r \in Mail' : r.kind = "ack" => r.delivery <= last' /\ r.delivery # credit'
    BY <1>5, <1>6 DEF ConnTypeOK
<1>8. credit' <= last'
    BY DEF ConnTypeOK
<1>. HIDE DEF Datum
<1>. QED
    BY <1>2, <1>3, <1>4, <1>7, <1>8 DEF CreditInv

(* A receipt sent for what was outstanding is the only thing left of it.   *)
LEMMA CreditReceipt ==
    ASSUME ConnTypeOK, CreditInv, UNCHANGED <<credit, last>>, Clear', OneDatum(down)',
           \A r \in Mail' : r.kind = "ack" => r \in Mail \/ r.delivery = credit
    PROVE  CreditInv'
<1>1. \A r \in Mail' : r.kind = "ack" => r.delivery <= last
    BY DEF CreditInv
<1>. QED
    BY <1>1 DEF CreditInv, Clear, NoDatum

(* Giving a subscription up gives back its credit.                         *)
LEMMA RetireCredits ==
    ASSUME ConnTypeOK, CreditInv, NEW s \in Subscription, NEW messages \in SUBSET UpMessage, Retire(s, messages),
           \A m \in messages : m.kind # "ack", UNCHANGED <<up, credit, last>>,
           OneDatum(down)', \A e \in ToSet(down') : Datum(e) => e \in ToSet(down)
    PROVE  CreditInv'
<1>1. /\ observer'[s].events = <<>> /\ \A t \in Subscription : t # s => observer'[t] = observer[t]
      /\ unsent' = unsent \cup Receipts(s) \cup messages
    BY RetireTyped DEF Retire
<1>2. observer[s].events \in Seq(EventMessage)
    BY DEF ConnTypeOK, Observer, Events
<1>3. CASE Unread(s)
    <2>1. Len(observer[s].events) = 1 /\ observer[s].events[1].delivery = credit
        BY <1>3 DEF CreditInv
    <2>2. \A r \in Receipts(s) : r.delivery = credit
        BY <1>2, <2>1 DEF Receipts, Receipt, ToSet
    <2>3. \A r \in Mail' : r.kind = "ack" => r \in Mail \/ r.delivery = credit
        BY <1>1, <2>2 DEF Mail
    <2>4. NoDatum(down)'
        BY <1>3 DEF CreditInv, NoDatum
    <2>5. \A t \in Subscription : ~Unread(t)'
        BY <1>1, <1>3 DEF CreditInv, Unread
    <2>. QED
        BY <2>3, <2>4, <2>5, CreditReceipt DEF Clear
<1>4. CASE ~Unread(s)
    <2>1. Receipts(s) = {}
        BY <1>4 DEF Unread, Receipts, ToSet
    <2>2. \A r \in Mail' : r.kind = "ack" => r \in Mail
        BY <1>1, <2>1 DEF Mail
    <2>3. \A t \in Subscription : observer'[t].events = observer[t].events
        BY <1>1, <1>4 DEF Unread
    <2>. QED
        BY <2>2, <2>3, CreditStays
<1>. QED
    BY <1>3, <1>4

(* A queue of one is empty once that is taken.                             *)
LEMMA TakenOnly ==
    ASSUME NEW S, NEW q \in Seq(S), Len(q) = 1
    PROVE  Head(q) = q[1] /\ Tail(q) = <<>> /\ q[1] \in S
<1>1. Tail(q) \in Seq(S) /\ Len(Tail(q)) = 0 /\ q # <<>>
    OBVIOUS
<1>2. \A r \in Seq(S) : Len(r) = 0 => r = <<>>
    OBVIOUS
<1>3. Tail(q) = <<>>
    BY <1>1, <1>2
<1>4. Head(q) = q[1] /\ q[1] \in S
    OBVIOUS
<1>. QED
    BY <1>3, <1>4

(* What the client consumes it acknowledges.                               *)
LEMMA ConsumeCredits ==
    ASSUME ConnTypeOK, CreditInv, NEW s \in Subscription, ConsumeEvent(s)
    PROVE  /\ CreditInv' /\ Clear'
           /\ Unread(s) /\ ~Unread(s)' /\ observer'[s].shown = observer[s].events[1].n
           /\ observer'[s].stage = observer[s].stage
           /\ \A t \in Subscription : t # s => observer'[t] = observer[t]
<1>. DEFINE e == Head(observer[s].events)
            rest == Tail(observer[s].events)
<1>1. observer[s].events \in Seq(EventMessage) /\ Unread(s)
    BY DEF ConnTypeOK, Observer, Events, ConsumeEvent, Unread
<1>2. Len(observer[s].events) = 1 /\ observer[s].events[1].delivery = credit
    BY <1>1 DEF CreditInv
<1>3. e = observer[s].events[1] /\ rest = <<>>
    BY <1>1, <1>2, TakenOnly
<1>4. observer' = [observer EXCEPT ![s].events = rest, ![s].shown = e.n]
    BY DEF ConsumeEvent
<1>. HIDE DEF e, rest
<1>5. /\ observer'[s].events = rest /\ observer'[s].shown = e.n /\ observer'[s].stage = observer[s].stage
      /\ \A t \in Subscription : t # s => observer'[t] = observer[t]
    BY <1>4 DEF ConnTypeOK, Observer
<1>6. Clear'
    BY <1>1, <1>3, <1>5 DEF CreditInv, Clear, NoDatum, Unread, ConsumeEvent
<1>7. \A r \in Mail' : r.kind = "ack" => r \in Mail \/ r.delivery = credit
    BY <1>2, <1>3 DEF Mail, ConsumeEvent, Receipt, e
<1>8. OneDatum(down)' /\ UNCHANGED <<credit, last>>
    BY DEF ConsumeEvent, serverVars, writerVars, CreditInv
<1>9. CreditInv'
    BY <1>6, <1>7, <1>8, CreditReceipt
<1>. QED
    BY <1>1, <1>3, <1>5, <1>6, <1>9 DEF Unread

(* What the client reads: the channel is shorter by it.                    *)
LEMMA TakenDown ==
    ASSUME ConnTypeOK, CreditInv, ClientReads, NEW m, m = Head(down)
    PROVE  /\ m \in DownMessage /\ m \in ToSet(down)
           /\ IF m.kind = "event" THEN ReadEvent(m) ELSE ReadReply(m)
           /\ down \in Seq(DownMessage) /\ down # <<>> /\ down' = Tail(down)
           /\ ToSet(down) = ToSet(down') \cup {m}
           /\ OneDatum(down)' /\ (Datum(m) => NoDatum(down)' /\ \A s \in Subscription : ~Unread(s))
           /\ UNCHANGED <<up, request, view, replies, waiting, credit, last, written, version>>
<1>1. /\ m \in DownMessage /\ down \in Seq(DownMessage) /\ down # <<>> /\ down' = Tail(down)
      /\ IF m.kind = "event" THEN ReadEvent(m) ELSE ReadReply(m)
      /\ UNCHANGED <<up, request, view, replies, waiting, credit, last, written, version>>
    BY DEF ConnTypeOK, ClientReads, serverVars, writerVars
<1>2. ToSet(down) = ToSet(down') \cup {m}
    BY <1>1, ElementsLeft
<1>3. OneDatum(down)' /\ (Datum(m) => NoDatum(down)')
    BY <1>1, DatumLeft DEF CreditInv
<1>4. Datum(m) => \A s \in Subscription : ~Unread(s)
    BY <1>2 DEF CreditInv, NoDatum
<1>. QED
    BY <1>1, <1>2, <1>3, <1>4

(* An event goes to whoever holds its subscription, for consumption.       *)
LEMMA EventTaken ==
    ASSUME ConnTypeOK, CreditInv, ClientReads, NEW m, m = Head(down), m.kind = "event"
    PROVE  /\ m \in EventMessage /\ m.of \in Subscription
           /\ m.delivery = credit
           /\ Held(m.of) =>
                /\ observer'[m.of].events = <<m>> /\ observer'[m.of].stage = observer[m.of].stage
                /\ observer'[m.of].shown = observer[m.of].shown
                /\ \A t \in Subscription : t # m.of => observer'[t] = observer[t]
                /\ UNCHANGED unsent
           /\ ~Held(m.of) => UNCHANGED observer /\ unsent' = unsent \cup {Receipt(m.delivery)}
<1>1. /\ m \in EventMessage /\ m.of \in Subscription /\ ReadEvent(m)
      /\ observer[m.of].events = <<>> /\ m.delivery = credit
    BY TakenDown, DownRead DEF Datum, Unread, CreditInv
<1>. PICK s \in Subscription : s = m.of
    BY <1>1
<1>2. CASE Held(s)
    <2>. DEFINE longer == Append(observer[s].events, m)
    <2>1. longer = <<m>>
        BY <1>1
    <2>. HIDE DEF longer
    <2>2. observer' = [observer EXCEPT ![s].events = longer] /\ UNCHANGED unsent
        BY <1>1, <1>2 DEF ReadEvent, longer, ConnTypeOK
    <2>3. /\ observer'[s].events = longer /\ observer'[s].stage = observer[s].stage
          /\ observer'[s].shown = observer[s].shown
          /\ \A t \in Subscription : t # s => observer'[t] = observer[t]
        BY <2>2 DEF ConnTypeOK, Observer
    <2>. QED
        BY <1>1, <1>2, <2>1, <2>2, <2>3
<1>3. CASE ~Held(s)
    BY <1>1, <1>3 DEF ReadEvent
<1>. QED
    BY <1>1, <1>2, <1>3

(* A notice read changes at most a stage.                                  *)
LEMMA NoticeTakes ==
    ASSUME ConnTypeOK, NEW m \in DownMessage, m.kind \in {"result", "closed"}, ReadReply(m)
    PROVE  /\ m.of \in Subscription /\ UNCHANGED <<asked, unsent>>
           /\ observer'[m.of].events = observer[m.of].events /\ observer'[m.of].shown = observer[m.of].shown
           /\ observer'[m.of].stage =
                IF m.kind = "result" THEN (IF observer[m.of].stage = "calling" THEN "open" ELSE observer[m.of].stage)
                ELSE IF Held(m.of) THEN "ended" ELSE observer[m.of].stage
           /\ \A t \in Subscription : t # m.of => observer'[t] = observer[t]
<1>. DEFINE s == m.of
            stage == IF m.kind = "result" THEN (IF observer[s].stage = "calling" THEN "open" ELSE observer[s].stage)
                     ELSE IF Held(s) THEN "ended" ELSE observer[s].stage
<1>1. s \in Subscription /\ UNCHANGED <<asked, unsent>> /\ observer' = [observer EXCEPT ![s].stage = stage]
    BY NoticeRead DEF ConnTypeOK
<1>. HIDE DEF stage, s
<1>2. /\ observer'[s].stage = stage /\ observer'[s].events = observer[s].events /\ observer'[s].shown = observer[s].shown
      /\ \A t \in Subscription : t # s => observer'[t] = observer[t]
    BY <1>1 DEF ConnTypeOK, Observer
<1>. QED
    BY <1>1, <1>2 DEF stage, s

(* Whatever the client reads, credit is not lost.                          *)
LEMMA ReadCredits == ASSUME ConnTypeOK, CreditInv, ClientReads PROVE CreditInv'
<1>. PICK m : m = Head(down)
    OBVIOUS
<1>1. /\ m \in DownMessage /\ m \in ToSet(down)
      /\ IF m.kind = "event" THEN ReadEvent(m) ELSE ReadReply(m)
      /\ ToSet(down) = ToSet(down') \cup {m}
      /\ OneDatum(down)' /\ (Datum(m) => NoDatum(down)' /\ \A s \in Subscription : ~Unread(s))
      /\ UNCHANGED <<up, credit, last>>
    BY TakenDown
<1>2. CASE m.kind = "event" /\ Held(m.of)
    <2>1. /\ m.of \in Subscription /\ m.delivery = credit /\ observer'[m.of].events = <<m>>
          /\ \A t \in Subscription : t # m.of => observer'[t] = observer[t]
          /\ UNCHANGED unsent
        BY <1>2, EventTaken
    <2>2. /\ Len(observer'[m.of].events) = 1 /\ observer'[m.of].events[1] = m /\ NoDatum(down)'
        BY <1>1, <1>2, <2>1 DEF Datum
    <2>3. \A t \in Subscription : Unread(t)' => t = m.of
        BY <1>1, <1>2, <2>1 DEF Datum, Unread
    <2>4. ~Clear /\ Mail' = Mail
        BY <1>1, <1>2, <2>1 DEF Clear, NoDatum, Datum, Mail
    <2>5. credit' <= last' /\ OneDatum(down)' /\ \A e \in ToSet(down') : Datum(e) => e.delivery = credit'
        BY <1>1, <2>2 DEF CreditInv, NoDatum
    <2>6. \A r \in Mail' : r.kind = "ack" => r.delivery <= last' /\ r.delivery # credit'
        BY <1>1, <2>4 DEF CreditInv
    <2>7. ASSUME NEW s \in Subscription, Unread(s)'
          PROVE  /\ Len(observer'[s].events) = 1 /\ observer'[s].events[1].delivery = credit'
                 /\ NoDatum(down)' /\ \A t \in Subscription : Unread(t)' => s = t
        BY <1>1, <2>1, <2>2, <2>3, <2>7
    <2>. QED
        BY <2>5, <2>6, <2>7 DEF CreditInv
<1>3. CASE (m.kind = "event" /\ ~Held(m.of)) \/ m.kind = "page"
    <2>1. UNCHANGED observer /\ unsent' = unsent \cup {Receipt(m.delivery)}
        BY <1>1, <1>3, EventTaken DEF ReadReply
    <2>2. m.delivery = credit /\ Clear'
        BY <1>1, <1>3, <2>1 DEF CreditInv, Datum, Clear, Unread
    <2>3. \A r \in Mail' : r.kind = "ack" => r \in Mail \/ r.delivery = credit
        BY <1>1, <2>1, <2>2 DEF Mail, Receipt
    <2>. QED
        BY <1>1, <2>2, <2>3, CreditReceipt
<1>4. CASE m.kind \in {"result", "closed"}
    <2>1. /\ \A t \in Subscription : observer'[t].events = observer[t].events
          /\ UNCHANGED unsent
        BY <1>1, <1>4, NoticeTakes
    <2>. QED
        BY <1>1, <2>1, CreditStays DEF Mail
<1>5. CASE m.kind = "failure"
    <2>1. CASE m.of \in Subscription /\ Retire(m.of, {Message("unsubscribe", m.of)})
        <3>1. {Message("unsubscribe", m.of)} \in SUBSET UpMessage /\ Message("unsubscribe", m.of).kind # "ack"
            BY <2>1, Carried DEF Message
        <3>. QED
            BY <1>1, <2>1, <3>1, RetireCredits
    <2>2. CASE UNCHANGED <<observer, unsent>>
        BY <1>1, <2>2, CreditStays DEF Mail
    <2>. QED
        BY <1>1, <1>5, <2>1, <2>2, FailureRead DEF clientVars
<1>. QED
    BY <1>1, <1>2, <1>3, <1>4, <1>5, DownRead

(* A call that carries no receipt leaves the credit alone.                 *)
LEMMA CallCredits ==
    ASSUME ConnTypeOK, CreditInv, NEW m \in UpMessage, up' = Append(up, m),
           (m.kind # "ack" /\ unsent' = unsent) \/ (m \in unsent /\ unsent' = unsent \ {m}),
           UNCHANGED <<down, credit, last>>, \A s \in Subscription : observer'[s].events = observer[s].events
    PROVE  CreditInv'
<1>1. ToSet(up') = ToSet(up) \cup {m}
    BY ElementsAppended DEF ConnTypeOK
<1>2. \A r \in Mail' : r.kind = "ack" => r \in Mail
    BY <1>1 DEF Mail
<1>. QED
    BY <1>2, CreditStays DEF CreditInv

(* A receipt that reaches the server gives the credit back, or is late.    *)
LEMMA ServerCredits == ASSUME ConnTypeOK, CreditInv, ServerReads PROVE CreditInv'
<1>. PICK m : m = Head(up)
    OBVIOUS
<1>1. /\ m \in UpMessage /\ UNCHANGED <<observer, unsent, down, last>>
      /\ up \in Seq(UpMessage) /\ up # <<>> /\ up' = Tail(up)
      /\ \/ UNCHANGED credit
         \/ m.kind = "ack" /\ credit' = (IF credit = m.delivery THEN 0 ELSE credit)
    BY DEF ConnTypeOK, ServerReads, clientVars, Accept, Unsubscribe, CancelRequest, TakeReceipt, writerVars
<1>2. ToSet(up) = ToSet(up') \cup {m}
    BY <1>1, ElementsLeft
<1>3. CASE UNCHANGED credit
    BY <1>1, <1>2, <1>3, CreditStays DEF Mail, CreditInv
<1>4. CASE m.kind = "ack" /\ credit = m.delivery /\ credit' = 0
    <2>1. Clear
        BY <1>2, <1>4 DEF CreditInv, Mail
    <2>2. Clear' /\ OneDatum(down)'
        BY <1>1, <2>1 DEF Clear, Unread, CreditInv
    <2>3. \A r \in Mail' : r.kind = "ack" => r.delivery <= last'
        BY <1>1, <1>2 DEF CreditInv, Mail
    <2>4. credit' <= last'
        BY <1>1, <1>4 DEF ConnTypeOK
    <2>. QED
        BY <2>2, <2>3, <2>4 DEF CreditInv, Clear, NoDatum
<1>. QED
    BY <1>1, <1>3, <1>4

(* An event written is of the queue's publication.                         *)
LEMMA EventWritten ==
    ASSUME ConnTypeOK, NEW s \in Subscription, WriteEvent(s)
    PROVE  /\ view[s].stage = "active" /\ view[s].queue # <<>> /\ credit = 0
           /\ \E m \in EventMessage :
                /\ m.kind = "event" /\ m.of = s /\ m.delivery = last + 1 /\ down' = Append(down, m)
                /\ m.n = view[s].queue[1].n /\ (m.patch <=> view[s].queue[1].kind = "patch")
           /\ credit' = last + 1 /\ last' = last + 1
           /\ view'[s].queue = <<>> /\ view'[s].stage = view[s].stage
           /\ \A t \in Subscription : t # s => view'[t] = view[t]
           /\ UNCHANGED <<observer, unsent, up, request, replies, written, version>>
<1>. DEFINE e == Head(view[s].queue)
            m == [kind |-> "event", of |-> s, n |-> e.n, delivery |-> last', patch |-> e.kind = "patch"]
<1>1. view[s].stage = "active" /\ view[s].queue # <<>> /\ credit = 0 /\ credit' = last + 1 /\ last' = last + 1
    BY DEF WriteEvent, Active, SpendCredit
<1>2. e \in Publications /\ e = view[s].queue[1]
    BY <1>1 DEF ConnTypeOK, View, Queue
<1>3. down' = Append(down, m)
    BY DEF WriteEvent
<1>4. last' \in Nat \ {0}
    BY <1>1 DEF ConnTypeOK
<1>. HIDE DEF e
<1>5. /\ m \in EventMessage /\ m.kind = "event" /\ m.of = s /\ m.delivery = last + 1
      /\ m.n = view[s].queue[1].n /\ (m.patch <=> view[s].queue[1].kind = "patch")
    BY <1>1, <1>2, <1>4 DEF EventMessage, Publications
<1>. HIDE DEF m
<1>6. /\ view'[s].queue = <<>> /\ view'[s].stage = view[s].stage
      /\ \A t \in Subscription : t # s => view'[t] = view[t]
    BY DEF WriteEvent, ConnTypeOK, View
<1>. QED
    BY <1>1, <1>3, <1>5, <1>6 DEF WriteEvent, clientVars

(* The writer writes a notice, or a page with credit.                      *)
LEMMA ReplyWritten ==
    ASSUME ConnTypeOK, WriteReply
    PROVE  /\ Head(replies) \in Notice /\ Head(replies) \in DownMessage /\ ~Datum(Head(replies))
           /\ down' = Append(down, Head(replies))
           /\ UNCHANGED <<observer, unsent, up, request, view, credit, last, version>>
<1>1. Head(replies) \in Notice
    BY DEF ConnTypeOK, WriteReply
<1>2. \A m \in Notice : m \in DownMessage /\ ~Datum(m)
    BY Carried DEF Notice, Datum
<1>. QED
    BY <1>1, <1>2 DEF WriteReply, clientVars

(* Every step keeps the credit.                                            *)
LEMMA CreditStep == ConnTypeOK /\ CreditInv /\ [ConnectionNext]_connectionVars => CreditInv'
<1> SUFFICES ASSUME ConnTypeOK, CreditInv, [ConnectionNext]_connectionVars PROVE CreditInv'
    OBVIOUS
<1>1. CASE UNCHANGED <<observer, unsent, up, down, credit, last>>
    BY <1>1, CreditStays DEF Mail, CreditInv
<1>2. ASSUME NEW s \in Subscription, SubscriberStep(s) PROVE CreditInv'
    <2>1. CASE Subscribe(s)
        <3>1. Message("subscribe", s) \in UpMessage /\ Message("subscribe", s).kind # "ack"
            BY Carried DEF Message
        <3>2. \A t \in Subscription : observer'[t].events = observer[t].events
            BY <2>1 DEF Subscribe, ConnTypeOK, Observer
        <3>. QED
            BY <2>1, <3>1, <3>2, CallCredits DEF Subscribe, serverVars, writerVars
    <2>2. CASE GiveUpSubscribe(s) \/ CloseSubscription(s)
        <3>1. PICK messages \in SUBSET UpMessage :
                /\ Retire(s, messages)
                /\ messages \in {{Message("cancel", s), Message("unsubscribe", s)}, {Message("unsubscribe", s)}}
            BY <2>2, Carried DEF GiveUpSubscribe, CloseSubscription
        <3>2. \A m \in messages : m.kind # "ack"
            BY <3>1 DEF Message
        <3>3. UNCHANGED <<up, down, credit, last>>
            BY <2>2 DEF GiveUpSubscribe, CloseSubscription, serverVars, writerVars
        <3>. QED
            BY <3>1, <3>2, <3>3, RetireCredits DEF CreditInv
    <2>3. CASE ConsumeEvent(s)
        BY <2>3, ConsumeCredits
    <2>. QED
        BY <1>2, <2>1, <2>2, <2>3 DEF SubscriberStep
<1>3. ASSUME NEW s \in Subscription, ViewStep(s) PROVE CreditInv'
    <2>1. CASE WriteEvent(s)
        <3>1. PICK m \in EventMessage : m.kind = "event" /\ m.delivery = last + 1 /\ down' = Append(down, m)
            BY <2>1, EventWritten
        <3>2. m \in DownMessage /\ Datum(m)
            BY <3>1, Carried DEF Datum
        <3>. QED
            BY <2>1, <3>1, <3>2, EventWritten, CreditSpent
    <2>2. CASE CancelView(s) \/ RemoveCanceled(s) \/ NoteWritten(s) \/ EndView(s)
        BY <1>1, <2>2 DEF CancelView, RemoveCanceled, NoteWritten, EndView, clientVars, writerVars
    <2>. QED
        BY <1>3, <2>1, <2>2 DEF ViewStep
<1>4. ASSUME NEW p \in Page, PageStep(p) PROVE CreditInv'
    <2>1. CASE AskPage(p)
        <3>1. Message("page", p) \in UpMessage /\ Message("page", p).kind # "ack"
            BY Carried DEF Message
        <3>. QED
            BY <2>1, <3>1, CallCredits DEF AskPage, serverVars, writerVars
    <2>2. CASE AbandonPage(p)
        <3>1. \A r \in Mail' : r.kind = "ack" => r \in Mail
            BY <2>2 DEF Mail, AbandonPage, Message
        <3>. QED
            BY <2>2, <3>1, CreditStays DEF AbandonPage, serverVars, writerVars, CreditInv
    <2>3. CASE ReplyPage(p) \/ PageCanceled(p)
        BY <1>1, <2>3 DEF ReplyPage, PageCanceled, clientVars
    <2>. QED
        BY <1>4, <2>1, <2>2, <2>3 DEF PageStep
<1>5. ASSUME NEW m \in unsent, SendOne(m) PROVE CreditInv'
    <2>1. m \in UpMessage
        BY DEF ConnTypeOK
    <2>. QED
        BY <1>5, <2>1, CallCredits DEF SendOne, serverVars, writerVars
<1>6. ASSUME WriteReply PROVE CreditInv'
    <2>. PICK m : m = Head(replies)
        OBVIOUS
    <2>1. /\ m \in DownMessage /\ ~Datum(m) /\ down' = Append(down, m)
          /\ UNCHANGED <<observer, unsent, up, credit, last>>
        BY <1>6, ReplyWritten
    <2>2. ToSet(down') = ToSet(down) \cup {m} /\ OneDatum(down)'
        BY <2>1, ElementsAppended, DatumAppended DEF ConnTypeOK, CreditInv
    <2>. QED
        BY <2>1, <2>2, CreditStays DEF Mail
<1>7. ASSUME WritePage PROVE CreditInv'
    <2>1. CASE request[waiting].canceled
        BY <1>1, <1>7, <2>1 DEF WritePage, clientVars
    <2>2. CASE ~request[waiting].canceled
        <3>1. /\ waiting \in Page /\ credit' = last + 1 /\ last' = last + 1 /\ last' \in Nat \ {0} /\ credit = 0
              /\ down' = Append(down, Data("page", waiting, 0, last'))
            BY <1>7, <2>2 DEF ConnTypeOK, WritePage, SpendCredit
        <3>. DEFINE m == Data("page", waiting, 0, last')
        <3>2. m \in DownMessage /\ Datum(m) /\ m.delivery = last + 1
            BY <3>1, Carried DEF Data, Datum
        <3>. HIDE DEF m
        <3>3. down' = Append(down, m)
            BY <3>1 DEF m
        <3>. QED
            BY <1>7, <3>1, <3>2, <3>3, CreditSpent DEF WritePage, clientVars
    <2>. QED
        BY <2>1, <2>2
<1>8. CASE PublishVersion \/ \E s \in Subscription : RequestStep(s)
    BY <1>1, <1>8 DEF PublishVersion, RequestStep, Reserve, Install, Reply, GoneUnanswered, clientVars, writerVars
<1>9. CASE UNCHANGED connectionVars
    BY <1>1, <1>9 DEF connectionVars, clientVars, serverVars, writerVars
<1>10. ASSUME NEW m \in unsent, Forgo(m) PROVE CreditInv'
    <2>1. Mail' \subseteq Mail /\ UNCHANGED <<observer, down, credit, last>>
        BY <1>10 DEF Mail, Forgo, serverVars, writerVars
    <2>. QED
        BY <2>1, CreditStays DEF CreditInv
<1>. QED
    BY <1>2, <1>3, <1>4, <1>5, <1>6, <1>7, <1>8, <1>9, <1>10, ReadCredits, ServerCredits DEF ConnectionNext

-----------------------------------------------------------------------------
(* The order in which a client reads of a subscription.                    *)

OrderOf(s) ==
    /\ observer[s].stage = "calling" =>
        /\ written = s \/ view[s].stage = "active" => Has(down, "result", s)
        /\ Ordered(down, "result", "event", s)
    /\ EndLast(down, s)
    /\ observer[s].stage \in {"new", "ended"} => ~Has(down, "event", s)
OrderInv == \A s \in Subscription : OrderOf(s)

(* Nothing is read or written, and nothing begins.                         *)
LEMMA OrderStays ==
    ASSUME NEW s \in Subscription, OrderOf(s), UNCHANGED down,
           observer'[s].stage \in {observer[s].stage, "gone"}, written' = s => written = s,
           view'[s].stage = "active" => view[s].stage = "active"
    PROVE  OrderOf(s)'
BY DEF OrderOf, Has, Ordered, EndLast

(* A message that is no event of a subscription follows all of its.        *)
LEMMA OrderWritten ==
    ASSUME ConnTypeOK, NEW m \in DownMessage, down' = Append(down, m), NEW s \in Subscription, OrderOf(s),
           m.kind = "event" /\ m.of = s =>
                /\ observer[s].stage = "calling" => Has(down, "result", s)
                /\ ~Has(down, "closed", s) /\ observer[s].stage \notin {"new", "ended"},
           observer'[s].stage = observer[s].stage,
           written' = s => written = s \/ (m.kind = "result" /\ m.of = s),
           view'[s].stage = view[s].stage
    PROVE  OrderOf(s)'
<1>1. down \in Seq(DownMessage)
    BY DEF ConnTypeOK
<1>2. \A kind : Has(down', kind, s) <=> Has(down, kind, s) \/ (m.kind = kind /\ m.of = s)
    BY <1>1, HasAppended
<1>3. observer[s].stage = "calling" => Ordered(down', "result", "event", s)
    BY <1>1, OrderedAppended DEF OrderOf
<1>4. EndLast(down', s)
    BY <1>1, EndAppended DEF OrderOf
<1>. QED
    BY <1>2, <1>3, <1>4 DEF OrderOf

(* What the client reads was first.                                        *)
LEMMA OrderRead == ASSUME ConnTypeOK, CreditInv, OrderInv, ClientReads PROVE OrderInv'
<1>. PICK m : m = Head(down)
    OBVIOUS
<1>1. /\ m \in DownMessage /\ (IF m.kind = "event" THEN ReadEvent(m) ELSE ReadReply(m))
      /\ down \in Seq(DownMessage) /\ down # <<>> /\ down' = Tail(down)
      /\ UNCHANGED <<view, written>>
    BY TakenDown
<1>2. ASSUME NEW s \in Subscription PROVE
        /\ \A kind : Has(down, kind, s) <=> Has(down', kind, s) \/ (m.kind = kind /\ m.of = s)
        /\ EndLast(down, s) => EndLast(down', s) /\ (m.kind = "closed" /\ m.of = s => ~Has(down', "event", s))
        /\ Ordered(down, "result", "event", s) =>
            (m.kind = "result" /\ m.of = s) \/ Ordered(down', "result", "event", s)
    <2>1. EndLast(down, s) => EndLast(down', s) /\ (m.kind = "closed" /\ m.of = s => ~Has(down', "event", s))
        BY <1>1, EndLeft
    <2>2. Ordered(down, "result", "event", s) =>
            (m.kind = "result" /\ m.of = s) \/ Ordered(down', "result", "event", s)
        BY <1>1, OrderedLeft
    <2>. QED
        BY <1>1, <2>1, <2>2, HasLeft
<1>3. ASSUME NEW s \in Subscription PROVE
        \/ /\ observer'[s].stage = observer[s].stage
           /\ ~(observer[s].stage = "calling" /\ m.kind = "result" /\ m.of = s)
        \/ observer'[s].stage \in {"open", "gone"}
        \/ observer'[s].stage = "ended" /\ m.kind = "closed" /\ m.of = s
    <2>1. CASE m.kind = "event"
        BY <1>1, <2>1, EventTaken
    <2>2. CASE m.kind = "page"
        BY <1>1, <2>2 DEF ReadReply
    <2>3. CASE m.kind \in {"result", "closed"}
        BY <1>1, <2>3, NoticeTakes
    <2>4. CASE m.kind = "failure"
        <3>1. CASE m.of \in Subscription /\ Retire(m.of, {Message("unsubscribe", m.of)})
            <4>1. {Message("unsubscribe", m.of)} \in SUBSET UpMessage
                BY <3>1, Carried
            <4>. QED
                BY <2>4, <3>1, <4>1, RetireTyped
        <3>2. CASE UNCHANGED observer
            BY <2>4, <3>2
        <3>. QED
            BY <1>1, <2>4, <3>1, <3>2, FailureRead DEF clientVars
    <2>. QED
        BY <1>1, <2>1, <2>2, <2>3, <2>4, DownRead
<1>4. ASSUME NEW s \in Subscription PROVE OrderOf(s)'
    BY <1>1, <1>2, <1>3 DEF OrderInv, OrderOf
<1>. QED
    BY <1>4 DEF OrderInv

(* Every step keeps the order.                                             *)
LEMMA OrderStep ==
    ConnTypeOK /\ ReleaseInv /\ CreditInv /\ OrderInv /\ [ConnectionNext]_connectionVars => OrderInv'
<1> SUFFICES ASSUME ConnTypeOK, ReleaseInv, CreditInv, OrderInv, [ConnectionNext]_connectionVars PROVE OrderInv'
    OBVIOUS
<1>1. ASSUME UNCHANGED down,
             \A t \in Subscription : /\ observer'[t].stage \in {observer[t].stage, "gone"}
                                     /\ written' = t => written = t
                                     /\ view'[t].stage = "active" => view[t].stage = "active"
      PROVE  OrderInv'
    BY <1>1, OrderStays DEF OrderInv
<1>2. ASSUME NEW s \in Subscription, SubscriberStep(s) PROVE OrderInv'
    <2>1. CASE Subscribe(s)
        <3>1. /\ observer[s].stage = "new" /\ observer'[s].stage = "calling"
              /\ \A t \in Subscription : t # s => observer'[t] = observer[t]
              /\ UNCHANGED <<down, view, written>>
            BY <2>1 DEF ConnTypeOK, Observer, Subscribe, serverVars, writerVars
        <3>2. written # s /\ view[s].stage # "active"
            BY <3>1 DEF ReleaseInv, ReleaseOf, Begun, Staged, Unanswered, Present
        <3>3. ~Has(down, "event", s) /\ EndLast(down, s)
            BY <3>1 DEF OrderInv, OrderOf
        <3>4. Ordered(down', "result", "event", s)
            BY <3>1, <3>3 DEF Has, Ordered
        <3>5. OrderOf(s)'
            BY <3>1, <3>2, <3>3, <3>4 DEF OrderOf
        <3>6. \A t \in Subscription : t # s => OrderOf(t)'
            BY <3>1, OrderStays DEF OrderInv
        <3>. QED
            BY <3>5, <3>6 DEF OrderInv
    <2>2. CASE GiveUpSubscribe(s) \/ CloseSubscription(s)
        <3>1. PICK messages \in SUBSET UpMessage : Retire(s, messages)
            BY <2>2, Carried DEF GiveUpSubscribe, CloseSubscription
        <3>2. \A t \in Subscription : observer'[t].stage \in {observer[t].stage, "gone"}
            BY <3>1, RetireTyped
        <3>. QED
            BY <1>1, <2>2, <3>2 DEF GiveUpSubscribe, CloseSubscription, serverVars, writerVars
    <2>3. CASE ConsumeEvent(s)
        <3>1. \A t \in Subscription : observer'[t].stage = observer[t].stage
            BY <2>3, ConsumeCredits
        <3>. QED
            BY <1>1, <2>3, <3>1 DEF ConsumeEvent, serverVars, writerVars
    <2>. QED
        BY <1>2, <2>1, <2>2, <2>3 DEF SubscriberStep
<1>3. ASSUME NEW s \in Subscription, RequestStep(s) PROVE OrderInv'
    <2>1. UNCHANGED <<observer, down, written>>
        BY <1>3 DEF RequestStep, Reserve, Install, Reply, GoneUnanswered, clientVars, writerVars
    <2>2. \A t \in Subscription : view'[t].stage = "active" => view[t].stage = "active"
        <3>1. CASE UNCHANGED view
            BY <3>1
        <3>2. CASE \E stage \in {"reserved", "gone"} : view' = [view EXCEPT ![s].stage = stage]
            BY <3>2, Stages, ViewStaged
        <3>3. CASE view' = [view EXCEPT ![s].stage = "installed", ![s].queue = <<Publication("snapshot", version)>>]
            <4>1. <<Publication("snapshot", version)>> \in Queue
                BY Stages, Published DEF ConnTypeOK
            <4>. QED
                BY <3>3, <4>1, Stages, ViewStaged
        <3>. QED
            BY <1>3, <3>1, <3>2, <3>3 DEF RequestStep, Reserve, Install, Reply, GoneUnanswered
    <2>. QED
        BY <1>1, <2>1, <2>2
<1>4. ASSUME NEW s \in Subscription, ViewStep(s) PROVE OrderInv'
    <2>1. CASE WriteEvent(s)
        <3>1. PICK m \in EventMessage : m.kind = "event" /\ m.of = s /\ down' = Append(down, m)
            BY <2>1, EventWritten
        <3>2. /\ m \in DownMessage /\ view[s].stage = "active" /\ UNCHANGED <<observer, written>>
              /\ \A t \in Subscription : view'[t].stage = view[t].stage
            BY <2>1, <3>1, EventWritten, Carried
        <3>3. /\ observer[s].stage = "calling" => Has(down, "result", s)
              /\ ~Has(down, "closed", s) /\ observer[s].stage \notin {"new", "ended"}
            BY <3>2 DEF OrderInv, OrderOf, ReleaseInv, ReleaseOf, Begun, Staged, EndsOnce, OnWay, Present
        <3>4. ASSUME NEW t \in Subscription PROVE OrderOf(t)'
            BY <3>1, <3>2, <3>3, OrderWritten DEF OrderInv
        <3>. QED
            BY <3>4 DEF OrderInv
    <2>2. CASE NoteWritten(s)
        <3>1. written = s /\ written' = Nobody /\ UNCHANGED <<observer, down>>
            BY <2>2 DEF NoteWritten, clientVars
        <3>2. /\ \A t \in Subscription : t # s => view'[t] = view[t]
              /\ view'[s].stage = "active" => written = s
            <4>1. CASE view' = [view EXCEPT ![s].stage = "active"]
                BY <3>1, <4>1, Stages, ViewStaged
            <4>2. CASE RemoveView(s)
                BY <3>1, <4>2, RemoveChanges
            <4>. QED
                BY <2>2, <3>1, <4>1, <4>2 DEF NoteWritten
        <3>3. s # Nobody
            BY ConnectionBounds
        <3>4. \A t \in Subscription : t # s => OrderOf(t)'
            BY <3>1, <3>2, OrderStays, ConnectionBounds DEF OrderInv
        <3>5. OrderOf(s)'
            BY <3>1, <3>2, <3>3 DEF OrderInv, OrderOf, Has, Ordered, EndLast
        <3>. QED
            BY <3>4, <3>5 DEF OrderInv
    <2>3. CASE CancelView(s)
        <3>1. \A t \in Subscription : view'[t].stage = view[t].stage
            BY <2>3 DEF CancelView, ConnTypeOK, View
        <3>. QED
            BY <1>1, <2>3, <3>1 DEF CancelView, clientVars, writerVars
    <2>4. CASE RemoveCanceled(s) \/ EndView(s)
        <3>1. \A t \in Subscription : view'[t].stage = "active" => view[t].stage = "active"
            BY <2>4, RemoveChanges DEF RemoveCanceled, EndView
        <3>. QED
            BY <1>1, <2>4, <3>1 DEF RemoveCanceled, EndView, clientVars, writerVars
    <2>. QED
        BY <1>4, <2>1, <2>2, <2>3, <2>4 DEF ViewStep
<1>5. ASSUME WriteReply PROVE OrderInv'
    <2>. PICK m : m = Head(replies)
        OBVIOUS
    <2>1. /\ m \in DownMessage /\ ~Datum(m) /\ down' = Append(down, m) /\ UNCHANGED <<observer, view>>
        BY <1>5, ReplyWritten
    <2>2. m.kind # "event" /\ written' = IF m.kind = "result" THEN m.of ELSE Nobody
        BY <1>5, <2>1 DEF WriteReply, Datum
    <2>3. ASSUME NEW t \in Subscription PROVE OrderOf(t)'
        BY <2>1, <2>2, OrderWritten, ConnectionBounds DEF OrderInv
    <2>. QED
        BY <2>3 DEF OrderInv
<1>6. ASSUME WritePage PROVE OrderInv'
    <2>1. CASE request[waiting].canceled
        BY <1>1, <1>6, <2>1 DEF WritePage, clientVars
    <2>2. CASE ~request[waiting].canceled
        <3>. PICK m : m = Data("page", waiting, 0, last')
            OBVIOUS
        <3>1. m \in DownMessage /\ m.kind = "page" /\ down' = Append(down, m) /\ UNCHANGED <<observer, view, written>>
            <4>1. waiting \in Page /\ last' \in Nat \ {0}
                BY <1>6, <2>2 DEF ConnTypeOK, WritePage, SpendCredit
            <4>. QED
                BY <1>6, <2>2, <4>1, Carried DEF WritePage, Data, clientVars
        <3>2. ASSUME NEW t \in Subscription PROVE OrderOf(t)'
            BY <3>1, OrderWritten DEF OrderInv
        <3>. QED
            BY <3>2 DEF OrderInv
    <2>. QED
        BY <2>1, <2>2
<1>7. ASSUME ServerReads PROVE OrderInv'
    <2>. PICK m : m = Head(up)
        OBVIOUS
    <2>1. m \in UpMessage /\ UNCHANGED <<observer, down, written>>
        BY <1>7 DEF ConnTypeOK, ServerReads, clientVars, Accept, Unsubscribe, CancelRequest, TakeReceipt, writerVars
    <2>2. \A t \in Subscription : view'[t].stage = "active" => view[t].stage = "active"
        <3>1. CASE UNCHANGED view
            BY <3>1
        <3>2. CASE m.kind = "unsubscribe" /\ Unsubscribe(m.of)
            <4>1. m.of \in Subscription
                BY <2>1, <3>2, UpRead
            <4>2. CASE RemoveView(m.of)
                BY <4>1, <4>2, RemoveChanges
            <4>3. CASE view' = [view EXCEPT ![m.of].early = request[m.of].stage = "accepted"]
                BY <4>1, <4>3 DEF ConnTypeOK, View
            <4>. QED
                BY <3>2, <4>2, <4>3 DEF Unsubscribe
        <3>. QED
            BY <1>7, <3>1, <3>2 DEF ServerReads, Accept, CancelRequest, TakeReceipt
    <2>. QED
        BY <1>1, <2>1, <2>2
<1>8. ASSUME PublishVersion PROVE OrderInv'
    <2>1. ASSUME NEW t \in Subscription PROVE view'[t].stage = view[t].stage
        <3>1. view'[t] = view[t] \/ \E queue : view'[t] = [view[t] EXCEPT !.queue = queue]
            BY <1>8 DEF PublishVersion
        <3>2. view[t] \in View
            BY DEF ConnTypeOK
        <3>. QED
            BY <3>1, <3>2 DEF View
    <2>. QED
        BY <1>1, <1>8, <2>1 DEF PublishVersion, clientVars, writerVars
<1>9. CASE \/ UNCHANGED connectionVars
           \/ (\E p \in Page : PageStep(p)) \/ (\E m \in unsent : SendOne(m) \/ Forgo(m))
    BY <1>1, <1>9 DEF PageStep, AskPage, AbandonPage, ReplyPage, PageCanceled, SendOne, Forgo,
        connectionVars, clientVars, serverVars, writerVars
<1>. QED
    BY <1>2, <1>3, <1>4, <1>5, <1>6, <1>7, <1>8, <1>9, OrderRead DEF ConnectionNext

-----------------------------------------------------------------------------
(* The versions a client reads of a subscription.                          *)

OfEvent(e, s) == e.kind = "event" /\ e.of = s
Flowing(s) == view[s].stage \in {"installed", "active"}
Unbegun(s) == request[s].stage \in {"none", "accepted", "subscribing"}
Fresh(s) == ~Unread(s) /\ observer[s].shown = 0 /\ \A e \in ToSet(down) : ~OfEvent(e, s)

(* The newest version the client has been sent is one of these.            *)
Newest(s, versions) ==
    /\ \A e \in ToSet(down) : OfEvent(e, s) => e.n \in versions
    /\ (\A e \in ToSet(down) : ~OfEvent(e, s)) =>
        (IF Unread(s) THEN observer[s].events[1].n ELSE observer[s].shown) \in versions

(* The client has been sent everything, or what it has not is queued.      *)
Behind(s) ==
    IF view[s].queue = <<>> THEN Newest(s, {version})
    ELSE /\ Len(view[s].queue) = 1 /\ view[s].queue[1].n = version
         /\ IF view[s].queue[1].kind = "patch" THEN version > 1 /\ Newest(s, {version - 1})
            ELSE Newest(s, 0 .. version - 1)
Following(s) ==
    /\ Unread(s) => Follows(observer[s].shown, observer[s].events[1])
    /\ \A e \in ToSet(down) : OfEvent(e, s) => Follows(observer[s].shown, e)
ContentOf(s) ==
    /\ Unbegun(s) => Fresh(s) /\ ~Flowing(s)
    /\ Held(s) => (Flowing(s) => Behind(s)) /\ Following(s)
ContentInv == version > 0 /\ \A s \in Subscription : ContentOf(s)

(* What a subscription's content depends on.                               *)
EventsKept(s) == \A e : OfEvent(e, s) => (e \in ToSet(down') <=> e \in ToSet(down))
ContentKept(s) ==
    /\ EventsKept(s)
    /\ observer'[s].events = observer[s].events /\ observer'[s].shown = observer[s].shown
    /\ Held(s)' => Held(s)
    /\ Unbegun(s)' => Unbegun(s)
    /\ Flowing(s)' => Flowing(s) /\ view'[s].queue = view[s].queue

(* What has been sent stays the newest while nothing is sent or consumed.  *)
LEMMA NewestStays ==
    ASSUME NEW s, NEW versions, Newest(s, versions), EventsKept(s),
           observer'[s].events = observer[s].events, observer'[s].shown = observer[s].shown
    PROVE  Newest(s, versions)'
BY DEF Newest, EventsKept, Unread

(* One whose content does not change, and does not begin.                  *)
LEMMA ContentStays ==
    ASSUME NEW s, ContentOf(s), ContentKept(s), version' = version
    PROVE  ContentOf(s)'
<1>1. Fresh(s) => Fresh(s)'
    BY DEF Fresh, ContentKept, EventsKept, Unread
<1>2. Following(s) => Following(s)'
    BY DEF Following, ContentKept, EventsKept, Unread
<1>3. ASSUME Flowing(s)', Behind(s) PROVE Behind(s)'
    BY <1>3, NewestStays DEF ContentKept, Behind
<1>. QED
    BY <1>1, <1>2, <1>3 DEF ContentOf, ContentKept

(* Messages other than events bring no content.                            *)
LEMMA EventsStay ==
    /\ UNCHANGED down => \A s : EventsKept(s)
    /\ \A m : ConnTypeOK /\ m \in DownMessage /\ down' = Append(down, m) =>
        \A s : ~OfEvent(m, s) => EventsKept(s)
    /\ \A m : ConnTypeOK /\ CreditInv /\ ClientReads /\ m = Head(down) =>
        \A s : ~OfEvent(m, s) => EventsKept(s)
<1>1. UNCHANGED down => \A s : EventsKept(s)
    BY DEF EventsKept
<1>2. ASSUME NEW m \in DownMessage, ConnTypeOK, down' = Append(down, m)
      PROVE  \A s : ~OfEvent(m, s) => EventsKept(s)
    <2>1. ToSet(down') = ToSet(down) \cup {m}
        BY <1>2, ElementsAppended DEF ConnTypeOK
    <2>. QED
        BY <2>1 DEF EventsKept, OfEvent
<1>3. ASSUME NEW m, ConnTypeOK, CreditInv, ClientReads, m = Head(down)
      PROVE  \A s : ~OfEvent(m, s) => EventsKept(s)
    <2>1. ToSet(down) = ToSet(down') \cup {m}
        BY <1>3, TakenDown
    <2>. QED
        BY <2>1 DEF EventsKept, OfEvent
<1>. QED
    BY <1>1, <1>2, <1>3

(* Only the subscription that changes has to be looked at.                 *)
LEMMA ContentOthers ==
    ASSUME ContentInv, NEW s \in Subscription, ContentOf(s)', version' = version,
           \A t \in Subscription : t # s => ContentKept(t)
    PROVE  ContentInv'
<1>1. \A t \in Subscription : t # s => ContentOf(t)'
    BY ContentStays DEF ContentInv
<1>. QED
    BY <1>1 DEF ContentInv

(* The client's own steps.                                                 *)
LEMMA SubscriberContent ==
    ASSUME ConnTypeOK, ReleaseInv, CreditInv, ContentInv, NEW s \in Subscription, SubscriberStep(s)
    PROVE  ContentInv'
<1>. s \in ConnCall
    BY DEF ConnCall
<1>1. UNCHANGED <<down, request, view, version>>
    BY DEF SubscriberStep, Subscribe, GiveUpSubscribe, CloseSubscription, ConsumeEvent, serverVars, writerVars
<1>2. \A t \in Subscription : observer'[t] = observer[t] => ContentKept(t)
    BY <1>1, EventsStay DEF ContentKept, Held, Unbegun, Flowing
<1>3. CASE Subscribe(s)
    <2>1. /\ observer[s].stage = "new" /\ observer'[s].events = observer[s].events
          /\ observer'[s].shown = observer[s].shown
          /\ \A t \in Subscription : t # s => observer'[t] = observer[t]
        BY <1>3 DEF ConnTypeOK, Observer, Subscribe
    <2>2. Unbegun(s) /\ Fresh(s) /\ ~Flowing(s)
        BY <2>1 DEF ReleaseInv, ReleaseOf, Begun, Unbegun, ContentInv, ContentOf
    <2>3. Fresh(s)' /\ ~Flowing(s)'
        BY <1>1, <2>1, <2>2 DEF Fresh, Flowing, Unread
    <2>4. ContentOf(s)'
        BY <2>3 DEF ContentOf, Fresh, Following
    <2>. QED
        BY <1>1, <1>2, <2>1, <2>4, ContentOthers
<1>4. CASE GiveUpSubscribe(s) \/ CloseSubscription(s)
    <2>1. PICK messages \in SUBSET UpMessage : Retire(s, messages)
        BY <1>4, Carried DEF GiveUpSubscribe, CloseSubscription
    <2>2. /\ observer'[s].stage = "gone" /\ observer'[s].events = <<>>
          /\ \A t \in Subscription : t # s => observer'[t] = observer[t]
        BY <2>1, RetireTyped
    <2>3. observer'[s].shown = observer[s].shown
        BY <2>1 DEF Retire, ConnTypeOK, Observer
    <2>4. ContentOf(s)'
        BY <1>1, <2>2, <2>3 DEF ContentInv, ContentOf, Fresh, Held, Unbegun, Flowing, Unread
    <2>. QED
        BY <1>1, <1>2, <2>2, <2>4, ContentOthers
<1>5. CASE ConsumeEvent(s)
    <2>1. /\ Clear' /\ Unread(s) /\ ~Unread(s)' /\ observer'[s].shown = observer[s].events[1].n
          /\ observer'[s].stage = observer[s].stage
          /\ \A t \in Subscription : t # s => observer'[t] = observer[t]
        BY <1>5, ConsumeCredits
    <2>2. \A e \in ToSet(down) : ~OfEvent(e, s)
        BY <1>1, <2>1 DEF Clear, NoDatum, Datum, OfEvent
    <2>3. \A versions : Newest(s, versions) => Newest(s, versions)'
        BY <1>1, <2>1, <2>2 DEF Newest
    <2>4. Behind(s) => Behind(s)'
        BY <1>1, <2>3 DEF Behind
    <2>5. Following(s)'
        BY <1>1, <2>1, <2>2 DEF Following
    <2>6. ContentOf(s)'
        BY <1>1, <2>1, <2>4, <2>5 DEF ContentInv, ContentOf, Fresh, Held, Unbegun, Flowing
    <2>. QED
        BY <1>1, <1>2, <2>1, <2>6, ContentOthers
<1>. QED
    BY <1>3, <1>4, <1>5 DEF SubscriberStep

(* What the client reads moves from the channel to whoever consumes it.    *)
LEMMA ReadContent ==
    ASSUME ConnTypeOK, CreditInv, ContentInv, ClientReads
    PROVE  ContentInv'
<1>. PICK m : m = Head(down)
    OBVIOUS
<1>1. /\ m \in DownMessage /\ (IF m.kind = "event" THEN ReadEvent(m) ELSE ReadReply(m))
      /\ ToSet(down) = ToSet(down') \cup {m}
      /\ Datum(m) => NoDatum(down)' /\ \A s \in Subscription : ~Unread(s)
      /\ UNCHANGED <<request, view, version>>
    BY TakenDown
<1>2. \A s : ~OfEvent(m, s) => EventsKept(s)
    BY EventsStay
<1>3. \A t \in Subscription : observer'[t] = observer[t] /\ ~OfEvent(m, t) => ContentKept(t)
    BY <1>1, <1>2 DEF ContentKept, Held, Unbegun, Flowing
<1>4. CASE m.kind = "event"
    <2>. PICK s : s = m.of
        OBVIOUS
    <2>1. s \in Subscription /\ OfEvent(m, s) /\ ~Unread(s) /\ m \in ToSet(down)
        BY <1>1, <1>4, EventTaken DEF OfEvent, Datum
    <2>2. \A e \in ToSet(down') : ~OfEvent(e, s)
        BY <1>1, <1>4 DEF Datum, NoDatum, OfEvent
    <2>3. \A t \in Subscription : t # s => observer'[t] = observer[t]
        BY <1>4, EventTaken
    <2>4. ~Unbegun(s)
        BY <2>1 DEF ContentInv, ContentOf, Fresh
    <2>5. ContentOf(s)'
        <3>1. CASE Held(s)
            <4>1. /\ observer'[s].events = <<m>> /\ observer'[s].stage = observer[s].stage
                  /\ observer'[s].shown = observer[s].shown
                BY <1>4, <3>1, EventTaken
            <4>2. Unread(s)' /\ observer'[s].events[1] = m
                BY <4>1 DEF Unread
            <4>3. \A versions : Newest(s, versions) => Newest(s, versions)'
                BY <2>1, <2>2, <4>2 DEF Newest
            <4>4. Behind(s) => Behind(s)'
                BY <1>1, <4>3 DEF Behind
            <4>5. Following(s) => Following(s)'
                BY <2>1, <2>2, <4>1, <4>2 DEF Following
            <4>. QED
                BY <1>1, <2>1, <2>4, <3>1, <4>1, <4>4, <4>5 DEF ContentInv, ContentOf, Held, Unbegun, Flowing
        <3>2. CASE ~Held(s)
            BY <1>1, <1>4, <2>4, <3>2, EventTaken DEF ContentOf, Held, Unbegun
        <3>. QED
            BY <3>1, <3>2
    <2>6. \A t \in Subscription : t # s => ContentKept(t)
        BY <1>3, <2>3 DEF OfEvent
    <2>. QED
        BY <1>1, <2>1, <2>5, <2>6, ContentOthers
<1>5. CASE m.kind # "event" /\ UNCHANGED observer
    <2>1. \A t \in Subscription : ContentKept(t)
        BY <1>3, <1>5 DEF OfEvent
    <2>. QED
        BY <1>1, <2>1, ContentStays DEF ContentInv
<1>6. CASE m.kind \in {"result", "closed"}
    <2>1. /\ \A t \in Subscription : observer'[t].events = observer[t].events /\ observer'[t].shown = observer[t].shown
          /\ \A t \in Subscription : Held(t)' => Held(t)
        BY <1>1, <1>6, NoticeTakes DEF Held
    <2>2. \A t \in Subscription : ContentKept(t)
        BY <1>1, <1>2, <1>6, <2>1 DEF ContentKept, Unbegun, Flowing, OfEvent
    <2>. QED
        BY <1>1, <2>2, ContentStays DEF ContentInv
<1>7. CASE m.kind = "failure" /\ m.of \in Subscription /\ Retire(m.of, {Message("unsubscribe", m.of)})
    <2>. PICK s \in Subscription : s = m.of
        BY <1>7
    <2>1. /\ observer'[s].stage = "gone" /\ observer'[s].events = <<>>
          /\ \A t \in Subscription : t # s => observer'[t] = observer[t]
        <3>1. {Message("unsubscribe", s)} \in SUBSET UpMessage
            BY Carried
        <3>. QED
            BY <1>7, <3>1, RetireTyped
    <2>2. observer'[s].shown = observer[s].shown
        BY <1>7 DEF Retire, ConnTypeOK, Observer
    <2>3. ContentOf(s)'
        BY <1>1, <1>2, <1>7, <2>1, <2>2 DEF ContentInv, ContentOf, Fresh, Held, Unbegun, Flowing, Unread, EventsKept, OfEvent
    <2>4. \A t \in Subscription : t # s => ContentKept(t)
        BY <1>3, <1>7, <2>1 DEF OfEvent
    <2>. QED
        BY <1>1, <2>3, <2>4, ContentOthers
<1>8. m.kind = "page" => UNCHANGED observer
    BY <1>1 DEF ReadReply
<1>. QED
    BY <1>1, <1>4, <1>5, <1>6, <1>7, <1>8, DownRead, FailureRead DEF clientVars

(* A publication is queued for every subscription that flows.              *)
LEMMA PublishContent ==
    ASSUME ConnTypeOK, ContentInv, PublishVersion
    PROVE  ContentInv'
<1>1. /\ version' = version + 1 /\ version \in Nat \ {0}
      /\ UNCHANGED <<observer, down, request>>
    BY DEF PublishVersion, clientVars, ConnTypeOK, ContentInv
<1>2. ASSUME NEW s \in Subscription PROVE ContentOf(s)'
    <2>. DEFINE queue == Queued(view[s].queue, version + 1)
    <2>1. view[s] \in View /\ view[s].queue \in Queue
        BY DEF ConnTypeOK, View
    <2>2. /\ queue \in Queue /\ Len(queue) = 1 /\ queue[1].n = version + 1 /\ queue # <<>>
          /\ queue[1].kind = IF view[s].queue = <<>> THEN "patch" ELSE "snapshot"
        <3>1. version + 1 \in Nat
            BY <1>1
        <3>2. /\ queue \in Queue /\ Len(queue) = 1 /\ queue[1].n = version + 1
              /\ queue[1].kind = IF view[s].queue = <<>> THEN "patch" ELSE "snapshot"
            <4>1. \A n \in Nat, q \in Queue :
                    /\ Queued(q, n) \in Queue /\ Len(Queued(q, n)) = 1 /\ Queued(q, n)[1].n = n
                    /\ Queued(q, n)[1].kind = IF q = <<>> THEN "patch" ELSE "snapshot"
                BY Published
            <4>. QED
                BY <2>1, <3>1, <4>1
        <3>. HIDE DEF queue
        <3>. QED
            BY <3>2
    <2>. HIDE DEF queue
    <2>3. view'[s] = IF Flowing(s) THEN [view[s] EXCEPT !.queue = queue] ELSE view[s]
        BY DEF PublishVersion, queue, Flowing
    <2>4. /\ view'[s].stage = view[s].stage
          /\ Flowing(s) => view'[s].queue = queue
        BY <2>1, <2>2, <2>3 DEF View
    <2>5. \A versions : Newest(s, versions) => Newest(s, versions)'
        BY <1>1 DEF Newest, Unread
    <2>6. \A versions \in {{version}, {version - 1}, 0 .. version - 1} : Newest(s, versions) => Newest(s, 0 .. version)
        BY <1>1 DEF Newest
    <2>7. ASSUME Flowing(s), Behind(s) PROVE Behind(s)'
        <3>. PICK n \in Nat \ {0} : n = version
            BY <1>1
        <3>1. version' = n + 1 /\ Flowing(s)' /\ view'[s].queue = queue
            BY <1>1, <2>4, <2>7 DEF Flowing
        <3>2. CASE view[s].queue = <<>>
            <4>1. Newest(s, {n})'
                BY <2>5, <2>7, <3>2 DEF Behind
            <4>2. Newest(s, {version - 1})'
                BY <3>1, <4>1 DEF Newest
            <4>3. queue[1].kind = "patch" /\ version' > 1
                BY <2>2, <3>1, <3>2
            <4>. QED
                BY <1>1, <2>2, <3>1, <4>2, <4>3 DEF Behind
        <3>3. CASE view[s].queue # <<>>
            <4>1. Newest(s, 0 .. n)
                BY <2>6, <2>7, <3>3 DEF Behind
            <4>2. Newest(s, 0 .. n)'
                BY <2>5, <4>1
            <4>3. Newest(s, 0 .. version - 1)'
                BY <3>1, <4>2 DEF Newest
            <4>4. queue[1].kind = "snapshot"
                BY <2>2, <3>3
            <4>. QED
                BY <1>1, <2>2, <3>1, <4>3, <4>4 DEF Behind
        <3>. QED
            BY <3>2, <3>3
    <2>8. /\ Held(s)' <=> Held(s)
          /\ Unbegun(s)' <=> Unbegun(s)
          /\ Flowing(s)' <=> Flowing(s)
          /\ Fresh(s) => Fresh(s)'
          /\ Following(s) => Following(s)'
        BY <1>1, <2>4 DEF Held, Unbegun, Flowing, Fresh, Following, Unread
    <2>. QED
        BY <2>7, <2>8 DEF ContentInv, ContentOf
<1>. QED
    BY <1>1, <1>2 DEF ContentInv

(* A request's subscription begins with a snapshot.                        *)
LEMMA RequestContent ==
    ASSUME ConnTypeOK, ContentInv, NEW s \in Subscription, RequestStep(s)
    PROVE  ContentInv'
<1>1. UNCHANGED <<observer, down, version>> /\ s \in ConnCall
    BY DEF RequestStep, Reserve, Install, Reply, GoneUnanswered, clientVars, writerVars, ConnCall
<1>2. ASSUME NEW t \in Subscription, t # s PROVE ContentKept(t)
    <2>1. request'[t] = request[t]
        <3>1. PICK stage \in RequestStage : Stage(s, stage)
            BY Stages DEF RequestStep, Reserve, Install, Reply, GoneUnanswered
        <3>. QED
            BY <1>1, <1>2, <3>1, StageChanges DEF ConnCall
    <2>2. view'[t] = view[t]
        BY <1>2 DEF ConnTypeOK, RequestStep, Reserve, Install, Reply, GoneUnanswered
    <2>. QED
        BY <1>1, <2>1, <2>2, EventsStay DEF ContentKept, Held, Unbegun, Flowing
<1>3. CASE Install(s) /\ Stage(s, "admitted")
    <2>. DEFINE queue == <<Publication("snapshot", version)>>
    <2>1. queue \in Queue /\ Len(queue) = 1 /\ queue # <<>> /\ queue[1].n = version /\ queue[1].kind = "snapshot"
        <3>1. queue \in Queue
            BY Stages, Published DEF ConnTypeOK
        <3>2. queue[1] = Publication("snapshot", version)
            OBVIOUS
        <3>. QED
            BY <3>1, <3>2 DEF Publication
    <2>2. request[s].stage = "subscribing" /\ request'[s].stage = "admitted"
        BY <1>1, <1>3, Stages, StageChanges DEF Install
    <2>3. ~Stage(s, "refused")
        BY <1>1, <2>2, Stages, StageChanges
    <2>4. view' = [view EXCEPT ![s].stage = "installed", ![s].queue = queue]
        BY <1>3, <2>3 DEF Install
    <2>. HIDE DEF queue
    <2>5. view'[s].stage = "installed" /\ view'[s].queue = queue
        BY <2>1, <2>4 DEF ConnTypeOK, View
    <2>6. Fresh(s)' /\ version' = version /\ version \in Nat \ {0}
        BY <1>1, <2>2 DEF ContentInv, ContentOf, Unbegun, Fresh, Unread, ConnTypeOK
    <2>7. Newest(s, 0 .. version - 1)'
        BY <1>1, <2>6 DEF Fresh, Newest
    <2>8. Behind(s)'
        BY <2>1, <2>5, <2>6, <2>7 DEF Behind
    <2>9. Following(s)'
        BY <2>6 DEF Fresh, Following
    <2>10. ContentOf(s)'
        BY <2>2, <2>8, <2>9 DEF ContentOf, Unbegun
    <2>. QED
        BY <1>1, <1>2, <2>10, ContentOthers
<1>4. CASE ~(Install(s) /\ Stage(s, "admitted"))
    <2>1. Unbegun(s)' => Unbegun(s)
        BY <1>1, <1>4, Stages, StageChanges DEF RequestStep, Reserve, Install, Reply, GoneUnanswered, Unbegun
    <2>2. Flowing(s)' => Flowing(s) /\ view'[s].queue = view[s].queue
        <3>1. CASE UNCHANGED view
            BY <3>1 DEF Flowing
        <3>2. CASE \E stage \in {"reserved", "gone"} : view' = [view EXCEPT ![s].stage = stage]
            BY <3>2, Stages, ViewStaged DEF Flowing
        <3>. QED
            BY <1>4, <3>1, <3>2 DEF RequestStep, Reserve, Install, Reply, GoneUnanswered
    <2>3. ContentKept(s)
        BY <1>1, <2>1, <2>2, EventsStay DEF ContentKept, Held
    <2>4. \A t \in Subscription : ContentKept(t)
        BY <1>2, <2>3
    <2>. QED
        BY <1>1, <2>4, ContentStays DEF ContentInv
<1>. QED
    BY <1>3, <1>4

(* What is written of a subscription follows what has been written.        *)
LEMMA ViewContent ==
    ASSUME ConnTypeOK, CreditInv, ContentInv, NEW s \in Subscription, ViewStep(s)
    PROVE  ContentInv'
<1>1. UNCHANGED <<observer, version>> /\ s \in ConnCall
    BY DEF ViewStep, CancelView, RemoveCanceled, NoteWritten, WriteEvent, EndView, clientVars, ConnCall
<1>2. \A t \in Subscription :
        /\ EventsKept(t) /\ (Unbegun(t)' => Unbegun(t))
        /\ Flowing(t)' => Flowing(t) /\ view'[t].queue = view[t].queue
        => ContentKept(t)
    BY <1>1 DEF ContentKept, Held
<1>3. CASE WriteEvent(s)
    <2>1. PICK m \in EventMessage :
            /\ m.kind = "event" /\ m.of = s /\ down' = Append(down, m)
            /\ m.n = view[s].queue[1].n /\ (m.patch <=> view[s].queue[1].kind = "patch")
        BY <1>3, EventWritten
    <2>2. /\ view[s].stage = "active" /\ view[s].queue # <<>> /\ credit = 0
          /\ view'[s].queue = <<>> /\ view'[s].stage = view[s].stage
          /\ \A t \in Subscription : t # s => view'[t] = view[t]
          /\ UNCHANGED request
        BY <1>3, EventWritten
    <2>3. Clear /\ m \in DownMessage
        BY <2>1, <2>2, CreditClear, Carried
    <2>4. ToSet(down') = ToSet(down) \cup {m}
        BY <2>1, <2>3, ElementsAppended DEF ConnTypeOK
    <2>5. \A e \in ToSet(down') : OfEvent(e, s) <=> e = m
        BY <2>1, <2>3, <2>4 DEF Clear, NoDatum, Datum, OfEvent
    <2>6. ~Unbegun(s) /\ Flowing(s) /\ ~Unread(s) /\ ~Unread(s)'
        BY <1>1, <2>2, <2>3 DEF ContentInv, ContentOf, Flowing, Clear, Unread
    <2>7. ASSUME Held(s) PROVE Behind(s)' /\ Following(s)'
        <3>. DEFINE first == view[s].queue[1]
        <3>a. first.n = version /\ IF first.kind = "patch" THEN version > 1 /\ Newest(s, {version - 1})
                                                          ELSE Newest(s, 0 .. version - 1)
            <4>1. Behind(s)
                BY <2>6, <2>7 DEF ContentInv, ContentOf
            <4>. QED
                BY <2>2, <4>1 DEF Behind
        <3>b. m.n = first.n /\ (m.patch <=> first.kind = "patch")
            BY <2>1
        <3>c. version \in Nat \ {0} /\ observer[s].shown \in Nat
            BY DEF ConnTypeOK, ContentInv, Observer
        <3>. HIDE DEF first
        <3>1. /\ m.n = version /\ version \in Nat \ {0} /\ observer[s].shown \in Nat
              /\ IF m.patch THEN version > 1 /\ Newest(s, {version - 1}) ELSE Newest(s, 0 .. version - 1)
            BY <3>a, <3>b, <3>c
        <3>2. IF m.patch THEN version > 1 /\ observer[s].shown = version - 1 ELSE observer[s].shown < version
            BY <2>3, <2>6, <3>1 DEF Newest, Clear, NoDatum, Datum, OfEvent
        <3>3. Follows(observer[s].shown, m)
            BY <3>1, <3>2 DEF Follows
        <3>4. Newest(s, {version})'
            BY <1>1, <2>4, <2>5, <3>1 DEF Newest
        <3>. QED
            BY <1>1, <2>2, <2>5, <2>6, <3>3, <3>4 DEF Behind, Following
    <2>8. ContentOf(s)'
        BY <1>1, <2>2, <2>6, <2>7 DEF ContentOf, Held, Unbegun
    <2>9. ASSUME NEW t \in Subscription, t # s PROVE ContentKept(t)
        <3>1. EventsKept(t)
            BY <2>1, <2>3, <2>9, EventsStay DEF OfEvent
        <3>. QED
            BY <1>2, <2>2, <2>9, <3>1 DEF Unbegun, Flowing
    <2>. QED
        BY <1>1, <2>8, <2>9, ContentOthers
<1>4. CASE ~WriteEvent(s)
    <2>1. UNCHANGED down
        BY <1>4 DEF ViewStep, CancelView, RemoveCanceled, NoteWritten, EndView, clientVars, writerVars
    <2>2. \A t \in Subscription : Unbegun(t)' => Unbegun(t)
        <3>1. CASE UNCHANGED request
            BY <3>1 DEF Unbegun
        <3>2. CASE Stage(s, "done")
            BY <1>1, <3>2, Stages, StageChanges DEF Unbegun, ConnCall
        <3>. QED
            BY <1>4, <3>1, <3>2 DEF ViewStep, CancelView, RemoveCanceled, NoteWritten, EndView
    <2>3. \A t \in Subscription : Flowing(t)' => Flowing(t) /\ view'[t].queue = view[t].queue
        <3>1. CASE UNCHANGED view
            BY <3>1 DEF Flowing
        <3>2. CASE RemoveView(s)
            BY <3>2, RemoveChanges DEF Flowing
        <3>3. CASE view' = [view EXCEPT ![s].canceled = TRUE]
            BY <3>3 DEF Flowing, ConnTypeOK, View
        <3>4. CASE view[s].stage = "installed" /\ view' = [view EXCEPT ![s].stage = "active"]
            BY <3>4 DEF Flowing, ConnTypeOK, View
        <3>. QED
            BY <1>4, <3>1, <3>2, <3>3, <3>4 DEF ViewStep, CancelView, RemoveCanceled, NoteWritten, EndView, Activatable
    <2>4. \A t \in Subscription : ContentKept(t)
        BY <1>2, <2>1, <2>2, <2>3, EventsStay
    <2>. QED
        BY <1>1, <2>4, ContentStays DEF ContentInv
<1>. QED
    BY <1>3, <1>4

(* The server's reader begins and ends subscriptions, and sends nothing.   *)
LEMMA ServerContent ==
    ASSUME ConnTypeOK, ReleaseInv, ContentInv, ServerReads
    PROVE  ContentInv'
<1>. PICK m : m = Head(up)
    OBVIOUS
<1>1. m \in UpMessage /\ UNCHANGED <<observer, down, version>> /\ m \in ToSet(up)
    <2>1. up \in Seq(UpMessage) /\ up # <<>>
        BY DEF ConnTypeOK, ServerReads
    <2>2. m \in ToSet(up)
        BY <2>1, ElementsLeft
    <2>. QED
        BY <2>1, <2>2 DEF ServerReads, clientVars
<1>2. \A t \in Subscription : Unbegun(t)' => Unbegun(t)
    <2>1. CASE UNCHANGED request
        BY <2>1 DEF Unbegun
    <2>2. CASE m.kind = "subscribe" /\ Accept(m.of)
        <3>. PICK s \in Subscription : s = m.of
            BY <1>1, <2>2, UpRead
        <3>1. Has(up, "subscribe", s)
            BY <1>1, <2>2 DEF Has, ToSet
        <3>2. Unbegun(s)
            BY <3>1 DEF ReleaseInv, ReleaseOf, Begun, Unbegun
        <3>. QED
            BY <2>2, <3>2 DEF Unbegun, Accept, ConnTypeOK, ConnCall
    <2>3. CASE m.kind = "page" /\ Accept(m.of)
        BY <1>1, <2>3, UpRead, ConnectionBounds DEF Accept, ConnTypeOK, ConnCall, Unbegun
    <2>4. CASE CancelRequest(m.of) /\ m.kind = "cancel"
        BY <1>1, <2>4, UpRead DEF CancelRequest, ConnTypeOK, Request, ConnCall, Unbegun
    <2>. QED
        BY <2>1, <2>2, <2>3, <2>4 DEF ServerReads, Unsubscribe, TakeReceipt
<1>3. \A t \in Subscription : Flowing(t)' => Flowing(t) /\ view'[t].queue = view[t].queue
    <2>1. CASE UNCHANGED view
        BY <2>1 DEF Flowing
    <2>2. CASE m.kind = "unsubscribe" /\ Unsubscribe(m.of)
        <3>1. m.of \in Subscription
            BY <1>1, <2>2, UpRead
        <3>2. CASE RemoveView(m.of)
            BY <3>1, <3>2, RemoveChanges DEF Flowing
        <3>3. CASE view' = [view EXCEPT ![m.of].early = request[m.of].stage = "accepted"]
            BY <3>1, <3>3 DEF ConnTypeOK, View, Flowing
        <3>. QED
            BY <2>2, <3>2, <3>3 DEF Unsubscribe
    <2>. QED
        BY <2>1, <2>2 DEF ServerReads, Accept, CancelRequest, TakeReceipt
<1>4. \A t \in Subscription : ContentKept(t)
    BY <1>1, <1>2, <1>3, EventsStay DEF ContentKept, Held
<1>. QED
    BY <1>1, <1>4, ContentStays DEF ContentInv

(* Pages, receipts and replies carry no publications.                      *)
LEMMA OthersContent ==
    ASSUME ConnTypeOK, CreditInv, ContentInv,
           \/ \E p \in Page : PageStep(p)
           \/ \E m \in unsent : SendOne(m) \/ Forgo(m)
           \/ WriteReply \/ WritePage \/ UNCHANGED connectionVars
    PROVE  ContentInv'
<1>1. UNCHANGED <<observer, view, version>>
    BY DEF PageStep, AskPage, AbandonPage, ReplyPage, PageCanceled, SendOne, Forgo, WriteReply, WritePage,
        connectionVars, clientVars, serverVars, writerVars
<1>2. \A t \in Subscription : EventsKept(t)
    <2>1. CASE UNCHANGED down
        BY <2>1, EventsStay
    <2>2. CASE WriteReply
        <3>. PICK m : m = Head(replies)
            OBVIOUS
        <3>1. m \in DownMessage /\ ~Datum(m) /\ down' = Append(down, m)
            BY <2>2, ReplyWritten
        <3>. QED
            BY <3>1, EventsStay DEF OfEvent, Datum
    <2>3. CASE WritePage /\ ~request[waiting].canceled
        <3>. PICK m : m = Data("page", waiting, 0, last')
            OBVIOUS
        <3>1. waiting \in Page /\ last' \in Nat \ {0}
            BY <2>3 DEF ConnTypeOK, WritePage, SpendCredit
        <3>2. m \in DownMessage /\ m.kind = "page" /\ down' = Append(down, m)
            BY <2>3, <3>1, Carried DEF WritePage, Data
        <3>. QED
            BY <3>2, EventsStay DEF OfEvent
    <2>. QED
        BY <2>1, <2>2, <2>3 DEF PageStep, AskPage, AbandonPage, ReplyPage, PageCanceled, SendOne, Forgo, WritePage,
            connectionVars, serverVars, writerVars
<1>3. \A t \in Subscription : request'[t] = request[t]
    <2>1. CASE UNCHANGED request
        BY <2>1
    <2>2. CASE \E p \in Page : Stage(p, "done") \/ Stage(p, "answered")
        BY <2>2, ConnectionBounds DEF Stage, ConnTypeOK, ConnCall
    <2>3. waiting \in Page \cup {Nobody}
        BY DEF ConnTypeOK
    <2>. QED
        BY <2>1, <2>2, <2>3 DEF PageStep, AskPage, AbandonPage, ReplyPage, PageCanceled, SendOne, Forgo, WriteReply, WritePage,
            connectionVars, serverVars, writerVars
<1>4. \A t \in Subscription : ContentKept(t)
    BY <1>1, <1>2, <1>3 DEF ContentKept, Held, Unbegun, Flowing
<1>. QED
    BY <1>1, <1>4, ContentStays DEF ContentInv

(* Every step keeps it.                                                    *)
LEMMA ContentStep ==
    ConnTypeOK /\ ReleaseInv /\ CreditInv /\ ContentInv /\ [ConnectionNext]_connectionVars => ContentInv'
BY SubscriberContent, ReadContent, PublishContent, RequestContent, ViewContent, ServerContent, OthersContent
    DEF ConnectionNext

(* A new connection owes nothing and has sent nothing.                     *)
LEMMA StreamsInitial == ConnectionInit => CreditInv /\ OrderInv /\ ContentInv
<1> SUFFICES ASSUME ConnectionInit PROVE CreditInv /\ OrderInv /\ ContentInv
    OBVIOUS
<1>1. /\ down = <<>> /\ up = <<>> /\ unsent = {} /\ credit = 0 /\ last = 0 /\ version = 1
      /\ written = Nobody
    BY DEF ConnectionInit
<1>2. ASSUME NEW s \in Subscription
      PROVE  /\ observer[s].stage = "new" /\ ~Unread(s) /\ observer[s].shown = 0
             /\ request[s].stage = "none" /\ view[s].stage = "none" /\ written # s
    BY <1>1, ConnectionBounds DEF ConnectionInit, ConnCall, Unread
<1>3. ToSet(down) = {} /\ ToSet(up) = {} /\ DOMAIN down = {}
    BY <1>1 DEF ToSet
<1>4. CreditInv
    BY <1>1, <1>2, <1>3 DEF CreditInv, OneDatum, Mail
<1>5. OrderInv
    BY <1>2, <1>3 DEF OrderInv, OrderOf, EndLast, Has
<1>6. ContentInv
    BY <1>1, <1>2, <1>3 DEF ContentInv, ContentOf, Fresh, Flowing, Held, Unbegun
<1>. QED
    BY <1>4, <1>5, <1>6

(* One message of one version is outstanding, and it follows what the      *)
(* client has shown: it is waiting for its consumer, or on its way.        *)
LEMMA StreamsRead ==
    ASSUME ConnTypeOK, CreditInv, ContentInv, NEW s \in Subscription, Held(s)
    PROVE  Consecutive(s)
<1>1. Following(s)
    BY DEF ContentInv, ContentOf
<1>2. \A i \in DOMAIN down : down[i] \in ToSet(down)
    BY DEF ToSet
<1>3. observer[s].events \in Seq(EventMessage)
    BY DEF ConnTypeOK, Observer, Events
<1>4. ASSUME NEW i \in DOMAIN observer[s].events
      PROVE  Follows(Read(s, i - 1), observer[s].events[i])
    <2>1. Unread(s) /\ Len(observer[s].events) = 1
        BY <1>3, <1>4 DEF Unread, CreditInv
    <2>2. i = 1
        BY <1>3, <1>4, <2>1
    <2>. QED
        BY <1>1, <2>1, <2>2 DEF Following, Read
<1>5. ASSUME NEW i \in DOMAIN down, Coming(i, "event", s)
      PROVE  /\ \A j \in 1 .. i - 1 : ~Coming(j, "event", s)
             /\ Follows(Read(s, Len(observer[s].events)), down[i])
    <2>1. Datum(down[i]) /\ OfEvent(down[i], s)
        BY <1>5 DEF Coming, Datum, OfEvent
    <2>2. i \in Nat
        BY DEF ConnTypeOK
    <2>3. \A j \in 1 .. i - 1 : ~Coming(j, "event", s)
        <3>1. \A j \in DOMAIN down : Datum(down[j]) => j = i
            BY <2>1 DEF CreditInv, OneDatum
        <3>. QED
            BY <2>2, <3>1 DEF Coming, Datum
    <2>4. observer[s].events = <<>>
        BY <1>2, <2>1 DEF CreditInv, NoDatum, Unread
    <2>5. Read(s, Len(observer[s].events)) = observer[s].shown
        BY <2>4 DEF Read
    <2>. QED
        BY <1>1, <1>2, <2>1, <2>3, <2>5 DEF Following
<1>. QED
    BY <1>4, <1>5 DEF Consecutive

(* The messages are in order, and what they carry follows on.              *)
LEMMA StreamsRest == ConnTypeOK /\ CreditInv /\ OrderInv /\ ContentInv => StreamsWhole
<1> SUFFICES ASSUME ConnTypeOK, CreditInv, OrderInv, ContentInv, NEW s \in Subscription
             PROVE  /\ \A i \in DOMAIN down :
                        /\ Coming(i, "event", s) =>
                            /\ observer[s].stage = "calling" => \E j \in 1 .. i - 1 : Coming(j, "result", s)
                            /\ observer[s].stage # "ended"
                        /\ Coming(i, "closed", s) => \A j \in i + 1 .. Len(down) : ~Coming(j, "event", s)
                    /\ Held(s) => Consecutive(s)
    BY DEF StreamsWhole
<1>1. OrderOf(s)
    BY DEF OrderInv
<1>2. down \in Seq(DownMessage)
    BY DEF ConnTypeOK
<1>3. ASSUME NEW i \in DOMAIN down, Coming(i, "event", s)
      PROVE  /\ observer[s].stage = "calling" => \E j \in 1 .. i - 1 : Coming(j, "result", s)
             /\ observer[s].stage # "ended"
    <2>1. Has(down, "event", s)
        BY <1>3 DEF Coming, Has
    <2>2. ASSUME observer[s].stage = "calling" PROVE \E j \in 1 .. i - 1 : Coming(j, "result", s)
        <3>1. PICK j \in 1 .. i - 1 : down[j].kind = "result" /\ down[j].of = s
            BY <1>1, <1>3, <2>2 DEF OrderOf, Ordered, Coming
        <3>2. j \in DOMAIN down
            BY <1>2, <3>1
        <3>. QED
            BY <3>1, <3>2 DEF Coming
    <2>. QED
        BY <1>1, <2>1, <2>2 DEF OrderOf
<1>4. ASSUME NEW i \in DOMAIN down, Coming(i, "closed", s)
      PROVE  \A j \in i + 1 .. Len(down) : ~Coming(j, "event", s)
    BY <1>1, <1>4 DEF OrderOf, EndLast, Coming
<1>. QED
    BY <1>3, <1>4, StreamsRead

(* A subscription's stream stays whole: the client's buffer, the messages  *)
(* on their way and the server's queue, which replaces what the client     *)
(* was not sent in time, add up to one stream of versions.                 *)
THEOREM StreamsStayWhole == ConnectionSpec => []StreamsWhole
<1>. DEFINE Inv == ConnTypeOK /\ ReleaseInv /\ CreditInv /\ OrderInv /\ ContentInv
<1>1. ConnectionInit => Inv
    BY ReleaseInitial, StreamsInitial
<1>2. Inv /\ [ConnectionNext]_connectionVars => Inv'
    BY ConnTyped, ReleaseStep, CreditStep, OrderStep, ContentStep
<1>3. Inv => StreamsWhole
    BY StreamsRest
<1>. QED
    BY <1>1, <1>2, <1>3, PTL DEF ConnectionSpec

=============================================================================
