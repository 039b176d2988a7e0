----------------------------- MODULE RuntimeHub -----------------------------
(***************************************************************************)
(* The control server's registry of runtimes: which runtime owns which     *)
(* thread, from the request to resume it to the end of its run, and who    *)
(* waits for whom when runtimes end.  A runtime started under another's    *)
(* thread lives no longer than that other.                                 *)
(***************************************************************************)
CONSTANTS
    Runtime,
    HubThread,   \* logical threads
    NoThread, NoRuntime

ASSUME Registry == NoThread \notin HubThread /\ NoRuntime \notin Runtime

VARIABLES
    runtime,   \* every managed session: its stage, reservation, thread and ancestry
    sessions,  \* the runtime registered for each thread
    hub        \* whether the server's context has ended, and what Close is at
hubVars == <<runtime, sessions, hub>>

(* A runtime not yet started, and one joined: nothing else of it is kept.  *)
Blank(stage) ==
    [stage |-> stage, resume |-> NoThread, id |-> NoThread, above |-> {}, parent |-> NoRuntime,
     canceled |-> stage = "done", awaits |-> {}]
HubInit ==
    /\ runtime = [m \in Runtime |-> Blank("new")]
    /\ sessions = [t \in HubThread |-> NoRuntime]
    /\ hub = [ended |-> FALSE, close |-> "open"]

-----------------------------------------------------------------------------
Members == {m \in Runtime : runtime[m].stage \in {"running", "returned", "joining"}}

(* A context ends with its own cancellation, an ancestor's or the server's. *)
Ended(m) ==
    hub.ended \/ runtime[m].canceled \/ \E a \in runtime[m].above : runtime[a].canceled
Stopping == hub.ended \/ hub.close # "open"

Reserved(t, others) == \E m \in others : runtime[m].resume = t

(* Mutated forms: a registered thread is not looked for; the parent's end  *)
(* is not.                                                                 *)
AdmissibleRegistered(t, p) ==
    (p # NoRuntime => ~Ended(p)) /\ (t # NoThread => ~Reserved(t, Members))
AdmissibleOrphan(t, p) == t # NoThread => sessions[t] = NoRuntime /\ ~Reserved(t, Members)

(* Admission: of a thread to resume or none, under a parent's thread or    *)
(* none.                                                                   *)
Admissible(t, p) ==
    /\ p # NoRuntime => ~Ended(p)
    /\ t # NoThread => sessions[t] = NoRuntime /\ ~Reserved(t, Members)

AdmitRuntime(m, t, p) ==
    /\ ~Stopping /\ runtime[m].stage = "new"
    /\ p # NoRuntime => \E u \in HubThread : sessions[u] = p
    /\ Admissible(t, p)
    /\ runtime' = [runtime EXCEPT ![m] =
            [@ EXCEPT !.stage = "running", !.resume = t, !.parent = p,
                      !.above = IF p = NoRuntime THEN {} ELSE runtime[p].above \cup {p}]]
    /\ UNCHANGED <<sessions, hub>>

(* The run opens another saved thread, or gives an opening up.             *)
ReserveThread(m, t) ==
    /\ runtime[m].stage = "running" /\ ~Stopping /\ ~Ended(m)
    /\ t # NoThread => sessions[t] \in {NoRuntime, m} /\ ~Reserved(t, Members \ {m})
    /\ runtime' = [runtime EXCEPT ![m].resume = t]
    /\ UNCHANGED <<sessions, hub>>

(* The run publishes the thread it is on, which replaces the one before it; *)
(* it is refused one that is another's, and then ends.                     *)
RegisterSummary(m, t) ==
    /\ runtime[m].stage = "running" /\ ~Stopping /\ ~Ended(m)
    /\ sessions[t] \in {NoRuntime, m} /\ ~Reserved(t, Members \ {m})
    /\ runtime' = [runtime EXCEPT ![m].id = t, ![m].resume = IF @ = t THEN NoThread ELSE @]
    /\ sessions' = [u \in HubThread |-> IF u = t THEN m
                        ELSE IF u = runtime[m].id THEN NoRuntime ELSE sessions[u]]
    /\ UNCHANGED hub

(* A client or the caller that started it ends a runtime, as does a        *)
(* registration that was refused.                                          *)
CancelRuntime(m) ==
    /\ runtime[m].stage \in {"running", "returned"}
    /\ runtime' = [runtime EXCEPT ![m].canceled = TRUE]
    /\ UNCHANGED <<sessions, hub>>

(* The run returns, of itself or because its context has ended.            *)
RunReturns(m) ==
    /\ runtime[m].stage = "running"
    /\ runtime' = [runtime EXCEPT ![m].stage = "returned"]
    /\ UNCHANGED <<sessions, hub>>

(* Its context ends before its children are looked for: no later one can   *)
(* be admitted under it.                                                   *)
Children(m) == {c \in Members : runtime[c].parent = m}
AwaitChildren(m) ==
    /\ runtime[m].stage = "returned"
    /\ runtime' = [runtime EXCEPT ![m] =
            [@ EXCEPT !.stage = "joining", !.canceled = TRUE, !.awaits = Children(m)]]
    /\ UNCHANGED <<sessions, hub>>

(* Every thread of the runtime leaves the registry with it.                *)
Unregistered(m) == [t \in HubThread |-> IF sessions[t] = m THEN NoRuntime ELSE sessions[t]]
RemoveRuntime(m) ==
    /\ runtime[m].stage = "joining"
    /\ \A c \in runtime[m].awaits : runtime[c].stage = "done"
    /\ runtime' = [runtime EXCEPT ![m] = Blank("done")]
    /\ sessions' = Unregistered(m)
    /\ UNCHANGED hub

(* The server's context ends; Close cancels all runtimes and joins them.   *)
EndServer ==
    /\ ~hub.ended
    /\ hub' = [hub EXCEPT !.ended = TRUE]
    /\ UNCHANGED <<runtime, sessions>>
CloseHub ==
    /\ hub.close = "open"
    /\ hub' = [hub EXCEPT !.close = "joining"]
    /\ runtime' = [m \in Runtime |->
            IF m \in Members THEN [runtime[m] EXCEPT !.canceled = TRUE] ELSE runtime[m]]
    /\ UNCHANGED sessions
HubClosed ==
    /\ hub.close = "joining" /\ Members = {}
    /\ hub' = [hub EXCEPT !.close = "closed"]
    /\ UNCHANGED <<runtime, sessions>>

-----------------------------------------------------------------------------
RuntimeStep(m) ==
    \/ \E t \in HubThread \cup {NoThread} :
        ReserveThread(m, t) \/ \E p \in Runtime \cup {NoRuntime} : AdmitRuntime(m, t, p)
    \/ \E t \in HubThread : RegisterSummary(m, t)
    \/ CancelRuntime(m) \/ RunReturns(m) \/ AwaitChildren(m) \/ RemoveRuntime(m)
HubNext == (\E m \in Runtime : RuntimeStep(m)) \/ EndServer \/ CloseHub \/ HubClosed

HubSpec == HubInit /\ [][HubNext]_hubVars

-----------------------------------------------------------------------------
(* No thread ever has two owners: registered, being opened or about to be  *)
(* resumed, it is one runtime's until that one has been joined             *)
(* (hub.go, admitRuntime, reserveThread and registerSummary).              *)
ThreadOwners(t) == {m \in Members : runtime[m].resume = t \/ runtime[m].id = t}
ThreadOwnedOnce == \A t \in HubThread :
    /\ \A m, n \in ThreadOwners(t) : m = n
    /\ sessions[t] # NoRuntime => sessions[t] \in Members /\ runtime[sessions[t]].id = t

(* Whoever has seen a runtime done, or the hub closed, finds nothing of it *)
(* left: no runtime started under it, and no thread registered             *)
(* (hub.go, run and Close).                                                *)
JoinedLast ==
    /\ \A m \in Runtime : runtime[m].stage = "done" =>
            \A c \in Members : m \notin runtime[c].above
    /\ hub.close = "closed" => Members = {} /\ \A t \in HubThread : sessions[t] = NoRuntime
=============================================================================
