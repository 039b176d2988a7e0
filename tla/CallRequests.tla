---------------------------- MODULE CallRequests ----------------------------
(***************************************************************************)
(* Requests of one router against the retained history: each pins its      *)
(* session's remembered calls, acquires a process lease on its thread's    *)
(* storage, hands that lease over to the cache, and ends the hand-over     *)
(* when the host has been told that its thread is idle.                    *)
(*                                                                         *)
(* The cache's operations hold its lock; acquiring a lease and disposing   *)
(* of one do not.                                                          *)
(***************************************************************************)
EXTENDS Integers, Sequences, FiniteSets, SequencesExt

CONSTANTS
    Request, NoRequest,
    CallSession,    \* keys of remembered calls: a directory and a thread
    CallThread,
    ThreadOf,       \* the thread of a session
    Call,
    CallSize,       \* bytes of a remembered call
    MaxCalls,       \* calls remembered per session
    MaxCallBytes,   \* bytes remembered per session
    MaxSessions,    \* sessions remembered
    MaxBytes        \* bytes remembered in all

ASSUME CallCapacities ==
    /\ IsFiniteSet(Request) /\ NoRequest \notin Request
    /\ ThreadOf \in [CallSession -> CallThread] /\ CallSize \in [Call -> Nat \ {0}]
    /\ MaxCalls \in Nat \ {0} /\ MaxCallBytes \in Nat /\ MaxSessions \in Nat \ {0} /\ MaxBytes \in Nat

VARIABLES
    request,   \* each request: where it is, its session, whether it ended idle
    lease,     \* the cache's leases: the newest bound request, and whose handle is kept
    handle,    \* process leases that are held
    phase,     \* the cache admits, drains or is closed
    facts,     \* remembered calls of each session, oldest first
    recent,    \* sessions with remembered calls, least recently used first
    bytes,     \* what they occupy
    newest     \* the request that bound its thread last (specification only)
callVars == <<request, lease, handle, phase, facts, recent, bytes, newest>>
factVars == <<facts, recent, bytes>>

NoLease == [current |-> NoRequest, kept |-> NoRequest]
Stage == {"new", "begun", "acquired", "refused", "redundant", "bound", "finished"}

CallInit ==
    /\ request \in [Request -> [stage : {"new"}, session : CallSession, idle : {FALSE}]]
    /\ lease = [t \in CallThread |-> NoLease]
    /\ handle = {} /\ phase = "open"
    /\ facts = [s \in CallSession |-> <<>>] /\ recent = <<>> /\ bytes = 0
    /\ newest = [t \in CallThread |-> NoRequest]

ThreadFor(r) == ThreadOf[request[r].session]
(* A request pins its session from Begin until it is finished, unless the  *)
(* cache is closed.                                                        *)
Pins(r) == request[r].stage \notin {"new", "finished"} /\ phase # "closed"
Pinned(s) == \E r \in Request : Pins(r) /\ request[r].session = s
Moved(r, stage) == request' = [request EXCEPT ![r].stage = stage]

-----------------------------------------------------------------------------
(* Requests.                                                               *)

Touched(s) == Append(SelectSeq(recent, LAMBDA o : o # s), s)

Begin(r) ==
    LET s == request[r].session IN
    /\ request[r].stage = "new" /\ phase = "open"
    /\ Moved(r, "begun")
    /\ recent' = IF facts[s] = <<>> THEN recent ELSE Touched(s)
    /\ UNCHANGED <<lease, handle, phase, facts, bytes, newest>>

(* The process lease is acquired outside the lock, or that fails.          *)
Acquire(r) ==
    /\ request[r].stage = "begun"
    /\ Moved(r, "acquired")
    /\ handle' = handle \cup {r}
    /\ UNCHANGED <<lease, phase, factVars, newest>>

(* The first lease of a thread is kept; a later one only moves the         *)
(* hand-over to the newer request, and is to be disposed of.               *)
BindLease(r) ==
    LET t == ThreadFor(r) IN
    /\ request[r].stage = "acquired"
    /\ IF phase # "open"
       THEN Moved(r, "refused") /\ UNCHANGED <<lease, newest>>
       ELSE /\ Moved(r, IF lease[t].kept = NoRequest THEN "bound" ELSE "redundant")
            /\ lease' = [lease EXCEPT ![t] = [current |-> r, kept |-> IF @.kept = NoRequest THEN r ELSE @.kept]]
            /\ newest' = [newest EXCEPT ![t] = r]
    /\ UNCHANGED <<handle, phase, factVars>>

(* Mutated form: the redundant lease is forgotten.                         *)
DiscardNone(r) ==
    /\ request[r].stage \in {"refused", "redundant"}
    /\ Moved(r, IF request[r].stage = "redundant" THEN "bound" ELSE "begun")
    /\ UNCHANGED <<lease, handle, phase, factVars, newest>>
Discard(r) ==
    /\ request[r].stage \in {"refused", "redundant"}
    /\ Moved(r, IF request[r].stage = "redundant" THEN "bound" ELSE "begun")
    /\ handle' = handle \ {r}
    /\ UNCHANGED <<lease, phase, factVars, newest>>

(* Mutated form: any idle request ends the hand-over.                      *)
EndsAny(r, idle) ==
    /\ idle /\ phase = "open"
    /\ \A q \in Request \ {r} : Pins(q) => ThreadFor(q) # ThreadFor(r)

(* The newest request of a thread, once the host is idle and no other is   *)
(* at work.                                                                *)
EndsHandoff(r, idle) ==
    /\ idle /\ phase = "open" /\ lease[ThreadFor(r)].current = r
    /\ \A q \in Request \ {r} : Pins(q) => ThreadFor(q) # ThreadFor(r)

(* A request that got no lease, or failed since, is finished as not idle.  *)
FinishRequest(r, idle) ==
    LET t == ThreadFor(r) IN
    /\ request[r].stage \in {"begun", "bound"}
    /\ idle => request[r].stage = "bound"
    /\ request' = [request EXCEPT ![r].stage = "finished", ![r].idle = idle]
    /\ IF EndsHandoff(r, idle)
       THEN lease' = [lease EXCEPT ![t] = NoLease] /\ handle' = handle \ {lease[t].kept}
       ELSE UNCHANGED <<lease, handle>>
    /\ UNCHANGED <<phase, factVars, newest>>

StopAdmission ==
    /\ phase = "open" /\ phase' = "draining"
    /\ UNCHANGED <<request, lease, handle, factVars, newest>>
CloseCalls ==
    /\ phase = "draining" /\ phase' = "closed"
    /\ handle' = handle \ {lease[t].kept : t \in CallThread}
    /\ lease' = [t \in CallThread |-> NoLease]
    /\ facts' = [s \in CallSession |-> <<>>] /\ recent' = <<>> /\ bytes' = 0
    /\ UNCHANGED <<request, newest>>

-----------------------------------------------------------------------------
(* Remembered calls.                                                       *)

Held(q) == {q[i] : i \in DOMAIN q}
CallBytes(q) == LET sum[i \in 0 .. Len(q)] == IF i = 0 THEN 0 ELSE sum[i - 1] + CallSize[q[i]] IN sum[Len(q)]

(* The k oldest of q that are not protected are left out.                  *)
Without(q, protected, k) ==
    LET old == SelectSeq(q, LAMBDA c : c \notin protected)
        out == {old[i] : i \in 1 .. k}
    IN  SelectSeq(q, LAMBDA c : c \notin out)
Fits(q) == Len(q) <= MaxCalls /\ CallBytes(q) <= MaxCallBytes
Trims(q, protected) == {k \in 0 .. Cardinality(Held(q) \ protected) : Fits(Without(q, protected, k))}

(* Mutated form: pinned sessions go as well.                               *)
EvictablePinned(s) == SelectSeq(recent, LAMBDA o : o # s)
(* The sessions that may go for others, least recently used first.         *)
Evictable(s) == SelectSeq(recent, LAMBDA o : o # s /\ ~Pinned(o))
BytesOf(S) == LET sum[i \in 0 .. Len(recent)] ==
                    IF i = 0 THEN 0 ELSE sum[i - 1] + IF recent[i] \in S THEN CallBytes(facts[recent[i]]) ELSE 0
              IN  sum[Len(recent)]
Least(S) == CHOOSE k \in S : \A m \in S : k <= m

Growth(s, calls) == CallBytes(calls) - CallBytes(facts[s])

(* New calls come after those remembered; a repeated one keeps its place.  *)
(* Either all of them are remembered, or nothing changes.                  *)
Remember(r, batch) ==
    LET s      == request[r].session
        added  == facts[s] \o SelectSeq(batch, LAMBDA c : c \notin Held(facts[s]))
        calls  == Without(added, Held(batch), Least(Trims(added, Held(batch))))
        others == Evictable(s)
        fits(k) == LET gone == {others[i] : i \in 1 .. k} IN
                   /\ Cardinality((Held(recent) \cup {s}) \ gone) <= MaxSessions
                   /\ bytes + Growth(s, calls) - BytesOf(gone) <= MaxBytes
        enough == {k \in 0 .. Len(others) : fits(k)}
        gone   == {others[i] : i \in 1 .. Least(enough)}
    IN  /\ request[r].stage = "bound" /\ phase # "closed"
        /\ Trims(added, Held(batch)) # {} /\ enough # {}
        /\ facts' = [o \in CallSession |-> IF o = s THEN calls ELSE IF o \in gone THEN <<>> ELSE facts[o]]
        /\ recent' = SelectSeq(Touched(s), LAMBDA o : o \notin gone)
        /\ bytes' = bytes + Growth(s, calls) - BytesOf(gone)
        /\ UNCHANGED <<request, lease, handle, phase, newest>>

(* A batch names a call once; the bound: two calls.                        *)
Batches == {<<c>> : c \in Call} \cup {q \in Call \X Call : q[1] # q[2]}

CallNext ==
    \/ \E r \in Request :
        \/ Begin(r) \/ Acquire(r) \/ BindLease(r) \/ Discard(r)
        \/ \E idle \in BOOLEAN : FinishRequest(r, idle)
        \/ \E batch \in Batches : Remember(r, batch)
    \/ StopAdmission \/ CloseCalls
CallSpec == CallInit /\ [][CallNext]_callVars

-----------------------------------------------------------------------------
RequestTypeOK ==
    /\ request \in [Request -> [stage : Stage, session : CallSession, idle : BOOLEAN]]
    /\ lease \in [CallThread -> [current : Request \cup {NoRequest}, kept : Request \cup {NoRequest}]]
    /\ handle \subseteq Request /\ phase \in {"open", "draining", "closed"}
    /\ newest \in [CallThread -> Request \cup {NoRequest}]

(* While a request is at work its thread's storage stays leased, whichever *)
(* request's lease the cache has kept (call_requests.go, BindLease).       *)
RequestLeased == \A r \in Request :
    request[r].stage \in {"redundant", "bound"} /\ phase # "closed" => lease[ThreadFor(r)].kept \in handle

(* Every process lease is kept for exactly one thread or about to be bound *)
(* or disposed of: none leaks, and none is released twice, also when the   *)
(* cache is closed in between.                                             *)
LeaseAccounted ==
    /\ handle = ({lease[t].kept : t \in CallThread} \ {NoRequest})
                 \cup {r \in Request : request[r].stage \in {"acquired", "refused", "redundant"}}
    /\ \A r \in Request : request[r].stage \in {"acquired", "refused", "redundant"} =>
            \A t \in CallThread : lease[t].kept # r

(* A thread whose newest request handed work to the host stays leased      *)
(* after that request: a late terminal of an older one does not end the    *)
(* hand-over (call_requests.go, Finish).                                   *)
HandoffKept == \A t \in CallThread :
    /\ newest[t] # NoRequest /\ phase # "closed"
    /\ request[newest[t]].stage # "finished" \/ ~request[newest[t]].idle
    => lease[t].kept \in handle

(* A session with a request at work gives up remembered calls only to      *)
(* newer ones of its own, and no more of them than the newest needs: with  *)
(* the youngest of those given up it would not fit (calls.go, Remember).   *)
FactsKept == [][\A s \in CallSession :
    LET lost == SelectSeq(facts[s], LAMBDA c : c \notin Held(facts'[s])) IN
    Pinned(s) /\ phase' # "closed" /\ lost # <<>> =>
        /\ facts'[s] # <<>> /\ Last(facts'[s]) \notin Held(facts[s])
        /\ ~Fits(Append(facts'[s], Last(lost)))]_callVars
=============================================================================
