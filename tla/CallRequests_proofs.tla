------------------------ MODULE CallRequests_proofs ------------------------
(***************************************************************************)
(* Proofs about CallRequests: who holds which process lease, for any       *)
(* number of requests, sessions and threads.                               *)
(***************************************************************************)
EXTENDS CallRequests, TLAPS

InFlight == {"acquired", "refused", "redundant"}
Kept == {lease[t].kept : t \in CallThread} \ {NoRequest}
Flying == {r \in Request : request[r].stage \in InFlight}

(* What every reachable state satisfies, one conjunct per relation.        *)
ClosedEmpty == phase = "closed" => \A t \in CallThread : lease[t].kept = NoRequest
KeptBound == \A t \in CallThread : LET k == lease[t].kept IN
    k # NoRequest => ThreadFor(k) = t /\ request[k].stage \in {"bound", "finished"}
HandlesKnown == handle = Kept \cup Flying
WorkLeased == \A r \in Request :
    request[r].stage \in {"redundant", "bound"} /\ phase # "closed" => lease[ThreadFor(r)].kept # NoRequest
CurrentNewest == \A t \in CallThread : lease[t].current \in {NoRequest, newest[t]}
NewestBound == \A t \in CallThread : LET n == newest[t] IN
    n # NoRequest => ThreadFor(n) = t /\ request[n].stage \in {"redundant", "bound", "finished"}
HandoffOver == \A t \in CallThread : LET n == newest[t] IN
    phase # "closed" /\ n # NoRequest /\ lease[t].kept = NoRequest => request[n].stage = "finished" /\ request[n].idle
CallInv ==
    /\ RequestTypeOK /\ ClosedEmpty /\ KeptBound /\ HandlesKnown /\ WorkLeased
    /\ CurrentNewest /\ NewestBound /\ HandoffOver

(* A request's thread is one of the threads.                               *)
LEMMA ThreadKnown == ASSUME RequestTypeOK, NEW r \in Request PROVE ThreadFor(r) \in CallThread
BY CallCapacities DEF ThreadFor, RequestTypeOK

(* It holds before the first request.                                      *)
LEMMA CallInitial == CallInit => CallInv
<1> SUFFICES ASSUME CallInit PROVE CallInv
    OBVIOUS
<1> USE DEF CallInit
<1>1. RequestTypeOK
    BY DEF RequestTypeOK, NoLease, Stage
<1>2. \A t \in CallThread : lease[t].kept = NoRequest /\ lease[t].current = NoRequest /\ newest[t] = NoRequest
    BY DEF NoLease
<1>3. \A r \in Request : request[r].stage = "new"
    OBVIOUS
<1>4. Kept = {} /\ Flying = {}
    BY <1>2, <1>3 DEF Kept, Flying, InFlight
<1>. QED
    BY <1>1, <1>2, <1>3, <1>4
    DEF CallInv, ClosedEmpty, KeptBound, HandlesKnown, WorkLeased, CurrentNewest, NewestBound, HandoffOver

(* Moving a request changes where that request is, and nothing else.       *)
LEMMA OnlyMoved ==
    ASSUME RequestTypeOK, NEW r \in Request, NEW stage \in Stage, Moved(r, stage)
    PROVE  /\ request' \in [Request -> [stage : Stage, session : CallSession, idle : BOOLEAN]]
           /\ request'[r].stage = stage
           /\ \A q \in Request :
                /\ q # r => request'[q] = request[q]
                /\ request'[q].session = request[q].session /\ request'[q].idle = request[q].idle
                /\ ThreadFor(q)' = ThreadFor(q)
BY DEF RequestTypeOK, Moved, ThreadFor

(* What the threads' leases and newest requests are is typed.              *)
LEMMA LeaseTypes ==
    ASSUME RequestTypeOK, NEW t \in CallThread
    PROVE  /\ lease[t].kept \in Request \cup {NoRequest}
           /\ lease[t].current \in Request \cup {NoRequest}
           /\ newest[t] \in Request \cup {NoRequest}
BY DEF RequestTypeOK

(* A request may move between stages that say the same about leases.       *)
LEMMA MoveKeeps ==
    ASSUME CallInv, NEW r \in Request, NEW stage \in {"begun", "acquired", "refused"},
           request[r].stage \in {"new", "begun", "acquired", "refused"},
           Moved(r, stage), UNCHANGED <<lease, phase, newest>>,
           handle' = IF stage \in InFlight THEN handle \cup {r} ELSE handle \ {r}
    PROVE  CallInv'
<1>1. RequestTypeOK /\ stage \in Stage
    BY DEF CallInv, Stage
<1>2. \A q \in Request : q # r => request'[q] = request[q]
    BY <1>1, OnlyMoved
<1>3. \A q \in Request : ThreadFor(q)' = ThreadFor(q) /\ request'[q].idle = request[q].idle
    BY <1>1, OnlyMoved
<1>4. request'[r].stage = stage
    BY <1>1, OnlyMoved
<1>5. RequestTypeOK'
    BY <1>1, OnlyMoved DEF RequestTypeOK
<1>6. Kept' = Kept /\ r \notin Kept
    BY DEF Kept, CallInv, KeptBound
<1>7. Flying' = IF stage \in InFlight THEN Flying \cup {r} ELSE Flying \ {r}
    BY <1>2, <1>4 DEF Flying
<1>8. ClosedEmpty' /\ CurrentNewest'
    BY DEF CallInv, ClosedEmpty, CurrentNewest
<1>9. KeptBound'
    BY <1>1, <1>2, <1>3, LeaseTypes DEF CallInv, KeptBound
<1>10. HandlesKnown'
    BY <1>6, <1>7 DEF CallInv, HandlesKnown
<1>11. WorkLeased'
    BY <1>2, <1>3, <1>4 DEF CallInv, WorkLeased
<1>12. NewestBound'
    BY <1>1, <1>2, <1>3, LeaseTypes DEF CallInv, NewestBound
<1>13. HandoffOver'
    BY <1>1, <1>2, <1>3, LeaseTypes DEF CallInv, HandoffOver, NewestBound
<1>. QED
    BY <1>5, <1>8, <1>9, <1>10, <1>11, <1>12, <1>13 DEF CallInv

(* Binding keeps the first lease of a thread.                              *)
LEMMA BindKeeps ==
    ASSUME CallInv, NEW r \in Request, BindLease(r), phase = "open"
    PROVE  CallInv'
<1> DEFINE t == ThreadFor(r)
           stage == IF lease[t].kept = NoRequest THEN "bound" ELSE "redundant"
<1>1. RequestTypeOK /\ stage \in Stage /\ Moved(r, stage) /\ t \in CallThread
    BY ThreadKnown DEF CallInv, Stage, BindLease
<1>2. \A q \in Request : q # r => request'[q] = request[q]
    BY <1>1, OnlyMoved
<1>3. \A q \in Request : ThreadFor(q)' = ThreadFor(q) /\ request'[q].idle = request[q].idle
    BY <1>1, OnlyMoved
<1>4. request'[r].stage = stage /\ request[r].stage = "acquired"
    BY <1>1, OnlyMoved DEF BindLease
<1>5. /\ \A u \in CallThread : u # t => lease'[u] = lease[u] /\ newest'[u] = newest[u]
      /\ lease'[t].current = r /\ newest'[t] = r
      /\ lease'[t].kept = IF lease[t].kept = NoRequest THEN r ELSE lease[t].kept
      /\ handle' = handle /\ phase' = phase
    BY <1>1 DEF BindLease, RequestTypeOK
<1>6. RequestTypeOK'
    <2>1. lease' \in [CallThread -> [current : Request \cup {NoRequest}, kept : Request \cup {NoRequest}]]
        BY <1>1, LeaseTypes DEF BindLease, RequestTypeOK
    <2>2. newest' \in [CallThread -> Request \cup {NoRequest}]
        BY <1>1 DEF BindLease, RequestTypeOK
    <2>. QED
        BY <1>1, <1>5, <2>1, <2>2, OnlyMoved DEF RequestTypeOK
<1>7. r \notin Kept /\ r # NoRequest
    BY <1>4, CallCapacities DEF Kept, CallInv, KeptBound
<1>8. Kept' = IF lease[t].kept = NoRequest THEN Kept \cup {r} ELSE Kept
    BY <1>1, <1>5, <1>7 DEF Kept
<1>9. Flying' = IF lease[t].kept = NoRequest THEN Flying \ {r} ELSE Flying
    BY <1>2, <1>4 DEF Flying, InFlight
<1>10. r \in Flying
    BY <1>4 DEF Flying, InFlight
<1>11. HandlesKnown'
    BY <1>5, <1>8, <1>9, <1>10 DEF CallInv, HandlesKnown
<1>12. ClosedEmpty' /\ CurrentNewest'
    BY <1>5 DEF CallInv, ClosedEmpty, CurrentNewest
<1>13. KeptBound'
    BY <1>1, <1>2, <1>3, <1>4, <1>5, LeaseTypes DEF CallInv, KeptBound
<1>14. WorkLeased'
    BY <1>2, <1>3, <1>4, <1>5, <1>7, ThreadKnown, <1>1 DEF CallInv, WorkLeased
<1>15. NewestBound'
    BY <1>1, <1>2, <1>3, <1>4, <1>5, LeaseTypes DEF CallInv, NewestBound
<1>16. HandoffOver'
    BY <1>1, <1>2, <1>3, <1>4, <1>5, <1>7, LeaseTypes DEF CallInv, HandoffOver, NewestBound
<1>. QED
    BY <1>6, <1>11, <1>12, <1>13, <1>14, <1>15, <1>16 DEF CallInv

(* A redundant lease is disposed of; the one kept is another request's.    *)
LEMMA DiscardKeeps ==
    ASSUME CallInv, NEW r \in Request, Discard(r), request[r].stage = "redundant"
    PROVE  CallInv'
<1>1. RequestTypeOK /\ "bound" \in Stage /\ Moved(r, "bound")
    BY DEF CallInv, Stage, Discard
<1>2. \A q \in Request : q # r => request'[q] = request[q]
    BY <1>1, OnlyMoved
<1>3. \A q \in Request : ThreadFor(q)' = ThreadFor(q) /\ request'[q].idle = request[q].idle
    BY <1>1, OnlyMoved
<1>4. request'[r].stage = "bound"
    BY <1>1, OnlyMoved
<1>5. lease' = lease /\ newest' = newest /\ phase' = phase /\ handle' = handle \ {r}
    BY DEF Discard
<1>6. RequestTypeOK'
    BY <1>1, <1>5, OnlyMoved DEF RequestTypeOK
<1>7. Kept' = Kept /\ r \notin Kept
    BY <1>5 DEF Kept, CallInv, KeptBound
<1>8. Flying' = Flying \ {r}
    BY <1>2, <1>4 DEF Flying, InFlight
<1>9. HandlesKnown'
    BY <1>5, <1>7, <1>8 DEF CallInv, HandlesKnown
<1>10. ClosedEmpty' /\ CurrentNewest'
    BY <1>5 DEF CallInv, ClosedEmpty, CurrentNewest
<1>11. KeptBound'
    BY <1>1, <1>2, <1>3, <1>5, LeaseTypes DEF CallInv, KeptBound
<1>12. WorkLeased'
    BY <1>2, <1>3, <1>5 DEF CallInv, WorkLeased
<1>13. NewestBound'
    BY <1>1, <1>2, <1>3, <1>4, <1>5, LeaseTypes DEF CallInv, NewestBound
<1>14. HandoffOver'
    BY <1>1, <1>2, <1>3, <1>5, LeaseTypes DEF CallInv, HandoffOver, NewestBound
<1>. QED
    BY <1>6, <1>9, <1>10, <1>11, <1>12, <1>13, <1>14 DEF CallInv

(* The last request of an idle thread releases the lease that was kept,    *)
(* any other leaves every lease where it is.                               *)
LEMMA FinishKeeps ==
    ASSUME CallInv, NEW r \in Request, NEW idle \in BOOLEAN, FinishRequest(r, idle)
    PROVE  CallInv'
<1> DEFINE t == ThreadFor(r)
<1>1. RequestTypeOK /\ t \in CallThread
    BY ThreadKnown DEF CallInv
<1>0. request' = [request EXCEPT ![r].stage = "finished", ![r].idle = idle]
    BY DEF FinishRequest
<1>2. request[r].stage \in {"begun", "bound"} /\ phase' = phase /\ newest' = newest
    BY DEF FinishRequest
<1>3. \A q \in Request : q # r => request'[q] = request[q]
    BY <1>1, <1>0 DEF RequestTypeOK
<1>4. \A q \in Request : request'[q].session = request[q].session
    BY <1>1, <1>0 DEF RequestTypeOK
<1>5. \A q \in Request : ThreadFor(q)' = ThreadFor(q)
    BY <1>4 DEF ThreadFor
<1>6. request'[r].stage = "finished" /\ request'[r].idle = idle
    BY <1>1, <1>0 DEF RequestTypeOK
<1>7. request' \in [Request -> [stage : Stage, session : CallSession, idle : BOOLEAN]]
    BY <1>1, <1>0 DEF RequestTypeOK, Stage
<1>8. Flying' = Flying
    BY <1>2, <1>3, <1>6 DEF Flying, InFlight
<1>9. NewestBound'
    BY <1>1, <1>2, <1>3, <1>5, <1>6, LeaseTypes DEF CallInv, NewestBound
<1>10. CASE EndsHandoff(r, idle)
    <2>1. /\ idle /\ phase = "open" /\ lease[t].current = r
          /\ \A q \in Request \ {r} : Pins(q) => ThreadFor(q) # t
        BY <1>10 DEF EndsHandoff
    <2>2. lease' = [lease EXCEPT ![t] = NoLease] /\ handle' = handle \ {lease[t].kept}
        BY <1>10 DEF FinishRequest
    <2>3. \A u \in CallThread : u # t => lease'[u] = lease[u]
        BY <1>1, <2>2 DEF RequestTypeOK
    <2>4. lease'[t].kept = NoRequest /\ lease'[t].current = NoRequest
        BY <1>1, <2>2 DEF RequestTypeOK, NoLease
    <2>5. lease' \in [CallThread -> [current : Request \cup {NoRequest}, kept : Request \cup {NoRequest}]]
        BY <1>1, <2>2 DEF RequestTypeOK, NoLease
    <2>6. RequestTypeOK'
        BY <1>1, <1>2, <1>7, <2>2, <2>5 DEF RequestTypeOK
    <2>7. \A u \in CallThread : u # t /\ lease[u].kept # NoRequest => lease[u].kept # lease[t].kept
        BY <1>1, LeaseTypes DEF CallInv, KeptBound
    <2>8. Kept' = Kept \ {lease[t].kept}
        BY <1>1, <2>3, <2>4, <2>7 DEF Kept
    <2>9. lease[t].kept \notin Flying
        BY <1>1, CallCapacities DEF CallInv, KeptBound, Flying, InFlight
    <2>10. HandlesKnown'
        BY <1>8, <2>2, <2>8, <2>9 DEF CallInv, HandlesKnown
    <2>11. ClosedEmpty' /\ CurrentNewest'
        BY <1>2, <2>3, <2>4 DEF CallInv, ClosedEmpty, CurrentNewest
    <2>12. KeptBound'
        BY <1>1, <1>3, <1>5, <1>6, <2>3, <2>4, LeaseTypes DEF CallInv, KeptBound
    <2>13. ASSUME NEW q \in Request, request'[q].stage \in {"redundant", "bound"}
           PROVE  q # r /\ ThreadFor(q) # t /\ request[q].stage \in {"redundant", "bound"}
        BY <1>3, <1>6, <2>1, <2>13 DEF Pins
    <2>14. WorkLeased'
        BY <1>1, <1>2, <1>5, <2>3, <2>13, ThreadKnown DEF CallInv, WorkLeased
    <2>15. newest[t] = r
        BY <1>1, <2>1, CallCapacities DEF CallInv, CurrentNewest
    <2>16. ASSUME NEW u \in CallThread, newest[u] # NoRequest, lease'[u].kept = NoRequest
           PROVE  request'[newest[u]].stage = "finished" /\ request'[newest[u]].idle
        <3>1. CASE u = t
            BY <1>6, <2>1, <2>15, <3>1
        <3>2. CASE u # t
            <4>1. newest[u] \in Request /\ ThreadFor(newest[u]) = u
                BY <1>1, <2>16, LeaseTypes DEF CallInv, NewestBound
            <4>2. request[newest[u]].stage = "finished" /\ request[newest[u]].idle
                BY <2>1, <2>3, <2>16, <3>2 DEF CallInv, HandoffOver
            <4>3. newest[u] # r
                BY <3>2, <4>1
            <4>. QED
                BY <1>3, <4>1, <4>2, <4>3
        <3>. QED
            BY <3>1, <3>2
    <2>17. HandoffOver'
        BY <1>2, <2>16 DEF HandoffOver
    <2>. QED
        BY <1>9, <2>6, <2>10, <2>11, <2>12, <2>14, <2>17 DEF CallInv
<1>11. CASE ~EndsHandoff(r, idle)
    <2>1. lease' = lease /\ handle' = handle
        BY <1>11 DEF FinishRequest
    <2>2. RequestTypeOK'
        BY <1>1, <1>2, <1>7, <2>1 DEF RequestTypeOK
    <2>3. HandlesKnown'
        BY <1>8, <2>1 DEF CallInv, HandlesKnown, Kept
    <2>4. ClosedEmpty' /\ CurrentNewest'
        BY <1>2, <2>1 DEF CallInv, ClosedEmpty, CurrentNewest
    <2>5. KeptBound'
        BY <1>1, <1>3, <1>5, <1>6, <2>1, LeaseTypes DEF CallInv, KeptBound
    <2>6. WorkLeased'
        BY <1>2, <1>3, <1>5, <1>6, <2>1 DEF CallInv, WorkLeased
    <2>7. HandoffOver'
        BY <1>1, <1>2, <1>3, <2>1, LeaseTypes DEF CallInv, HandoffOver
    <2>. QED
        BY <1>9, <2>2, <2>3, <2>4, <2>5, <2>6, <2>7 DEF CallInv
<1>. QED
    BY <1>10, <1>11

(* Closing the cache releases what it kept, and only that.                 *)
LEMMA CloseKeeps == ASSUME CallInv, CloseCalls PROVE CallInv'
<1>1. /\ phase' = "closed" /\ request' = request /\ newest' = newest
      /\ handle' = handle \ {lease[t].kept : t \in CallThread}
      /\ lease' = [t \in CallThread |-> NoLease]
    BY DEF CloseCalls
<1>2. \A t \in CallThread : lease'[t].kept = NoRequest /\ lease'[t].current = NoRequest
    BY <1>1 DEF NoLease
<1>3. RequestTypeOK'
    BY <1>1 DEF CallInv, RequestTypeOK, NoLease
<1>4. Kept' = {} /\ Flying' = Flying
    BY <1>1, <1>2 DEF Kept, Flying
<1>5. \A t \in CallThread : lease[t].kept \notin Flying
    BY CallCapacities DEF CallInv, KeptBound, Flying, InFlight
<1>6. handle' = Flying
    BY <1>1, <1>5 DEF CallInv, HandlesKnown, Kept
<1>7. HandlesKnown'
    BY <1>4, <1>6 DEF HandlesKnown
<1>8. NewestBound'
    BY <1>1 DEF CallInv, NewestBound, ThreadFor
<1>. QED
    BY <1>1, <1>2, <1>3, <1>7, <1>8 DEF CallInv, ClosedEmpty, KeptBound, WorkLeased, CurrentNewest, HandoffOver

(* The remembered calls and the phases before closing concern no lease.    *)
LEMMA RestKeeps ==
    /\ CallInv
    /\ request' = request /\ lease' = lease /\ handle' = handle /\ newest' = newest
    /\ phase' = phase \/ (phase = "open" /\ phase' = "draining")
    => CallInv'
<1> SUFFICES ASSUME CallInv,
                    request' = request, lease' = lease, handle' = handle, newest' = newest,
                    phase' = phase \/ (phase = "open" /\ phase' = "draining")
             PROVE  CallInv'
    OBVIOUS
<1>1. Kept' = Kept /\ Flying' = Flying
    BY DEF Kept, Flying
<1>2. RequestTypeOK' /\ HandlesKnown'
    BY <1>1 DEF CallInv, RequestTypeOK, HandlesKnown
<1>3. ClosedEmpty' /\ KeptBound' /\ WorkLeased'
    BY DEF CallInv, ClosedEmpty, KeptBound, WorkLeased, ThreadFor
<1>4. CurrentNewest' /\ NewestBound' /\ HandoffOver'
    BY DEF CallInv, CurrentNewest, NewestBound, HandoffOver, ThreadFor
<1>. QED
    BY <1>2, <1>3, <1>4 DEF CallInv

(* Every step of the cache and its requests preserves the invariant.       *)
LEMMA CallStep == CallInv /\ [CallNext]_callVars => CallInv'
<1> SUFFICES ASSUME CallInv, [CallNext]_callVars PROVE CallInv'
    OBVIOUS
<1>1. ASSUME NEW r \in Request, Begin(r) PROVE CallInv'
    <2>1. r \notin handle
        BY <1>1 DEF Begin, CallInv, HandlesKnown, KeptBound, Kept, Flying, InFlight
    <2>. QED
        BY <1>1, <2>1, MoveKeeps DEF Begin, InFlight
<1>2. ASSUME NEW r \in Request, Acquire(r) PROVE CallInv'
    BY <1>2, MoveKeeps DEF Acquire, InFlight
<1>3. ASSUME NEW r \in Request, BindLease(r) PROVE CallInv'
    <2>1. CASE phase = "open"
        BY <1>3, <2>1, BindKeeps
    <2>2. CASE phase # "open"
        <3>1. r \in handle
            BY <1>3 DEF BindLease, CallInv, HandlesKnown, Flying, InFlight
        <3>. QED
            BY <1>3, <2>2, <3>1, MoveKeeps DEF BindLease, InFlight
    <2>. QED
        BY <2>1, <2>2
<1>4. ASSUME NEW r \in Request, Discard(r) PROVE CallInv'
    <2>1. CASE request[r].stage = "redundant"
        BY <1>4, <2>1, DiscardKeeps
    <2>2. CASE request[r].stage = "refused"
        BY <1>4, <2>2, MoveKeeps DEF Discard, InFlight
    <2>. QED
        BY <1>4, <2>1, <2>2 DEF Discard
<1>5. ASSUME NEW r \in Request, NEW idle \in BOOLEAN, FinishRequest(r, idle) PROVE CallInv'
    BY <1>5, FinishKeeps
<1>6. ASSUME NEW r \in Request, NEW batch \in Batches, Remember(r, batch) PROVE CallInv'
    <2>1. request' = request /\ lease' = lease /\ handle' = handle /\ newest' = newest /\ phase' = phase
        BY <1>6, Zenon DEF Remember
    <2>. QED
        BY <2>1, RestKeeps
<1>7. CASE StopAdmission
    BY <1>7, RestKeeps DEF StopAdmission
<1>8. CASE CloseCalls
    BY <1>8, CloseKeeps
<1>9. CASE UNCHANGED callVars
    <2>1. request' = request /\ lease' = lease /\ handle' = handle /\ newest' = newest /\ phase' = phase
        BY <1>9 DEF callVars
    <2>. QED
        BY <2>1, RestKeeps
<1>. QED
    BY <1>1, <1>2, <1>3, <1>4, <1>5, <1>6, <1>7, <1>8, <1>9 DEF CallNext

(* The invariant holds in every reachable state.                           *)
LEMMA CallInvariant == CallSpec => []CallInv
BY CallInitial, CallStep, PTL DEF CallSpec

(* The cache's variables keep their types.                                 *)
THEOREM RequestTypes == CallSpec => []RequestTypeOK
<1>1. CallInv => RequestTypeOK
    BY DEF CallInv
<1>. QED
    BY <1>1, CallInvariant, PTL

(* Every process lease is kept for one thread or on its way, in every      *)
(* interleaving of any number of requests, also across Close               *)
(* (call_requests.go, BindLease, Finish; calls.go, Close).                 *)
THEOREM LeasesAccounted == CallSpec => []LeaseAccounted
<1>1. ASSUME CallInv PROVE LeaseAccounted
    BY <1>1, CallCapacities DEF CallInv, KeptBound, HandlesKnown, Kept, Flying, InFlight, LeaseAccounted
<1>. QED
    BY <1>1, CallInvariant, PTL

(* A request at work has its thread's storage leased, whoever's lease that *)
(* is (call_requests.go, BindLease).                                       *)
THEOREM RequestsLeased == CallSpec => []RequestLeased
<1>1. ASSUME CallInv PROVE RequestLeased
    BY <1>1, ThreadKnown DEF CallInv, WorkLeased, HandlesKnown, Kept, RequestLeased
<1>. QED
    BY <1>1, CallInvariant, PTL

(* Only the newest request of a thread, finished as idle, ends its lease   *)
(* (call_requests.go, Finish).                                             *)
THEOREM HandoffsKept == CallSpec => []HandoffKept
<1>1. ASSUME CallInv PROVE HandoffKept
    BY <1>1 DEF CallInv, HandoffOver, HandlesKnown, Kept, HandoffKept
<1>. QED
    BY <1>1, CallInvariant, PTL
=============================================================================
