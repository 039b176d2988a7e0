------------------------ MODULE ThreadControl_proofs ------------------------
(***************************************************************************)
(* What every run of ThreadControl keeps, for every task tree, set of      *)
(* calls, faults and bounds: the types and the single final result, and    *)
(* then the order of dispatch, its single delivery, the single use of      *)
(* notifications, the completion of work, what a wait for all returns with *)
(* and the stop a turn's own wait is owed.                                 *)
(***************************************************************************)
EXTENDS ThreadControl, ControlKeeps_proofs

(* The inductive invariant.  A second final result of one generation can   *)
(* only be excluded together with what a first one says of its thread:     *)
(* that its generation is settled (WorkConsistent).                        *)
IInv == TypeOK /\ WorkConsistent(tree)

HostTyped(hs) ==
    hs \in [Thread -> Native] /\ \A t \in Thread : hs[t].reduced <= Emitted(hs[t])

(* A thread's native history after one edit of it.                         *)
LEMMA HostEdit ==
    ASSUME NEW hs, HostTyped(hs), NEW t \in Thread, NEW h \in Native, h.reduced <= Emitted(h)
    PROVE  HostTyped([hs EXCEPT ![t] = h])
BY DEF HostTyped

(* A new turn begins behind what has been reported.                        *)
LEMMA BeginTyped ==
    ASSUME NEW h \in Native, h.reduced <= Emitted(h), ~h.live
    PROVE  Begin(h) \in Native /\ Begin(h).reduced <= Emitted(Begin(h))
<1>1. h.begun \in Nat /\ h.reduced <= 2 * h.begun
  BY DEF Native, Emitted
<1>2. Begin(h) \in Native
  <2> DEFINE k == h.begun + 1
  <2>1. k \in Nat
    BY <1>1
  <2>2. Begin(h) = [h EXCEPT !.begun = k, !.live = TRUE]
    BY DEF Begin
  <2> HIDE DEF k
  <2> QED BY <2>1, <2>2 DEF Native
<1>3. /\ Begin(h).begun = h.begun + 1 /\ Begin(h).live = TRUE
      /\ Begin(h).reduced = h.reduced
  BY DEF Begin, Native
<1>4. Emitted(Begin(h)) = 2 * (h.begun + 1) - 1
  BY <1>1, <1>3 DEF Emitted
<1>5. h.reduced \in Nat
  BY DEF Native
<1> QED
  BY <1>1, <1>2, <1>3, <1>4, <1>5

(* Taking a request leaves the native threads typed.                       *)
LEMMA HostAfterTyped ==
    ASSUME TypeOK, NEW r \in Ref
    PROVE  HostTyped(HostAfter(r)) /\ TurnOf(r) \in Nat
<1>1. HostTyped(host) /\ r.thread \in Thread
  BY DEF TypeOK, HostTyped, Ref
<1>2. host[r.thread] \in Native /\ host[r.thread].reduced <= Emitted(host[r.thread])
  BY <1>1 DEF HostTyped
<1>3. HostTyped(HostAfter(r))
  <2>1. CASE Begins(r)
    <3>1. ~host[r.thread].live
      BY <2>1 DEF Begins
    <3>2. HostAfter(r) = [host EXCEPT ![r.thread] = Begin(host[r.thread])]
      BY <2>1 DEF HostAfter
    <3>3. Begin(host[r.thread]) \in Native
          /\ Begin(host[r.thread]).reduced <= Emitted(Begin(host[r.thread]))
      BY <1>2, <3>1, BeginTyped
    <3> DEFINE t == r.thread
               b == Begin(host[r.thread])
    <3>4. t \in Thread /\ b \in Native /\ b.reduced <= Emitted(b)
      BY <1>1, <3>3
    <3> HIDE DEF t, b
    <3>5. HostTyped([host EXCEPT ![t] = b])
      BY <1>1, <3>4, HostEdit
    <3> QED
      BY <3>2, <3>5 DEF t, b
  <2>2. CASE ~Begins(r)
    BY <1>1, <2>2 DEF HostAfter
  <2> QED BY <2>1, <2>2
<1>4. HostAfter(r)[r.thread].begun \in Nat
  BY <1>1, <1>3 DEF HostTyped, Native
<1> QED
  BY <1>3, <1>4 DEF TurnOf

(* The references of a tree.                                               *)
LEMMA RefsTyped ==
    ASSUME NEW T, T \in Tree
    PROVE  Refs(T) \subseteq Ref
<1>1. \A i \in Indices(T) : T.effects[i].target \in Thread /\ i \in Nat
  <2>1. \A i \in Indices(T) : T.effects[i] \in Effect
    BY TreeTypes
  <2>2. \A i \in Indices(T) : i \in Nat
    BY TreeTypes DEF Indices
  <2> QED BY <2>1, <2>2 DEF Effect
<1>2. \A t \in Thread : T.members[t].wait.id \in Nat
  BY TreeTypes DEF Member, Wait
<1> QED
  BY <1>1, <1>2 DEF Refs, EffectRef, WaitRef, Ref

(* The turn the observation worker reduces next is a turn ordinal.         *)
LEMMA NextTurnTyped ==
    ASSUME TypeOK, NEW t \in Thread
    PROVE  NextTurn(host[t]) \in Nat /\ host[t].begun \in Nat
<1>1. host[t] \in Native
  BY DEF TypeOK
<1> QED
  BY <1>1 DEF NextTurn, Native

-----------------------------------------------------------------------------
(* The root's first turn, and each spawned thread's, runs reserved work;   *)
(* nothing has been reported.                                              *)
LEMMA InitHolds == ASSUME Init PROVE IInv
<1> DEFINE first == [Absent EXCEPT !.status = "working", !.generation = 1, !.turn = 1,
                                   !.hostRunning = TRUE, !.audience = TRUE]
           n == Len(Spawned)
           d(i) == NewEffect("create", Parent[Spawned[i]], 1, 1, Spawned[i], 1)
           e(i) == [d(i) EXCEPT !.phase = "initial", !.state = "confirmed"]
<1>1. Absent \in Member /\ Absent.hostRunning = FALSE
  BY NoWaitType, NoStopType DEF Absent, Member, Status
<1>2. first \in Member /\ first.status = "working"
  <2> HIDE DEF first
  <2>1. first = Working1(Absent)
    BY DEF first, Working1
  <2> QED BY <1>1 DEF first, Member, Status, ReservedStatus, ActiveStatus
<1>3. n \in Nat /\ \A i \in 1 .. n : Spawned[i] \in Thread /\ Parent[Spawned[i]] \in Thread
  BY Environment, TaskTree
<1>4. \A i \in 1 .. n : e(i) \in Effect /\ e(i).kind = "create"
  BY <1>3 DEF NewEffect, Effect, EffectKind, Phase, IntentState
<1>5. /\ tree.members = [t \in Thread |-> IF t \in Started0 THEN first ELSE Absent]
      /\ tree.effects = [i \in 1 .. n |-> e(i)]
      /\ tree = [members |-> tree.members, effects |-> tree.effects]
  BY DEF Init, Working1
<1> HIDE DEF first, e
<1>6. tree.members \in [Thread -> Member]
  BY <1>1, <1>2, <1>5
<1>7. /\ tree.effects \in Seq(Effect) /\ Len(tree.effects) = n
      /\ \A i \in 1 .. n : tree.effects[i].kind = "create"
  BY <1>3, <1>4, <1>5
<1>8. tree \in Tree
  BY <1>5, <1>6, <1>7 DEF Tree
<1>9. WorkConsistent(tree)
  <2>1. \A t \in Thread : Executing(tree.members[t])
    BY <1>1, <1>2, <1>5 DEF Executing
  <2> QED BY <1>7, <2>1 DEF WorkConsistent, Indices, SameReport
<1>10. HostTyped(host)
  <2> DEFINE h0(t) == [begun |-> IF t \in Started0 THEN 1 ELSE 0, live |-> t \in Started0,
                       reduced |-> IF t \in Started0 THEN 1 ELSE 0, asked |-> FALSE]
  <2>1. \A t \in Thread : h0(t) \in Native
    BY DEF Native
  <2>2. ASSUME NEW t \in Thread
        PROVE  h0(t).reduced <= Emitted(h0(t))
    <3>1. CASE t \in Started0
      <4>1. h0(t).begun = 1 /\ h0(t).live = TRUE /\ h0(t).reduced = 1
        BY <3>1
      <4> HIDE DEF h0
      <4> QED BY <4>1 DEF Emitted
    <3>2. CASE t \notin Started0
      <4>1. h0(t).begun = 0 /\ ~h0(t).live /\ h0(t).reduced = 0
        BY <3>2
      <4> HIDE DEF h0
      <4> QED BY <4>1 DEF Emitted
    <3> QED BY <3>1, <3>2
  <2>3. host = [t \in Thread |-> h0(t)]
    BY DEF Init
  <2> HIDE DEF h0
  <2> QED BY <2>1, <2>2, <2>3 DEF HostTyped
<1>11. requests = {} /\ \A h \in handed : h.ref \in Ref /\ h.turn \in Nat
  <2>1. \A i \in 1 .. n : SpawnedRef(i) \in Ref
    BY <1>3 DEF SpawnedRef, Ref
  <2>2. requests = {} /\ handed = Handed0
    BY DEF Init
  <2>3. ASSUME NEW h \in handed
        PROVE  h.ref \in Ref /\ h.turn \in Nat
    <3>1. PICK i \in 1 .. n, step \in Phase \ {"none"} :
            h = [ref |-> SpawnedRef(i), step |-> step, turn |-> IF step = "initial" THEN 1 ELSE 0]
      BY <2>2 DEF Handed0
    <3>2. h.ref = SpawnedRef(i) /\ h.turn = IF step = "initial" THEN 1 ELSE 0
      BY <3>1
    <3> QED BY <2>1, <3>2
  <2> QED BY <2>2, <2>3
<1> QED
  BY <1>8, <1>9, <1>10, <1>11 DEF IInv, TypeOK, HostTyped

-----------------------------------------------------------------------------
(* What a step owes the invariant: a good tree, typed native threads,      *)
(* requests and history.                                                   *)
RequestsTyped(qs) ==
    qs \subseteq [ref : Ref, turn : Nat, answer : {"sent", "none", "refused", "uncertain"}]
HandedTyped(hs) == \A h \in hs : h.ref \in Ref /\ h.turn \in Nat

(* The invariant, by the variables it is about.                            *)
LEMMA Parts ==
    IInv <=> Good(tree) /\ HostTyped(host) /\ RequestsTyped(requests) /\ HandedTyped(handed)
BY DEF IInv, TypeOK, Good, HostTyped, RequestsTyped, HandedTyped

(* The same facts after a step, which is how each action is shown.         *)
LEMMA NextParts ==
    ASSUME Good(tree'), HostTyped(host'), RequestsTyped(requests'), HandedTyped(handed')
    PROVE  IInv'
BY DEF IInv, TypeOK, Good, HostTyped, RequestsTyped, HandedTyped

(* A handler that keeps a tree good may be published by any step that      *)
(* touches nothing else (Service.update).                                  *)
LEMMA ApplyHolds ==
    ASSUME IInv, NEW T, Good(T), Apply(T)
    PROVE  IInv'
BY Parts, NextParts DEF Apply, Publish

(* The requests that a publication claims are sent.                        *)
LEMMA SendTyped ==
    ASSUME IInv, NEW T, Good(T), SendClaimed(T)
    PROVE  RequestsTyped(requests')
<1>1. Dispatching(T) \subseteq Ref
  BY RefsTyped DEF Dispatching, Good
<1>2. \A r \in Ref : Sent(r) \in [ref : Ref, turn : Nat,
                                    answer : {"sent", "none", "refused", "uncertain"}]
  BY DEF Sent
<1> QED
  BY <1>1, <1>2, Parts DEF SendClaimed, RequestsTyped

(* A request that is answered stays a request for the same intent.         *)
LEMMA ReplaceTyped ==
    ASSUME RequestsTyped(requests), NEW q \in requests, NEW turn \in Nat,
           NEW answer \in {"none", "refused", "uncertain"}, requests' = Replace(q, turn, answer)
    PROVE  RequestsTyped(requests')
BY DEF RequestsTyped, Replace

-----------------------------------------------------------------------------
(* The human's turn at the root and a turn's end move the native thread.   *)
LEMMA HostMoves ==
    ASSUME IInv, NEW t \in Thread, HumanTurn \/ HostTurnEnds(t)
    PROVE  IInv'
<1>1. HostTyped(host) /\ Root \in Thread
  BY Parts, TaskTree
<1>2. \A u \in Thread : host[u] \in Native /\ host[u].reduced <= Emitted(host[u])
  BY <1>1 DEF HostTyped
<1>3. CASE HumanTurn
  <2> DEFINE h == host[Root]
             b == IF h.live THEN h ELSE Begin(h)
             n == [b EXCEPT !.asked = FALSE]
  <2>1. b \in Native /\ b.reduced <= Emitted(b)
    <3>1. h \in Native /\ h.reduced <= Emitted(h)
      BY <1>1, <1>2
    <3> HIDE DEF h
    <3> QED BY <3>1, BeginTyped
  <2>2. n \in Native /\ n.reduced <= Emitted(n)
    <3> HIDE DEF b
    <3> QED BY <2>1 DEF Native, Emitted
  <2>3. host' = [host EXCEPT ![Root] = n] /\ UNCHANGED <<tree, requests, handed>>
    BY <1>3 DEF HumanTurn
  <2> HIDE DEF n
  <2>4. HostTyped(host')
    BY <1>1, <2>2, <2>3, HostEdit
  <2> QED
    BY <2>3, <2>4, Parts, NextParts
<1>4. CASE HostTurnEnds(t)
  <2> DEFINE h == host[t]
             n == [h EXCEPT !.live = FALSE]
  <2>1. n \in Native /\ n.reduced <= Emitted(n)
    <3>1. h \in Native /\ h.reduced <= Emitted(h)
      BY <1>2
    <3> HIDE DEF h
    <3>2. n \in Native /\ n.begun = h.begun /\ n.reduced = h.reduced /\ ~n.live
      BY <3>1 DEF Native
    <3> HIDE DEF n
    <3> QED BY <3>1, <3>2 DEF Native, Emitted
  <2>2. host' = [host EXCEPT ![t] = n] /\ UNCHANGED <<tree, requests, handed>>
    BY <1>4 DEF HostTurnEnds
  <2> HIDE DEF n
  <2>3. HostTyped(host')
    BY <1>1, <2>1, <2>2, HostEdit
  <2> QED
    BY <2>2, <2>3, Parts, NextParts
<1> QED
  BY <1>3, <1>4

(* The observation worker reduces one more notification.                   *)
LEMMA ReducedTyped ==
    ASSUME IInv, NEW t \in Thread, host[t].reduced < Emitted(host[t])
    PROVE  HostTyped([host EXCEPT ![t].reduced = host[t].reduced + 1])
<1> DEFINE h == host[t]
           n == [h EXCEPT !.reduced = h.reduced + 1]
<1>1. HostTyped(host) /\ h \in Native
  BY Parts DEF HostTyped
<1>2. n \in Native /\ n.reduced <= Emitted(n)
  <2> HIDE DEF h
  <2> DEFINE k == h.reduced + 1
  <2>1. k \in Nat /\ k <= Emitted(h)
    BY <1>1 DEF Native, Emitted, h
  <2>2. n = [h EXCEPT !.reduced = k]
    OBVIOUS
  <2> HIDE DEF k, n
  <2>3. n \in Native /\ n.reduced = k /\ n.begun = h.begun /\ n.live = h.live
    BY <1>1, <2>1, <2>2 DEF Native
  <2> QED BY <2>1, <2>3 DEF Emitted
<1> HIDE DEF n
<1>3. HostTyped([host EXCEPT ![t] = n])
  BY <1>1, <1>2, HostEdit
<1> QED
  BY <1>3 DEF n

(* Reducing a started or completed turn publishes a good tree.             *)
LEMMA ReduceHolds ==
    ASSUME IInv, NEW t \in Thread,
           ReduceStarted(t) \/ \E outcome \in Outcomes : HostCompleted(t, outcome)
    PROVE  IInv'
<1>1. Good(tree) /\ NextTurn(host[t]) \in Nat
  BY Parts, NextTurnTyped DEF IInv
<1>2. CASE ReduceStarted(t)
  <2>1. Good(tree')
    BY <1>1, <1>2, StartedGood DEF ReduceStarted
  <2>2. HostTyped(host') /\ UNCHANGED <<requests, handed>>
    BY <1>2, ReducedTyped DEF ReduceStarted
  <2> QED
    BY <2>1, <2>2, Parts, NextParts
<1>3. ASSUME NEW outcome \in Outcomes, HostCompleted(t, outcome)
      PROVE  IInv'
  <2>1. outcome = "checkpoint" \/ outcome \in Outcome \cup {"recoverable"}
    BY Environment
  <2>2. Good(tree')
    BY <1>1, <1>3, <2>1, CheckpointGood, TerminalGood DEF HostCompleted
  <2>3. HostTyped(host') /\ UNCHANGED <<requests, handed>>
    BY <1>3, ReducedTyped DEF HostCompleted
  <2> QED
    BY <2>2, <2>3, Parts, NextParts
<1> QED
  BY <1>2, <1>3

-----------------------------------------------------------------------------
(* Requests at the host: taken, refused, acknowledged.                     *)
LEMMA RequestHolds ==
    ASSUME IInv, NEW q \in requests, HostTakes(q) \/ HostRefuses(q) \/ EffectAcknowledged(q)
    PROVE  IInv'
<1>1. /\ Good(tree) /\ HostTyped(host) /\ RequestsTyped(requests) /\ HandedTyped(handed)
      /\ TypeOK
  BY Parts DEF IInv
<1>2. q.ref \in Ref /\ q.turn \in Nat
  BY <1>1 DEF RequestsTyped
<1>3. CASE HostTakes(q)
  <2>1. HostTyped(HostAfter(q.ref)) /\ TurnOf(q.ref) \in Nat
    BY <1>1, <1>2, HostAfterTyped
  <2>2. PICK answer \in {"none"} \cup (Faults \cap {"uncertain"}) :
          requests' = Replace(q, TurnOf(q.ref), answer)
    BY <1>3 DEF HostTakes
  <2>3. RequestsTyped(requests')
    BY <1>1, <2>1, <2>2, ReplaceTyped
  <2>4. /\ host' = HostAfter(q.ref) /\ tree' = tree
        /\ handed' = handed \cup {[ref |-> q.ref, step |-> StepOf(tree, q.ref), turn |-> TurnOf(q.ref)]}
    BY <1>3 DEF HostTakes
  <2>5. HandedTyped(handed')
    BY <1>1, <1>2, <2>1, <2>4 DEF HandedTyped
  <2> QED
    BY <1>1, <2>1, <2>3, <2>4, <2>5, NextParts
<1>4. CASE HostRefuses(q)
  <2>1. PICK answer \in (IF Misses(q.ref) \/ "refuse" \in Faults THEN {"refused"} ELSE {})
                          \cup (Faults \cap {"uncertain"}) :
          requests' = Replace(q, 0, answer)
    BY <1>4 DEF HostRefuses
  <2>2. answer \in {"none", "refused", "uncertain"} /\ 0 \in Nat
    OBVIOUS
  <2>3. RequestsTyped(requests')
    BY <1>1, <2>1, <2>2, ReplaceTyped
  <2> QED
    BY <1>1, <1>4, <2>3, NextParts DEF HostRefuses
<1>5. CASE EffectAcknowledged(q)
  <2> DEFINE receipt == [turn |-> q.turn, error |-> q.answer, reconciled |-> FALSE]
  <2>1. receipt.turn \in Nat
    BY <1>2
  <2> HIDE DEF receipt
  <2>2. Good(Acknowledge(tree, q.ref, receipt))
    BY <1>1, <1>2, <2>1, AcknowledgeGood
  <2>3. /\ tree' = Acknowledge(tree, q.ref, receipt) /\ requests' = requests \ {q}
        /\ UNCHANGED <<host, handed>>
    BY <1>5 DEF EffectAcknowledged, receipt
  <2>4. RequestsTyped(requests')
    BY <1>1, <2>3 DEF RequestsTyped
  <2> QED
    BY <1>1, <2>2, <2>3, <2>4, NextParts
<1> QED
  BY <1>3, <1>4, <1>5

(* Drivers claim, reconcile and wake.                                      *)
LEMMA DriverHolds ==
    ASSUME IInv, NEW t \in Thread,
           \/ \E r \in Refs(tree) : ClaimEffect(r) \/ Reconcile(r)
           \/ Wake(t)
    PROVE  IInv'
<1>1. Good(tree) /\ HostTyped(host) /\ HandedTyped(handed)
  BY Parts
<1>2. Refs(tree) \subseteq Ref
  BY <1>1, RefsTyped DEF Good
<1>3. ASSUME NEW r \in Ref, ClaimEffect(r)
      PROVE  IInv'
  <2> DEFINE T == Claim(tree, r)
  <2>1. Good(T)
    BY <1>1, ClaimGood
  <2>2. tree' = T /\ SendClaimed(T) /\ UNCHANGED <<host, handed>>
    BY <1>3 DEF ClaimEffect, Publish
  <2> HIDE DEF T
  <2>3. RequestsTyped(requests')
    BY <2>1, <2>2, SendTyped
  <2> QED
    BY <1>1, <2>1, <2>2, <2>3, NextParts
<1>4. ASSUME NEW r \in Ref, Reconcile(r)
      PROVE  IInv'
  <2> DEFINE receipt == [turn |-> 0, error |-> "none", reconciled |-> TRUE]
             T == Acknowledge(tree, r, receipt)
  <2>1. receipt.turn \in Nat
    OBVIOUS
  <2>2. Apply(T)
    BY <1>4 DEF Reconcile
  <2> HIDE DEF receipt
  <2>3. Good(T)
    BY <1>1, <2>1, AcknowledgeGood
  <2> HIDE DEF T
  <2> QED
    BY <2>2, <2>3, ApplyHolds
<1>5. CASE Wake(t)
  BY <1>1, <1>5, PrepareWakeGood, ApplyHolds DEF Wake
<1> QED
  BY <1>2, <1>3, <1>4, <1>5

(* A pause ends the native turns of the runtimes it stops.                 *)
LEMMA PauseHolds ==
    ASSUME IInv, NEW t \in Thread, Pause(t)
    PROVE  IInv'
<1> DEFINE S == IF t = Root THEN Thread ELSE {t}
           n(u) == [host[u] EXCEPT !.live = FALSE, !.reduced = 2 * host[u].begun, !.asked = FALSE]
<1>1. Good(tree) /\ HostTyped(host) /\ RequestsTyped(requests) /\ HandedTyped(handed)
  BY Parts
<1>2. Good(PauseAll(tree, S))
  BY <1>1, PauseAllGood
<1>3. ASSUME NEW u \in Thread
      PROVE  n(u) \in Native /\ n(u).reduced <= Emitted(n(u))
  <2> DEFINE h == host[u]
             k == 2 * h.begun
             m == [h EXCEPT !.live = FALSE, !.reduced = k, !.asked = FALSE]
  <2>1. h \in Native
    BY <1>1 DEF HostTyped
  <2> HIDE DEF h
  <2>2. k \in Nat
    BY <2>1 DEF Native
  <2> HIDE DEF k
  <2>3. m \in Native /\ m.reduced = k /\ m.begun = h.begun /\ ~m.live
    BY <2>1, <2>2 DEF Native
  <2> HIDE DEF m
  <2>4. m.reduced <= Emitted(m)
    BY <2>1, <2>3 DEF Emitted, k, Native
  <2> QED
    BY <2>3, <2>4 DEF m, h, k
<1>4. /\ tree' = PauseAll(tree, S) /\ UNCHANGED handed
      /\ host' = [u \in Thread |-> IF u \in S THEN n(u) ELSE host[u]]
      /\ requests' \subseteq requests
  BY DEF Pause, Publish
<1> HIDE DEF n
<1>5. HostTyped(host')
  BY <1>1, <1>3, <1>4 DEF HostTyped
<1>6. RequestsTyped(requests')
  BY <1>1, <1>4 DEF RequestsTyped
<1> HIDE DEF S
<1> QED
  BY <1>1, <1>2, <1>4, <1>5, <1>6, NextParts

-----------------------------------------------------------------------------
(* Every call of an agent publishes what one handler returns.              *)
LEMMA AgentHolds ==
    ASSUME IInv, NEW t \in Thread, AgentStep(t)
    PROVE  IInv'
<1>1. Good(tree) /\ host[t].begun \in Nat /\ HandedTyped(handed)
  BY Parts, NextTurnTyped DEF IInv
<1>2. ASSUME NEW child \in Thread, ReserveSpawn(t, child)
      PROVE  IInv'
  BY <1>1, <1>2, SpawnGood, ApplyHolds DEF ReserveSpawn
<1>3. ASSUME NEW target \in Thread, NEW kind \in {"message", "followup", "interrupt"},
             PrepareAction(t, target, kind)
      PROVE  IInv'
  BY <1>1, <1>3, PrepareGood, ApplyHolds DEF PrepareAction
<1>4. \A targets \in Selectable(t) \cup {{}} : targets \in SUBSET Thread
  BY TaskTree DEF Selectable
<1>5. ASSUME NEW targets \in Selectable(t), NEW mode \in WaitModes, NEW timer \in Timers,
             WaitAgent(t, targets, mode, timer)
      PROVE  IInv'
  <2>1. /\ targets \in SUBSET Thread /\ timer \in {"none", "armed", "due"}
        /\ (mode = "all") \in BOOLEAN
    BY <1>4, Environment
  <2> DEFINE T == RegisterWait(tree, t, targets, mode = "all", timer, FALSE, FALSE)
  <2>2. Good(T)
    BY <1>1, <2>1, RegisterWaitGood
  <2>3. Apply(T)
    BY <1>5 DEF WaitAgent
  <2> HIDE DEF T
  <2> QED
    BY <2>2, <2>3, ApplyHolds
<1>6. ASSUME NEW targets \in Selectable(t) \cup {{}}, NEW mode \in WaitModes,
             NEW timer \in Timers \cup {"none"}, CompactAgent(t, targets, mode, timer)
      PROVE  IInv'
  <2>1. /\ targets \in SUBSET Thread /\ timer \in {"none", "armed", "due"}
        /\ (mode = "all") \in BOOLEAN /\ (targets = {}) \in BOOLEAN
    BY <1>4, Environment
  <2> DEFINE T == RegisterWait(tree, t, targets, mode = "all", timer, TRUE, targets = {})
  <2>2. Good(T)
    BY <1>1, <2>1, RegisterWaitGood
  <2>3. Apply(T)
    BY <1>6 DEF CompactAgent
  <2> HIDE DEF T
  <2> QED
    BY <2>2, <2>3, ApplyHolds
<1>7. ASSUME NEW succeeded \in BOOLEAN, ExecutionEnds(t, succeeded)
      PROVE  IInv'
  BY <1>1, <1>7, ExecutionGood, ApplyHolds DEF ExecutionEnds
<1>8. ASSUME ClaimLocalStop(t)
      PROVE  IInv'
  BY <1>1, <1>8, ClaimStopGood, ApplyHolds DEF ClaimLocalStop
<1>9. ASSUME SkipCompaction(t)
      PROVE  IInv'
  BY <1>1, <1>9, RejectCompactionGood, ApplyHolds DEF SkipCompaction
<1>10. ASSUME InputConsumed(t)
       PROVE  IInv'
  <2>1. PICK items : Apply(Consume(tree, t, items))
    BY <1>10 DEF InputConsumed
  <2> QED
    BY <1>1, <2>1, ConsumeGood, ApplyHolds
<1>11. ASSUME NEW timer \in Timers \ {"due"}, WaitForUsageLimit(t, timer)
       PROVE  IInv'
  BY <1>1, <1>11, WaitForProviderGood, ApplyHolds, Environment DEF WaitForUsageLimit
<1> QED
  BY <1>2, <1>3, <1>5, <1>6, <1>7, <1>8, <1>9, <1>10, <1>11 DEF AgentStep

(* The human's input, its commitment in the host's history, and the stop.  *)
LEMMA HumanHolds ==
    ASSUME IInv, NEW t \in Thread, HumanStep(t)
    PROVE  IInv'
<1>1. /\ Good(tree) /\ HostTyped(host) /\ RequestsTyped(requests) /\ HandedTyped(handed)
  BY Parts
<1>2. ASSUME InputFromHuman(t)
      PROVE  IInv'
  <2> DEFINE T == HumanInput(tree, t)
  <2>1. Good(T)
    BY <1>1, HumanInputGood
  <2>2. CASE t = Root
    <3> DEFINE n == [host[t] EXCEPT !.asked = TRUE]
    <3>1. n \in Native /\ n.reduced <= Emitted(n)
      <4> DEFINE h == host[t]
      <4>1. h \in Native /\ h.reduced <= Emitted(h)
        BY <1>1 DEF HostTyped
      <4> HIDE DEF h
      <4>2. [h EXCEPT !.asked = TRUE] \in Native
            /\ [h EXCEPT !.asked = TRUE].reduced <= Emitted([h EXCEPT !.asked = TRUE])
        BY <4>1 DEF Native, Emitted
      <4> QED BY <4>2 DEF h
    <3>2. tree' = T /\ host' = [host EXCEPT ![t] = n] /\ UNCHANGED <<requests, handed>>
      BY <1>2, <2>2 DEF InputFromHuman
    <3> HIDE DEF n, T
    <3>3. HostTyped(host')
      BY <1>1, <3>1, <3>2, HostEdit
    <3> QED
      BY <1>1, <2>1, <3>2, <3>3, NextParts
  <2>3. CASE t # Root
    <3>1. tree' = T /\ SendClaimed(T) /\ UNCHANGED <<host, handed>>
      BY <1>2, <2>3 DEF InputFromHuman, Publish
    <3> HIDE DEF T
    <3>2. RequestsTyped(requests')
      BY <2>1, <3>1, SendTyped
    <3> QED
      BY <1>1, <2>1, <3>1, <3>2, NextParts
  <2> QED BY <2>2, <2>3
<1>3. ASSUME NEW r \in Refs(tree), HumanInputCommitted(r)
      PROVE  IInv'
  <2>1. r \in Ref
    BY <1>1, RefsTyped DEF Good
  <2>2. PICK h \in Handed(r, tree) : Apply(HumanCommitted(tree, r, h.turn))
    BY <1>3 DEF HumanInputCommitted
  <2>3. h.turn \in Nat
    BY <1>1 DEF Handed, HandedTyped
  <2>4. Known(tree, r)
    BY <1>3, <2>1 DEF HumanInputCommitted, Refs, EffectRef, WaitRef, Known, Indices
  <2> QED
    BY <1>1, <2>1, <2>2, <2>3, <2>4, HumanCommittedGood, ApplyHolds
<1>4. ASSUME HumanInterrupt(t)
      PROVE  IInv'
  BY <1>1, <1>4, InterruptWaitGood, ApplyHolds DEF HumanInterrupt
<1> QED
  BY <1>2, <1>3, <1>4 DEF HumanStep

(* A request authenticates the running turn, a deadline passes.            *)
LEMMA TurnHolds ==
    ASSUME IInv, NEW t \in Thread, RequestStarted(t) \/ Deadline(t)
    PROVE  IInv'
<1>1. Good(tree) /\ host[t].begun \in Nat
  BY Parts, NextTurnTyped DEF IInv
<1>2. CASE RequestStarted(t)
  BY <1>1, <1>2, StartedGood, ApplyHolds DEF RequestStarted
<1>3. CASE Deadline(t)
  <2> DEFINE m == MemberOf(t)
             n == [m EXCEPT !.wait.timer = "due"]
  <2>1. m \in Member
    BY <1>1, GoodParts DEF MemberOf
  <2>2. n \in Member /\ KeepsStanding(m, n)
    <3> HIDE DEF m
    <3> QED BY <2>1 DEF Member, Wait, KeepsStanding
  <2>3. Apply(Put(tree, t, n)) /\ m = tree.members[t]
    BY <1>3 DEF Deadline, MemberOf
  <2> HIDE DEF n, m
  <2>4. Good(Put(tree, t, n))
    BY <1>1, <2>2, <2>3, PutStandingGood
  <2> QED
    BY <2>3, <2>4, ApplyHolds
<1> QED
  BY <1>2, <1>3

-----------------------------------------------------------------------------
(* Every step of agents, human, host and drivers keeps the invariant.      *)
LEMMA StepHolds == ASSUME IInv, [Next]_vars PROVE IInv'
<1>1. CASE HumanTurn
  BY <1>1, HostMoves, TaskTree
<1>2. CASE DriverStep
  <2>1. ASSUME NEW r \in Refs(tree), ClaimEffect(r) \/ Reconcile(r)
        PROVE  IInv'
    BY <2>1, DriverHolds, TaskTree
  <2>2. ASSUME NEW q \in requests, HostTakes(q) \/ HostRefuses(q) \/ EffectAcknowledged(q)
        PROVE  IInv'
    BY <2>2, RequestHolds
  <2> QED
    BY <1>2, <2>1, <2>2 DEF DriverStep
<1>3. ASSUME NEW t \in Thread, AgentStep(t)
      PROVE  IInv'
  BY <1>3, AgentHolds
<1>4. ASSUME NEW t \in Thread, HumanStep(t)
      PROVE  IInv'
  BY <1>4, HumanHolds
<1>5. ASSUME NEW t \in Thread, HostStep(t)
      PROVE  IInv'
  BY <1>5, HostMoves, TurnHolds, ReduceHolds DEF HostStep
<1>6. ASSUME NEW t \in Thread, Wake(t)
      PROVE  IInv'
  BY <1>6, DriverHolds
<1>7. ASSUME NEW t \in Thread, Pause(t)
      PROVE  IInv'
  BY <1>7, PauseHolds
<1>8. CASE UNCHANGED vars
  BY <1>8, Parts, NextParts DEF vars
<1> QED
  BY <1>1, <1>2, <1>3, <1>4, <1>5, <1>6, <1>7, <1>8 DEF Next

(* Every tree the handlers publish, and everything the host and the        *)
(* drivers keep beside it, has the values the code's types allow.          *)
THEOREM TypeCorrect == Spec => []TypeOK
<1>1. Init => IInv
  BY InitHolds
<1>2. IInv /\ [Next]_vars => IInv'
  BY StepHolds
<1>3. IInv => TypeOK
  BY DEF IInv
<1> QED
  BY <1>1, <1>2, <1>3, PTL DEF Spec

(* In every published tree, executing work is reserved and each retained   *)
(* final result reports one settled generation of its thread.              *)
THEOREM ResultsReportSettledWork == Spec => []WorkConsistent(tree)
<1>1. Init => IInv
  BY InitHolds
<1>2. IInv /\ [Next]_vars => IInv'
  BY StepHolds
<1>3. IInv => WorkConsistent(tree)
  BY DEF IInv
<1> QED
  BY <1>1, <1>2, <1>3, PTL DEF Spec

(* No interleaving of agents, the human, drivers, the host and restarts    *)
(* makes finish report one generation of a child's work twice.             *)
THEOREM OneFinal == Spec => []OneFinalPerGeneration
<1>1. WorkConsistent(tree) => OneFinalPerGeneration
  BY DEF WorkConsistent, OneFinalPerGeneration
<1> QED
  BY <1>1, ResultsReportSettledWork, PTL


-----------------------------------------------------------------------------
(* Order, single delivery and single use.  Beside a sound tree, the        *)
(* invariant says of the host and of the requests under way that what they *)
(* were given is spent in the tree, and that the request of a creation     *)
(* stands for the very step its effect is at.                              *)

Creates(T, q) == q.ref.slot = "effect" /\ T.effects[q.ref.id].kind = "create"

RequestRight(T, q) ==
    /\ Spent(T, q.ref, StepOf(T, q.ref))
    /\ q.ref.slot = "effect" => q.ref.thread = T.effects[q.ref.id].target
    /\ Creates(T, q) => T.effects[q.ref.id].state = "dispatching"

RequestsRight(T, qs) ==
    /\ \A q \in qs : RequestRight(T, q)
    /\ \A p, q \in qs : p.ref = q.ref /\ Creates(T, q) => p = q

HandedSpent(T, hs) == \A h \in hs : Spent(T, h.ref, h.step)

Kept(T, qs, hs) == Sound(T) /\ RequestsRight(T, qs) /\ HandedSpent(T, hs)
SInv == IInv /\ Kept(tree, requests, handed)

(* What a step does besides: nothing is sent twice, no notification is     *)
(* used twice, work completes above completed work only, and a wait for    *)
(* all results returns with them.                                          *)
SentFresh == \A q \in requests' \ requests :
                 q.answer = "sent" => Handed(q.ref, tree') = {}
StepKept == Kept(tree', requests', handed') /\ SentFresh
            /\ NotedOnce(tree, tree') /\ Completes(tree, tree') /\ Decides(tree, tree')

(* A known intent is named as Tree.Effect finds it.                        *)
LEMMA RefsAim ==
    ASSUME NEW T, T \in Tree, NEW r \in Refs(T), Known(T, r)
    PROVE  Aims(T, r)
BY RefsTyped DEF Aims, Refs, EffectRef, WaitRef

(* What is out is spent.                                                   *)
LEMMA OutSpent ==
    ASSUME NEW T, Sound(T), NEW r \in Out(T)
    PROVE  /\ Spent(T, r, StepOf(T, r)) /\ r \in Ref
           /\ r.slot = "effect" =>
                /\ r.id \in Indices(T) /\ r.thread = T.effects[r.id].target
                /\ T.effects[r.id].state = "dispatching"
<1>1. Fit(T) /\ Good(T) /\ T \in Tree
  BY DEF Sound, Fit, Good
<1>2. Aims(T, r) /\ r.thread \in Thread /\ r \in Ref /\ StateOf(T, r) = "dispatching"
  BY <1>1, RefsAim DEF Out, Aims, Ref
<1>3. CASE r.slot = "effect"
  <2>1. /\ r.id \in Indices(T) /\ T.effects[r.id].state = "dispatching"
        /\ r.thread = T.effects[r.id].target
    BY <1>2, <1>3 DEF Aims, Known, StateOf
  <2>2. SpentBy(T.effects[r.id], StepOf(T, r))
    BY <1>3, <2>1 DEF SpentBy, StepOf, Step, Unsent
  <2> QED BY <1>2, <1>3, <2>1, <2>2 DEF Spent
<1>4. CASE r.slot # "effect"
  <2> DEFINE m == T.members[r.thread]
  <2>1. /\ m \in Member /\ WaitsInOrder(m) /\ m.wait.id = r.id /\ r.slot \in {"wake", "compact"}
        /\ m.wait.id \in Nat /\ m.recoveryWait.id \in Nat /\ m.calls \in Nat
    BY <1>1, <1>2, <1>4, FitParts, WaitTypes DEF Aims, Known, Ref
  <2>2. ~Unseen(m, r.id)
    <3> HIDE DEF m
    <3> QED BY <2>1 DEF Unseen, WaitsInOrder
  <2>3. /\ r.slot = "wake" => m.wait.state \notin Unsent
        /\ r.slot = "compact" => m.wait.compact \notin Unsent
    BY <1>2, <2>1 DEF StateOf, Unsent
  <2> QED BY <1>2, <1>4, <2>1, <2>2, <2>3 DEF Spent
<1> QED
  BY <1>3, <1>4

(* A request still stands for what it did unless its creation is answered. *)
LEMMA RequestStays ==
    ASSUME NEW T, Sound(T), NEW U, Keeps(T, U), NEW q, q.ref \in Ref, RequestRight(T, q),
           Creates(T, q) => /\ U.effects[q.ref.id].state = "dispatching"
                            /\ U.effects[q.ref.id].phase = T.effects[q.ref.id].phase
    PROVE  RequestRight(U, q) /\ (Creates(U, q) <=> Creates(T, q))
<1> DEFINE r == q.ref
<1>1. CASE r.slot = "effect"
  <2>1. r.id \in Indices(T)
    BY <1>1 DEF RequestRight, Spent
  <2>2. /\ r.id \in Indices(U) /\ U.effects[r.id].kind = T.effects[r.id].kind
        /\ U.effects[r.id].target = T.effects[r.id].target
    BY <2>1 DEF Keeps, Stays
  <2>3. StepOf(U, r) = StepOf(T, r)
    BY <1>1, <2>2 DEF StepOf, Step, Creates
  <2>4. Spent(U, r, StepOf(U, r))
    BY <2>3 DEF RequestRight, Keeps, SpentKept
  <2> QED BY <1>1, <2>2, <2>4 DEF RequestRight, Creates
<1>2. CASE r.slot # "effect"
  <2>1. StepOf(U, r) = StepOf(T, r)
    BY <1>2 DEF StepOf
  <2>2. Spent(U, r, StepOf(U, r))
    BY <2>1 DEF RequestRight, Keeps, SpentKept
  <2> QED BY <1>2, <2>2 DEF RequestRight, Creates
<1> QED
  BY <1>1, <1>2

(* The same of the request of a creation that the step leaves alone.       *)
LEMMA RequestKept ==
    ASSUME NEW T, Sound(T), NEW U, NEW X, Keeps(T, U), CreationsKept(T, U, X),
           NEW q, q.ref \in Ref, RequestRight(T, q), Creates(T, q) => q.ref.id \notin X
    PROVE  RequestRight(U, q) /\ (Creates(U, q) <=> Creates(T, q))
<1>1. Creates(T, q) => q.ref.id \in Indices(T) \ X
  BY DEF RequestRight, Spent, Creates
<1>2. Creates(T, q) => /\ U.effects[q.ref.id].state = "dispatching"
                       /\ U.effects[q.ref.id].phase = T.effects[q.ref.id].phase
  BY <1>1 DEF RequestRight, CreationsKept, Creates
<1> QED
  BY <1>2, RequestStays

(* What the host was given stays spent.                                    *)
LEMMA HandedKept ==
    ASSUME NEW T, NEW U, Keeps(T, U), NEW hs, HandedTyped(hs), HandedSpent(T, hs)
    PROVE  HandedSpent(U, hs)
BY DEF Keeps, SpentKept, HandedTyped, HandedSpent


(* What a sound state says of the parts.                                   *)
LEMMA KeptParts ==
    ASSUME SInv
    PROVE  /\ Sound(tree) /\ Fit(tree) /\ Good(tree) /\ tree \in Tree
           /\ RequestsRight(tree, requests) /\ HandedSpent(tree, handed)
           /\ HandedTyped(handed) /\ \A q \in requests : q.ref \in Ref
           /\ Refs(tree) \subseteq Ref
BY RefsTyped DEF SInv, Kept, IInv, TypeOK, HandedTyped, Sound, Fit, Good

(* A step that sends nothing and answers no creation.                      *)
LEMMA QuietKept ==
    ASSUME SInv, NEW T, Keeps(tree, T), CreationsKept(tree, T, {}),
           tree' = T, requests' \subseteq requests, handed' = handed
    PROVE  StepKept
<1>1. /\ Sound(tree) /\ RequestsRight(tree, requests) /\ HandedSpent(tree, handed)
      /\ HandedTyped(handed) /\ \A q \in requests : q.ref \in Ref
  BY KeptParts
<1>2. \A q \in requests : RequestRight(T, q) /\ (Creates(T, q) <=> Creates(tree, q))
  BY <1>1, RequestKept DEF RequestsRight
<1>3. RequestsRight(T, requests')
  BY <1>1, <1>2 DEF RequestsRight
<1>4. HandedSpent(T, handed')
  BY <1>1, HandedKept
<1>5. SentFresh
  BY DEF SentFresh
<1> QED
  BY <1>3, <1>4, <1>5 DEF StepKept, Kept, Keeps

(* A step that publishes one handler's tree.                               *)
LEMMA ApplyKept ==
    ASSUME SInv, NEW T, Keeping(tree, T), tree' = T, UNCHANGED <<requests, handed>>
    PROVE  StepKept
BY QuietKept DEF Keeping

(* A step that sends what it has claimed.                                  *)
LEMMA SendKept ==
    ASSUME SInv, NEW T, Keeping(tree, T), tree' = T, SendClaimed(T), handed' = handed
    PROVE  StepKept
<1> DEFINE new == {Sent(r) : r \in Dispatching(T) \ Dispatching(tree)}
<1>1. /\ Sound(tree) /\ RequestsRight(tree, requests) /\ HandedSpent(tree, handed)
      /\ HandedTyped(handed) /\ \A q \in requests : q.ref \in Ref
  BY KeptParts
<1>2. /\ Keeps(tree, T) /\ CreationsKept(tree, T, {}) /\ Sound(T)
      /\ requests' = requests \cup new
  BY DEF Keeping, Keeps, SendClaimed
<1>3. \A q \in requests : RequestRight(T, q) /\ (Creates(T, q) <=> Creates(tree, q))
  BY <1>1, <1>2, RequestKept DEF RequestsRight
<1>4. \A q \in new : q.ref \in Out(T) \ Out(tree) /\ q = Sent(q.ref)
  BY DEF Dispatching, Out, Sent
<1> HIDE DEF new
<1>5. \A q \in new :
         /\ Spent(T, q.ref, StepOf(T, q.ref)) /\ q.ref \in Ref
         /\ q.ref.slot = "effect" =>
              /\ q.ref.id \in Indices(T) /\ q.ref.thread = T.effects[q.ref.id].target
              /\ T.effects[q.ref.id].state = "dispatching"
  BY <1>2, <1>4, OutSpent
<1>6. \A q \in new : RequestRight(T, q)
  BY <1>5 DEF RequestRight, Creates
<1>7. ASSUME NEW p \in requests, NEW q \in new, p.ref = q.ref, Creates(T, p)
      PROVE  FALSE
  <2> DEFINE r == p.ref
  <2>1. r \in Ref /\ r.slot = "effect" /\ Creates(tree, p) /\ RequestRight(tree, p)
    BY <1>1, <1>3, <1>7 DEF Creates, RequestsRight
  <2>2. /\ r.id \in Indices(tree) /\ tree.effects[r.id].state = "dispatching"
        /\ r.thread = tree.effects[r.id].target
    BY <2>1 DEF RequestRight, Spent
  <2>3. r = EffectRef(tree, r.id)
    BY <2>1, <2>2 DEF Ref, EffectRef
  <2>4. r \in Refs(tree)
    BY <2>2, <2>3 DEF Refs
  <2>5. r \in Out(tree)
    BY <2>1, <2>2, <2>4 DEF Out, Known, StateOf
  <2> QED BY <1>4, <1>7, <2>5
<1>8. RequestsRight(T, requests')
  <2>1. \A q \in requests' : RequestRight(T, q)
    BY <1>2, <1>3, <1>6
  <2>2. ASSUME NEW p \in requests', NEW q \in requests', p.ref = q.ref, Creates(T, q)
        PROVE  p = q
    <3>1. Creates(T, p)
      BY <2>2 DEF Creates
    <3>2. CASE p \in requests /\ q \in requests
      BY <1>1, <1>3, <2>2, <3>2 DEF RequestsRight
    <3>3. CASE p \in new /\ q \in new
      BY <1>4, <2>2, <3>3
    <3> QED BY <1>2, <1>7, <2>2, <3>1, <3>2, <3>3
  <2> QED BY <2>1, <2>2 DEF RequestsRight
<1>9. HandedSpent(T, handed')
  BY <1>1, <1>2, HandedKept
<1>10. SentFresh
  <2>1. ASSUME NEW q \in new
        PROVE  Handed(q.ref, T) = {}
    <3>1. ~Spent(tree, q.ref, StepOf(T, q.ref))
      BY <1>2, <1>4, <2>1 DEF Keeps, Sends
    <3> QED BY <1>1, <3>1 DEF Handed, HandedSpent
  <2> QED BY <1>2, <2>1 DEF SentFresh
<1> QED
  BY <1>2, <1>8, <1>9, <1>10 DEF StepKept, Kept, Keeps

(* An answer retires its request with the step it stands for.              *)
LEMMA AcknowledgedKept ==
    ASSUME SInv, NEW q \in requests, EffectAcknowledged(q)
    PROVE  StepKept
<1> DEFINE r == q.ref
           receipt == [turn |-> q.turn, error |-> q.answer, reconciled |-> FALSE]
           T == Acknowledge(tree, r, receipt)
<1>1. /\ Sound(tree) /\ RequestsRight(tree, requests) /\ HandedSpent(tree, handed)
      /\ HandedTyped(handed) /\ \A p \in requests : p.ref \in Ref
  BY KeptParts
<1>2. r \in Ref /\ receipt.turn \in Nat
  BY DEF SInv, IInv, TypeOK
<1>3. Known(tree, r) => Aims(tree, r)
  BY <1>1, <1>2 DEF Aims, RequestsRight, RequestRight
<1>4. tree' = T /\ requests' = requests \ {q} /\ handed' = handed
  BY DEF EffectAcknowledged
<1> HIDE DEF receipt
<1>5. Keeps(tree, T) /\ CreationsKept(tree, T, About(r))
  BY <1>1, <1>2, <1>3, AcknowledgeKeeps
<1> HIDE DEF T
<1>6. ASSUME NEW p \in requests', Creates(tree, p)
      PROVE  p.ref.id \notin About(r)
  <2>1. p.ref \in Ref /\ p.ref.slot = "effect" /\ RequestRight(tree, p) /\ p # q /\ p \in requests
    BY <1>1, <1>4, <1>6 DEF RequestsRight, Creates
  <2>2. ASSUME p.ref.id \in About(r)
        PROVE  FALSE
    <3>1. r.slot = "effect" /\ p.ref.id = r.id
      BY <2>2 DEF About
    <3>2. p.ref = r
      BY <1>1, <1>2, <2>1, <3>1 DEF Ref, RequestsRight, RequestRight
    <3> QED BY <1>1, <1>6, <2>1, <3>2 DEF RequestsRight
  <2> QED BY <2>2
<1>7. \A p \in requests' : RequestRight(T, p) /\ (Creates(T, p) <=> Creates(tree, p))
  BY <1>1, <1>4, <1>5, <1>6, RequestKept DEF RequestsRight
<1>8. RequestsRight(T, requests')
  BY <1>1, <1>4, <1>7 DEF RequestsRight
<1>9. HandedSpent(T, handed')
  BY <1>1, <1>4, <1>5, HandedKept
<1>10. SentFresh
  BY <1>4 DEF SentFresh
<1> QED
  BY <1>4, <1>5, <1>8, <1>9, <1>10 DEF StepKept, Kept, Keeps


(* The host's answer to a request leaves the tree as it is.                *)
LEMMA AnsweredKept ==
    ASSUME SInv, NEW q \in requests, HostTakes(q) \/ HostRefuses(q)
    PROVE  StepKept
<1> DEFINE r == q.ref
           h == [ref |-> r, step |-> StepOf(tree, r), turn |-> TurnOf(r)]
<1>1. /\ Sound(tree) /\ RequestsRight(tree, requests) /\ HandedSpent(tree, handed)
  BY KeptParts
<1>2. tree' = tree /\ handed' \subseteq handed \cup {h}
  BY DEF HostTakes, HostRefuses
<1>3. \E turn, answer : requests' = Replace(q, turn, answer) /\ answer # "sent"
  <2>1. CASE HostTakes(q)
    <3>1. PICK answer \in {"none"} \cup (Faults \cap {"uncertain"}) :
            requests' = Replace(q, TurnOf(r), answer)
      BY <2>1 DEF HostTakes
    <3> QED BY <3>1
  <2>2. CASE HostRefuses(q)
    <3>1. PICK answer \in (IF Misses(q.ref) \/ "refuse" \in Faults THEN {"refused"} ELSE {})
                          \cup (Faults \cap {"uncertain"}) :
            requests' = Replace(q, 0, answer)
      BY <2>2 DEF HostRefuses
    <3> QED BY <3>1
  <2> QED BY <2>1, <2>2
<1>4. PICK a : /\ requests' = (requests \ {q}) \cup {a} /\ a.ref = r /\ a.answer # "sent"
  <2>1. PICK turn, answer : requests' = Replace(q, turn, answer) /\ answer # "sent"
    BY <1>3
  <2>2. [ref |-> q.ref, turn |-> turn, answer |-> answer].ref = r
        /\ [ref |-> q.ref, turn |-> turn, answer |-> answer].answer # "sent"
    BY <2>1
  <2> QED BY <2>1, <2>2 DEF Replace
<1>5. RequestRight(tree, q)
  BY <1>1 DEF RequestsRight
<1>6. RequestRight(tree, a) /\ (Creates(tree, a) <=> Creates(tree, q))
  BY <1>4, <1>5 DEF RequestRight, Creates
<1>7. RequestsRight(tree, requests')
  <2>1. \A p \in requests' : RequestRight(tree, p)
    BY <1>1, <1>4, <1>6 DEF RequestsRight
  <2>2. \A p \in requests \ {q} : p.ref = r /\ Creates(tree, q) => FALSE
    BY <1>1 DEF RequestsRight
  <2>3. \A p \in requests : p.ref = r => (Creates(tree, p) <=> Creates(tree, q))
    BY DEF Creates
  <2>4. ASSUME NEW p \in requests', NEW s \in requests', p.ref = s.ref, Creates(tree, s)
        PROVE  p = s
    <3>1. CASE p = a
      BY <1>4, <1>6, <2>2, <2>3, <2>4, <3>1
    <3>2. CASE s = a
      BY <1>4, <1>6, <2>2, <2>3, <2>4, <3>2
    <3>3. CASE p # a /\ s # a
      BY <1>1, <1>4, <2>4, <3>3 DEF RequestsRight
    <3> QED BY <3>1, <3>2, <3>3
  <2> QED BY <2>1, <2>4 DEF RequestsRight
<1>8. HandedSpent(tree, handed')
  <2>1. Spent(tree, h.ref, h.step)
    BY <1>5 DEF RequestRight
  <2> QED BY <1>1, <1>2, <2>1 DEF HandedSpent
<1>9. SentFresh
  BY <1>4 DEF SentFresh
<1>10. NotedOnce(tree, tree) /\ Completes(tree, tree) /\ Decides(tree, tree)
  BY <1>1, SameKeeps DEF Keeping, Keeps
<1> QED
  BY <1>1, <1>2, <1>7, <1>8, <1>9, <1>10 DEF StepKept, Kept

(* A pause drops the requests whose intents it leaves uncertain.           *)
LEMMA PausedKept ==
    ASSUME SInv, NEW t \in Thread, Pause(t)
    PROVE  StepKept
<1> DEFINE S == IF t = Root THEN Thread ELSE {t}
           T == PauseAll(tree, S)
<1>1. /\ Sound(tree) /\ RequestsRight(tree, requests) /\ HandedSpent(tree, handed)
      /\ HandedTyped(handed) /\ \A q \in requests : q.ref \in Ref
  BY KeptParts
<1>2. /\ Keeps(tree, T) /\ \A i \in Indices(tree) : IntentAges(tree.effects[i], T.effects[i])
  BY <1>1, PauseKeeps
<1>3. /\ tree' = T /\ requests' = {q \in requests : q.ref \in Dispatching(T)} /\ handed' = handed
  BY DEF Pause, Publish
<1> HIDE DEF T
<1>4. ASSUME NEW q \in requests'
      PROVE  RequestRight(T, q) /\ (Creates(T, q) <=> Creates(tree, q))
  <2>1. q \in requests /\ StateOf(T, q.ref) = "dispatching" /\ RequestRight(tree, q) /\ q.ref \in Ref
    BY <1>1, <1>3, <1>4 DEF Dispatching, RequestsRight
  <2>2. Creates(tree, q) => /\ T.effects[q.ref.id].state = "dispatching"
                            /\ T.effects[q.ref.id].phase = tree.effects[q.ref.id].phase
    BY <1>2, <2>1 DEF Creates, StateOf, RequestRight, Spent, IntentAges
  <2> QED BY <1>1, <1>2, <2>1, <2>2, RequestStays
<1>5. RequestsRight(T, requests')
  BY <1>1, <1>3, <1>4 DEF RequestsRight
<1>6. HandedSpent(T, handed')
  BY <1>1, <1>2, <1>3, HandedKept
<1>7. SentFresh
  BY <1>3 DEF SentFresh
<1> QED
  BY <1>2, <1>3, <1>5, <1>6, <1>7 DEF StepKept, Kept, Keeps

(* What an edit publishes.                                                 *)
LEMMA EditKept ==
    ASSUME SInv, NEW T, Fit(T), Edits(tree, T, {}, {}), Apply(T)
    PROVE  StepKept
BY KeptParts, PlainKeeps, ApplyKept DEF Apply, Publish

(* What marks notifications and edits besides.                             *)
LEMMA MarkKept ==
    ASSUME SInv, NEW T, Fit(T), Ages(tree, T, {}, {}), Marks(tree, T),
           Decides(tree, T), Apply(T)
    PROVE  StepKept
BY KeptParts, MarkKeeps, QuietKept DEF Apply, Publish

(* Every call of an agent.                                                 *)
LEMMA AgentKept ==
    ASSUME SInv, NEW t \in Thread, AgentStep(t)
    PROVE  StepKept
<1>1. Sound(tree) /\ Good(tree) /\ Fit(tree) /\ host[t].begun \in Nat
  BY KeptParts, NextTurnTyped DEF SInv, IInv, Fit
<1>2. ASSUME NEW child \in Thread, ReserveSpawn(t, child)
      PROVE  StepKept
  BY <1>1, <1>2, SpawnEdits, EditKept DEF ReserveSpawn
<1>3. ASSUME NEW target \in Thread, NEW kind \in {"message", "followup", "interrupt"},
             PrepareAction(t, target, kind)
      PROVE  StepKept
  <2> DEFINE T == Prepare(tree, t, target, kind)
  <2>1. Fit(T) /\ Edits(tree, T, {}, {})
    BY <1>1, <1>3, PrepareEdits DEF PrepareAction
  <2>2. Apply(T)
    BY <1>3 DEF PrepareAction
  <2> HIDE DEF T
  <2> QED BY <2>1, <2>2, EditKept
<1>4. \A targets \in Selectable(t) \cup {{}} : targets \in SUBSET Thread
  BY TaskTree DEF Selectable
<1>5. MayRegister(t) => MayWait(tree.members[t])
  BY DEF MayRegister, MemberOf
<1>6. ASSUME NEW targets \in Selectable(t), NEW mode \in WaitModes, NEW timer \in Timers,
             WaitAgent(t, targets, mode, timer)
      PROVE  StepKept
  <2>1. /\ targets \in SUBSET Thread /\ timer \in {"none", "armed", "due"}
        /\ (mode = "all") \in BOOLEAN
    BY <1>4, Environment
  <2> DEFINE T == RegisterWait(tree, t, targets, mode = "all", timer, FALSE, FALSE)
  <2>2. Apply(T) /\ MayWait(tree.members[t])
    BY <1>5, <1>6 DEF WaitAgent
  <2>3. Fit(T) /\ Ages(tree, T, {}, {}) /\ Marks(tree, T)
    BY <1>1, <2>1, <2>2, RegisterWaitMarks
  <2>4. Decides(tree, T)
    BY <1>1, <2>1, RegisterWaitDecides
  <2> HIDE DEF T
  <2> QED BY <2>2, <2>3, <2>4, MarkKept
<1>7. ASSUME NEW targets \in Selectable(t) \cup {{}}, NEW mode \in WaitModes,
             NEW timer \in Timers \cup {"none"}, CompactAgent(t, targets, mode, timer)
      PROVE  StepKept
  <2>1. /\ targets \in SUBSET Thread /\ timer \in {"none", "armed", "due"}
        /\ (mode = "all") \in BOOLEAN /\ (targets = {}) \in BOOLEAN
    BY <1>4, Environment
  <2> DEFINE T == RegisterWait(tree, t, targets, mode = "all", timer, TRUE, targets = {})
  <2>2. Apply(T) /\ MayWait(tree.members[t])
    BY <1>5, <1>7 DEF CompactAgent
  <2>3. Fit(T) /\ Ages(tree, T, {}, {}) /\ Marks(tree, T)
    BY <1>1, <2>1, <2>2, RegisterWaitMarks
  <2>4. Decides(tree, T)
    BY <1>1, <2>1, RegisterWaitDecides
  <2> HIDE DEF T
  <2> QED BY <2>2, <2>3, <2>4, MarkKept
<1>8. ASSUME NEW succeeded \in BOOLEAN, ExecutionEnds(t, succeeded)
      PROVE  StepKept
  BY <1>1, <1>8, ExecutionEdits, EditKept DEF ExecutionEnds
<1>9. ASSUME ClaimLocalStop(t)
      PROVE  StepKept
  BY <1>1, <1>9, ClaimStopEdits, EditKept DEF ClaimLocalStop
<1>10. ASSUME SkipCompaction(t)
       PROVE  StepKept
  BY <1>1, <1>10, RejectCompactionEdits, EditKept DEF SkipCompaction
<1>11. ASSUME InputConsumed(t)
       PROVE  StepKept
  <2>1. PICK items : Apply(Consume(tree, t, items))
    BY <1>11 DEF InputConsumed
  <2>2. /\ Fit(Consume(tree, t, items)) /\ Ages(tree, Consume(tree, t, items), {}, {})
        /\ Marks(tree, Consume(tree, t, items))
    BY <1>1, ConsumeMarks
  <2>3. Decides(tree, Consume(tree, t, items))
    BY <1>1, ConsumeDecides
  <2> QED BY <2>1, <2>2, <2>3, MarkKept
<1>12. ASSUME NEW timer \in Timers \ {"due"}, WaitForUsageLimit(t, timer)
       PROVE  StepKept
  BY <1>1, <1>12, WaitForProviderEdits, EditKept, Environment DEF WaitForUsageLimit
<1> QED
  BY <1>2, <1>3, <1>6, <1>7, <1>8, <1>9, <1>10, <1>11, <1>12 DEF AgentStep


(* What a driver claims, reconciles and wakes.                             *)
LEMMA DriverKept ==
    ASSUME SInv, NEW t \in Thread,
           \/ \E r \in Refs(tree) : ClaimEffect(r) \/ Reconcile(r)
           \/ Wake(t)
    PROVE  StepKept
<1>1. Sound(tree) /\ Fit(tree) /\ tree \in Tree /\ Refs(tree) \subseteq Ref
  BY KeptParts
<1>2. ASSUME NEW r \in Refs(tree), ClaimEffect(r)
      PROVE  StepKept
  <2> DEFINE T == Claim(tree, r)
  <2>1. Aims(tree, r)
    BY <1>1, <1>2, RefsAim DEF ClaimEffect
  <2>2. Keeping(tree, T)
    BY <1>1, <2>1, ClaimKeeps
  <2>3. tree' = T /\ SendClaimed(T) /\ handed' = handed
    BY <1>2 DEF ClaimEffect, Publish
  <2> HIDE DEF T
  <2> QED BY <2>2, <2>3, SendKept
<1>3. ASSUME NEW r \in Refs(tree), Reconcile(r)
      PROVE  StepKept
  <2> DEFINE receipt == [turn |-> 0, error |-> "none", reconciled |-> TRUE]
             T == Acknowledge(tree, r, receipt)
  <2>1. /\ Aims(tree, r) /\ r \in Ref /\ receipt.turn \in Nat
        /\ StateOf(tree, r) = "uncertain"
    BY <1>1, <1>3, RefsAim DEF Reconcile
  <2>2. Apply(T)
    BY <1>3 DEF Reconcile
  <2> HIDE DEF receipt
  <2>3. Keeps(tree, T) /\ CreationsKept(tree, T, About(r))
    BY <1>1, <2>1, AcknowledgeKeeps
  <2> HIDE DEF T
  <2>4. CreationsKept(tree, T, {})
    BY <2>1, <2>3 DEF CreationsKept, About, StateOf
  <2> QED BY <2>2, <2>3, <2>4, QuietKept DEF Apply, Publish
<1>4. CASE Wake(t)
  BY <1>1, <1>4, PrepareWakeMarks, PrepareWakeDecides, MarkKept DEF Wake
<1> QED
  BY <1>2, <1>3, <1>4

(* The human's input, its commitment in the host's history, and the stop.  *)
LEMMA HumanKept ==
    ASSUME SInv, NEW t \in Thread, HumanStep(t)
    PROVE  StepKept
<1>1. /\ Sound(tree) /\ Fit(tree) /\ tree \in Tree /\ Refs(tree) \subseteq Ref
      /\ HandedTyped(handed)
  BY KeptParts
<1>2. ASSUME InputFromHuman(t)
      PROVE  StepKept
  <2> DEFINE T == HumanInput(tree, t)
  <2>1. Keeping(tree, T)
    BY <1>1, HumanInputKeeps
  <2>2. CASE t = Root
    <3>1. tree' = T /\ UNCHANGED <<requests, handed>>
      BY <1>2, <2>2 DEF InputFromHuman
    <3> HIDE DEF T
    <3> QED BY <2>1, <3>1, ApplyKept
  <2>3. CASE t # Root
    <3>1. tree' = T /\ SendClaimed(T) /\ handed' = handed
      BY <1>2, <2>3 DEF InputFromHuman, Publish
    <3> HIDE DEF T
    <3> QED BY <2>1, <3>1, SendKept
  <2> QED BY <2>2, <2>3
<1>3. ASSUME NEW r \in Refs(tree), HumanInputCommitted(r)
      PROVE  StepKept
  <2>1. PICK h \in Handed(r, tree) : Apply(HumanCommitted(tree, r, h.turn))
    BY <1>3 DEF HumanInputCommitted
  <2>2. h.turn \in Nat
    BY <1>1 DEF Handed, HandedTyped
  <2>3. Known(tree, r)
    BY <1>1, <1>3 DEF HumanInputCommitted, Refs, EffectRef, WaitRef, Known, Indices
  <2>4. Aims(tree, r)
    BY <1>1, <2>3, RefsAim
  <2>5. Keeping(tree, HumanCommitted(tree, r, h.turn))
    BY <1>1, <2>2, <2>4, HumanCommittedKeeps
  <2> QED BY <2>1, <2>5, ApplyKept DEF Apply, Publish
<1>4. ASSUME HumanInterrupt(t)
      PROVE  StepKept
  BY <1>1, <1>4, InterruptWaitEdits, EditKept DEF HumanInterrupt
<1> QED
  BY <1>2, <1>3, <1>4 DEF HumanStep

(* What the host does and reports.                                         *)
LEMMA HostKept ==
    ASSUME SInv, NEW t \in Thread, HumanTurn \/ HostStep(t)
    PROVE  StepKept
<1>1. Sound(tree) /\ Fit(tree) /\ host[t].begun \in Nat /\ NextTurn(host[t]) \in Nat
  BY KeptParts, NextTurnTyped DEF SInv, IInv
<1>2. Keeping(tree, tree)
  BY <1>1, SameKeeps
<1>3. CASE HumanTurn \/ HostTurnEnds(t)
  BY <1>2, <1>3, ApplyKept DEF HumanTurn, HostTurnEnds
<1>4. CASE RequestStarted(t)
  BY <1>1, <1>4, StartedEdits, EditKept DEF RequestStarted
<1>5. CASE ReduceStarted(t)
  <2> DEFINE T == Started(tree, t, NextTurn(host[t]))
  <2>1. Fit(T) /\ Edits(tree, T, {}, {})
    BY <1>1, StartedEdits
  <2>2. tree' = T /\ UNCHANGED <<requests, handed>>
    BY <1>5 DEF ReduceStarted
  <2> HIDE DEF T
  <2> QED BY <1>1, <2>1, <2>2, PlainKeeps, ApplyKept
<1>6. CASE Deadline(t)
  BY <1>1, <1>6, DeadlineEdits, EditKept DEF Deadline, MemberOf
<1>7. ASSUME NEW outcome \in Outcomes, HostCompleted(t, outcome)
      PROVE  StepKept
  <2> DEFINE C == Checkpoint(tree, t, NextTurn(host[t]))
             T == Terminal(tree, t, NextTurn(host[t]), outcome)
  <2>1. CASE outcome = "checkpoint"
    <3>1. Fit(C) /\ Edits(tree, C, {}, {})
      BY <1>1, CheckpointEdits
    <3>2. tree' = C /\ UNCHANGED <<requests, handed>>
      BY <1>7, <2>1 DEF HostCompleted
    <3> HIDE DEF C
    <3> QED BY <1>1, <3>1, <3>2, PlainKeeps, ApplyKept
  <2>2. CASE outcome # "checkpoint"
    <3>1. outcome \in Outcome \cup {"recoverable"}
      BY <2>2, Environment
    <3>2. Fit(T) /\ Edits(tree, T, {}, {t}) /\ Completes(tree, T)
      BY <1>1, <3>1, TerminalEdits
    <3>3. tree' = T /\ UNCHANGED <<requests, handed>>
      BY <1>7, <2>2 DEF HostCompleted
    <3> HIDE DEF T
    <3> QED BY <1>1, <3>2, <3>3, EditKeeps, ApplyKept
  <2> QED BY <2>1, <2>2
<1> QED
  BY <1>3, <1>4, <1>5, <1>6, <1>7 DEF HostStep

(* Every step keeps a sound state.                                         *)
LEMMA SoundStep == ASSUME SInv, [Next]_vars PROVE SInv' /\ StepKept
<1>1. IInv'
  BY StepHolds DEF SInv
<1>2. StepKept
  <2>1. CASE HumanTurn
    BY <2>1, HostKept, TaskTree
  <2>2. CASE DriverStep
    <3>1. ASSUME NEW r \in Refs(tree), ClaimEffect(r) \/ Reconcile(r)
          PROVE  StepKept
      BY <3>1, DriverKept, TaskTree
    <3>2. ASSUME NEW q \in requests, HostTakes(q) \/ HostRefuses(q) \/ EffectAcknowledged(q)
          PROVE  StepKept
      BY <3>2, AnsweredKept, AcknowledgedKept
    <3> QED BY <2>2, <3>1, <3>2 DEF DriverStep
  <2>3. ASSUME NEW t \in Thread, AgentStep(t) \/ HumanStep(t) \/ HostStep(t) \/ Wake(t) \/ Pause(t)
        PROVE  StepKept
    BY <2>3, AgentKept, HumanKept, HostKept, DriverKept, PausedKept
  <2>4. CASE UNCHANGED vars
    BY <2>4, KeptParts, SameKeeps, ApplyKept DEF vars
  <2> QED BY <2>1, <2>2, <2>3, <2>4 DEF Next
<1> QED
  BY <1>1, <1>2 DEF SInv, StepKept

(* The first tree is sound: the spawned threads' creations are complete,   *)
(* and nothing else has been asked for.                                    *)
LEMMA SoundInit == ASSUME Init PROVE SInv
<1> DEFINE first == Working1(Absent)
           n == Len(Spawned)
           d(i) == NewEffect("create", Parent[Spawned[i]], 1, 1, Spawned[i], 1)
           e(i) == [d(i) EXCEPT !.phase = "initial", !.state = "confirmed"]
<1>1. IInv /\ n \in Nat
  BY InitHolds, Environment
<1>2. Good(tree)
  BY <1>1, Parts
<1>3. /\ tree.members = [t \in Thread |-> IF t \in Started0 THEN first ELSE Absent]
      /\ tree.effects = [i \in 1 .. n |-> e(i)]
      /\ requests = {} /\ handed = Handed0
  BY DEF Init
<1>4. Indices(tree) = 1 .. n
  <2>1. Len(tree.effects) \in Nat /\ DOMAIN tree.effects = 1 .. Len(tree.effects)
    BY <1>2, TreeTypes DEF Good
  <2>2. DOMAIN tree.effects = 1 .. n
    BY <1>3
  <2> QED BY <2>1, <2>2 DEF Indices
<1>5. ASSUME NEW i \in Indices(tree)
      PROVE  /\ tree.effects[i].kind = "create" /\ tree.effects[i].phase = "initial"
             /\ tree.effects[i].state = "confirmed" /\ tree.effects[i].target = Spawned[i]
             /\ tree.effects[i].claimedBy = 0 /\ ~tree.effects[i].consumed
  <2>1. tree.effects[i] = e(i)
    BY <1>3, <1>4
  <2> QED BY <2>1 DEF NewEffect
<1>6. ASSUME NEW t \in Thread
      PROVE  /\ tree.members[t].wait = NoWait /\ tree.members[t].recoveryWait = NoWait
             /\ tree.members[t].calls = 0
  <2>1. tree.members[t] \in {first, Absent}
    BY <1>3
  <2>2. Absent.wait = NoWait /\ Absent.recoveryWait = NoWait /\ Absent.calls = 0
    BY DEF Absent
  <2>3. Absent \in Member
    BY NoWaitType, NoStopType DEF Absent, Member, Status
  <2>4. \A m \in Member : /\ Working1(m).wait = m.wait /\ Working1(m).calls = m.calls
                          /\ Working1(m).recoveryWait = m.recoveryWait
    BY DEF Working1, Member
  <2> QED BY <2>1, <2>2, <2>3, <2>4
<1>7. /\ NoWait.state = "none" /\ NoWait.compact = "none" /\ NoWait.id = 0
      /\ ~NoWait.standalone
  BY DEF NoWait
<1>8. Fit(tree)
  BY <1>2, <1>6, <1>7 DEF Fit, WaitsInOrder
<1>9. Sound(tree)
  BY <1>5, <1>6, <1>7, <1>8 DEF Sound, InOrder, Alone, Noted, Phased, Candid, HostOwned
<1>10. HandedSpent(tree, handed)
  <2>1. ASSUME NEW i \in 1 .. n, NEW step \in Phase \ {"none"}
        PROVE  Spent(tree, SpawnedRef(i), step)
    <3>1. SpentBy(tree.effects[i], step)
      BY <1>4, <1>5 DEF SpentBy, Passed, Phase, Unsent
    <3> QED BY <1>4, <3>1 DEF Spent, SpawnedRef
  <2>2. ASSUME NEW h \in handed
        PROVE  \E i \in 1 .. n, step \in Phase \ {"none"} : h.ref = SpawnedRef(i) /\ h.step = step
    <3> HIDE DEF n
    <3>0. h \in Handed0
      BY <1>3
    <3>1. PICK i \in 1 .. Len(Spawned) : \E step \in Phase \ {"none"} :
            h = [ref |-> SpawnedRef(i), step |-> step, turn |-> IF step = "initial" THEN 1 ELSE 0]
      BY <3>0, SMT DEF Handed0
    <3>2. PICK step \in Phase \ {"none"} :
            h = [ref |-> SpawnedRef(i), step |-> step, turn |-> IF step = "initial" THEN 1 ELSE 0]
      BY <3>1
    <3>3. h.ref = SpawnedRef(i) /\ h.step = step
      BY <3>2
    <3> QED BY <3>3 DEF n
  <2> QED BY <2>1, <2>2 DEF HandedSpent
<1>11. RequestsRight(tree, requests)
  BY <1>3 DEF RequestsRight
<1> QED
  BY <1>1, <1>9, <1>10, <1>11 DEF SInv, Kept

(* Every published tree is sound, and every step keeps what it should.     *)
LEMMA AlwaysSound == Spec => []SInv /\ [][StepKept]_vars
<1>1. Init => SInv
  BY SoundInit
<1>2. SInv /\ [Next]_vars => SInv'
  BY SoundStep
<1>3. SInv /\ [Next]_vars => StepKept
  BY SoundStep
<1> QED
  BY <1>1, <1>2, <1>3, PTL DEF Spec

(* Input for one target is dispatched in the order it was prepared, and    *)
(* nothing is dispatched behind what the host may own (claimEffect).       *)
THEOREM InputInOrder == Spec => []ArrivalOrder
<1>1. SInv => ArrivalOrder
  BY DEF SInv, Kept, Sound, InOrder, Ordered, ArrivalOrder
<1> QED
  BY <1>1, AlwaysSound, PTL

(* While the host may own a thread's checkpoint, only an interrupt is out  *)
(* beside it (claimEffect, CompactionPending).                             *)
THEOREM CompactsAlone == Spec => []CheckpointAlone
<1>1. SInv => CheckpointAlone
  BY DEF SInv, Kept, Sound, Alone, CheckpointAlone, MemberOf
<1> QED
  BY <1>1, AlwaysSound, PTL

(* A continuation is queued only behind a wake the host may own, so that   *)
(* settling the wake always installs it (settleRecovery).                  *)
THEOREM RecoveryBehindWake == Spec => []RecoveryQueued
<1>1. SInv => RecoveryQueued
  BY DEF SInv, Kept, Sound, Fit, WaitsInOrder, RecoveryQueued, MemberOf
<1> QED
  BY <1>1, AlwaysSound, PTL

(* However dispatch fails, is paused or answered late, no step of an       *)
(* intent is sent to the host again once the host has taken it.            *)
THEOREM NeverHandedTwice == Spec => HandedOnce
<1>1. StepKept => \A q \in requests' \ requests :
                    q.answer = "sent" => Handed(q.ref, tree') = {}
  BY DEF StepKept, SentFresh
<1> QED
  BY <1>1, AlwaysSound, PTL DEF HandedOnce

(* A notification serves one wait, or one input record, and only a queued  *)
(* wake that is canceled gives it back.                                    *)
THEOREM NotificationsUsedOnce == Spec => NotificationOnce
<1> DEFINE Once == \A i \in Indices(tree) :
             LET e == tree.effects[i]
                 f == tree'.effects[i]
                 w == MemberOf(e.target).wait
             IN  /\ e.consumed => f.claimedBy = e.claimedBy
                 /\ e.claimedBy # 0 => f.consumed = e.consumed
                 /\ e.claimedBy # 0 /\ f.claimedBy # e.claimedBy =>
                      f.claimedBy = 0 /\ w.id = e.claimedBy /\ w.state = "queued"
<1>1. StepKept => Once
  BY DEF StepKept, NotedOnce, MemberOf
<1>2. [][StepKept]_vars => [][Once]_vars
  <2> HIDE DEF Once
  <2> QED BY <1>1, PTL
<1> QED
  BY <1>2, AlwaysSound DEF NotificationOnce

(* Work completes, at once or when its deferred completion is released,    *)
(* only when no task below it is active (completionStop, claimEffect).     *)
THEOREM CompletionsGuarded == Spec => CompletionGuard
<1>1. StepKept => \A t \in Thread :
                    tree'.members[t].status = "completed" /\ MemberOf(t).status # "completed"
                      => ActiveBelow(tree', t) = {}
  BY DEF StepKept, Completes, MemberOf
<1> QED
  BY <1>1, AlwaysSound, PTL DEF CompletionGuard

(* A wait_all that returns neither by its deadline nor with a message has  *)
(* every result its targets owe its thread, but for those held with a      *)
(* paused runtime (selectWaitOutcome, PrepareWake, registerWait).          *)
THEOREM WaitsAllComplete == Spec => WaitAllComplete
<1> DEFINE Full == \A t \in Thread : Decided(t) =>
         LET w == tree'.members[t].wait
             Owed(e) == /\ e.kind = "final" /\ e.target = t /\ e.caller \in w.targets
                        /\ e.callerGeneration = tree'.members[e.caller].generation
         IN  \/ \E i \in Indices(tree') : tree'.effects[i].kind = "message"
                                          /\ tree'.effects[i].claimedBy = w.id
             \/ \A i \in Indices(tree') : LET e == tree'.effects[i] IN
                  Owed(e) => \/ e.state = "paused"
                             \/ Delivered(e) /\ (e.consumed \/ e.claimedBy # 0)
<1>1. StepKept => Full
  <2> SUFFICES ASSUME StepKept, NEW t \in Thread, Decided(t)
               PROVE  Answered(tree', t, tree'.members[t].wait)
    BY DEF Answered, Owes, Has
  <2>1. Returns(tree.members[t].wait, tree'.members[t].wait)
    BY DEF Decided, Returns, MemberOf
  <2> QED BY <2>1 DEF StepKept, Decides
<1>2. [][StepKept]_vars => [][Full]_vars
  <2> HIDE DEF Full
  <2> QED BY <1>1, PTL
<1> QED
  BY <1>2, AlwaysSound DEF WaitAllComplete

-----------------------------------------------------------------------------
(* The stops of the published tree: each member retains what its reported  *)
(* notifications leave owed.                                               *)
StopInv == \A t \in Thread : Retains(MemberOf(t), host[t].reduced)

(* What the worker of a thread has reduced, and what of it stands for.     *)
LEMMA ReducedBounds ==
    ASSUME SInv, NEW t \in Thread
    PROVE  /\ host[t] \in Native /\ host[t].reduced \in Nat /\ host[t].begun \in Nat
           /\ NextTurn(host[t]) \in Nat
           /\ host[t].live => host[t].reduced < 2 * host[t].begun
           /\ host[t].reduced % 2 = 0 => host[t].reduced + 1 < 2 * NextTurn(host[t])
           /\ host[t].reduced % 2 = 1 => 2 * NextTurn(host[t]) <= host[t].reduced + 1
<1>1. TypeOK
  BY DEF SInv, IInv
<1>2. host[t] \in Native /\ host[t].reduced <= Emitted(host[t])
  BY <1>1 DEF TypeOK
<1> QED
  BY <1>2 DEF Native, Emitted, NextTurn

(* A step that reports nothing and keeps every member calm.                *)
LEMMA QuietRetains ==
    ASSUME SInv, StopInv, Calm(tree, tree'),
           \A t \in Thread : host'[t].reduced = host[t].reduced
    PROVE  StopInv'
<1> SUFFICES ASSUME NEW t \in Thread PROVE Retains(tree'.members[t], host'[t].reduced)
  BY DEF StopInv, MemberOf
<1>1. host[t].reduced \in Nat /\ Retains(tree.members[t], host[t].reduced)
  BY ReducedBounds DEF StopInv, MemberOf
<1> QED
  BY <1>1 DEF Calm, Calmer

(* A step that leaves the host as it is.                                   *)
LEMMA CalmRetains ==
    ASSUME SInv, StopInv, Calm(tree, tree'), UNCHANGED host
    PROVE  StopInv'
BY QuietRetains

(* A step that publishes nothing.                                          *)
LEMMA SameRetains ==
    ASSUME SInv, StopInv, tree' = tree,
           \A t \in Thread : host'[t].reduced = host[t].reduced
    PROVE  StopInv'
BY CalmSame, QuietRetains

(* A step that reports on one thread, or edits its member.                 *)
LEMMA ReportRetains ==
    ASSUME SInv, StopInv, NEW t \in Thread,
           Retains(tree'.members[t], host'[t].reduced),
           \A u \in Thread \ {t} : /\ tree'.members[u] = tree.members[u]
                                   /\ host'[u].reduced = host[u].reduced
    PROVE  StopInv'
BY DEF StopInv, MemberOf

(* Every call of an agent.                                                 *)
LEMMA AgentRetains ==
    ASSUME SInv, StopInv, NEW t \in Thread, AgentStep(t)
    PROVE  StopInv'
<1>1. Fit(tree) /\ host[t].begun \in Nat
  BY KeptParts, ReducedBounds
<1>2. ASSUME NEW T, Apply(T), Calm(tree, T)
      PROVE  StopInv'
  BY <1>2, CalmRetains DEF Apply, Publish
<1>3. ASSUME NEW child \in Thread, ReserveSpawn(t, child)
      PROVE  StopInv'
  BY <1>1, <1>2, <1>3, MarkedCalm DEF ReserveSpawn
<1>4. ASSUME NEW target \in Thread, NEW kind \in {"message", "followup", "interrupt"},
             PrepareAction(t, target, kind)
      PROVE  StopInv'
  <2> DEFINE T == Prepare(tree, t, target, kind)
  <2>1. Calm(tree, T) /\ Apply(T)
    BY <1>1, <1>4, PrepareCalm DEF PrepareAction
  <2> HIDE DEF T
  <2> QED BY <1>2, <2>1
<1>5. \A targets \in Selectable(t) \cup {{}} : targets \in SUBSET Thread
  BY TaskTree DEF Selectable
<1>6. MayRegister(t) => MayWait(tree.members[t]) /\ tree.members[t].hostRunning
  BY DEF MayRegister, MemberOf
<1>7. ASSUME NEW targets \in Selectable(t), NEW mode \in WaitModes, NEW timer \in Timers,
             WaitAgent(t, targets, mode, timer)
      PROVE  StopInv'
  <2>1. /\ targets \in SUBSET Thread /\ timer \in {"none", "armed", "due"}
        /\ (mode = "all") \in BOOLEAN
    BY <1>5, Environment
  <2> DEFINE T == RegisterWait(tree, t, targets, mode = "all", timer, FALSE, FALSE)
  <2>2. Apply(T) /\ MayWait(tree.members[t]) /\ tree.members[t].hostRunning
    BY <1>6, <1>7 DEF WaitAgent
  <2>3. Calm(tree, T)
    BY <1>1, <2>1, <2>2, RegisterWaitCalm
  <2> HIDE DEF T
  <2> QED BY <1>2, <2>2, <2>3
<1>8. ASSUME NEW targets \in Selectable(t) \cup {{}}, NEW mode \in WaitModes,
             NEW timer \in Timers \cup {"none"}, CompactAgent(t, targets, mode, timer)
      PROVE  StopInv'
  <2>1. /\ targets \in SUBSET Thread /\ timer \in {"none", "armed", "due"}
        /\ (mode = "all") \in BOOLEAN /\ (targets = {}) \in BOOLEAN
    BY <1>5, Environment
  <2> DEFINE T == RegisterWait(tree, t, targets, mode = "all", timer, TRUE, targets = {})
  <2>2. Apply(T) /\ MayWait(tree.members[t]) /\ tree.members[t].hostRunning
    BY <1>6, <1>8 DEF CompactAgent
  <2>3. Calm(tree, T)
    BY <1>1, <2>1, <2>2, RegisterWaitCalm
  <2> HIDE DEF T
  <2> QED BY <1>2, <2>2, <2>3
<1>9. ASSUME NEW succeeded \in BOOLEAN, ExecutionEnds(t, succeeded)
      PROVE  StopInv'
  BY <1>1, <1>2, <1>9, ExecutionCalm DEF ExecutionEnds
<1>10. ASSUME ClaimLocalStop(t)
       PROVE  StopInv'
  BY <1>1, <1>2, <1>10, ClaimStopCalm DEF ClaimLocalStop
<1>11. ASSUME SkipCompaction(t)
       PROVE  StopInv'
  BY <1>1, <1>2, <1>11, RejectCompactionCalm DEF SkipCompaction
<1>12. ASSUME InputConsumed(t)
       PROVE  StopInv'
  <2>1. PICK items : Apply(Consume(tree, t, items))
    BY <1>12 DEF InputConsumed
  <2> QED BY <1>1, <1>2, <2>1, MarkedCalm
<1>13. ASSUME NEW timer \in Timers \ {"due"}, WaitForUsageLimit(t, timer)
       PROVE  StopInv'
  BY <1>1, <1>2, <1>13, WaitForProviderCalm, Environment DEF WaitForUsageLimit
<1> QED
  BY <1>3, <1>4, <1>7, <1>8, <1>9, <1>10, <1>11, <1>12, <1>13 DEF AgentStep

(* What a driver claims, reconciles, acknowledges and wakes.               *)
LEMMA DriverRetains ==
    ASSUME SInv, StopInv, NEW t \in Thread,
           \/ \E r \in Refs(tree) : ClaimEffect(r) \/ Reconcile(r)
           \/ \E q \in requests : EffectAcknowledged(q)
           \/ Wake(t)
    PROVE  StopInv'
<1>1. /\ Sound(tree) /\ Fit(tree) /\ tree \in Tree /\ Refs(tree) \subseteq Ref
      /\ RequestsRight(tree, requests) /\ \A q \in requests : q.ref \in Ref
  BY KeptParts
<1>2. ASSUME NEW r \in Refs(tree), ClaimEffect(r)
      PROVE  StopInv'
  <2>1. Aims(tree, r)
    BY <1>1, <1>2, RefsAim DEF ClaimEffect
  <2>2. Calm(tree, Claim(tree, r))
    BY <1>1, <2>1, ClaimCalm
  <2> QED BY <1>2, <2>2, CalmRetains DEF ClaimEffect, Publish
<1>3. ASSUME NEW r \in Refs(tree), Reconcile(r)
      PROVE  StopInv'
  <2> DEFINE receipt == [turn |-> 0, error |-> "none", reconciled |-> TRUE]
  <2>1. Aims(tree, r) /\ r \in Ref /\ receipt.turn \in Nat
    BY <1>1, <1>3, RefsAim DEF Reconcile
  <2>2. Apply(Acknowledge(tree, r, receipt))
    BY <1>3 DEF Reconcile
  <2> HIDE DEF receipt
  <2>3. Calm(tree, Acknowledge(tree, r, receipt))
    BY <1>1, <2>1, AcknowledgeCalm
  <2> QED BY <2>2, <2>3, CalmRetains DEF Apply, Publish
<1>4. ASSUME NEW q \in requests, EffectAcknowledged(q)
      PROVE  StopInv'
  <2> DEFINE r == q.ref
             receipt == [turn |-> q.turn, error |-> q.answer, reconciled |-> FALSE]
  <2>1. r \in Ref /\ receipt.turn \in Nat
    BY DEF SInv, IInv, TypeOK
  <2>2. Known(tree, r) => Aims(tree, r)
    BY <1>1, <2>1 DEF Aims, RequestsRight, RequestRight
  <2>3. tree' = Acknowledge(tree, r, receipt) /\ UNCHANGED host
    BY <1>4 DEF EffectAcknowledged
  <2> HIDE DEF receipt
  <2>4. Calm(tree, Acknowledge(tree, r, receipt))
    BY <1>1, <2>1, <2>2, AcknowledgeCalm
  <2> QED BY <2>3, <2>4, CalmRetains
<1>5. CASE Wake(t)
  BY <1>1, <1>5, PrepareWakeCalm, CalmRetains DEF Wake, Apply, Publish
<1> QED
  BY <1>2, <1>3, <1>4, <1>5

(* The human's input, its commitment in the host's history, and the stop.  *)
LEMMA HumanRetains ==
    ASSUME SInv, StopInv, NEW t \in Thread, HumanStep(t)
    PROVE  StopInv'
<1>1. Fit(tree)
  BY KeptParts
<1>2. CASE InputFromHuman(t)
  <2>1. Calm(tree, HumanInput(tree, t))
    BY <1>1, HumanInputCalm
  <2>2. tree' = HumanInput(tree, t)
    BY <1>2 DEF InputFromHuman, Publish
  <2>3. \A u \in Thread : host'[u].reduced = host[u].reduced
    <3>1. host' = host \/ host' = [host EXCEPT ![t].asked = TRUE]
      BY <1>2 DEF InputFromHuman
    <3>2. host \in [Thread -> Native]
      BY DEF SInv, IInv, TypeOK
    <3> QED BY <3>1, <3>2 DEF Native
  <2> QED BY <2>1, <2>2, <2>3, QuietRetains
<1>3. ASSUME NEW r \in Refs(tree), HumanInputCommitted(r)
      PROVE  StopInv'
  <2>1. PICK h \in Handed(r, tree) : Apply(HumanCommitted(tree, r, h.turn))
    BY <1>3 DEF HumanInputCommitted
  <2> QED BY <1>1, <2>1, MarkedCalm, CalmRetains DEF Apply, Publish
<1>4. CASE HumanInterrupt(t)
  BY <1>1, <1>4, InterruptWaitCalm, CalmRetains DEF HumanInterrupt, Apply, Publish
<1> QED
  BY <1>2, <1>3, <1>4 DEF HumanStep

(* A turn that begins leaves what is reduced as it is.                     *)
LEMMA BeginReduced ==
    ASSUME NEW h \in Native
    PROVE  Begin(h) \in Native /\ Begin(h).reduced = h.reduced
<1> DEFINE k == h.begun + 1
<1>1. k \in Nat
  BY DEF Native
<1>2. Begin(h) = [h EXCEPT !.begun = k, !.live = TRUE]
  BY DEF Begin
<1> HIDE DEF k
<1> QED
  BY <1>1, <1>2 DEF Native

(* What the host does without the tree.                                    *)
LEMMA HostRetains ==
    ASSUME SInv, StopInv, NEW t \in Thread,
           \/ HumanTurn \/ HostTurnEnds(t)
           \/ \E q \in requests : HostTakes(q) \/ HostRefuses(q)
    PROVE  StopInv'
<1>1. host \in [Thread -> Native]
  BY DEF SInv, IInv, TypeOK
<1>2. ASSUME NEW u \in Thread, NEW h, h.reduced = host[u].reduced,
             host' = [host EXCEPT ![u] = h]
      PROVE  \A v \in Thread : host'[v].reduced = host[v].reduced
  BY <1>1, <1>2
<1>3. ASSUME NEW h \in Native
      PROVE  /\ Begin(h) \in Native /\ Begin(h).reduced = h.reduced
             /\ [h EXCEPT !.asked = FALSE].reduced = h.reduced
             /\ [h EXCEPT !.live = FALSE].reduced = h.reduced
  BY BeginReduced DEF Native
<1>4. CASE HumanTurn
  <2> DEFINE g == IF host[Root].live THEN host[Root] ELSE Begin(host[Root])
             h == [g EXCEPT !.asked = FALSE]
  <2>0. Root \in Thread
    BY TaskTree
  <2>1. host' = [host EXCEPT ![Root] = h]
    BY <1>1, <1>4, <2>0 DEF HumanTurn
  <2>2. g \in Native /\ g.reduced = host[Root].reduced
    BY <1>1, <1>3, <2>0
  <2>3. h.reduced = host[Root].reduced
    <3> HIDE DEF g
    <3> QED BY <1>3, <2>2
  <2>4. tree' = tree
    BY <1>4 DEF HumanTurn
  <2> HIDE DEF g, h
  <2>5. \A v \in Thread : host'[v].reduced = host[v].reduced
    BY <1>2, <2>0, <2>1, <2>3
  <2> QED BY <2>4, <2>5, SameRetains
<1>5. CASE HostTurnEnds(t)
  <2> DEFINE h == [host[t] EXCEPT !.live = FALSE]
  <2>1. host' = [host EXCEPT ![t] = h] /\ tree' = tree
    BY <1>5 DEF HostTurnEnds
  <2>2. h.reduced = host[t].reduced
    BY <1>1, <1>3
  <2> HIDE DEF h
  <2>3. \A v \in Thread : host'[v].reduced = host[v].reduced
    BY <1>2, <2>1, <2>2
  <2> QED BY <2>1, <2>3, SameRetains
<1>6. ASSUME NEW q \in requests, HostTakes(q) \/ HostRefuses(q)
      PROVE  StopInv'
  <2> DEFINE r == q.ref
             h == Begin(host[r.thread])
  <2>1. r.thread \in Thread
    BY KeptParts DEF Ref
  <2>2. host' = host \/ host' = [host EXCEPT ![r.thread] = h]
    BY <1>6 DEF HostTakes, HostRefuses, HostAfter
  <2>3. tree' = tree
    BY <1>6 DEF HostTakes, HostRefuses
  <2>4. h.reduced = host[r.thread].reduced
    BY <1>1, <1>3, <2>1
  <2> HIDE DEF h
  <2>5. \A v \in Thread : host'[v].reduced = host[v].reduced
    BY <1>2, <2>1, <2>2, <2>4
  <2> QED BY <2>3, <2>5, SameRetains
<1> QED
  BY <1>4, <1>5, <1>6

(* What the host reports of a thread, by requests and notifications.       *)
LEMMA ReportsRetain ==
    ASSUME SInv, StopInv, NEW t \in Thread,
           \/ RequestStarted(t) \/ ReduceStarted(t) \/ Deadline(t)
           \/ \E outcome \in Outcomes : HostCompleted(t, outcome)
    PROVE  StopInv'
<1> DEFINE k == host[t].reduced
           next == NextTurn(host[t])
<1>1. /\ Fit(tree) /\ Retains(tree.members[t], k)
      /\ host \in [Thread -> Native]
  BY KeptParts DEF StopInv, MemberOf, SInv, IInv, TypeOK
<1>2. /\ k \in Nat /\ host[t].begun \in Nat /\ next \in Nat
      /\ host[t].live => k < 2 * host[t].begun
      /\ k % 2 = 0 => k + 1 < 2 * next
      /\ k % 2 = 1 => 2 * next <= k + 1
  BY ReducedBounds
<1>3. ASSUME host' = [host EXCEPT ![t].reduced = @ + 1]
      PROVE  /\ host'[t].reduced = k + 1
             /\ \A u \in Thread \ {t} : host'[u].reduced = host[u].reduced
  BY <1>1, <1>3 DEF Native
<1> HIDE DEF k, next
<1>4. k + 1 \in Nat /\ k <= k /\ k <= k + 1
  BY <1>2
<1>5. CASE RequestStarted(t)
  <2> DEFINE U == Started(tree, t, host[t].begun)
  <2>1. tree' = U /\ UNCHANGED host /\ host[t].live
    BY <1>5 DEF RequestStarted, Apply, Publish
  <2>2. Retains(U.members[t], k) /\ \A u \in Thread \ {t} : U.members[u] = tree.members[u]
    BY <1>1, <1>2, <1>4, <2>1, StartedRetains
  <2> HIDE DEF U
  <2> QED BY <2>1, <2>2, ReportRetains DEF k
<1>6. CASE ReduceStarted(t)
  <2> DEFINE U == Started(tree, t, next)
  <2>1. /\ tree' = U /\ k % 2 = 0 /\ host'[t].reduced = k + 1
        /\ \A u \in Thread \ {t} : host'[u].reduced = host[u].reduced
    BY <1>3, <1>6 DEF ReduceStarted, k, next
  <2>2. Retains(U.members[t], k + 1) /\ \A u \in Thread \ {t} : U.members[u] = tree.members[u]
    BY <1>1, <1>2, <1>4, <2>1, StartedRetains
  <2> HIDE DEF U
  <2> QED BY <2>1, <2>2, ReportRetains
<1>7. CASE Deadline(t)
  BY <1>1, <1>7, DeadlineCalm, CalmRetains DEF Deadline, Apply, Publish, MemberOf
<1>8. ASSUME NEW outcome \in Outcomes, HostCompleted(t, outcome)
      PROVE  StopInv'
  <2> DEFINE C == Checkpoint(tree, t, next)
             T == Terminal(tree, t, next, outcome)
  <2>1. /\ tree' = IF outcome = "checkpoint" THEN C ELSE T
        /\ k % 2 = 1 /\ host'[t].reduced = k + 1
        /\ \A u \in Thread \ {t} : host'[u].reduced = host[u].reduced
    BY <1>3, <1>8 DEF HostCompleted, k, next
  <2>2. 2 * next <= k + 1
    BY <1>2, <2>1
  <2>3. CASE outcome = "checkpoint"
    <3>1. Retains(C.members[t], k + 1) /\ \A u \in Thread \ {t} : C.members[u] = tree.members[u]
      BY <1>1, <1>2, <1>4, <2>2, CheckpointRetains
    <3> HIDE DEF C
    <3> QED BY <2>1, <2>3, <3>1, ReportRetains
  <2>4. CASE outcome # "checkpoint"
    <3>1. outcome \in Outcome \cup {"recoverable"}
      BY <2>4, Environment
    <3>2. Retains(T.members[t], k + 1) /\ \A u \in Thread \ {t} : T.members[u] = tree.members[u]
      BY <1>1, <1>2, <1>4, <2>2, <3>1, TerminalRetains
    <3> HIDE DEF T
    <3> QED BY <2>1, <2>4, <3>2, ReportRetains
  <2> QED BY <2>3, <2>4
<1> QED
  BY <1>5, <1>6, <1>7, <1>8

(* A pause leaves the members it stops without a registered wait.          *)
LEMMA PauseRetains ==
    ASSUME SInv, StopInv, NEW t \in Thread, Pause(t)
    PROVE  StopInv'
<1> DEFINE S == IF t = Root THEN Thread ELSE {t}
           T == PauseAll(tree, S)
           stopped(u) == [host[u] EXCEPT !.live = FALSE, !.reduced = 2 * host[u].begun,
                                         !.asked = FALSE]
<1>1. S \in SUBSET Thread /\ Fit(tree)
  BY KeptParts
<1>2. tree' = T /\ host' = [u \in Thread |-> IF u \in S THEN stopped(u) ELSE host[u]]
  BY DEF Pause, Publish
<1>3. ASSUME NEW u \in Thread
      PROVE  /\ u \in S => host'[u].reduced \in Nat
             /\ u \notin S => host'[u].reduced = host[u].reduced
  <2>1. stopped(u).reduced \in Nat
    BY ReducedBounds DEF Native
  <2> HIDE DEF S, stopped
  <2> QED BY <1>2, <2>1
<1> HIDE DEF S
<1>4. /\ \A u \in S : Idle(T.members[u])
      /\ \A u \in Thread \ S : T.members[u] = tree.members[u]
  BY <1>1, PausedIdle
<1> HIDE DEF T, stopped
<1> SUFFICES ASSUME NEW u \in Thread PROVE Retains(tree'.members[u], host'[u].reduced)
  BY DEF StopInv, MemberOf
<1>5. CASE u \in S
  BY <1>2, <1>3, <1>4, <1>5, IdleRetains
<1>6. CASE u \notin S
  BY <1>2, <1>3, <1>4, <1>6 DEF StopInv, MemberOf
<1> QED
  BY <1>5, <1>6

(* Every step retains the stops that are owed.                             *)
LEMMA StopStep == ASSUME SInv, StopInv, [Next]_vars PROVE StopInv'
<1>1. CASE HumanTurn
  BY <1>1, HostRetains, TaskTree
<1>2. CASE DriverStep
  <2>1. ASSUME NEW r \in Refs(tree), ClaimEffect(r) \/ Reconcile(r)
        PROVE  StopInv'
    BY <2>1, DriverRetains, TaskTree
  <2>2. ASSUME NEW q \in requests, HostTakes(q) \/ HostRefuses(q)
        PROVE  StopInv'
    BY <2>2, HostRetains, TaskTree
  <2>3. ASSUME NEW q \in requests, EffectAcknowledged(q)
        PROVE  StopInv'
    BY <2>3, DriverRetains, TaskTree
  <2> QED BY <1>2, <2>1, <2>2, <2>3 DEF DriverStep
<1>3. ASSUME NEW t \in Thread, AgentStep(t) \/ HumanStep(t) \/ HostStep(t) \/ Wake(t) \/ Pause(t)
      PROVE  StopInv'
  BY <1>3, AgentRetains, HumanRetains, HostRetains, ReportsRetain, DriverRetains, PauseRetains
     DEF HostStep
<1>4. CASE UNCHANGED vars
  BY <1>4, SameRetains DEF vars
<1> QED BY <1>1, <1>2, <1>3, <1>4 DEF Next

(* No member has a wait at first.                                          *)
LEMMA StopInit == ASSUME Init PROVE StopInv
<1> DEFINE first == Working1(Absent)
<1>1. tree.members = [t \in Thread |-> IF t \in Started0 THEN first ELSE Absent]
  BY DEF Init
<1>2. \A m \in {first, Absent} : m.wait = NoWait /\ m.recoveryWait = NoWait
  <2>1. Absent.wait = NoWait /\ Absent.recoveryWait = NoWait
    BY DEF Absent
  <2>2. Absent \in Member
    BY NoWaitType, NoStopType DEF Absent, Member, Status
  <2>3. \A m \in Member : Working1(m).wait = m.wait /\ Working1(m).recoveryWait = m.recoveryWait
    BY DEF Working1, Member
  <2> QED BY <2>1, <2>2, <2>3
<1>3. NoWait.state # "registered"
  BY DEF NoWait
<1> HIDE DEF first
<1> SUFFICES ASSUME NEW t \in Thread PROVE Retains(tree.members[t], host[t].reduced)
  BY DEF StopInv, MemberOf
<1>4. Idle(tree.members[t])
  BY <1>1, <1>2, <1>3 DEF Idle
<1>5. SInv
  BY SoundInit
<1> QED
  BY <1>4, <1>5, IdleRetains, ReducedBounds

(* Whenever the executing turn's own wait is committed, the stop that      *)
(* ClaimLocalStop dereferences is there.                                   *)
THEOREM StopsRetained == Spec => []StopRetained
<1>1. Init => StopInv
  BY StopInit
<1>2. SInv /\ StopInv /\ [Next]_vars => StopInv'
  BY StopStep
<1>3. StopInv => StopRetained
  BY DEF StopInv, Retains, Backed, Current, StopRetained, MemberOf
<1>4. Spec => []StopInv
  BY <1>1, <1>2, AlwaysSound, PTL DEF Spec
<1> QED
  BY <1>3, <1>4, PTL
=============================================================================
