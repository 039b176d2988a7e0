------------------------- MODULE ControlWork_proofs -------------------------
(***************************************************************************)
(* Every handler keeps a tree good: typed, and its work consistent with    *)
(* the final results reported of it.                                       *)
(***************************************************************************)
EXTENDS ControlIntents, TLAPS

Good(T) == T \in Tree /\ WorkConsistent(T)

(* What a member may become without disturbing the results reported of it: *)
(* it stays a member, its generation does not go back, and settled work is *)
(* reserved again only in a new generation.  Nothing is reported of a      *)
(* thread that is not a member yet.                                        *)
MayBecome(m, n) ==
    /\ n \in Member /\ Executing(n)
    /\ m.status # "absent" =>
          /\ n.status # "absent"
          /\ n.generation >= m.generation
          /\ n.generation = m.generation /\ Reserved(n) => Reserved(m)

(* What an effect may become: it reports the same work, if any.            *)
SameWork(e, f) ==
    /\ f \in Effect /\ f.kind = e.kind /\ f.caller = e.caller
    /\ f.callerGeneration = e.callerGeneration

(* The parts of a good tree are typed.                                     *)
LEMMA TreeTypes ==
    ASSUME NEW T, T \in Tree
    PROVE  /\ T = [members |-> T.members, effects |-> T.effects]
           /\ T.members \in [Thread -> Member]
           /\ T.effects \in Seq(Effect)
           /\ Len(T.effects) \in Nat
           /\ \A t \in Thread : T.members[t] \in Member
           /\ \A i \in Indices(T) : T.effects[i] \in Effect
BY DEF Tree, Indices

(* Replacing the effects of a tree replaces nothing else.                  *)
LEMMA WithEffects ==
    ASSUME NEW T, T \in Tree, NEW es
    PROVE  [T EXCEPT !.effects = es] = [members |-> T.members, effects |-> es]
BY DEF Tree

(* Replacing the members of a tree replaces nothing else.                  *)
LEMMA WithMembers ==
    ASSUME NEW T, T \in Tree, NEW f
    PROVE  [T EXCEPT !.members = f] = [members |-> f, effects |-> T.effects]
BY DEF Tree

(* Members are replaced by what they may become (every edit of members).   *)
LEMMA MembersGood ==
    ASSUME NEW T, Good(T), NEW f, f \in [Thread -> Member],
           \A u \in Thread : MayBecome(T.members[u], f[u])
    PROVE  /\ Good([T EXCEPT !.members = f])
           /\ [T EXCEPT !.members = f].members = f
           /\ [T EXCEPT !.members = f].effects = T.effects
<1> DEFINE U == [T EXCEPT !.members = f]
<1>1. T \in Tree /\ WorkConsistent(T)
  BY DEF Good
<1>2. U.members = f /\ U.effects = T.effects /\ U \in Tree
  BY <1>1, TreeTypes, WithMembers DEF Tree
<1>3. Indices(U) = Indices(T)
  BY <1>2 DEF Indices
<1> HIDE DEF U
<1>4. \A u \in Thread : Executing(U.members[u])
  BY <1>2 DEF MayBecome
<1>5. ASSUME NEW i \in Indices(U), U.effects[i].kind = "final"
      PROVE  ReportsSettledWork(U, U.effects[i])
  <2> DEFINE c == U.effects[i].caller
  <2>1. ReportsSettledWork(T, T.effects[i]) /\ U.effects[i] = T.effects[i]
    BY <1>1, <1>2, <1>3, <1>5 DEF WorkConsistent
  <2>2. c \in Thread /\ U.effects[i].callerGeneration \in Nat
    BY <1>1, <1>3, <2>1, TreeTypes DEF Effect
  <2>3. f[c].generation \in Nat /\ T.members[c].generation \in Nat
    BY <1>1, <2>2, TreeTypes DEF Member
  <2>4. MayBecome(T.members[c], f[c])
    BY <2>2
  <2> QED
    BY <1>2, <2>1, <2>2, <2>3, <2>4 DEF ReportsSettledWork, MayBecome
<1> QED
  BY <1>1, <1>2, <1>3, <1>4, <1>5 DEF Good, WorkConsistent, U

(* One member is replaced.                                                 *)
LEMMA PutGood ==
    ASSUME NEW T, Good(T), NEW t \in Thread, NEW m, MayBecome(T.members[t], m)
    PROVE  /\ Good(Put(T, t, m))
           /\ Put(T, t, m).members[t] = m
           /\ Put(T, t, m).effects = T.effects
           /\ \A u \in Thread \ {t} : Put(T, t, m).members[u] = T.members[u]
<1> DEFINE f == [T.members EXCEPT ![t] = m]
<1>1. /\ T \in Tree /\ m \in Member /\ T.members \in [Thread -> Member]
      /\ \A u \in Thread : Executing(T.members[u])
  BY TreeTypes DEF Good, MayBecome, WorkConsistent
<1>2. f \in [Thread -> Member] /\ f[t] = m /\ \A u \in Thread \ {t} : f[u] = T.members[u]
  BY <1>1
<1>3. \A u \in Thread : MayBecome(T.members[u], T.members[u])
  BY <1>1 DEF MayBecome, Member
<1>4. Put(T, t, m) = [T EXCEPT !.members = f]
  BY DEF Put
<1> HIDE DEF f
<1>5. \A u \in Thread : MayBecome(T.members[u], f[u])
  BY <1>2, <1>3
<1> QED
  BY <1>2, <1>4, <1>5, MembersGood

(* Effects are edited in place without changing the work they report.      *)
LEMMA EffectsGood ==
    ASSUME NEW T, Good(T), NEW f, f \in [Indices(T) -> Effect],
           \A i \in Indices(T) : SameWork(T.effects[i], f[i])
    PROVE  /\ Good([T EXCEPT !.effects = f])
           /\ [T EXCEPT !.effects = f].members = T.members
           /\ [T EXCEPT !.effects = f].effects = f
           /\ Indices([T EXCEPT !.effects = f]) = Indices(T)
<1> DEFINE U == [T EXCEPT !.effects = f]
<1>1. T \in Tree /\ WorkConsistent(T)
  BY DEF Good
<1>2. U.members = T.members /\ U.effects = f
  BY <1>1 DEF Tree
<1>3. f \in Seq(Effect) /\ Len(f) = Len(T.effects)
  BY <1>1, TreeTypes DEF Indices
<1>4. U \in Tree /\ Indices(U) = Indices(T)
  BY <1>1, <1>2, <1>3, TreeTypes DEF Tree, Indices
<1>5. \A i \in Indices(T) : /\ f[i].kind = T.effects[i].kind
                            /\ f[i].caller = T.effects[i].caller
                            /\ f[i].callerGeneration = T.effects[i].callerGeneration
  BY DEF SameWork
<1>6. \A t \in Thread : Executing(U.members[t])
  BY <1>1, <1>2 DEF WorkConsistent
<1>7. \A i \in Indices(U) : U.effects[i].kind = "final" => ReportsSettledWork(U, U.effects[i])
  BY <1>1, <1>2, <1>4, <1>5 DEF WorkConsistent, ReportsSettledWork
<1>8. \A i, j \in Indices(U) : SameReport(U.effects[i], U.effects[j]) => i = j
  BY <1>1, <1>2, <1>4, <1>5 DEF WorkConsistent, SameReport
<1> QED
  BY <1>2, <1>4, <1>6, <1>7, <1>8 DEF Good, WorkConsistent

(* An effect is appended that reports no work, or settled work not yet     *)
(* reported.                                                               *)
LEMMA AddGood ==
    ASSUME NEW T, Good(T), NEW e, e \in Effect,
           e.kind = "final" =>
             /\ ReportsSettledWork(T, e)
             /\ \A i \in Indices(T) : ~SameReport(T.effects[i], e)
    PROVE  /\ Good(AddEffect(T, e))
           /\ AddEffect(T, e).members = T.members
           /\ Len(AddEffect(T, e).effects) = Len(T.effects) + 1
           /\ AddEffect(T, e).effects[Len(T.effects) + 1] = e
<1> DEFINE U == AddEffect(T, e)
<1>1. T \in Tree /\ WorkConsistent(T)
  BY DEF Good
<1>0. [i \in Indices(T) |-> T.effects[i]] = T.effects
  BY <1>1, TreeTypes DEF Indices
<1>2. U.members = T.members /\ U.effects = Append(T.effects, e)
  BY <1>0, <1>1 DEF AddEffect, Tree
<1>3. /\ Len(U.effects) = Len(T.effects) + 1
      /\ U.effects[Len(T.effects) + 1] = e
      /\ \A i \in Indices(T) : U.effects[i] = T.effects[i]
      /\ U.effects \in Seq(Effect)
  BY <1>1, <1>2, TreeTypes DEF Indices
<1>4. U \in Tree /\ Indices(U) = Indices(T) \cup {Len(T.effects) + 1}
  <2>1. U = [members |-> T.members, effects |-> Append(T.effects, e)]
    BY <1>0, <1>1, WithEffects DEF AddEffect
  <2>2. U \in Tree
    BY <1>1, <1>2, <1>3, <2>1, TreeTypes DEF Tree
  <2>3. Indices(U) = Indices(T) \cup {Len(T.effects) + 1}
    BY <1>1, <1>3, TreeTypes DEF Indices
  <2> QED
    BY <2>2, <2>3
<1>5. \A t \in Thread : Executing(U.members[t])
  BY <1>1, <1>2 DEF WorkConsistent
<1>6. \A i \in Indices(U) : U.effects[i].kind = "final" => ReportsSettledWork(U, U.effects[i])
  BY <1>1, <1>2, <1>3, <1>4 DEF WorkConsistent, ReportsSettledWork
<1>7. \A i, j \in Indices(U) : SameReport(U.effects[i], U.effects[j]) => i = j
  BY <1>1, <1>2, <1>3, <1>4 DEF WorkConsistent, SameReport
<1> QED
  BY <1>2, <1>3, <1>4, <1>5, <1>6, <1>7 DEF Good, WorkConsistent

-----------------------------------------------------------------------------
(* Settling.                                                               *)

KeepsStanding(m, n) ==
    n.status = m.status /\ n.generation = m.generation /\ n.hostRunning = m.hostRunning

KeepsEffects(T, U) ==
    /\ Indices(U) = Indices(T)
    /\ \A i \in Indices(T) : SameWork(T.effects[i], U.effects[i])

(* Edits of a wait, a stop or the audience leave the work's standing.      *)
LEMMA StandingMayBecome ==
    ASSUME NEW m \in Member, NEW n \in Member, KeepsStanding(m, n), Executing(m)
    PROVE  MayBecome(m, n)
BY DEF KeepsStanding, MayBecome, Executing, Reserved, Member

(* What a good tree says of one member.                                    *)
LEMMA GoodParts ==
    ASSUME NEW T, Good(T), NEW t \in Thread
    PROVE  T.members[t] \in Member /\ Executing(T.members[t]) /\ T \in Tree
BY TreeTypes DEF Good, WorkConsistent

(* What a good tree says of its effects.                                   *)
LEMMA GoodEffects ==
    ASSUME NEW T, Good(T)
    PROVE  /\ \A i \in Indices(T) : T.effects[i] \in Effect
           /\ Len(T.effects) \in Nat /\ Indices(T) = 1 .. Len(T.effects)
           /\ \A f : f \in [Indices(T) -> Effect] => Len(f) = Len(T.effects)
BY TreeTypes DEF Good, Indices

(* The edits of one effect that its reports survive.                       *)
LEMMA EditEffect ==
    ASSUME NEW e \in Effect
    PROVE  /\ SameWork(e, e)
           /\ \A s \in IntentState : SameWork(e, SetState(e, s))
           /\ \A id \in Nat : SameWork(e, [e EXCEPT !.claimedBy = id])
           /\ \A turn \in Nat : SameWork(e, [e EXCEPT !.turn = turn])
           /\ \A b \in BOOLEAN : SameWork(e, [e EXCEPT !.consumed = b])
BY DEF SameWork, Effect, SetState

(* A wait whose state, stop or checkpoint is set is still a wait.          *)
LEMMA EditWait ==
    ASSUME NEW w \in Wait
    PROVE  /\ \A s, c \in IntentState : [w EXCEPT !.state = s, !.stop = "none", !.compact = c] \in Wait
           /\ \A s, c \in IntentState : [w EXCEPT !.state = s, !.compact = c] \in Wait
           /\ w.state \in IntentState /\ w.compact \in IntentState /\ w.id \in Nat
BY DEF Wait

(* Canceling a subscription changes the thread's wait and releases claims. *)
LEMMA CancelSubscriptionGood ==
    ASSUME NEW T, Good(T), NEW t \in Thread
    PROVE  LET C == CancelSubscription(T, t) IN
           /\ Good(C)
           /\ KeepsStanding(T.members[t], C.members[t])
           /\ KeepsEffects(T, C)
<1> DEFINE m == T.members[t]
           w == m.wait
           canceled == [w EXCEPT !.state = "canceled", !.stop = "none",
                          !.compact = IF @ \in HostOwned \cup {"none"} THEN @ ELSE "canceled"]
           n == [m EXCEPT !.wait = canceled]
           U == Put(T, t, n)
           f == [i \in Indices(U) |->
                   IF w.state = "queued" /\ U.effects[i].target = t /\ U.effects[i].claimedBy = w.id
                   THEN [U.effects[i] EXCEPT !.claimedBy = 0] ELSE U.effects[i]]
<1>1. m \in Member /\ Executing(m) /\ T \in Tree
  BY GoodParts
<1>2. CASE w.state = "none"
  BY <1>2, GoodEffects, EditEffect DEF CancelSubscription, KeepsStanding, KeepsEffects
<1>3. CASE w.state # "none"
  <2>1. canceled \in Wait
    <3> DEFINE c == IF w.compact \in HostOwned \cup {"none"} THEN w.compact ELSE "canceled"
    <3>1. w \in Wait
      BY <1>1 DEF Member
    <3>2. c \in IntentState /\ "canceled" \in IntentState
      BY <3>1, EditWait DEF IntentState
    <3>3. canceled = [w EXCEPT !.state = "canceled", !.stop = "none", !.compact = c]
      OBVIOUS
    <3> HIDE DEF c, canceled, w
    <3> QED
      BY <3>1, <3>2, <3>3, EditWait
  <2>2. n \in Member /\ KeepsStanding(m, n)
    BY <1>1, <2>1 DEF Member, KeepsStanding
  <2>3. Good(U) /\ U.members[t] = n /\ U.effects = T.effects
    <3>1. MayBecome(m, n)
      BY <1>1, <2>2, StandingMayBecome
    <3> QED
      BY <3>1, PutGood
  <2>4. \A i \in Indices(U) : U.effects[i] \in Effect
    BY <2>3, GoodEffects
  <2>5. \A i \in Indices(U) : SameWork(U.effects[i], f[i])
    BY <2>4, EditEffect
  <2>6. CancelSubscription(T, t) = [U EXCEPT !.effects = f]
    BY <1>3 DEF CancelSubscription, EachEffect
  <2>7. \A i \in Indices(U) : f[i] \in Effect
    BY <2>5 DEF SameWork
  <2>8. f \in [Indices(U) -> Effect]
    BY <2>7
  <2> HIDE DEF f, U, n
  <2>9. /\ Good([U EXCEPT !.effects = f]) /\ [U EXCEPT !.effects = f].members = U.members
        /\ [U EXCEPT !.effects = f].effects = f
    BY <2>3, <2>5, <2>8, EffectsGood
  <2>10. KeepsEffects(T, [U EXCEPT !.effects = f])
    <3>1. Indices([U EXCEPT !.effects = f]) = Indices(U) /\ Indices(U) = Indices(T)
      BY <2>3, <2>5, <2>8, EffectsGood DEF Indices
    <3> QED
      BY <2>3, <2>5, <2>9, <3>1 DEF KeepsEffects
  <2> QED
    BY <2>2, <2>3, <2>6, <2>9, <2>10
<1> QED
  BY <1>2, <1>3

(* Canceling a deferred completion changes that effect's state alone.      *)
LEMMA CancelCompletionGood ==
    ASSUME NEW T, Good(T), NEW t \in Thread
    PROVE  LET C == CancelCompletion(T, t) IN
           Good(C) /\ C.members = T.members /\ KeepsEffects(T, C)
<1> DEFINE f == [i \in Indices(T) |->
                   IF IsCompletionOf(T.effects[i], t, T.members[t].stop)
                        /\ T.effects[i].state = "pending"
                   THEN SetState(T.effects[i], "canceled") ELSE T.effects[i]]
<1>1. \A i \in Indices(T) : T.effects[i] \in Effect
  BY GoodEffects
<1>2. \A i \in Indices(T) : SameWork(T.effects[i], f[i])
  BY <1>1, EditEffect DEF IntentState
<1>3. CancelCompletion(T, t) = [T EXCEPT !.effects = f]
  BY DEF CancelCompletion, EachEffect
<1>4. \A i \in Indices(T) : f[i] \in Effect
  BY <1>2 DEF SameWork
<1>5. f \in [Indices(T) -> Effect]
  BY <1>4
<1> HIDE DEF f
<1> QED
  BY <1>2, <1>3, <1>5, EffectsGood DEF KeepsEffects

(* Reserved work that executes nothing settles once, with one new result.  *)
LEMMA FinishGood ==
    ASSUME NEW T, Good(T), NEW t \in Thread, NEW status \in Outcome,
           Reserved(T.members[t]), ~T.members[t].hostRunning
    PROVE  Good(Finish(T, t, status))
<1> DEFINE m == T.members[t]
           S == CancelCompletion(T, t)
           n == [S.members[t] EXCEPT !.status = status]
           P == Put(S, t, n)
           R == CancelUnlessDispatched(P, t)
           k == R.members[t]
           final == [NewEffect("final", t, k.turn, k.generation, Parent[t], 0)
                       EXCEPT !.outcome = status]
<1>1. Good(S) /\ S.members = T.members /\ KeepsEffects(T, S)
  BY CancelCompletionGood
<1>2. m \in Member
  BY GoodParts
<1>3. /\ n \in Member /\ n.status = status /\ n.generation = m.generation
      /\ n.hostRunning = FALSE
  BY <1>1, <1>2 DEF Member, Outcome, Status
<1>4. MayBecome(m, n)
  BY <1>2, <1>3 DEF MayBecome, Executing, Outcome, Reserved, ReservedStatus, ActiveStatus, Member
<1>5. Good(P) /\ P.members[t] = n /\ P.effects = S.effects
  <2> HIDE DEF n, S
  <2> QED BY <1>1, <1>4, PutGood
<1>6. Good(R) /\ KeepsStanding(n, k) /\ KeepsEffects(P, R)
  <2> HIDE DEF n, P
  <2>1. KeepsEffects(P, P) /\ KeepsStanding(n, n)
    BY <1>5, GoodEffects, EditEffect DEF KeepsEffects, KeepsStanding
  <2> QED
    BY <1>5, <2>1, CancelSubscriptionGood DEF CancelUnlessDispatched
<1>7. k \in Member /\ k.status = status /\ k.generation = m.generation
  BY <1>3, <1>6, GoodParts DEF KeepsStanding
<1>8. final \in Effect /\ final.kind = "final" /\ final.caller = t
      /\ final.callerGeneration = m.generation
  <2> HIDE DEF k
  <2> QED BY <1>7, TaskTree DEF NewEffect, Effect, Member, Outcome, EffectKind, Phase, IntentState
<1>9. ReportsSettledWork(R, final)
  <2> HIDE DEF final, R
  <2> QED BY <1>2, <1>7, <1>8 DEF ReportsSettledWork, Outcome, Reserved, ReservedStatus, ActiveStatus, Member
<1>10. \A i \in Indices(R) : ~SameReport(R.effects[i], final)
  <2> SUFFICES ASSUME NEW i \in Indices(R), SameReport(R.effects[i], final)
               PROVE  FALSE
    OBVIOUS
  <2> HIDE DEF final, R, P, S
  <2>1. i \in Indices(T) /\ SameWork(T.effects[i], S.effects[i]) /\ SameWork(P.effects[i], R.effects[i])
    BY <1>1, <1>5, <1>6 DEF KeepsEffects, Indices
  <2>2. SameReport(T.effects[i], final)
    BY <1>5, <2>1 DEF SameReport, SameWork
  <2>3. ReportsSettledWork(T, T.effects[i])
    BY <2>1, <2>2 DEF Good, WorkConsistent, SameReport
  <2> QED
    BY <1>8, <2>2, <2>3 DEF SameReport, ReportsSettledWork
<1>11. Finish(T, t, status) = IF t = Root THEN R ELSE AddEffect(R, final)
  BY DEF Finish
<1> HIDE DEF R, final
<1> QED
  BY <1>6, <1>8, <1>9, <1>10, <1>11, AddGood

(* The absent wait is a wait value (Member.Wait is nil).                   *)
LEMMA NoWaitType == NoWait \in Wait
BY DEF NoWait, Wait, NoRecovery, IntentState

(* A continuation that owns the stop keeps the work reserved.              *)
LEMMA HoldGood ==
    ASSUME NEW T, Good(T), NEW t \in Thread, NEW w \in Wait,
           NEW kind \in {"recovery", "provider"}, NEW turn \in Nat, Reserved(T.members[t])
    PROVE  Good(Hold(T, t, w, kind, turn))
<1> DEFINE m == T.members[t]
           C == IF Dispatched(m.wait) THEN T ELSE CancelSubscription(T, t)
           k == C.members[t]
           stop == [kind |-> kind, generation |-> m.generation, turn |-> turn, wait |-> w.id]
           n == [k EXCEPT !.wait = IF Dispatched(m.wait) THEN @ ELSE w,
                   !.recoveryWait = IF Dispatched(m.wait) THEN w ELSE @,
                   !.stop = stop, !.status = "waiting", !.calls = w.id]
<1>1. Good(C) /\ KeepsStanding(m, k)
  BY CancelSubscriptionGood DEF KeepsStanding
<1>2. m \in Member /\ k \in Member /\ w.id \in Nat
  BY <1>1, GoodParts DEF Wait
<1>3. stop \in LocalStop
  BY <1>2 DEF LocalStop, Member
<1>4. /\ n \in Member /\ n.status = "waiting" /\ n.generation = k.generation
  <2> DEFINE w1 == IF Dispatched(m.wait) THEN k.wait ELSE w
             w2 == IF Dispatched(m.wait) THEN w ELSE k.recoveryWait
  <2>1. w1 \in Wait /\ w2 \in Wait
    BY <1>2 DEF Member
  <2>2. n = [k EXCEPT !.wait = w1, !.recoveryWait = w2, !.stop = stop,
                      !.status = "waiting", !.calls = w.id]
    OBVIOUS
  <2> HIDE DEF w1, w2, n, k, stop
  <2> QED
    BY <1>2, <1>3, <2>1, <2>2 DEF Member, Status, ReservedStatus, ActiveStatus
<1>5. Reserved(k)
  BY <1>1 DEF KeepsStanding, Reserved
<1>6. MayBecome(k, n)
  <2> HIDE DEF n, k
  <2> QED BY <1>2, <1>4, <1>5 DEF MayBecome, Executing, Member
<1>7. Hold(T, t, w, kind, turn) = Put(C, t, n)
  BY DEF Hold
<1> HIDE DEF C, n
<1> QED
  BY <1>1, <1>6, <1>7, PutGood

(* Installing a queued continuation leaves the work's standing, except     *)
(* that uncertain work waits again.                                        *)
LEMMA SettleRecoveryGood ==
    ASSUME NEW T, Good(T), NEW t \in Thread
    PROVE  Good(SettleRecovery(T, t))
<1> DEFINE m == T.members[t]
           s == IF m.status = "uncertain" THEN "waiting" ELSE m.status
           n == [m EXCEPT !.wait = m.recoveryWait, !.recoveryWait = NoWait, !.status = s]
<1>1. m \in Member /\ Executing(m)
  BY GoodParts
<1>2. s \in Status /\ (s \in ReservedStatus => m.status \in ReservedStatus)
      /\ (s = "absent" => m.status = "absent")
      /\ (m.status \in {"working", "waiting", "uncertain"} => s \in {"working", "waiting", "uncertain"})
  BY <1>1 DEF Member, Status, ReservedStatus, ActiveStatus
<1>3. n \in Member /\ n.status = s /\ n.generation = m.generation /\ n.hostRunning = m.hostRunning
  <2> HIDE DEF s
  <2> QED BY <1>1, <1>2, NoWaitType DEF Member
<1>4. MayBecome(m, n)
  <2> HIDE DEF n, s
  <2> QED BY <1>1, <1>2, <1>3 DEF MayBecome, Executing, Reserved, Member
<1>5. SettleRecovery(T, t) = T \/ SettleRecovery(T, t) = Put(T, t, n)
  BY DEF SettleRecovery
<1> HIDE DEF n
<1> QED
  BY <1>4, <1>5, PutGood

(* pausedState returns a state of an intent.                               *)
LEMMA PausedStateType ==
    ASSUME NEW s \in IntentState
    PROVE  PausedState(s) \in IntentState
BY DEF PausedState, IntentState, HostOwned

(* Pausing stops execution, keeps work reserved and reports nothing.       *)
LEMMA PauseAllGood ==
    ASSUME NEW T, Good(T), NEW S \in SUBSET Thread
    PROVE  Good(PauseAll(T, S))
<1> DEFINE PauseWait(w) == [w EXCEPT !.state = PausedState(w.state), !.compact = PausedState(w.compact)]
           paused(m) == [m EXCEPT !.status = IF Reserved(m) THEN "paused" ELSE m.status,
                           !.hostRunning = FALSE, !.turn = 0,
                           !.wait = PauseWait(m.wait), !.recoveryWait = PauseWait(m.recoveryWait)]
           g == [t \in Thread |-> IF t \in S THEN paused(T.members[t]) ELSE T.members[t]]
           U == [T EXCEPT !.members = g]
           touched(e) == e.caller \in S \/ \E t \in S : Addressed(e, t)
           f == [i \in Indices(U) |->
                   IF touched(U.effects[i]) THEN SetState(U.effects[i], PausedState(U.effects[i].state))
                   ELSE U.effects[i]]
<1>1. \A w \in Wait : PauseWait(w) \in Wait
  BY EditWait, PausedStateType
<1>2. ASSUME NEW m \in Member, Executing(m)
      PROVE  MayBecome(m, paused(m)) /\ MayBecome(m, m)
  <2> DEFINE s == IF Reserved(m) THEN "paused" ELSE m.status
             w1 == PauseWait(m.wait)
             w2 == PauseWait(m.recoveryWait)
             n == [m EXCEPT !.status = s, !.hostRunning = FALSE, !.turn = 0,
                            !.wait = w1, !.recoveryWait = w2]
  <2>1. w1 \in Wait /\ w2 \in Wait
    BY <1>1, <1>2 DEF Member
  <2>2. s \in Status /\ (s = "absent" => m.status = "absent")
        /\ (s \in ReservedStatus => Reserved(m))
    BY <1>2 DEF Member, Status, Reserved, ReservedStatus, ActiveStatus
  <2>3. n = paused(m)
    OBVIOUS
  <2> HIDE DEF s, w1, w2, PauseWait
  <2>4. n \in Member /\ n.status = s /\ n.generation = m.generation /\ ~n.hostRunning
    BY <1>2, <2>1, <2>2 DEF Member
  <2>5. m.generation \in Nat
    BY <1>2 DEF Member
  <2>6. MayBecome(m, n)
    <3> HIDE DEF n
    <3> QED BY <1>2, <2>2, <2>4, <2>5 DEF MayBecome, Executing, Reserved
  <2>7. MayBecome(m, m)
    BY <1>2, <2>5 DEF MayBecome
  <2> QED
    BY <2>3, <2>6, <2>7
<1> HIDE DEF paused, PauseWait
<1>3. \A t \in Thread : MayBecome(T.members[t], g[t])
  BY <1>2, GoodParts
<1>4. g \in [Thread -> Member]
  <2>1. \A t \in Thread : g[t] \in Member
    BY <1>3 DEF MayBecome
  <2> QED BY <2>1
<1> HIDE DEF g
<1>5. Good(U) /\ U.members = g
  BY <1>3, <1>4, MembersGood
<1> HIDE DEF U, touched
<1>6. \A i \in Indices(U) : SameWork(U.effects[i], f[i])
  <2>1. \A i \in Indices(U) : U.effects[i] \in Effect /\ PausedState(U.effects[i].state) \in IntentState
    BY <1>5, GoodEffects, PausedStateType DEF Effect
  <2> QED BY <2>1, EditEffect
<1>7. f \in [Indices(U) -> Effect]
  <2>1. \A i \in Indices(U) : f[i] \in Effect
    BY <1>6 DEF SameWork
  <2> QED BY <2>1
<1>8. PauseAll(T, S) = [U EXCEPT !.effects = f]
  BY DEF PauseAll, EachEffect, U, g, paused, PauseWait, touched
<1> HIDE DEF f
<1> QED
  BY <1>5, <1>6, <1>7, <1>8, EffectsGood

-----------------------------------------------------------------------------
(* Host events and waits.                                                  *)

(* A cleared stop is a stop value (Member.LocalStop is nil).               *)
LEMMA NoStopType == NoStop \in LocalStop
BY DEF NoStop, LocalStop

(* A turn starts executing reserved work, or work of a new generation.     *)
LEMMA StartedGood ==
    ASSUME NEW T, Good(T), NEW t \in Thread, NEW turn \in Nat
    PROVE  Good(Started(T, t, turn))
<1> DEFINE m == T.members[t]
           C == IF t = Root /\ m.wait.state \in {"registered", "queued"}
                THEN CancelSubscription(T, t) ELSE T
           k == C.members[t]
           generation == IF Reserved(m) THEN m.generation ELSE m.generation + 1
           n == Start([k EXCEPT !.generation = generation, !.stop = NoStop], turn)
           admitted == m.audience /\ ~m.hostRunning /\
                       (t = Root \/ (Reserved(m) /\ m.status # "paused"))
<1>1. Good(C) /\ KeepsStanding(m, k)
  BY CancelSubscriptionGood DEF KeepsStanding
<1>2. m \in Member /\ k \in Member
  BY <1>1, GoodParts
<1>3. generation \in Nat /\ generation >= m.generation
      /\ (generation = m.generation => Reserved(m))
  BY <1>2 DEF Member
<1>4. n \in Member /\ n.status = "working" /\ n.generation = generation
  <2> HIDE DEF k, generation
  <2> QED BY <1>2, <1>3, NoStopType DEF Start, Member, Status, ReservedStatus, ActiveStatus
<1>5. MayBecome(k, n)
  <2> HIDE DEF n, k, generation
  <2> QED BY <1>1, <1>2, <1>3, <1>4 DEF MayBecome, Executing, KeepsStanding, Reserved, Member
<1>6. Started(T, t, turn) = IF ~admitted THEN T ELSE Put(C, t, n)
  BY DEF Started
<1> HIDE DEF C, n, admitted
<1> QED
  BY <1>1, <1>5, <1>6, PutGood

(* Checkpoint of a turn that ended at its own stop: the work goes on.      *)
LEMMA CheckpointTurnGood ==
    ASSUME NEW T, Good(T), NEW t \in Thread, Reserved(T.members[t])
    PROVE  Good(CheckpointTurn(T, t))
<1> DEFINE m == T.members[t]
           waits == m.wait.state = "registered"
           s == IF waits \/ m.recoveryWait.state = "registered" THEN "waiting" ELSE "working"
           c == IF waits /\ m.wait.compact = "registered" THEN "pending" ELSE m.wait.compact
           w == [m.wait EXCEPT !.compact = c]
           n == [m EXCEPT !.status = s, !.wait = w]
<1>1. m \in Member /\ m.wait \in Wait
  BY GoodParts DEF Member
<1>2. c \in IntentState
  BY <1>1, EditWait DEF IntentState
<1>3. w \in Wait
  <2> HIDE DEF c
  <2> QED BY <1>1, <1>2 DEF Wait
<1>4. s \in {"waiting", "working"}
  OBVIOUS
<1>5. n \in Member /\ n.status = s /\ n.generation = m.generation
  <2> HIDE DEF s, w
  <2> QED BY <1>1, <1>3, <1>4 DEF Member, Status, ReservedStatus, ActiveStatus
<1>6. MayBecome(m, n)
  <2> HIDE DEF n, s
  <2> QED BY <1>1, <1>4, <1>5 DEF MayBecome, Executing, Member
<1>7. CheckpointTurn(T, t) = Put(T, t, n)
  BY <1>1 DEF CheckpointTurn, Member
<1> HIDE DEF n
<1> QED
  BY <1>6, <1>7, PutGood

(* A deferred completion keeps the work and asks for one more turn.        *)
LEMMA DeferCompletionGood ==
    ASSUME NEW T, Good(T), NEW t \in Thread, NEW turn \in Nat, Reserved(T.members[t])
    PROVE  Good(DeferCompletion(T, t, turn))
<1> DEFINE m == T.members[t]
           guard == NewEffect("completion", t, turn, 0, t, m.generation)
           stop == [kind |-> "completion", generation |-> m.generation, turn |-> turn, wait |-> 0]
           n == [m EXCEPT !.stop = stop, !.status = "working"]
           P == Put(T, t, n)
<1>1. m \in Member
  BY GoodParts
<1>2. stop \in LocalStop
  BY <1>1 DEF LocalStop, Member
<1>3. n \in Member /\ n.status = "working" /\ n.generation = m.generation
  <2> HIDE DEF stop
  <2> QED BY <1>1, <1>2 DEF Member, Status, ReservedStatus, ActiveStatus
<1>4. MayBecome(m, n)
  <2> HIDE DEF n
  <2> QED BY <1>1, <1>3 DEF MayBecome, Executing, Member
<1>5. guard \in Effect /\ guard.kind # "final"
  BY <1>1 DEF NewEffect, Effect, EffectKind, Phase, IntentState, Member
<1>6. DeferCompletion(T, t, turn) = AddEffect(P, guard)
  BY DEF DeferCompletion
<1>7. Good(P)
  <2> HIDE DEF n
  <2> QED BY <1>4, PutGood
<1> HIDE DEF P, guard
<1> QED
  BY <1>5, <1>6, <1>7, AddGood

(* The waits that the handlers make of an empty one.                       *)
LEMMA RecoveryWaitType ==
    ASSUME NEW w \in Wait, NEW id \in Nat, NEW g \in Nat, NEW turn \in Nat,
           NEW r \in [Thread -> Nat], NEW targets \in SUBSET Thread
    PROVE  [w EXCEPT !.id = id, !.state = "registered", !.stop = "committed",
              !.generation = g, !.turn = turn, !.recovery = r, !.targets = targets] \in Wait
BY DEF Wait, IntentState

(* The wait that waitForProvider installs is a wait.                       *)
LEMMA ProviderWaitType ==
    ASSUME NEW w \in Wait, NEW id \in Nat, NEW g \in Nat, NEW turn \in Nat,
           NEW timer \in {"none", "armed", "due"}
    PROVE  [w EXCEPT !.id = id, !.state = "registered", !.stop = "committed",
              !.generation = g, !.turn = turn, !.provider = TRUE, !.timer = timer] \in Wait
BY DEF Wait, IntentState

(* Recovery waiting keeps the work reserved.                               *)
LEMMA HoldForRecoveryGood ==
    ASSUME NEW T, Good(T), NEW t \in Thread, NEW turn \in Nat, Reserved(T.members[t])
    PROVE  Good(HoldForRecovery(T, t, turn))
<1> DEFINE m == T.members[t]
           captured == [c \in Thread |-> IF c \in ActiveBelow(T, t)
                                         THEN T.members[c].generation ELSE 0]
           targets == {c \in Below[t] : T.members[c].status # "absent"}
           w == [NoWait EXCEPT !.id = m.calls + 1, !.state = "registered", !.stop = "committed",
                   !.generation = m.generation, !.turn = turn, !.recovery = captured,
                   !.targets = targets]
           S == CancelCompletion(T, t)
<1>1. m \in Member /\ \A c \in Thread : T.members[c] \in Member
  BY GoodParts
<1>2. captured \in [Thread -> Nat]
  BY <1>1 DEF Member
<1>3. targets \in SUBSET Thread
  BY TaskTree
<1>4. w \in Wait
  <2>1. m.calls + 1 \in Nat /\ m.generation \in Nat
    BY <1>1 DEF Member
  <2> HIDE DEF captured, targets, m
  <2> QED BY <1>2, <1>3, <2>1, NoWaitType, RecoveryWaitType
<1>5. Good(S) /\ S.members = T.members
  BY CancelCompletionGood
<1>6. HoldForRecovery(T, t, turn) = Hold(S, t, w, "recovery", turn)
  BY DEF HoldForRecovery
<1> HIDE DEF w, S
<1> QED
  BY <1>4, <1>5, <1>6, HoldGood

(* The end of a turn checkpoints, defers, recovers or settles its work.    *)
LEMMA TerminalGood ==
    ASSUME NEW T, Good(T), NEW t \in Thread, NEW turn \in Nat,
           NEW outcome \in Outcome \cup {"recoverable"}
    PROVE  Good(Terminal(T, t, turn, outcome))
<1> DEFINE m == T.members[t]
           n == [m EXCEPT !.hostRunning = FALSE]
           P == Put(T, t, n)
           seen(e) == /\ e.kind = "interrupt" /\ Addressed(e, t)
                      /\ e.turn = turn /\ e.state \in HostOwned
           f == [i \in Indices(P) |-> IF seen(P.effects[i]) THEN SetState(P.effects[i], "confirmed")
                                       ELSE P.effects[i]]
           S == [P EXCEPT !.effects = f]
<1>1. m \in Member /\ Executing(m)
  BY GoodParts
<1>2. n \in Member /\ n.status = m.status /\ n.generation = m.generation /\ n.hostRunning = FALSE
  BY <1>1 DEF Member
<1>3. MayBecome(m, n)
  <2> HIDE DEF n
  <2> QED BY <1>1, <1>2 DEF MayBecome, Executing, Reserved, Member
<1>4. Good(P) /\ P.members[t] = n
  <2> HIDE DEF n
  <2> QED BY <1>3, PutGood
<1> HIDE DEF P, seen
<1>5. \A i \in Indices(P) : SameWork(P.effects[i], f[i])
  BY <1>4, GoodEffects, EditEffect DEF IntentState
<1>6. f \in [Indices(P) -> Effect]
  <2>1. \A i \in Indices(P) : f[i] \in Effect
    BY <1>5 DEF SameWork
  <2> QED BY <2>1
<1>7. Good(S) /\ S.members[t] = n
  <2> HIDE DEF f, n
  <2> QED BY <1>4, <1>5, <1>6, EffectsGood
<1>8. CASE m.turn # turn \/ ~m.hostRunning
  <2>1. Terminal(T, t, turn, outcome) = T
    BY <1>8 DEF Terminal
  <2> QED BY <2>1
<1>9. CASE ~(m.turn # turn \/ ~m.hostRunning)
  <2>1. Reserved(S.members[t]) /\ ~S.members[t].hostRunning
    BY <1>1, <1>2, <1>7, <1>9 DEF Executing, Reserved, ReservedStatus, ActiveStatus
  <2>2. WorkOutcome(outcome) \in Outcome
    BY DEF WorkOutcome, Outcome
  <2>3. \/ Terminal(T, t, turn, outcome) = HoldForRecovery(S, t, turn)
        \/ Terminal(T, t, turn, outcome) = CheckpointTurn(S, t)
        \/ Terminal(T, t, turn, outcome) = DeferCompletion(S, t, turn)
        \/ Terminal(T, t, turn, outcome) = Finish(S, t, WorkOutcome(outcome))
    BY <1>9 DEF Terminal, EachEffect, P, seen
  <2> HIDE DEF S
  <2> QED
    BY <1>7, <2>1, <2>2, <2>3, HoldForRecoveryGood, CheckpointTurnGood, DeferCompletionGood, FinishGood
<1> QED
  BY <1>8, <1>9

(* An edit that leaves a member's standing alone.                          *)
LEMMA PutStandingGood ==
    ASSUME NEW T, Good(T), NEW t \in Thread, NEW n \in Member, KeepsStanding(T.members[t], n)
    PROVE  Good(Put(T, t, n))
BY GoodParts, StandingMayBecome, PutGood

(* A manual checkpoint stops the execution at its stop.                    *)
LEMMA CheckpointGood ==
    ASSUME NEW T, Good(T), NEW t \in Thread, NEW turn \in Nat
    PROVE  Good(Checkpoint(T, t, turn))
<1> DEFINE m == T.members[t]
           n == [m EXCEPT !.hostRunning = FALSE]
<1>1. m \in Member
  BY GoodParts
<1>2. n \in Member /\ n.status = m.status /\ n.generation = m.generation /\ n.hostRunning = FALSE
  BY <1>1 DEF Member
<1>3. MayBecome(m, n)
  <2> HIDE DEF n
  <2> QED BY <1>1, <1>2 DEF MayBecome, Executing, Reserved, Member
<1>4. Checkpoint(T, t, turn) = T \/ Checkpoint(T, t, turn) = Put(T, t, n)
  BY DEF Checkpoint
<1> HIDE DEF n
<1> QED
  BY <1>3, <1>4, PutGood

(* Clearing the stop returns waiting work to working.                      *)
LEMMA ResumeMayBecome ==
    ASSUME NEW m \in Member, Executing(m)
    PROVE  MayBecome(m, [m EXCEPT !.stop = NoStop,
                           !.status = IF m.status = "waiting" THEN "working" ELSE m.status])
<1> DEFINE s == IF m.status = "waiting" THEN "working" ELSE m.status
           n == [m EXCEPT !.stop = NoStop, !.status = s]
<1>1. /\ s \in Status /\ (s = "absent" => m.status = "absent")
      /\ (s \in ReservedStatus => m.status \in ReservedStatus)
      /\ (m.status \in {"working", "waiting", "uncertain"} => s \in {"working", "waiting", "uncertain"})
  BY DEF Member, Status, ReservedStatus, ActiveStatus
<1>2. /\ n \in Member /\ n.status = s /\ n.generation = m.generation
      /\ n.hostRunning = m.hostRunning /\ m.generation \in Nat
  <2> HIDE DEF s
  <2> QED BY <1>1, NoStopType DEF Member
<1>3. MayBecome(m, n)
  <2> HIDE DEF n, s
  <2> QED BY <1>1, <1>2 DEF MayBecome, Executing, Reserved
<1> QED
  BY <1>3

(* Execution evidence arms or retires the wait, never the work.            *)
LEMMA ExecutionGood ==
    ASSUME NEW T, Good(T), NEW t \in Thread, NEW turn \in Nat, NEW succeeded \in BOOLEAN
    PROVE  Good(Execution(T, t, turn, succeeded))
<1> DEFINE m == T.members[t]
           C == CancelSubscription(T, t)
           k == C.members[t]
           n == [m EXCEPT !.wait.stop = "eligible"]
           r == [k EXCEPT !.stop = NoStop, !.status = IF k.status = "waiting" THEN "working" ELSE k.status]
<1>1. m \in Member /\ Good(C)
  BY GoodParts, CancelSubscriptionGood
<1>2. Good(Put(T, t, n))
  <2>1. n \in Member /\ KeepsStanding(m, n)
    BY <1>1 DEF Member, Wait, KeepsStanding
  <2> HIDE DEF n
  <2> QED BY <2>1, PutStandingGood
<1>3. Good(Put(C, t, r))
  <2>1. MayBecome(k, r)
    BY <1>1, GoodParts, ResumeMayBecome
  <2> HIDE DEF C, r
  <2> QED BY <1>1, <2>1, PutGood
<1>4. \/ Execution(T, t, turn, succeeded) = T
      \/ Execution(T, t, turn, succeeded) = Put(T, t, n)
      \/ Execution(T, t, turn, succeeded) = Put(C, t, r)
  BY DEF Execution
<1> QED
  BY <1>2, <1>3, <1>4

(* Claiming the local stop makes executing work waiting.                   *)
LEMMA ClaimStopGood ==
    ASSUME NEW T, Good(T), NEW t \in Thread, NEW turn \in Nat
    PROVE  Good(ClaimStop(T, t, turn))
<1> DEFINE m == T.members[t]
           stop == [kind |-> "wait", generation |-> m.generation, turn |-> turn, wait |-> m.wait.id]
           w == [m.wait EXCEPT !.stop = "committed"]
           n == [m EXCEPT !.wait = w, !.status = "waiting", !.stop = stop]
<1>1. m \in Member /\ Executing(m) /\ m.wait \in Wait
  BY GoodParts DEF Member
<1>2. stop \in LocalStop /\ w \in Wait
  BY <1>1 DEF LocalStop, Member, Wait
<1>3. /\ n \in Member /\ n.status = "waiting" /\ n.generation = m.generation
  <2> HIDE DEF stop, w
  <2> QED BY <1>1, <1>2 DEF Member, Status, ReservedStatus, ActiveStatus
<1>4. m.hostRunning => MayBecome(m, n)
  <2> HIDE DEF n
  <2> QED BY <1>1, <1>3 DEF MayBecome, Executing, Reserved, ReservedStatus, ActiveStatus, Member
<1>5. ClaimStop(T, t, turn) = T \/ (m.hostRunning /\ ClaimStop(T, t, turn) = Put(T, t, n))
  BY <1>1 DEF ClaimStop, Member
<1> HIDE DEF n
<1> QED
  BY <1>4, <1>5, PutGood

(* Human input and human interruption of waiting.                          *)
LEMMA SupersedeGood ==
    ASSUME NEW T, Good(T), NEW t \in Thread
    PROVE  Good(Supersede(T, t))
<1> DEFINE C == CancelCompletion(T, t)
           D == IF C.members[t].wait.state \in {"canceled", "completed"}
                THEN C ELSE CancelSubscription(C, t)
           k == D.members[t]
           r == [k EXCEPT !.stop = NoStop, !.status = IF k.status = "waiting" THEN "working" ELSE k.status]
<1>1. Good(C)
  BY CancelCompletionGood
<1>2. Good(D)
  <2> HIDE DEF C
  <2> QED BY <1>1, CancelSubscriptionGood
<1>3. Good(Put(D, t, r))
  <2> HIDE DEF D
  <2>1. MayBecome(k, r)
    BY <1>2, GoodParts, ResumeMayBecome
  <2> HIDE DEF r
  <2> QED BY <1>2, <2>1, PutGood
<1>4. Supersede(T, t) = T \/ Supersede(T, t) = Put(D, t, r)
  BY DEF Supersede
<1> QED
  BY <1>3, <1>4

(* HumanInterrupt settles work that executes nothing, and only that.       *)
LEMMA InterruptWaitGood ==
    ASSUME NEW T, Good(T), NEW t \in Thread
    PROVE  Good(InterruptWait(T, t))
<1> DEFINE m == T.members[t]
           C == CancelCompletion(CancelSubscription(T, t), t)
           k == C.members[t]
           n == [k EXCEPT !.stop = NoStop]
           S == Put(C, t, n)
<1>1. Good(C) /\ KeepsStanding(m, k)
  BY CancelSubscriptionGood, CancelCompletionGood
<1> HIDE DEF C
<1>2. k \in Member
  BY <1>1, GoodParts
<1>3. n \in Member /\ KeepsStanding(k, n)
  BY <1>2, NoStopType DEF Member, KeepsStanding
<1>4. Good(S) /\ S.members[t] = n
  <2>1. MayBecome(k, n)
    BY <1>1, <1>2, <1>3, GoodParts, StandingMayBecome
  <2> HIDE DEF n
  <2> QED BY <1>1, <2>1, PutGood
<1>5. \/ InterruptWait(T, t) = T
      \/ InterruptWait(T, t) = S
      \/ /\ ~m.hostRunning /\ Reserved(m)
         /\ InterruptWait(T, t) = Finish(S, t, "interrupted")
  BY DEF InterruptWait, C
<1>6. KeepsStanding(m, S.members[t])
  BY <1>1, <1>3, <1>4 DEF KeepsStanding
<1> HIDE DEF S
<1> QED
  BY <1>4, <1>5, <1>6, FinishGood DEF KeepsStanding, Reserved, Outcome

-----------------------------------------------------------------------------
(* Waits.                                                                  *)

(* Claiming notifications for a wait leaves every report as it is.         *)
LEMMA ClaimedGood ==
    ASSUME NEW T, Good(T), NEW claims, NEW id \in Nat
    PROVE  Good(Claimed(T, claims, id)) /\ Claimed(T, claims, id).members = T.members
<1> DEFINE f == [i \in Indices(T) |->
                   IF i \in claims THEN [T.effects[i] EXCEPT !.claimedBy = id] ELSE T.effects[i]]
<1>1. \A i \in Indices(T) : SameWork(T.effects[i], f[i])
  BY GoodEffects, EditEffect
<1>2. f \in [Indices(T) -> Effect]
  <2>1. \A i \in Indices(T) : f[i] \in Effect
    BY <1>1 DEF SameWork
  <2> QED BY <2>1
<1>3. Claimed(T, claims, id) = [T EXCEPT !.effects = f]
  BY DEF Claimed
<1> HIDE DEF f
<1> QED
  BY <1>1, <1>2, <1>3, EffectsGood

(* Registering a wait replaces the subscription and nothing else.          *)
LEMMA RegisterWaitGood ==
    ASSUME NEW T, Good(T), NEW t \in Thread, NEW targets \in SUBSET Thread,
           NEW all \in BOOLEAN, NEW timer \in {"none", "armed", "due"},
           NEW compact \in BOOLEAN, NEW standalone \in BOOLEAN
    PROVE  Good(RegisterWait(T, t, targets, all, timer, compact, standalone))
<1> DEFINE m == T.members[t]
           c == IF compact THEN "registered" ELSE "none"
           w == [NoWait EXCEPT !.id = m.calls + 1, !.generation = m.generation, !.turn = m.turn,
                   !.targets = targets, !.all = all, !.standalone = standalone, !.timer = timer,
                   !.compact = c]
           chosen == Selected(T, t, w)
           now == ~compact /\ chosen.found
           state == IF now THEN "completed"
                    ELSE IF ~compact /\ timer = "due" THEN "timeout" ELSE "registered"
           claims == IF now THEN chosen.claims ELSE {}
           x == [w EXCEPT !.state = state]
           n == [m EXCEPT !.wait = x, !.calls = w.id]
           C == Claimed(T, claims, w.id)
<1>1. m \in Member /\ m.calls + 1 \in Nat /\ m.generation \in Nat /\ m.turn \in Nat
  BY GoodParts DEF Member
<1>2. w \in Wait
  <2>1. c \in IntentState
    BY DEF IntentState
  <2> HIDE DEF c, m
  <2> QED BY <1>1, <2>1, NoWaitType DEF Wait
<1>3. state \in IntentState
  BY DEF IntentState
<1> HIDE DEF w, state, claims
<1>4. x \in Wait /\ w.id \in Nat
  BY <1>2, <1>3 DEF Wait
<1>5. n \in Member /\ KeepsStanding(m, n)
  <2> HIDE DEF x
  <2> QED BY <1>1, <1>4 DEF Member, KeepsStanding
<1>6. Good(C) /\ C.members = T.members
  BY <1>4, ClaimedGood
<1>7. RegisterWait(T, t, targets, all, timer, compact, standalone) = Put(C, t, n)
  BY DEF RegisterWait, w, state, claims
<1> HIDE DEF C, n
<1> QED
  BY <1>5, <1>6, <1>7, PutStandingGood

(* Preparing a wake claims its notifications and queues it.                *)
LEMMA PrepareWakeGood ==
    ASSUME NEW T, Good(T), NEW t \in Thread
    PROVE  Good(PrepareWake(T, t))
<1> DEFINE m == T.members[t]
           w == m.wait
           chosen == Selected(T, t, w)
           claims == IF w.standalone THEN {} ELSE chosen.claims
           n == [m EXCEPT !.wait.state = "queued"]
           C == Claimed(T, claims, w.id)
<1>1. m \in Member /\ w.id \in Nat
  BY GoodParts DEF Member, Wait
<1>2. n \in Member /\ KeepsStanding(m, n)
  BY <1>1 DEF Member, Wait, IntentState, KeepsStanding
<1>3. PrepareWake(T, t) = T \/ PrepareWake(T, t) = Put(C, t, n)
  BY DEF PrepareWake
<1> HIDE DEF n, claims, w
<1>4. Good(C) /\ C.members = T.members
  BY <1>1, ClaimedGood
<1> HIDE DEF C
<1> QED
  BY <1>2, <1>3, <1>4, PutStandingGood

(* A provider wait holds executing work.                                   *)
LEMMA WaitForProviderGood ==
    ASSUME NEW T, Good(T), NEW t \in Thread, NEW turn \in Nat,
           NEW timer \in {"none", "armed", "due"}
    PROVE  Good(WaitForProvider(T, t, turn, timer))
<1> DEFINE m == T.members[t]
           w == [NoWait EXCEPT !.id = m.calls + 1, !.state = "registered", !.stop = "committed",
                   !.generation = m.generation, !.turn = turn, !.provider = TRUE, !.timer = timer]
<1>1. m \in Member /\ m.calls + 1 \in Nat /\ m.generation \in Nat /\ Executing(m)
  BY GoodParts DEF Member
<1>2. w \in Wait
  <2> HIDE DEF m
  <2> QED BY <1>1, NoWaitType, ProviderWaitType
<1>3. m.hostRunning => Reserved(m)
  BY <1>1 DEF Executing, Reserved, ReservedStatus, ActiveStatus
<1>4. \/ WaitForProvider(T, t, turn, timer) = T
      \/ m.hostRunning /\ WaitForProvider(T, t, turn, timer) = Hold(T, t, w, "provider", turn)
  BY <1>1 DEF WaitForProvider, Member
<1> HIDE DEF w
<1> QED
  BY <1>2, <1>3, <1>4, HoldGood

(* A compaction refused before its turn ends changes the wait alone.       *)
LEMMA RejectCompactionGood ==
    ASSUME NEW T, Good(T), NEW t \in Thread, NEW turn \in Nat
    PROVE  Good(RejectCompaction(T, t, turn))
<1> DEFINE m == T.members[t]
           n == [m EXCEPT !.wait.compact = "failed"]
<1>1. m \in Member
  BY GoodParts
<1>2. n \in Member /\ KeepsStanding(m, n)
  BY <1>1 DEF Member, Wait, IntentState, KeepsStanding
<1>3. RejectCompaction(T, t, turn) = T \/ RejectCompaction(T, t, turn) = Put(T, t, n)
  BY DEF RejectCompaction
<1> HIDE DEF n
<1> QED
  BY <1>2, <1>3, PutStandingGood

-----------------------------------------------------------------------------
(* Preparing, claiming and settling an intent.                             *)

(* One effect is edited, its report untouched.                             *)
LEMMA PutEffectGood ==
    ASSUME NEW T, Good(T), NEW i \in Indices(T), NEW e, SameWork(T.effects[i], e)
    PROVE  LET U == PutEffect(T, i, e) IN
           /\ Good(U) /\ U.members = T.members /\ Indices(U) = Indices(T)
           /\ U.effects[i] = e
<1> DEFINE f == [T.effects EXCEPT ![i] = e]
<1>1. T.effects \in [Indices(T) -> Effect] /\ e \in Effect
  <2>1. T.effects \in Seq(Effect)
    BY TreeTypes DEF Good
  <2> QED BY <2>1 DEF Indices, SameWork
<1>2. f \in [Indices(T) -> Effect] /\ f[i] = e
      /\ \A j \in Indices(T) \ {i} : f[j] = T.effects[j]
  BY <1>1
<1>3. \A j \in Indices(T) : SameWork(T.effects[j], f[j])
  BY <1>1, <1>2, EditEffect
<1>4. PutEffect(T, i, e) = [T EXCEPT !.effects = f]
  BY DEF PutEffect
<1> HIDE DEF f
<1> QED
  BY <1>2, <1>3, <1>4, EffectsGood

(* The state of an intent is set where the intent is stored.               *)
LEMMA WithStateGood ==
    ASSUME NEW T, Good(T), NEW r \in Ref, Known(T, r), NEW s \in IntentState
    PROVE  LET U == WithState(T, r, s) IN
           /\ Good(U) /\ Indices(U) = Indices(T)
           /\ KeepsStanding(T.members[r.thread], U.members[r.thread])
<1> DEFINE m == T.members[r.thread]
           U == WithState(T, r, s)
<1>1. r.thread \in Thread /\ m \in Member /\ r.slot \in {"effect", "wake", "compact"}
  BY GoodParts DEF Ref
<1>2. CASE r.slot = "effect"
  <2>1. r.id \in Indices(T)
    BY <1>2 DEF Known
  <2>2. SameWork(T.effects[r.id], SetState(T.effects[r.id], s))
    BY <2>1, GoodEffects, EditEffect
  <2>3. U = PutEffect(T, r.id, SetState(T.effects[r.id], s))
    BY <1>2 DEF WithState
  <2> HIDE DEF U
  <2> QED
    BY <2>1, <2>2, <2>3, PutEffectGood DEF KeepsStanding, U
<1>3. ASSUME NEW n \in Member, KeepsStanding(m, n), U = Put(T, r.thread, n)
      PROVE  Good(U) /\ Indices(U) = Indices(T) /\ KeepsStanding(m, U.members[r.thread])
  <2>1. MayBecome(m, n)
    BY <1>1, <1>3, GoodParts, StandingMayBecome
  <2> HIDE DEF U
  <2> QED
    BY <1>1, <1>3, <2>1, PutGood DEF Indices
<1>4. CASE r.slot = "wake"
  <2> DEFINE n == [m EXCEPT !.wait.state = s]
  <2>1. n \in Member /\ KeepsStanding(m, n)
    BY <1>1 DEF Member, Wait, KeepsStanding
  <2>2. U = Put(T, r.thread, n)
    BY <1>4 DEF WithState
  <2> HIDE DEF n, U, m
  <2> QED BY <1>3, <2>1, <2>2 DEF U, m
<1>5. CASE r.slot = "compact"
  <2> DEFINE n == [m EXCEPT !.wait.compact = s]
  <2>1. n \in Member /\ KeepsStanding(m, n)
    BY <1>1 DEF Member, Wait, KeepsStanding
  <2>2. U = Put(T, r.thread, n)
    BY <1>5 DEF WithState
  <2> HIDE DEF n, U, m
  <2> QED BY <1>3, <2>1, <2>2 DEF U, m
<1> QED
  BY <1>1, <1>2, <1>4, <1>5

-----------------------------------------------------------------------------
(* Preparing.                                                              *)

(* Reserving a spawn retains its creation (ReserveSpawn).                  *)
LEMMA SpawnGood ==
    ASSUME NEW T, Good(T), NEW caller \in Thread, NEW child \in Thread
    PROVE  Good(Spawn(T, caller, child))
<1> DEFINE m == T.members[caller]
           d == NewEffect("create", caller, m.turn, m.generation, child, 1)
           e == [d EXCEPT !.phase = "create"]
<1>1. m.turn \in Nat /\ m.generation \in Nat
  BY GoodParts DEF Member
<1>2. d \in Effect /\ d.kind = "create"
  BY <1>1 DEF NewEffect, Effect, Phase, IntentState, EffectKind
<1>3. e \in Effect /\ e.kind = "create"
  <2> HIDE DEF d
  <2> QED BY <1>2 DEF Effect, Phase
<1>4. Spawn(T, caller, child) = AddEffect(T, e)
  BY DEF Spawn
<1> HIDE DEF e
<1> QED
  BY <1>3, <1>4, AddGood

(* A reservation is new work, unless paused work is taken up again.        *)
LEMMA ReserveMayBecome ==
    ASSUME NEW m \in Member, Executing(m), ~Reserved(m) \/ m.status = "paused"
    PROVE  /\ MayBecome(m, Reserve(m)) /\ MayBecome(m, [Reserve(m) EXCEPT !.stop = NoStop])
           /\ Reserve(m).audience = m.audience
<1> DEFINE g == IF Reserved(m) THEN m.generation ELSE m.generation + 1
           n == [m EXCEPT !.generation = g, !.status = "pending"]
           x == [n EXCEPT !.stop = NoStop]
<1>1. g \in Nat /\ g >= m.generation /\ (g = m.generation => Reserved(m)) /\ m.generation \in Nat
  BY DEF Member
<1>2. ~m.hostRunning
  BY DEF Executing, Reserved, ReservedStatus, ActiveStatus, Member
<1>3. /\ n \in Member /\ n.generation = g /\ n.hostRunning = m.hostRunning
      /\ n.status = "pending" /\ n.audience = m.audience
  <2> HIDE DEF g
  <2> QED BY <1>1 DEF Member, Status, ReservedStatus, ActiveStatus
<1>4. n = Reserve(m)
  BY DEF Reserve
<1>5. /\ x \in Member /\ x.generation = g /\ x.hostRunning = m.hostRunning
      /\ x.status = "pending"
  <2> HIDE DEF n
  <2> QED BY <1>3, NoStopType DEF Member
<1> HIDE DEF n, g, x
<1>6. MayBecome(m, n) /\ MayBecome(m, x)
  BY <1>1, <1>2, <1>3, <1>5 DEF MayBecome, Executing
<1> QED
  BY <1>3, <1>4, <1>6 DEF x

(* Resuming an admission edits the creation's state and outcome alone.     *)
LEMMA ResumeAdmissionGood ==
    ASSUME NEW T, Good(T), NEW target \in Thread
    PROVE  Good(ResumeAdmission(T, target)) /\ ResumeAdmission(T, target).members = T.members
<1> DEFINE edit(e) ==
             CASE ~(e.kind = "create" /\ Addressed(e, target) /\ e.state = "paused") -> e
               [] OTHER -> IF e.phase = "initial" THEN SetState(e, "canceled")
                           ELSE [e EXCEPT !.state = "pending", !.outcome = "interrupted"]
           f == [i \in Indices(T) |-> edit(T.effects[i])]
<1>1. ASSUME NEW e \in Effect
      PROVE  SameWork(e, edit(e))
  <2>1. SameWork(e, [e EXCEPT !.state = "pending", !.outcome = "interrupted"])
    BY DEF SameWork, Effect, IntentState, Outcome
  <2>2. SameWork(e, e) /\ SameWork(e, SetState(e, "canceled"))
    BY EditEffect DEF IntentState
  <2> QED BY <2>1, <2>2
<1> HIDE DEF edit
<1>2. \A i \in Indices(T) : SameWork(T.effects[i], f[i])
  BY <1>1, GoodEffects
<1>3. \/ ResumeAdmission(T, target) = T
      \/ ResumeAdmission(T, target) = [T EXCEPT !.effects = f]
  BY DEF ResumeAdmission, EachEffect, edit
<1>4. f \in [Indices(T) -> Effect]
  <2>1. \A i \in Indices(T) : f[i] \in Effect
    BY <1>2 DEF SameWork
  <2> QED BY <2>1
<1> HIDE DEF f
<1>5. Good([T EXCEPT !.effects = f]) /\ [T EXCEPT !.effects = f].members = T.members
  BY <1>2, <1>4, EffectsGood
<1> QED
  BY <1>3, <1>5

(* Preparing an action retires what waits at the target and reserves work. *)
LEMMA PrepareGood ==
    ASSUME NEW T, Good(T), NEW caller \in Thread, NEW target \in Thread,
           NEW kind \in {"message", "followup", "interrupt"}
    PROVE  Good(Prepare(T, caller, target, kind))
<1> DEFINE sender == T.members[caller]
           R == IF kind = "followup" THEN ResumeAdmission(T, target) ELSE T
           C == IF kind = "message" THEN R ELSE ControlEvent(R, target)
           m == C.members[target]
           x == [Reserve(m) EXCEPT !.stop = NoStop]
           N == IF kind = "followup" /\ (~Reserved(m) \/ m.status = "paused")
                THEN Put(C, target, x) ELSE C
<1>1. sender.turn \in Nat /\ sender.generation \in Nat
  BY GoodParts DEF Member
<1>2. Good(R)
  BY ResumeAdmissionGood
<1>3. Good(C)
  <2> HIDE DEF R
  <2> QED BY <1>2, CancelCompletionGood, CancelSubscriptionGood DEF ControlEvent
<1> HIDE DEF C
<1>4. Good(N)
  <2>1. m \in Member /\ Executing(m)
    BY <1>3, GoodParts
  <2>2. ~Reserved(m) \/ m.status = "paused" => MayBecome(m, x)
    BY <2>1, ReserveMayBecome
  <2> HIDE DEF x
  <2> QED BY <1>3, <2>2, PutGood
<1>5. N.members[target].generation \in Nat
  <2> HIDE DEF N
  <2> QED BY <1>4, GoodParts DEF Member
<1>6. Prepare(T, caller, target, kind) =
        AddEffect(N, NewEffect(kind, caller, sender.turn, sender.generation,
                               target, N.members[target].generation))
  BY DEF Prepare, C
<1> HIDE DEF N, sender
<1> DEFINE g == N.members[target].generation
           d == NewEffect(kind, caller, sender.turn, sender.generation, target, g)
<1>7. d \in Effect /\ d.kind = kind
  <2> HIDE DEF g
  <2> QED BY <1>1, <1>5 DEF NewEffect, Effect, EffectKind, Phase, IntentState, g
<1> HIDE DEF d
<1>8. Good(AddEffect(N, d))
  BY <1>4, <1>7, AddGood
<1> QED
  BY <1>6, <1>8 DEF d

-----------------------------------------------------------------------------
(* Claiming.                                                               *)

(* An intent is settled in the same step that settles its target's work.   *)
LEMMA SettleWorkGood ==
    ASSUME NEW T, Good(T), NEW r \in Ref, Known(T, r), NEW s \in IntentState,
           NEW status \in Outcome,
           Reserved(T.members[r.thread]), ~T.members[r.thread].hostRunning
    PROVE  Good(Finish(WithState(T, r, s), r.thread, status))
<1> DEFINE U == WithState(T, r, s)
<1>1. Good(U) /\ KeepsStanding(T.members[r.thread], U.members[r.thread])
  BY WithStateGood
<1>2. Reserved(U.members[r.thread]) /\ ~U.members[r.thread].hostRunning /\ r.thread \in Thread
  BY <1>1 DEF KeepsStanding, Reserved, Ref
<1> HIDE DEF U
<1>3. Good(Finish(U, r.thread, status))
  BY <1>1, <1>2, FinishGood
<1> QED
  BY <1>3 DEF U

(* An interrupt edits the state and outcome of the work queued for it.     *)
LEMMA CancelQueuedWorkGood ==
    ASSUME NEW T, Good(T), NEW t \in Thread
    PROVE  LET U == CancelQueuedWork(T, t) IN
           Good(U) /\ U.members = T.members /\ Indices(U) = Indices(T)
<1> DEFINE outcome(e) == IF e.kind = "create" THEN "interrupted" ELSE e.outcome
           state(e) == IF Step(e) \in {"initial", "followup"} THEN "canceled" ELSE e.state
           edit(e) ==
             CASE ~(Addressed(e, t) /\ e.generation = T.members[t].generation
                      /\ e.state = "pending") -> e
               [] OTHER -> [e EXCEPT !.outcome = outcome(e), !.state = state(e)]
           f == [i \in Indices(T) |-> edit(T.effects[i])]
<1>1. ASSUME NEW e \in Effect
      PROVE  SameWork(e, edit(e))
  <2>1. outcome(e) \in Outcome \cup {"none"} /\ state(e) \in IntentState
    BY DEF Effect, IntentState, Outcome
  <2> HIDE DEF outcome, state
  <2>2. SameWork(e, [e EXCEPT !.outcome = outcome(e), !.state = state(e)])
    BY <2>1 DEF SameWork, Effect
  <2>3. SameWork(e, e)
    BY EditEffect
  <2> QED BY <2>2, <2>3
<1>2. CancelQueuedWork(T, t) = [T EXCEPT !.effects = f]
  BY DEF CancelQueuedWork, EachEffect
<1> HIDE DEF edit
<1>3. \A i \in Indices(T) : SameWork(T.effects[i], f[i])
  BY <1>1, GoodEffects
<1>4. f \in [Indices(T) -> Effect]
  <2>1. \A i \in Indices(T) : f[i] \in Effect
    BY <1>3 DEF SameWork
  <2> QED BY <2>1
<1> HIDE DEF f
<1> QED
  BY <1>2, <1>3, <1>4, EffectsGood

(* Dispatch records the target turn and leaves the work's standing.        *)
LEMMA DispatchGood ==
    ASSUME NEW T, Good(T), NEW r \in Ref, Known(T, r)
    PROVE  Good(Dispatch(T, r))
<1> DEFINE m == T.members[r.thread]
           D == WithState(T, r, "dispatching")
           turn == IF KindOf(T, r) = "human" /\ ~m.hostRunning THEN 0 ELSE m.turn
           k == D.members[r.thread]
           n == [k EXCEPT !.wait.turn = turn]
           e == [D.effects[r.id] EXCEPT !.turn = turn]
<1>1. Good(D) /\ Indices(D) = Indices(T) /\ r.thread \in Thread
  BY WithStateGood DEF IntentState, HostOwned, Ref
<1>2. turn \in Nat
  BY <1>1, GoodParts DEF Member
<1> HIDE DEF D, turn
<1>3. Good(Put(D, r.thread, n))
  <2>1. k \in Member
    BY <1>1, GoodParts
  <2>2. n \in Member /\ KeepsStanding(k, n)
    <3> HIDE DEF k
    <3> QED BY <1>2, <2>1 DEF Member, Wait, KeepsStanding
  <2> HIDE DEF n
  <2> QED BY <1>1, <2>2, PutStandingGood
<1>4. r.id \in Indices(D) => Good(PutEffect(D, r.id, e))
  <2> SUFFICES ASSUME r.id \in Indices(D) PROVE Good(PutEffect(D, r.id, e))
    OBVIOUS
  <2>1. D.effects[r.id] \in Effect
    BY <1>1, GoodEffects
  <2>2. SameWork(D.effects[r.id], e)
    BY <1>2, <2>1, EditEffect
  <2> HIDE DEF e
  <2> QED BY <1>1, <2>2, PutEffectGood
<1>5. r.slot = "effect" => r.id \in Indices(D)
  BY <1>1 DEF Known
<1>6. r.slot \in {"effect", "wake", "compact"}
  BY DEF Ref
<1>7. Dispatch(T, r) = CASE r.slot = "compact" \/ CreatesThread(T, r) -> D
                         [] r.slot = "wake" -> Put(D, r.thread, n)
                         [] OTHER -> PutEffect(D, r.id, e)
  BY DEF Dispatch, D, turn
<1> HIDE DEF n, e
<1> QED
  BY <1>1, <1>3, <1>4, <1>5, <1>6, <1>7

(* A deferred completion is canceled, completes its work, or is dispatched. *)
LEMMA ClaimCompletionGood ==
    ASSUME NEW T, Good(T), NEW r \in Ref, Known(T, r)
    PROVE  Good(ClaimCompletion(T, r))
<1> DEFINE m == T.members[r.thread]
<1>1. Good(WithState(T, r, "canceled")) /\ Good(Dispatch(T, r))
  BY WithStateGood, DispatchGood DEF IntentState
<1>2. ASSUME ~m.hostRunning, m.status = "working"
      PROVE  Good(Finish(WithState(T, r, "canceled"), r.thread, "completed"))
  <2>1. Reserved(m)
    BY <1>2 DEF Reserved, ReservedStatus, ActiveStatus
  <2> QED
    BY <1>2, <2>1, SettleWorkGood DEF IntentState, Outcome
<1> QED
  BY <1>1, <1>2 DEF ClaimCompletion

(* An interrupt settles reserved work that executes nothing.               *)
LEMMA ClaimInterruptGood ==
    ASSUME NEW T, Good(T), NEW r \in Ref, Known(T, r)
    PROVE  Good(ClaimInterrupt(T, r))
<1> DEFINE m == T.members[r.thread]
<1>1. Good(WithState(T, r, "confirmed")) /\ Good(Dispatch(T, r))
  BY WithStateGood, DispatchGood DEF IntentState
<1>2. ASSUME ~m.hostRunning, Reserved(m)
      PROVE  Good(Finish(WithState(T, r, "confirmed"), r.thread, "interrupted"))
  BY <1>2, SettleWorkGood DEF IntentState, Outcome
<1> QED
  BY <1>1, <1>2 DEF ClaimInterrupt

(* A claim dispatches the intent, settles it, or leaves the tree alone.    *)
LEMMA ClaimGood ==
    ASSUME NEW T, Good(T), NEW r \in Ref
    PROVE  Good(Claim(T, r))
<1> DEFINE Q == IF KindOf(T, r) = "interrupt" THEN CancelQueuedWork(T, r.thread) ELSE T
<1>1. Good(Q) /\ Q.members = T.members /\ Indices(Q) = Indices(T) /\ r.thread \in Thread
  BY CancelQueuedWorkGood DEF Ref
<1> HIDE DEF Q
<1>2. Known(T, r) => Known(Q, r)
  BY <1>1 DEF Known
<1>3. Known(Q, r) => Good(ClaimStep(Q, r))
  <2> SUFFICES ASSUME Known(Q, r) PROVE Good(ClaimStep(Q, r))
    OBVIOUS
  <2>1. /\ Good(Dispatch(Q, r)) /\ Good(WithState(Q, r, "canceled"))
        /\ Good(ClaimCompletion(Q, r)) /\ Good(ClaimInterrupt(Q, r))
    BY <1>1, DispatchGood, WithStateGood, ClaimCompletionGood, ClaimInterruptGood DEF IntentState
  <2> QED
    BY <1>1, <2>1 DEF ClaimStep
<1>4. Known(T, r) => Good(WithState(T, r, "confirmed"))
  BY WithStateGood DEF IntentState
<1> QED
  BY <1>1, <1>2, <1>3, <1>4 DEF Claim, Q

-----------------------------------------------------------------------------
(* Settling.                                                               *)

(* The step of an intent advances in place (spawn's phases).               *)
LEMMA NextPhaseGood ==
    ASSUME NEW T, Good(T), NEW r \in Ref, r.id \in Indices(T),
           NEW phase \in Phase, NEW state \in IntentState
    PROVE  Good(NextPhase(T, r, phase, state))
<1> DEFINE e == [T.effects[r.id] EXCEPT !.phase = phase, !.state = state]
<1>1. T.effects[r.id] \in Effect
  BY GoodEffects
<1>2. SameWork(T.effects[r.id], e)
  BY <1>1 DEF SameWork, Effect
<1>3. NextPhase(T, r, phase, state) = PutEffect(T, r.id, e)
  BY DEF NextPhase
<1> HIDE DEF e
<1> QED
  BY <1>2, <1>3, PutEffectGood

(* A refused dispatch settles the work it was for; an uncertain one keeps  *)
(* it reserved, and neither reports work that was settled before.          *)
LEMMA FailureGood ==
    ASSUME NEW T, Good(T), NEW r \in Ref, Known(T, r), NEW receipt
    PROVE  Good(Failure(T, r, receipt))
<1> DEFINE unsure == receipt.error = "uncertain"
           F == WithState(T, r, IF unsure THEN "uncertain" ELSE "failed")
           m == F.members[r.thread]
           kind == KindOf(T, r)
           status == CASE kind \in {"wake", "compact"} /\ Reserved(m) /\ unsure -> "uncertain"
                       [] kind = "create" /\ m.status = "pending" ->
                            IF unsure THEN "uncertain" ELSE "failed"
                       [] OTHER -> m.status
           n == [m EXCEPT !.status = status]
           S == IF m.status = "paused" THEN F ELSE Put(F, r.thread, n)
           k == S.members[r.thread]
           assigned == /\ kind \in {"human", "followup", "completion"} /\ ~m.hostRunning
                       /\ Reserved(m) /\ m.generation = GenerationOf(T, r)
           x == [k EXCEPT !.status = "uncertain"]
           A == IF ~assigned THEN S
                ELSE IF unsure THEN Put(S, r.thread, x)
                ELSE Finish(S, r.thread, "failed")
<1>1. Good(F) /\ r.thread \in Thread
  BY WithStateGood DEF IntentState, HostOwned, Ref
<1>2. m \in Member /\ Executing(m)
  BY <1>1, GoodParts
<1> HIDE DEF F
<1>3. /\ status \in Status
      /\ status = "absent" => m.status = "absent"
      /\ Reserved(m) /\ m.hostRunning => status \in {"working", "waiting", "uncertain"}
      /\ status \in ReservedStatus => Reserved(m)
  BY <1>2 DEF Member, Status, Outcome, Executing, Reserved, ReservedStatus, ActiveStatus
<1>4. /\ n \in Member /\ n.status = status /\ n.generation = m.generation
      /\ n.hostRunning = m.hostRunning /\ m.generation \in Nat
  <2> HIDE DEF status, m
  <2> QED BY <1>2, <1>3 DEF Member
<1>5. MayBecome(m, n)
  <2>1. m.hostRunning => Reserved(m)
    BY <1>2 DEF Executing, Reserved, ReservedStatus, ActiveStatus
  <2> HIDE DEF n, status, m
  <2> QED BY <1>2, <1>3, <1>4, <2>1 DEF MayBecome, Executing, Reserved
<1>6. /\ Good(S) /\ k \in Member /\ Executing(k)
      /\ k.generation = m.generation /\ k.hostRunning = m.hostRunning
  <2> HIDE DEF n
  <2>1. Good(S)
    BY <1>1, <1>5, PutGood
  <2> HIDE DEF S
  <2>2. S.members[r.thread] = m \/ S.members[r.thread] = n
    BY <1>1, <1>5, PutGood DEF S
  <2> QED BY <1>1, <1>4, <2>1, <2>2, GoodParts
<1>7. assigned => Reserved(k)
  <2>1. assigned => status = m.status
    BY DEF Reserved
  <2>2. k = m \/ k = n
    <3> HIDE DEF n
    <3> QED BY <1>1, <1>5, PutGood
  <2> HIDE DEF k, n, status
  <2> QED BY <1>4, <2>1, <2>2 DEF Reserved
<1> HIDE DEF S
<1>8. assigned => Good(Finish(S, r.thread, "failed"))
  <2>1. assigned => ~k.hostRunning
    BY <1>6
  <2> HIDE DEF assigned
  <2> QED BY <1>1, <1>6, <1>7, <2>1, FinishGood DEF Outcome
<1>9. assigned => Good(Put(S, r.thread, x))
  <2>1. x \in Member /\ x.status = "uncertain" /\ x.generation = k.generation
    <3> HIDE DEF k
    <3> QED BY <1>6 DEF Member, Status, ReservedStatus
  <2>2. assigned => MayBecome(k, x)
    <3> HIDE DEF x, k, assigned
    <3> QED BY <1>6, <1>7, <2>1 DEF MayBecome, Executing, Member
  <2> HIDE DEF x
  <2> QED BY <1>1, <1>6, <2>2, PutGood
<1>10. Good(A) /\ Good(SettleRecovery(A, r.thread))
  <2> HIDE DEF x, assigned
  <2>1. Good(A)
    BY <1>6, <1>8, <1>9
  <2> HIDE DEF A
  <2> QED BY <1>1, <2>1, SettleRecoveryGood
<1>11. Failure(T, r, receipt) = F \/ Failure(T, r, receipt) = A
       \/ Failure(T, r, receipt) = SettleRecovery(A, r.thread)
  BY DEF Failure, F, S
<1> HIDE DEF A
<1> QED
  BY <1>1, <1>10, <1>11

(* A created thread becomes a member with reserved work of generation 1.   *)
LEMMA AdmitChildGood ==
    ASSUME NEW T, Good(T), NEW t \in Thread, T.members[t].status = "absent"
    PROVE  Good(AdmitChild(T, t)) /\ Indices(AdmitChild(T, t)) = Indices(T)
<1> DEFINE m == T.members[t]
           n == [m EXCEPT !.status = "pending", !.generation = 1]
<1>1. m \in Member /\ Executing(m)
  BY GoodParts
<1>2. n \in Member /\ n.hostRunning = m.hostRunning
  <2> HIDE DEF m
  <2> QED BY <1>1 DEF Member, Status, ReservedStatus, ActiveStatus
<1>3. ~m.hostRunning
  BY <1>1 DEF Executing
<1>4. MayBecome(m, n)
  <2> HIDE DEF n
  <2> QED BY <1>2, <1>3 DEF MayBecome, Executing
<1>5. AdmitChild(T, t) = Put(T, t, n)
  BY DEF AdmitChild
<1> HIDE DEF n
<1> QED
  BY <1>4, <1>5, PutGood DEF Indices

(* Accepted input starts executing the work that was reserved for it.      *)
LEMMA AcceptTurnGood ==
    ASSUME NEW T, Good(T), NEW r \in Ref, NEW turn \in Nat
    PROVE  Good(AcceptTurn(T, r, turn))
<1> DEFINE m == T.members[r.thread]
           n == Start(m, turn)
<1>1. m \in Member /\ r.thread \in Thread
  BY GoodParts DEF Ref
<1>2. n \in Member /\ n.status = "working" /\ n.generation = m.generation
  <2> HIDE DEF m
  <2> QED BY <1>1 DEF Start, Member, Status, ReservedStatus, ActiveStatus
<1>3. Reserved(m) => MayBecome(m, n)
  <2> HIDE DEF n
  <2> QED BY <1>1, <1>2 DEF MayBecome, Executing, Member
<1>4. Reserved(m) => Good(Put(T, r.thread, n))
  <2> HIDE DEF n
  <2> QED BY <1>1, <1>3, PutGood
<1> QED
  BY <1>4 DEF AcceptTurn

(* A confirmed step advances its intent and starts the work it was for.    *)
LEMMA SuccessGood ==
    ASSUME NEW T, Good(T), NEW r \in Ref, Known(T, r),
           NEW receipt, receipt.turn \in Nat, ~Conflicting(T, r, receipt)
    PROVE  Good(Success(T, r, receipt))
<1> DEFINE step == StepOf(T, r)
           m == T.members[r.thread]
           phaseState == IF m.status = "paused" THEN "paused" ELSE "pending"
           C == WithState(T, r, IF step \in {"wake", "compact"} THEN "completed" ELSE "confirmed")
           k == C.members[r.thread]
           w == [k EXCEPT !.status = "waiting"]
           a == [m EXCEPT !.audience = TRUE]
           state == IF T.effects[r.id].outcome = "interrupted" THEN "canceled" ELSE phaseState
           created == NextPhase(AdmitChild(T, r.thread), r, "assignment_input", "pending")
           admitted == NextPhase(Put(T, r.thread, a), r, "initial", state)
           S == CASE step = "compact" ->
                       IF receipt.reconciled /\ m.status = "uncertain" /\ m.wait.state = "registered"
                       THEN Put(C, r.thread, w) ELSE C
                  [] step = "create" -> created
                  [] step = "assignment_input" -> NextPhase(T, r, "admit", phaseState)
                  [] step = "admit" -> admitted
                  [] step \in {"initial", "followup", "wake", "human", "completion"} ->
                       IF receipt.reconciled THEN C ELSE AcceptTurn(C, r, receipt.turn)
                  [] OTHER -> C
<1>1. /\ Good(C) /\ KeepsStanding(m, k) /\ Good(AcceptTurn(C, r, receipt.turn))
      /\ r.thread \in Thread
  <2>1. Good(C) /\ KeepsStanding(m, k)
    BY WithStateGood DEF IntentState
  <2> HIDE DEF C
  <2> QED BY <2>1, AcceptTurnGood DEF Ref
<1>2. m \in Member /\ k \in Member
  BY <1>1, GoodParts
<1>3. m.status = "uncertain" => Good(Put(C, r.thread, w))
  <2> HIDE DEF C
  <2> SUFFICES ASSUME m.status = "uncertain" PROVE Good(Put(C, r.thread, w))
    OBVIOUS
  <2>1. Reserved(k)
    BY <1>1 DEF KeepsStanding, Reserved, ReservedStatus
  <2>2. w \in Member /\ w.status = "waiting" /\ w.generation = k.generation
    <3> HIDE DEF k
    <3> QED BY <1>2 DEF Member, Status, ReservedStatus, ActiveStatus
  <2>3. MayBecome(k, w)
    <3> HIDE DEF w, k
    <3> QED BY <1>2, <2>1, <2>2 DEF MayBecome, Executing, Member
  <2> HIDE DEF w
  <2> QED BY <1>1, <2>3, PutGood
<1>4. step \in {"create", "assignment_input", "admit"} => r.id \in Indices(T)
  BY DEF StepOf, Known, Ref
<1>5. step = "create" => Good(created)
  <2> SUFFICES ASSUME step = "create" PROVE Good(created)
    OBVIOUS
  <2>1. m.status = "absent"
    BY DEF Conflicting, CreatesThread
  <2>2. Good(AdmitChild(T, r.thread)) /\ r.id \in Indices(AdmitChild(T, r.thread))
    BY <1>1, <1>4, <2>1, AdmitChildGood
  <2> QED
    BY <2>2, NextPhaseGood DEF Phase, IntentState
<1>6. step = "assignment_input" => Good(NextPhase(T, r, "admit", phaseState))
  BY <1>4, NextPhaseGood DEF Phase, IntentState
<1>7. step = "admit" => Good(admitted)
  <2> SUFFICES ASSUME step = "admit" PROVE Good(admitted)
    OBVIOUS
  <2>1. a \in Member /\ KeepsStanding(m, a)
    <3> HIDE DEF m
    <3> QED BY <1>2 DEF Member, KeepsStanding
  <2>2. MayBecome(m, a)
    BY <1>1, <1>2, <2>1, GoodParts, StandingMayBecome
  <2> HIDE DEF a
  <2>3. Good(Put(T, r.thread, a)) /\ r.id \in Indices(Put(T, r.thread, a))
    BY <1>1, <1>4, <2>2, PutGood DEF Indices
  <2>4. state \in IntentState
    BY DEF IntentState
  <2> HIDE DEF state
  <2> QED
    BY <2>3, <2>4, NextPhaseGood DEF Phase
<1>8. Good(S) /\ Good(SettleRecovery(S, r.thread))
  <2> HIDE DEF C, created, admitted, w
  <2>1. Good(S)
    BY <1>1, <1>3, <1>5, <1>6, <1>7
  <2> HIDE DEF S
  <2> QED BY <1>1, <2>1, SettleRecoveryGood
<1>9. Success(T, r, receipt) = IF step = "create" THEN S ELSE SettleRecovery(S, r.thread)
  BY DEF Success
<1> HIDE DEF S
<1> QED
  BY <1>8, <1>9

(* An acknowledgement that names nothing dispatched changes nothing.       *)
LEMMA AcknowledgeGood ==
    ASSUME NEW T, Good(T), NEW r \in Ref, NEW receipt, receipt.turn \in Nat
    PROVE  Good(Acknowledge(T, r, receipt))
<1>1. Acknowledgeable(T, r, receipt) => Known(T, r)
  BY DEF Acknowledgeable
<1> QED
  BY <1>1, FailureGood, SuccessGood DEF Acknowledge

-----------------------------------------------------------------------------
(* The human's input, and what an agent has read.                          *)

(* Human input to a child reserves work only where none is reserved.       *)
LEMMA HumanInputGood ==
    ASSUME NEW T, Good(T), NEW t \in Thread
    PROVE  Good(HumanInput(T, t))
<1> DEFINE m == T.members[t]
           n == Reserve(m)
           N == IF Reserved(m) /\ m.status # "paused" THEN T ELSE Put(T, t, n)
           S == Supersede(N, t)
           g == N.members[t].generation
           A == AddEffect(S, NewEffect("human", t, 0, 0, t, g))
           C == Claim(A, EffectRef(A, Len(A.effects)))
<1>1. Good(N)
  <2>1. m \in Member /\ Executing(m)
    BY GoodParts
  <2>2. ~Reserved(m) \/ m.status = "paused" => MayBecome(m, n)
    BY <2>1, ReserveMayBecome
  <2> HIDE DEF n
  <2> QED BY <2>2, PutGood
<1> HIDE DEF N
<1>2. Good(S) /\ g \in Nat
  BY <1>1, SupersedeGood, GoodParts DEF Member
<1> HIDE DEF S, g
<1>3. /\ Good(A) /\ Len(A.effects) = Len(S.effects) + 1
      /\ A.effects[Len(S.effects) + 1] = NewEffect("human", t, 0, 0, t, g)
  <2> DEFINE d == NewEffect("human", t, 0, 0, t, g)
  <2>1. d \in Effect /\ d.kind = "human"
    BY <1>2 DEF NewEffect, Effect, EffectKind, Phase, IntentState
  <2> HIDE DEF d
  <2>2. /\ Good(AddEffect(S, d)) /\ Len(AddEffect(S, d).effects) = Len(S.effects) + 1
        /\ AddEffect(S, d).effects[Len(S.effects) + 1] = d
    BY <1>2, <2>1, AddGood
  <2> QED BY <2>2 DEF d
<1>4. A.effects[Len(A.effects)].target = t /\ Len(A.effects) \in Nat
  <2>1. NewEffect("human", t, 0, 0, t, g).target = t
    BY DEF NewEffect
  <2> HIDE DEF A
  <2> QED BY <1>2, <1>3, <2>1, GoodEffects
<1> HIDE DEF A
<1>5. EffectRef(A, Len(A.effects)) \in Ref
  BY <1>4 DEF EffectRef, Ref
<1>6. Good(C)
  BY <1>3, <1>5, ClaimGood
<1>7. Good(Supersede(T, t))
  BY SupersedeGood
<1>8. HumanInput(T, t) \in {T, Supersede(T, t), C}
  BY DEF HumanInput, A, S, g, N
<1> HIDE DEF C
<1> QED
  BY <1>6, <1>7, <1>8

(* Committed human input is confirmed in place.                            *)
LEMMA HumanCommittedGood ==
    ASSUME NEW T, Good(T), NEW r \in Ref, Known(T, r), NEW turn \in Nat
    PROVE  Good(HumanCommitted(T, r, turn))
<1> DEFINE e == T.effects[r.id]
           f == [e EXCEPT !.state = "confirmed", !.turn = turn]
<1>1. r.slot = "effect" => r.id \in Indices(T) /\ e \in Effect
  BY GoodEffects DEF Known
<1>2. e \in Effect => SameWork(e, f)
  <2> HIDE DEF e
  <2> QED BY DEF SameWork, Effect, IntentState
<1> HIDE DEF f
<1>3. r.slot = "effect" => Good(PutEffect(T, r.id, f))
  BY <1>1, <1>2, PutEffectGood
<1> QED
  BY <1>3 DEF HumanCommitted, f

(* Consumption marks notifications.                                        *)
LEMMA ConsumeGood ==
    ASSUME NEW T, Good(T), NEW t \in Thread, NEW items
    PROVE  Good(Consume(T, t, items))
<1> DEFINE read == {i \in items : T.effects[i].claimedBy = 0}
           f == [i \in Indices(T) |->
                   IF i \in read THEN [T.effects[i] EXCEPT !.consumed = TRUE] ELSE T.effects[i]]
<1>1. \A i \in Indices(T) : SameWork(T.effects[i], f[i])
  BY GoodEffects, EditEffect
<1>2. f \in [Indices(T) -> Effect]
  <2>1. \A i \in Indices(T) : f[i] \in Effect
    BY <1>1 DEF SameWork
  <2> QED BY <2>1
<1>3. Consume(T, t, items) = T \/ Consume(T, t, items) = [T EXCEPT !.effects = f]
  BY DEF Consume
<1> HIDE DEF f
<1>4. Good([T EXCEPT !.effects = f])
  BY <1>1, <1>2, EffectsGood
<1> QED
  BY <1>3, <1>4
=============================================================================
