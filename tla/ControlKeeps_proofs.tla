-------------------------- MODULE ControlKeeps_proofs --------------------------
(***************************************************************************)
(* What the handlers of ControlTree, ControlHandlers and ControlIntents    *)
(* leave of the intents and waits they find: which states may follow which, *)
(* what stays with whom, and what is new.  Every handler but a claim, a    *)
(* settlement, a pause and the registration, waking and consumption of     *)
(* notifications is shown to be an edit in this sense, and each of those   *)
(* to be one but for the intent or the notifications it is about.          *)
(*                                                                         *)
(* From the edits follows what every handler keeps of a sound tree: the    *)
(* order in which intents go out, the checkpoint that goes out alone, the  *)
(* single use of a notification, that a wait for all returns with every    *)
(* result, and that an intent that went out once never does again.  The    *)
(* last part is about the members: what a handler leaves registered is     *)
(* owed no stop that is not retained.                                      *)
(***************************************************************************)
EXTENDS ControlWork_proofs, WellFoundedInduction

(* The states of an intent that has not gone out.                          *)
Unsent == {"registered", "pending", "queued", "paused"}

(* A wait's ordinal that no driver can have claimed: not given yet, or     *)
(* given to the continuation that is queued behind the current wait.       *)
Unseen(m, id) == id > m.calls \/ (m.recoveryWait.state # "none" /\ id = m.recoveryWait.id)

(* A continuation queues only behind a wake the host may own, is younger   *)
(* than it, and asks for no checkpoint (Hold, settleRecovery).             *)
WaitsInOrder(m) ==
    /\ m.recoveryWait.state \in {"none", "registered", "paused"}
    /\ m.recoveryWait.compact = "none"
    /\ m.recoveryWait.state # "none" => Dispatched(m.wait) /\ m.wait.id < m.recoveryWait.id
    /\ m.wait.id <= m.calls /\ m.recoveryWait.id <= m.calls
    /\ m.wait.state = "registered" => m.wait.id # 0
    /\ m.wait.standalone => m.wait.targets = {}
    /\ ~m.recoveryWait.standalone

(* What the wait is for, and whether it is for nothing but its checkpoint. *)
SameTargets(m, n) ==
    n.wait.standalone = m.wait.standalone /\ n.wait.targets = m.wait.targets

Fit(T) == Good(T) /\ \A t \in Thread : WaitsInOrder(T.members[t])

(* A final result is delivered, fails, or is held with its runtime: no     *)
(* handler takes it back.                                                  *)
Candid(e) == e.kind = "final" =>
    e.state \in HostOwned \cup {"pending", "confirmed", "failed", "paused"}

(* An edit sends nothing, and makes nothing unsent that was out.           *)
IntentAges(e, f) ==
    /\ f.kind = e.kind /\ f.target = e.target /\ f.phase = e.phase
    /\ f.state = "dispatching" => e.state = "dispatching"
    /\ f.state \in HostOwned => e.state \in HostOwned
    /\ f.state \in Unsent => e.state \in Unsent
    /\ f.kind # "create" /\ f.state = "pending" => e.state = "pending"
    /\ Candid(e) => Candid(f)

(* The creation of a thread is settled by its own answer and by nothing    *)
(* else.                                                                   *)
CreationKept(e, f) ==
    e.kind = "create" /\ e.state = "dispatching" => f.state = "dispatching"

(* Notifications stay with the wait that claimed them, unless that wait is *)
(* a queued wake that is canceled.                                         *)
NoteKept(T, e, f) ==
    /\ f.consumed = e.consumed
    /\ f.claimedBy # e.claimedBy =>
         /\ f.claimedBy = 0
         /\ T.members[e.target].wait.state = "queued"
         /\ T.members[e.target].wait.id = e.claimedBy

IntentEdit(T, e, f) == IntentAges(e, f) /\ CreationKept(e, f) /\ NoteKept(T, e, f)

(* The same of the wake and the checkpoint that a member's wait embeds.    *)
MemberAges(m, n) ==
    /\ n.wait.state = "dispatching" => m.wait.state = "dispatching" /\ n.wait.id = m.wait.id
    /\ n.wait.compact \in HostOwned => m.wait.compact \in HostOwned /\ n.wait.id = m.wait.id
    /\ n.wait.compact = "dispatching" => m.wait.compact = "dispatching"
    /\ n.wait.state \in Unsent =>
         Unseen(m, n.wait.id) \/ (m.wait.state \in Unsent /\ n.wait.id = m.wait.id)
    /\ n.wait.compact \in Unsent =>
         Unseen(m, n.wait.id) \/ (m.wait.compact \in Unsent /\ n.wait.id = m.wait.id)
    /\ \A id \in Nat : Unseen(n, id) => Unseen(m, id)

(* A wait that has its outcome, or whose wake is on its way.               *)
Awake == HostOwned \cup {"pending", "queued", "completed"}
Rests(m, n) ==
    n.wait.state \in Awake => m.wait.state \in Awake /\ n.wait.id = m.wait.id

MemberEdit(m, n) ==
    /\ MemberAges(m, n) /\ Rests(m, n)
    /\ n.wait.state = "queued" => m.wait.state = "queued" /\ n.wait.id = m.wait.id

(* Only the creation of a thread has phases.                               *)
Phased(e) == (e.kind = "create" <=> e.phase # "none") /\ Candid(e)
NewIntent(e) == Phased(e) /\ e.state \notin HostOwned
NewNote(e)   == e.claimedBy = 0 /\ ~e.consumed

(* From T to U, intents in X and completions of threads in Y aside.        *)
Ages(T, U, X, Y) ==
    /\ Len(T.effects) <= Len(U.effects)
    /\ \A i \in Indices(T) \ X :
         IntentAges(T.effects[i], U.effects[i]) /\ CreationKept(T.effects[i], U.effects[i])
    /\ \A i \in (Indices(U) \ Indices(T)) \ X : NewIntent(U.effects[i])
    /\ \A t \in Thread : MemberAges(T.members[t], U.members[t])
    /\ \A t \in Thread \ Y :
         U.members[t].status = "completed" => T.members[t].status = "completed"

Notes(T, U) ==
    /\ \A i \in Indices(T) : U.effects[i].target = T.effects[i].target
    /\ \A i \in Indices(T) : NoteKept(T, T.effects[i], U.effects[i])
    /\ \A i \in Indices(U) \ Indices(T) : NewNote(U.effects[i])
    /\ \A t \in Thread :
         U.members[t].wait.state = "queued" =>
           /\ T.members[t].wait.state = "queued"
           /\ U.members[t].wait.id = T.members[t].wait.id
    /\ \A t \in Thread : Rests(T.members[t], U.members[t])

Edits(T, U, X, Y) == Ages(T, U, X, Y) /\ Notes(T, U)

-----------------------------------------------------------------------------
(* Edits compose.                                                          *)

(* What a fit tree says of one member, and of its effects.                 *)
LEMMA FitParts ==
    ASSUME NEW T, Fit(T), NEW t \in Thread
    PROVE  /\ Good(T) /\ T.members[t] \in Member /\ WaitsInOrder(T.members[t])
           /\ Executing(T.members[t])
BY GoodParts DEF Fit

(* Ordinals and states of a member's waits.                                *)
LEMMA WaitTypes ==
    ASSUME NEW m \in Member
    PROVE  /\ m.wait \in Wait /\ m.recoveryWait \in Wait
           /\ m.wait.id \in Nat /\ m.recoveryWait.id \in Nat /\ m.calls \in Nat
           /\ m.wait.state \in IntentState /\ m.wait.compact \in IntentState
           /\ m.recoveryWait.state \in IntentState /\ m.recoveryWait.compact \in IntentState
BY DEF Member, Wait

(* Members age transitively.                                               *)
LEMMA MemberAgesTrans ==
    ASSUME NEW m \in Member, NEW n \in Member, NEW k \in Member,
           MemberAges(m, n), MemberAges(n, k)
    PROVE  MemberAges(m, k)
<1>1. m.wait.id \in Nat /\ n.wait.id \in Nat /\ k.wait.id \in Nat
  BY WaitTypes
<1> QED
  BY <1>1 DEF MemberAges

(* Notifications that stay where they are twice stay where they are.       *)
LEMMA NotesTrans ==
    ASSUME NEW T, Good(T), NEW U, NEW V, Indices(T) \subseteq Indices(U),
           Notes(T, U), Notes(U, V)
    PROVE  Notes(T, V)
<1>1. ASSUME NEW i \in Indices(T)
      PROVE  /\ V.effects[i].target = T.effects[i].target
             /\ NoteKept(T, T.effects[i], V.effects[i])
  <2>1. /\ NoteKept(T, T.effects[i], U.effects[i]) /\ NoteKept(U, U.effects[i], V.effects[i])
        /\ U.effects[i].target = T.effects[i].target
        /\ V.effects[i].target = U.effects[i].target
    BY DEF Notes
  <2>2. T.effects[i].target \in Thread
    BY GoodEffects DEF Effect
  <2>3. LET t == T.effects[i].target IN
          U.members[t].wait.state = "queued" =>
            /\ T.members[t].wait.state = "queued"
            /\ U.members[t].wait.id = T.members[t].wait.id
    BY <2>2 DEF Notes
  <2> QED BY <2>1, <2>3 DEF NoteKept
<1>2. ASSUME NEW i \in Indices(V) \ Indices(T)
      PROVE  NewNote(V.effects[i])
  <2>1. CASE i \in Indices(U)
    <3>1. NewNote(U.effects[i]) /\ NoteKept(U, U.effects[i], V.effects[i])
      BY <2>1 DEF Notes
    <3> QED BY <3>1 DEF NewNote, NoteKept
  <2>2. CASE i \notin Indices(U)
    BY <2>2 DEF Notes
  <2> QED BY <2>1, <2>2
<1>3. \A t \in Thread :
        V.members[t].wait.state = "queued" =>
          /\ T.members[t].wait.state = "queued"
          /\ V.members[t].wait.id = T.members[t].wait.id
  BY DEF Notes
<1> QED
  BY <1>1, <1>2, <1>3 DEF Notes, Rests, Awake, HostOwned

(* Edits compose: nothing the first leaves alone is disturbed by the next. *)
LEMMA EditsAfter ==
    ASSUME NEW T, Good(T), NEW U, Good(U), NEW V, Good(V), NEW X, NEW Y,
           Edits(T, U, X, Y), Edits(U, V, X, Y)
    PROVE  Edits(T, V, X, Y)
<1>1. /\ Len(T.effects) \in Nat /\ Len(U.effects) \in Nat /\ Len(V.effects) \in Nat
      /\ Indices(T) = 1 .. Len(T.effects) /\ Indices(U) = 1 .. Len(U.effects)
      /\ Indices(V) = 1 .. Len(V.effects)
  BY GoodEffects
<1>2. /\ Len(T.effects) <= Len(U.effects) /\ Len(U.effects) <= Len(V.effects)
      /\ Indices(T) \subseteq Indices(U) /\ Indices(U) \subseteq Indices(V)
  BY <1>1 DEF Edits, Ages
<1>3. ASSUME NEW i \in Indices(T) \ X
      PROVE  IntentAges(T.effects[i], V.effects[i]) /\ CreationKept(T.effects[i], V.effects[i])
  <2>1. /\ IntentAges(T.effects[i], U.effects[i]) /\ CreationKept(T.effects[i], U.effects[i])
        /\ IntentAges(U.effects[i], V.effects[i]) /\ CreationKept(U.effects[i], V.effects[i])
    BY <1>2 DEF Edits, Ages
  <2> QED BY <2>1 DEF IntentAges, CreationKept
<1>4. ASSUME NEW i \in (Indices(V) \ Indices(T)) \ X
      PROVE  NewIntent(V.effects[i])
  <2>1. CASE i \in Indices(U)
    <3>1. NewIntent(U.effects[i]) /\ IntentAges(U.effects[i], V.effects[i])
      BY <2>1 DEF Edits, Ages
    <3> QED BY <3>1 DEF NewIntent, Phased, IntentAges
  <2>2. CASE i \notin Indices(U)
    BY <2>2 DEF Edits, Ages
  <2> QED BY <2>1, <2>2
<1>5. \A t \in Thread : MemberAges(T.members[t], V.members[t])
  BY GoodParts, MemberAgesTrans DEF Edits, Ages
<1>6. Ages(T, V, X, Y)
  <2>1. \A t \in Thread \ Y :
          V.members[t].status = "completed" => T.members[t].status = "completed"
    BY DEF Edits, Ages
  <2> QED BY <1>1, <1>2, <1>3, <1>4, <1>5, <2>1 DEF Ages
<1> QED
  BY <1>2, <1>6, NotesTrans DEF Edits

(* Exempting more intents and threads is weaker.                           *)
LEMMA EditsWeaken ==
    ASSUME NEW T, NEW U, NEW X, NEW Y, NEW Z, NEW W, X \subseteq Z, Y \subseteq W,
           Edits(T, U, X, Y)
    PROVE  Edits(T, U, Z, W)
BY DEF Edits, Ages, Notes

(* An edit that exempts no intent, and then one that exempts X.            *)
LEMMA EditsTrans ==
    ASSUME NEW T, Good(T), NEW U, Good(U), NEW V, Good(V), NEW X, NEW Y,
           Edits(T, U, {}, Y), Edits(U, V, X, Y)
    PROVE  Edits(T, V, X, Y)
BY EditsAfter, EditsWeaken

(* Leaving a tree alone is an edit.                                        *)
LEMMA NoEdit ==
    ASSUME NEW T, Good(T), NEW X, NEW Y
    PROVE  Edits(T, T, X, Y)
<1>1. Len(T.effects) \in Nat
  BY GoodEffects
<1>2. \A i \in Indices(T) : IntentAges(T.effects[i], T.effects[i])
                            /\ CreationKept(T.effects[i], T.effects[i])
                            /\ NoteKept(T, T.effects[i], T.effects[i])
  BY DEF IntentAges, CreationKept, NoteKept
<1>3. \A t \in Thread : MemberAges(T.members[t], T.members[t])
  BY DEF MemberAges
<1> QED
  BY <1>1, <1>2, <1>3 DEF Edits, Ages, Notes, Rests, Awake, HostOwned

(* Members are edited, effects are not.                                    *)
LEMMA MembersEdits ==
    ASSUME NEW T, Fit(T), NEW U, Good(U), U.effects = T.effects, NEW Y,
           \A t \in Thread : MemberEdit(T.members[t], U.members[t]) /\ WaitsInOrder(U.members[t]),
           \A t \in Thread \ Y :
             U.members[t].status = "completed" => T.members[t].status = "completed"
    PROVE  Fit(U) /\ Edits(T, U, {}, Y)
<1>1. Len(T.effects) \in Nat /\ Indices(U) = Indices(T)
  BY GoodEffects DEF Fit, Indices
<1>2. \A i \in Indices(T) : IntentAges(T.effects[i], U.effects[i])
                            /\ CreationKept(T.effects[i], U.effects[i])
                            /\ NoteKept(T, T.effects[i], U.effects[i])
  BY DEF IntentAges, CreationKept, NoteKept
<1> QED
  BY <1>1, <1>2 DEF Fit, Edits, Ages, Notes, MemberEdit

(* What replacing one member selects.                                      *)
LEMMA PutSelects ==
    ASSUME NEW T, T \in Tree, NEW t \in Thread, NEW m
    PROVE  /\ Put(T, t, m).effects = T.effects
           /\ Put(T, t, m).members[t] = m
           /\ \A u \in Thread \ {t} : Put(T, t, m).members[u] = T.members[u]
BY DEF Put, Tree

(* One member is edited.                                                   *)
LEMMA PutEdits ==
    ASSUME NEW T, Fit(T), NEW t \in Thread, NEW m, Good(Put(T, t, m)), NEW Y,
           MemberEdit(T.members[t], m), WaitsInOrder(m),
           t \notin Y /\ m.status = "completed" => T.members[t].status = "completed"
    PROVE  Fit(Put(T, t, m)) /\ Edits(T, Put(T, t, m), {}, Y)
<1> DEFINE U == Put(T, t, m)
<1>1. /\ Good(U) /\ U.members[t] = m /\ U.effects = T.effects
      /\ \A u \in Thread \ {t} : U.members[u] = T.members[u]
  BY PutSelects DEF Fit, Good
<1>2. \A u \in Thread : MemberEdit(T.members[u], T.members[u]) /\ WaitsInOrder(T.members[u])
  BY DEF MemberEdit, MemberAges, Fit, Rests, Awake, HostOwned
<1> HIDE DEF U
<1>3. \A u \in Thread : MemberEdit(T.members[u], U.members[u]) /\ WaitsInOrder(U.members[u])
  BY <1>1, <1>2
<1>4. \A u \in Thread \ Y :
        U.members[u].status = "completed" => T.members[u].status = "completed"
  BY <1>1
<1> QED
  BY <1>1, <1>3, <1>4, MembersEdits DEF U

(* Effects are edited, members are not.                                    *)
LEMMA EffectsEdits ==
    ASSUME NEW T, Fit(T), NEW f, f \in [Indices(T) -> Effect],
           \A i \in Indices(T) : SameWork(T.effects[i], f[i]) /\ IntentEdit(T, T.effects[i], f[i])
    PROVE  LET U == [T EXCEPT !.effects = f] IN
           /\ Fit(U) /\ Edits(T, U, {}, {})
           /\ U.members = T.members /\ U.effects = f /\ Indices(U) = Indices(T)
<1> DEFINE U == [T EXCEPT !.effects = f]
<1>1. Good(U) /\ U.members = T.members /\ U.effects = f /\ Indices(U) = Indices(T)
  BY EffectsGood DEF Fit
<1>2. Len(T.effects) \in Nat /\ Len(U.effects) = Len(T.effects)
  BY <1>1, GoodEffects DEF Fit
<1> HIDE DEF U
<1>3. \A t \in Thread : MemberAges(T.members[t], U.members[t])
  BY <1>1 DEF MemberAges
<1>4. \A i \in Indices(T) : U.effects[i].target = T.effects[i].target
  BY <1>1 DEF IntentEdit, IntentAges
<1>5. Edits(T, U, {}, {})
  BY <1>1, <1>2, <1>3, <1>4 DEF Edits, Ages, Notes, IntentEdit, Rests, Awake, HostOwned
<1> QED
  BY <1>1, <1>5 DEF Fit, U

(* What appending an effect selects.                                       *)
LEMMA AddSelects ==
    ASSUME NEW T, T \in Tree, NEW e, e \in Effect
    PROVE  LET U == AddEffect(T, e) IN
           /\ U.members = T.members /\ Len(U.effects) = Len(T.effects) + 1
           /\ U.effects[Len(T.effects) + 1] = e
           /\ \A i \in Indices(T) : U.effects[i] = T.effects[i]
           /\ Indices(U) = Indices(T) \cup {Len(T.effects) + 1}
           /\ Len(T.effects) \in Nat
<1> DEFINE U == AddEffect(T, e)
<1>1. T.effects \in Seq(Effect) /\ Len(T.effects) \in Nat
  BY TreeTypes
<1>2. [i \in Indices(T) |-> T.effects[i]] = T.effects
  BY <1>1 DEF Indices
<1>3. U.members = T.members /\ U.effects = Append(T.effects, e)
  BY <1>2 DEF AddEffect, Tree
<1> HIDE DEF U
<1>4. /\ Len(U.effects) = Len(T.effects) + 1 /\ U.effects[Len(T.effects) + 1] = e
      /\ \A i \in Indices(T) : U.effects[i] = T.effects[i]
  BY <1>1, <1>3 DEF Indices
<1>5. Indices(U) = Indices(T) \cup {Len(T.effects) + 1}
  BY <1>1, <1>4 DEF Indices
<1> QED
  BY <1>1, <1>3, <1>4, <1>5 DEF U

(* An intent is appended that has not gone out.                            *)
LEMMA AddEdits ==
    ASSUME NEW T, Fit(T), NEW e, e \in Effect, NewIntent(e), NewNote(e), Good(AddEffect(T, e)),
           NEW Y
    PROVE  Fit(AddEffect(T, e)) /\ Edits(T, AddEffect(T, e), {}, Y)
<1> DEFINE U == AddEffect(T, e)
<1>1. /\ Good(U) /\ U.members = T.members /\ Len(U.effects) = Len(T.effects) + 1
      /\ U.effects[Len(T.effects) + 1] = e /\ Len(T.effects) \in Nat
      /\ \A i \in Indices(T) : U.effects[i] = T.effects[i]
      /\ Indices(U) = Indices(T) \cup {Len(T.effects) + 1}
  BY AddSelects DEF Fit, Good
<1> HIDE DEF U
<1>2. Indices(U) \ Indices(T) = {Len(T.effects) + 1}
  BY <1>1 DEF Indices
<1>3. \A i \in Indices(T) : /\ IntentAges(T.effects[i], U.effects[i])
                            /\ CreationKept(T.effects[i], U.effects[i])
                            /\ NoteKept(T, T.effects[i], U.effects[i])
  BY <1>1 DEF IntentAges, CreationKept, NoteKept
<1>4. \A t \in Thread : MemberAges(T.members[t], U.members[t])
  BY <1>1 DEF MemberAges
<1>5. Edits(T, U, {}, Y)
  BY <1>1, <1>2, <1>3, <1>4 DEF Edits, Ages, Notes, Rests, Awake, HostOwned
<1> QED
  BY <1>1, <1>5 DEF Fit, U

-----------------------------------------------------------------------------
(* Edits of one member.                                                    *)

(* The ordinals and states of the waits are left alone.                    *)
SameWaits(m, n) ==
    /\ n.wait.id = m.wait.id /\ n.wait.state = m.wait.state /\ n.wait.compact = m.wait.compact
    /\ SameTargets(m, n)
    /\ n.recoveryWait = m.recoveryWait /\ n.calls = m.calls

(* Whatever leaves the ordinals and states of the waits alone is an edit.  *)
LEMMA SameWaitsEdit ==
    ASSUME NEW m, NEW n, WaitsInOrder(m), SameWaits(m, n)
    PROVE  MemberEdit(m, n) /\ WaitsInOrder(n)
BY DEF SameWaits, SameTargets, MemberEdit, MemberAges, WaitsInOrder, Unseen, Dispatched, Rests, Awake, HostOwned

(* A member changes but for its waits.                                     *)
LEMMA PutSameWaits ==
    ASSUME NEW T, Fit(T), NEW t \in Thread, NEW m, Good(Put(T, t, m)),
           SameWaits(T.members[t], m), NEW Y,
           t \notin Y /\ m.status = "completed" => T.members[t].status = "completed"
    PROVE  Fit(Put(T, t, m)) /\ Edits(T, Put(T, t, m), {}, Y)
BY FitParts, SameWaitsEdit, PutEdits


-----------------------------------------------------------------------------
(* Settling.                                                               *)

(* Members and effects are edited, and none is new.                        *)
LEMMA KeepEdits ==
    ASSUME NEW T, Fit(T), NEW U, Good(U), Indices(U) = Indices(T), NEW Y,
           \A i \in Indices(T) : IntentEdit(T, T.effects[i], U.effects[i]),
           \A t \in Thread : MemberEdit(T.members[t], U.members[t]) /\ WaitsInOrder(U.members[t]),
           \A t \in Thread \ Y :
             U.members[t].status = "completed" => T.members[t].status = "completed"
    PROVE  Fit(U) /\ Edits(T, U, {}, Y)
<1>1. /\ Len(T.effects) \in Nat /\ Len(U.effects) \in Nat
      /\ Indices(T) = 1 .. Len(T.effects) /\ Indices(U) = 1 .. Len(U.effects)
  BY GoodEffects DEF Fit
<1>2. Len(T.effects) <= Len(U.effects)
  <2>1. CASE Len(T.effects) = 0
    BY <1>1, <2>1
  <2>2. CASE Len(T.effects) # 0
    <3>1. Len(T.effects) \in 1 .. Len(U.effects)
      BY <1>1, <2>2
    <3> QED BY <1>1, <3>1
  <2> QED BY <2>1, <2>2
<1>3. \A i \in Indices(T) : U.effects[i].target = T.effects[i].target
  BY DEF IntentEdit, IntentAges
<1> QED
  BY <1>2, <1>3 DEF Fit, Edits, Ages, Notes, IntentEdit, MemberEdit

(* What replacing one effect selects.                                      *)
LEMMA PutEffectSelects ==
    ASSUME NEW T, T \in Tree, NEW i \in Indices(T), NEW e
    PROVE  /\ PutEffect(T, i, e).members = T.members
           /\ PutEffect(T, i, e).effects[i] = e
           /\ \A j \in Indices(T) \ {i} : PutEffect(T, i, e).effects[j] = T.effects[j]
BY TreeTypes DEF PutEffect, Tree, Indices

(* A canceled subscription is an edit unless the host may own its wake: it *)
(* releases what a queued wake had claimed.                                *)
LEMMA CancelSubscriptionEdits ==
    ASSUME NEW T, Fit(T), NEW t \in Thread, ~Dispatched(T.members[t].wait)
    PROVE  LET C == CancelSubscription(T, t)
               m == T.members[t]
               k == C.members[t]
           IN  /\ Fit(C) /\ Edits(T, C, {}, {}) /\ Indices(C) = Indices(T)
               /\ KeepsStanding(m, k)
               /\ k.wait.id = m.wait.id /\ k.calls = m.calls /\ k.recoveryWait = m.recoveryWait
               /\ k.wait.state \in {"none", "canceled"}
               /\ k.wait.compact \in {"canceled"} \/ k.wait.compact = m.wait.compact
               /\ \A u \in Thread \ {t} : C.members[u] = T.members[u]
<1> DEFINE m == T.members[t]
           w == m.wait
           C == CancelSubscription(T, t)
           c == IF w.compact \in HostOwned \cup {"none"} THEN w.compact ELSE "canceled"
           canceled == [w EXCEPT !.state = "canceled", !.stop = "none", !.compact = c]
           n == [m EXCEPT !.wait = canceled]
           f == [i \in Indices(T) |->
                   IF w.state = "queued" /\ T.effects[i].target = t /\ T.effects[i].claimedBy = w.id
                   THEN [T.effects[i] EXCEPT !.claimedBy = 0] ELSE T.effects[i]]
<1>1. /\ Good(T) /\ m \in Member /\ WaitsInOrder(m) /\ T \in Tree
      /\ T.members \in [Thread -> Member] /\ \A i \in Indices(T) : T.effects[i] \in Effect
  BY FitParts, TreeTypes DEF Good
<1>2. Good(C) /\ KeepsStanding(m, C.members[t]) /\ Indices(C) = Indices(T)
  BY <1>1, CancelSubscriptionGood DEF KeepsEffects
<1>3. CASE w.state = "none"
  <2>1. C = T
    BY <1>3 DEF CancelSubscription
  <2> QED BY <1>1, <1>2, <1>3, <2>1, NoEdit
<1>4. CASE w.state # "none"
  <2>1. /\ C.members = [T.members EXCEPT ![t] = n] /\ C.effects = f
    <3>1. Indices(Put(T, t, n)) = Indices(T) /\ Put(T, t, n).effects = T.effects
      <4> HIDE DEF n
      <4>0. T \in Tree
        BY <1>1
      <4>1. Put(T, t, n).effects = T.effects
        BY <4>0, PutSelects
      <4> QED BY <4>1 DEF Indices
    <3> QED BY <1>1, <1>4, <3>1 DEF CancelSubscription, EachEffect, Put, Tree
  <2>2. C.members[t] = n /\ \A u \in Thread \ {t} : C.members[u] = T.members[u]
    BY <1>1, <2>1
  <2>3. /\ n.wait.id = m.wait.id /\ n.calls = m.calls /\ n.recoveryWait = m.recoveryWait
        /\ n.wait.state = "canceled" /\ n.status = m.status
        /\ n.wait.compact = c /\ SameTargets(m, n)
    <3> HIDE DEF c
    <3> QED BY <1>1, WaitTypes DEF Member, Wait, SameTargets
  <2>4. MemberEdit(m, n) /\ WaitsInOrder(n)
    <3>1. /\ w.state \notin HostOwned /\ n.wait.compact \notin Unsent
          /\ n.wait.compact \in {"canceled", w.compact}
      BY <2>3 DEF Dispatched, Unsent, HostOwned
    <3>2. w.id \in Nat
      BY <1>1, WaitTypes
    <3> HIDE DEF n, c, w
    <3> QED BY <1>1, <2>3, <3>1, <3>2 DEF w, SameTargets, MemberEdit, MemberAges, WaitsInOrder, Unseen, Dispatched, HostOwned, Unsent, Rests, Awake
  <2>5. ASSUME NEW i \in Indices(T)
        PROVE  IntentEdit(T, T.effects[i], f[i])
    <3> DEFINE e == T.effects[i]
    <3>1. e \in Effect
      BY <1>1
    <3>2. f[i] = e \/ (f[i] = [e EXCEPT !.claimedBy = 0] /\ w.state = "queued" /\ e.target = t
                          /\ e.claimedBy = w.id)
      OBVIOUS
    <3> HIDE DEF e, f
    <3>3. CASE f[i] = e
      BY <3>3 DEF IntentEdit, IntentAges, CreationKept, NoteKept, e
    <3>4. CASE f[i] = [e EXCEPT !.claimedBy = 0] /\ w.state = "queued" /\ e.target = t /\ e.claimedBy = w.id
      <4>1. /\ f[i].kind = e.kind /\ f[i].target = e.target /\ f[i].phase = e.phase
            /\ f[i].state = e.state /\ f[i].consumed = e.consumed /\ f[i].claimedBy = 0
        BY <3>1, <3>4 DEF Effect
      <4> QED BY <3>4, <4>1 DEF IntentEdit, IntentAges, CreationKept, NoteKept, e, Candid, HostOwned
    <3> QED BY <3>2, <3>3, <3>4
  <2> HIDE DEF n, f, C
  <2>6. \A u \in Thread : MemberEdit(T.members[u], C.members[u]) /\ WaitsInOrder(C.members[u])
    <3>1. \A u \in Thread : MemberEdit(T.members[u], T.members[u]) /\ WaitsInOrder(T.members[u])
      BY DEF MemberEdit, MemberAges, Fit, Rests, Awake, HostOwned
    <3> QED BY <2>2, <2>4, <3>1
  <2>7. \A u \in Thread : C.members[u].status = "completed" => T.members[u].status = "completed"
    BY <2>2, <2>3
  <2>8. \A i \in Indices(T) : IntentEdit(T, T.effects[i], C.effects[i])
    BY <2>1, <2>5
  <2>9. Fit(C) /\ Edits(T, C, {}, {})
    BY <1>2, <2>6, <2>7, <2>8, KeepEdits
  <2> QED BY <1>2, <2>2, <2>3, <2>9 DEF C
<1> QED BY <1>3, <1>4


(* Canceling a deferred completion is an edit.                             *)
LEMMA CancelCompletionEdits ==
    ASSUME NEW T, Fit(T), NEW t \in Thread
    PROVE  LET C == CancelCompletion(T, t) IN
           /\ Fit(C) /\ Edits(T, C, {}, {}) /\ C.members = T.members /\ Indices(C) = Indices(T)
<1> DEFINE f == [i \in Indices(T) |->
                   IF IsCompletionOf(T.effects[i], t, T.members[t].stop)
                        /\ T.effects[i].state = "pending"
                   THEN SetState(T.effects[i], "canceled") ELSE T.effects[i]]
<1>1. Good(T) /\ \A i \in Indices(T) : T.effects[i] \in Effect
  BY GoodEffects DEF Fit
<1>2. CancelCompletion(T, t) = [T EXCEPT !.effects = f]
  BY DEF CancelCompletion, EachEffect
<1>3. ASSUME NEW i \in Indices(T)
      PROVE  SameWork(T.effects[i], f[i]) /\ IntentEdit(T, T.effects[i], f[i])
  <2> DEFINE e == T.effects[i]
  <2>1. e \in Effect
    BY <1>1
  <2>2. f[i] = e \/ (f[i] = SetState(e, "canceled") /\ e.kind = "completion")
    BY DEF IsCompletionOf
  <2> HIDE DEF e, f
  <2>3. CASE f[i] = e
    BY <2>1, <2>3, EditEffect DEF IntentEdit, IntentAges, CreationKept, NoteKept, e
  <2>4. CASE f[i] = SetState(e, "canceled") /\ e.kind = "completion"
    <3>1. /\ f[i].kind = e.kind /\ f[i].target = e.target /\ f[i].phase = e.phase
          /\ f[i].state = "canceled" /\ f[i].consumed = e.consumed /\ f[i].claimedBy = e.claimedBy
      BY <2>1, <2>4 DEF Effect, SetState
    <3>2. SameWork(e, f[i])
      BY <2>1, <2>4, EditEffect DEF IntentState
    <3> QED BY <2>4, <3>1, <3>2 DEF IntentEdit, IntentAges, CreationKept, NoteKept, HostOwned, Unsent, e, Candid
  <2> QED BY <2>2, <2>3, <2>4
<1>4. f \in [Indices(T) -> Effect]
  <2>1. \A i \in Indices(T) : f[i] \in Effect
    BY <1>3 DEF SameWork
  <2> QED BY <2>1
<1> HIDE DEF f
<1> QED
  BY <1>2, <1>3, <1>4, EffectsEdits

(* A wait that is complete, or whose wake the host may own, is left alone. *)
LEMMA CancelUnlessDispatchedEdits ==
    ASSUME NEW T, Fit(T), NEW t \in Thread
    PROVE  LET C == CancelUnlessDispatched(T, t) IN
           /\ Fit(C) /\ Edits(T, C, {}, {}) /\ KeepsStanding(T.members[t], C.members[t])
           /\ \A u \in Thread \ {t} : C.members[u] = T.members[u]
<1>1. CASE T.members[t].wait.state = "completed" \/ Dispatched(T.members[t].wait)
  BY <1>1, NoEdit DEF CancelUnlessDispatched, KeepsStanding, Fit
<1>2. CASE ~(T.members[t].wait.state = "completed" \/ Dispatched(T.members[t].wait))
  BY <1>2, CancelSubscriptionEdits DEF CancelUnlessDispatched
<1> QED
  BY <1>1, <1>2

(* Settling work is an edit: it cancels what the work was waiting for and  *)
(* adds its final result.  It completes no work but the thread's own.      *)
LEMMA FinishEdits ==
    ASSUME NEW T, Fit(T), NEW t \in Thread, NEW status \in Outcome,
           Reserved(T.members[t]), ~T.members[t].hostRunning,
           NEW Y, status = "completed" => t \in Y
    PROVE  LET U == Finish(T, t, status) IN
           /\ Fit(U) /\ Edits(T, U, {}, Y)
           /\ \A u \in Thread \ {t} : U.members[u] = T.members[u]
<1> DEFINE m == T.members[t]
           S == CancelCompletion(T, t)
           n == [S.members[t] EXCEPT !.status = status]
           P == Put(S, t, n)
           R == CancelUnlessDispatched(P, t)
           k == R.members[t]
           d == NewEffect("final", t, k.turn, k.generation, Parent[t], 0)
           final == [d EXCEPT !.outcome = status]
           U == Finish(T, t, status)
<1>1. Fit(S) /\ Edits(T, S, {}, Y) /\ S.members = T.members
  BY CancelCompletionEdits, EditsWeaken
<1>2. m \in Member /\ Good(T)
  BY FitParts
<1>3. /\ n \in Member /\ n.status = status /\ n.generation = m.generation
      /\ n.hostRunning = FALSE /\ SameWaits(m, n)
  <2>1. n = [m EXCEPT !.status = status]
    BY <1>1
  <2> HIDE DEF n
  <2> QED BY <1>2, <2>1 DEF Member, Outcome, Status, SameWaits, SameTargets
<1>4. MayBecome(m, n)
  <2> HIDE DEF n
  <2> QED BY <1>2, <1>3 DEF MayBecome, Executing, Outcome, Reserved, ReservedStatus, ActiveStatus, Member
<1>5. /\ Fit(P) /\ Edits(S, P, {}, Y) /\ P.members[t] = n
      /\ \A u \in Thread \ {t} : P.members[u] = T.members[u]
  <2> HIDE DEF n, S
  <2>1. S \in Tree
    BY <1>1 DEF Fit, Good
  <2>2. t \notin Y /\ n.status = "completed" => m.status = "completed"
    BY <1>3
  <2>3. Fit(P) /\ Edits(S, P, {}, Y)
    BY <1>1, <1>3, <1>4, <2>2, PutGood, PutSameWaits DEF Fit
  <2> QED BY <1>1, <2>1, <2>3, PutSelects
<1>6. /\ Fit(R) /\ Edits(P, R, {}, Y)
      /\ \A u \in Thread \ {t} : R.members[u] = T.members[u]
  <2> HIDE DEF P
  <2> QED BY <1>5, CancelUnlessDispatchedEdits, EditsWeaken
<1> HIDE DEF R, P, S, n
<1>7. Edits(T, R, {}, Y)
  BY <1>1, <1>2, <1>5, <1>6, EditsTrans DEF Fit
<1>8. U = IF t = Root THEN R ELSE AddEffect(R, final)
  BY DEF Finish, R, P, S, n
<1>9. final \in Effect /\ NewIntent(final) /\ NewNote(final)
  <2>1. k \in Member
    BY <1>6, FitParts
  <2>2. d \in Effect /\ d.kind = "final" /\ d.phase = "none" /\ d.state = "pending"
        /\ d.claimedBy = 0 /\ ~d.consumed
    <3> HIDE DEF k
    <3> QED BY <2>1, TaskTree DEF NewEffect, Effect, Member, EffectKind, Phase, IntentState
  <2> HIDE DEF d
  <2>3. final \in Effect /\ final.kind = "final" /\ final.phase = "none" /\ final.state = "pending"
        /\ final.claimedBy = 0 /\ ~final.consumed
    BY <2>2 DEF Effect
  <2> QED BY <2>3 DEF NewIntent, Phased, NewNote, HostOwned, Candid
<1>10. Good(U)
  BY <1>2, FinishGood
<1> HIDE DEF final, U
<1>11. CASE t = Root
  BY <1>6, <1>7, <1>8, <1>11 DEF U
<1>12. CASE t # Root
  <2>1. U = AddEffect(R, final) /\ R \in Tree
    BY <1>6, <1>8, <1>12 DEF Fit, Good
  <2>2. Fit(U) /\ Edits(R, U, {}, Y)
    BY <1>6, <1>9, <1>10, <2>1, AddEdits
  <2>3. U.members = R.members
    BY <1>9, <2>1, AddSelects
  <2>4. Edits(T, U, {}, Y)
    BY <1>2, <1>6, <1>7, <2>2, EditsTrans DEF Fit
  <2> QED
    BY <1>6, <2>2, <2>3, <2>4 DEF U
<1> QED
  BY <1>11, <1>12


(* A continuation is new, and replaces or queues behind the current wait.  *)
LEMMA HoldEdits ==
    ASSUME NEW T, Fit(T), NEW t \in Thread, NEW w \in Wait,
           NEW kind \in {"recovery", "provider"}, NEW turn \in Nat, Reserved(T.members[t]),
           w.id = T.members[t].calls + 1, w.state = "registered", w.compact = "none",
           ~w.standalone
    PROVE  Fit(Hold(T, t, w, kind, turn)) /\ Edits(T, Hold(T, t, w, kind, turn), {}, {})
<1> DEFINE m == T.members[t]
           C == IF Dispatched(m.wait) THEN T ELSE CancelSubscription(T, t)
           k == C.members[t]
           stop == [kind |-> kind, generation |-> m.generation, turn |-> turn, wait |-> w.id]
           w1 == IF Dispatched(m.wait) THEN k.wait ELSE w
           w2 == IF Dispatched(m.wait) THEN w ELSE k.recoveryWait
           n == [k EXCEPT !.wait = w1, !.recoveryWait = w2, !.stop = stop,
                          !.status = "waiting", !.calls = w.id]
<1>1. /\ Good(T) /\ m \in Member /\ WaitsInOrder(m)
      /\ m.wait.id \in Nat /\ m.recoveryWait.id \in Nat /\ m.calls \in Nat /\ w.id \in Nat
  BY FitParts, WaitTypes DEF Wait
<1>2. /\ Fit(C) /\ Edits(T, C, {}, {}) /\ KeepsStanding(m, k)
      /\ k.calls = m.calls /\ k.recoveryWait = m.recoveryWait /\ k.wait.id = m.wait.id
      /\ Dispatched(m.wait) => C = T
  <2>1. CASE Dispatched(m.wait)
    BY <1>1, <2>1, NoEdit DEF KeepsStanding
  <2>2. CASE ~Dispatched(m.wait)
    BY <2>2, CancelSubscriptionEdits
  <2> QED BY <2>1, <2>2
<1> HIDE DEF C
<1>3. k \in Member /\ WaitsInOrder(k)
  BY <1>2, FitParts
<1>4. /\ n \in Member /\ n.status = "waiting" /\ n.generation = k.generation
      /\ n.wait = w1 /\ n.recoveryWait = w2 /\ n.calls = w.id
  <2>1. w1 \in Wait /\ w2 \in Wait
    BY <1>3 DEF Member
  <2>2. stop \in LocalStop
    BY <1>1 DEF LocalStop, Member
  <2> HIDE DEF w1, w2, k, stop
  <2> QED BY <1>1, <1>3, <2>1, <2>2 DEF Member, Status, ReservedStatus, ActiveStatus
<1>5. MayBecome(k, n)
  <2>1. Reserved(k)
    BY <1>2 DEF KeepsStanding, Reserved
  <2> HIDE DEF n, k, w1, w2
  <2> QED BY <1>3, <1>4, <2>1 DEF MayBecome, Executing, Member
<1>6. MemberEdit(k, n) /\ WaitsInOrder(n)
  <2>1. CASE Dispatched(m.wait)
    <3>1. k = m /\ n.wait = m.wait /\ n.recoveryWait = w
      BY <1>2, <1>4, <2>1
    <3> HIDE DEF n, k, m
    <3> QED BY <1>1, <1>4, <2>1, <3>1
            DEF m, MemberEdit, MemberAges, WaitsInOrder, Unseen, Dispatched, HostOwned, Unsent, Rests, Awake
  <2>2. CASE ~Dispatched(m.wait)
    <3>1. n.wait = w /\ n.recoveryWait = m.recoveryWait /\ m.recoveryWait.state = "none"
      BY <1>1, <1>2, <1>4, <2>2 DEF WaitsInOrder
    <3> HIDE DEF n, k, m
    <3> QED BY <1>1, <1>2, <1>4, <2>2, <3>1
            DEF m, MemberEdit, MemberAges, WaitsInOrder, Unseen, Dispatched, HostOwned, Unsent, Rests, Awake
  <2> QED BY <2>1, <2>2
<1>7. Hold(T, t, w, kind, turn) = Put(C, t, n)
  BY DEF Hold, C
<1>8. Fit(Put(C, t, n)) /\ Edits(C, Put(C, t, n), {}, {})
  <2>1. n.status # "completed"
    BY <1>4
  <2> HIDE DEF n
  <2> QED BY <1>2, <1>5, <1>6, <2>1, PutGood, PutEdits DEF Fit
<1> HIDE DEF n
<1>9. Edits(T, Put(C, t, n), {}, {})
  BY <1>1, <1>2, <1>8, EditsTrans DEF Fit
<1> QED
  BY <1>7, <1>8, <1>9

(* In a published tree nothing is left to install: a continuation waits    *)
(* behind a wake.                                                          *)
LEMMA SettleRecoveryIdle ==
    ASSUME NEW T, Fit(T), NEW t \in Thread
    PROVE  SettleRecovery(T, t) = T
BY DEF Fit, WaitsInOrder, SettleRecovery

(* Whatever settles a wake that the host may own installs the continuation *)
(* behind it, whose ordinal no driver has seen.                            *)
LEMMA WakeSettledEdits ==
    ASSUME NEW T, Fit(T), NEW t \in Thread, Dispatched(T.members[t].wait),
           NEW k, MayBecome(T.members[t], k),
           k.wait.id = T.members[t].wait.id, k.wait.compact = T.members[t].wait.compact,
           k.recoveryWait = T.members[t].recoveryWait, k.calls = T.members[t].calls,
           k.wait.state \in {"completed", "failed", "canceled"},
           SameTargets(T.members[t], k),
           k.status = "completed" => T.members[t].status = "completed"
    PROVE  LET U == SettleRecovery(Put(T, t, k), t) IN Fit(U) /\ Edits(T, U, {}, {})
<1> DEFINE m == T.members[t]
           s == IF k.status = "uncertain" THEN "waiting" ELSE k.status
           n == [k EXCEPT !.wait = k.recoveryWait, !.recoveryWait = NoWait, !.status = s]
           P == Put(T, t, k)
           x == IF k.recoveryWait.state = "none" THEN k ELSE n
<1>1. /\ Good(T) /\ T \in Tree /\ m \in Member /\ WaitsInOrder(m) /\ k \in Member /\ Executing(k)
      /\ m.wait.id \in Nat /\ m.recoveryWait.id \in Nat /\ m.calls \in Nat
  BY FitParts, WaitTypes DEF MayBecome, Good
<1>2. P \in Tree /\ P.members[t] = k /\ Good(P)
  BY <1>1, PutGood DEF Good
<1>3. SettleRecovery(P, t) = IF k.recoveryWait.state = "none" THEN P ELSE Put(P, t, n)
  BY <1>2 DEF SettleRecovery, Dispatched, HostOwned
<1>4. SettleRecovery(P, t) = Put(T, t, x)
  <2>1. Put(P, t, n) = Put(T, t, n)
    BY <1>1 DEF Put, Tree
  <2> QED BY <1>3, <2>1
<1>5. /\ s \in Status /\ (s \in ReservedStatus => k.status \in ReservedStatus)
      /\ (s = "absent" => k.status = "absent") /\ (s = "completed" => k.status = "completed")
      /\ (k.status \in {"working", "waiting", "uncertain"} => s \in {"working", "waiting", "uncertain"})
  BY <1>1 DEF Member, Status, ReservedStatus, ActiveStatus
<1>6. /\ n \in Member /\ n.status = s /\ n.generation = k.generation
      /\ n.hostRunning = k.hostRunning /\ n.wait = k.recoveryWait /\ n.recoveryWait = NoWait
      /\ n.calls = k.calls
  <2> HIDE DEF s
  <2> QED BY <1>1, <1>5, NoWaitType DEF Member
<1>7. MayBecome(m, n)
  <2> HIDE DEF n, s
  <2> QED BY <1>1, <1>5, <1>6 DEF MayBecome, Executing, Reserved, Member
<1>8. MemberEdit(m, k) /\ (k.recoveryWait.state = "none" => WaitsInOrder(k))
  BY <1>1 DEF SameTargets, Dispatched, MemberEdit, MemberAges, WaitsInOrder, Unseen, Unsent, HostOwned, Rests, Awake
<1>9. k.recoveryWait.state # "none" => MemberEdit(m, n) /\ WaitsInOrder(n)
  <2>1. NoWait.state = "none" /\ NoWait.compact = "none" /\ NoWait.id = 0 /\ ~NoWait.standalone
    BY DEF NoWait
  <2> HIDE DEF n, m
  <2> QED BY <1>1, <1>6, <2>1
          DEF m, SameTargets, MemberEdit, MemberAges, WaitsInOrder, Unseen, Unsent, HostOwned, Dispatched, Rests, Awake
<1>10. MayBecome(m, x) /\ MemberEdit(m, x) /\ WaitsInOrder(x)
       /\ (x.status = "completed" => m.status = "completed")
  <2> HIDE DEF n
  <2> QED BY <1>5, <1>6, <1>7, <1>8, <1>9
<1> HIDE DEF x
<1>11. Fit(Put(T, t, x)) /\ Edits(T, Put(T, t, x), {}, {})
  BY <1>1, <1>10, PutGood, PutEdits
<1> QED
  BY <1>4, <1>11


-----------------------------------------------------------------------------
(* What the host reports (transitionHost).                                 *)

(* An edit, followed by one that leaves a member's waits alone.            *)
LEMMA PutAfter ==
    ASSUME NEW T, Fit(T), NEW C, Fit(C), Edits(T, C, {}, {}), NEW t \in Thread, NEW n,
           Good(Put(C, t, n)), SameWaits(C.members[t], n), NEW Y,
           t \notin Y /\ n.status = "completed" => C.members[t].status = "completed"
    PROVE  Fit(Put(C, t, n)) /\ Edits(T, Put(C, t, n), {}, Y)
<1>1. Fit(Put(C, t, n)) /\ Edits(C, Put(C, t, n), {}, Y) /\ Edits(T, C, {}, Y)
  BY PutSameWaits, EditsWeaken
<1> QED
  BY <1>1, EditsTrans DEF Fit

(* A started turn is an edit; at the root it supersedes waiting.           *)
LEMMA StartedEdits ==
    ASSUME NEW T, Fit(T), NEW t \in Thread, NEW turn \in Nat
    PROVE  Fit(Started(T, t, turn)) /\ Edits(T, Started(T, t, turn), {}, {})
<1> DEFINE m == T.members[t]
           C == IF t = Root /\ m.wait.state \in {"registered", "queued"}
                THEN CancelSubscription(T, t) ELSE T
           k == C.members[t]
           generation == IF Reserved(m) THEN m.generation ELSE m.generation + 1
           n == Start([k EXCEPT !.generation = generation, !.stop = NoStop], turn)
           admitted == m.audience /\ ~m.hostRunning /\
                       (t = Root \/ (Reserved(m) /\ m.status # "paused"))
<1>1. Fit(C) /\ Edits(T, C, {}, {})
  <2>1. m.wait.state \in {"registered", "queued"} => ~Dispatched(m.wait)
    BY DEF Dispatched, HostOwned
  <2> QED BY <2>1, NoEdit, CancelSubscriptionEdits DEF Fit
<1> HIDE DEF C
<1>2. k \in Member
  BY <1>1, FitParts
<1>3. SameWaits(k, n) /\ n.status = "working"
  <2> HIDE DEF k
  <2> QED BY <1>2 DEF Start, Member, SameWaits, SameTargets
<1>4. Started(T, t, turn) = IF ~admitted THEN T ELSE Put(C, t, n)
  BY DEF Started, C
<1>5. Good(Started(T, t, turn))
  BY StartedGood DEF Fit
<1> HIDE DEF n, admitted
<1> QED
  BY <1>1, <1>3, <1>4, <1>5, PutAfter, NoEdit DEF Fit

(* A turn that ended at its stop leaves the wait and makes the checkpoint  *)
(* available.                                                              *)
LEMMA CheckpointTurnEdits ==
    ASSUME NEW T, Fit(T), NEW t \in Thread, Reserved(T.members[t])
    PROVE  Fit(CheckpointTurn(T, t)) /\ Edits(T, CheckpointTurn(T, t), {}, {})
<1> DEFINE m == T.members[t]
           waits == m.wait.state = "registered"
           s == IF waits \/ m.recoveryWait.state = "registered" THEN "waiting" ELSE "working"
           c == IF waits /\ m.wait.compact = "registered" THEN "pending" ELSE m.wait.compact
           w == [m.wait EXCEPT !.compact = c]
           n == [m EXCEPT !.status = s, !.wait = w]
<1>1. m \in Member /\ WaitsInOrder(m)
  BY FitParts
<1>2. CheckpointTurn(T, t) = Put(T, t, n) /\ Good(Put(T, t, n))
  BY <1>1, CheckpointTurnGood DEF CheckpointTurn, Member, Fit
<1>3. /\ n.wait.id = m.wait.id /\ n.wait.state = m.wait.state /\ n.wait.compact = c
      /\ n.recoveryWait = m.recoveryWait /\ n.calls = m.calls /\ n.status # "completed"
      /\ SameTargets(m, n)
  <2>1. s # "completed"
    OBVIOUS
  <2> HIDE DEF c, s
  <2> QED BY <1>1, <2>1 DEF Member, Wait, SameTargets
<1>4. MemberEdit(m, n) /\ WaitsInOrder(n)
  <2>1. c = m.wait.compact \/ (c = "pending" /\ m.wait.compact = "registered")
    OBVIOUS
  <2> HIDE DEF n, c
  <2> QED BY <1>1, <1>3, <2>1 DEF SameTargets, MemberEdit, MemberAges, WaitsInOrder, Unseen, Dispatched, HostOwned, Unsent, Rests, Awake
<1> HIDE DEF n
<1> QED
  BY <1>2, <1>3, <1>4, PutEdits

(* Deferring a completion adds its guard.                                  *)
LEMMA DeferCompletionEdits ==
    ASSUME NEW T, Fit(T), NEW t \in Thread, NEW turn \in Nat, Reserved(T.members[t])
    PROVE  Fit(DeferCompletion(T, t, turn)) /\ Edits(T, DeferCompletion(T, t, turn), {}, {})
<1> DEFINE m == T.members[t]
           guard == NewEffect("completion", t, turn, 0, t, m.generation)
           stop == [kind |-> "completion", generation |-> m.generation, turn |-> turn, wait |-> 0]
           n == [m EXCEPT !.stop = stop, !.status = "working"]
           P == Put(T, t, n)
<1>1. m \in Member /\ Good(T)
  BY FitParts
<1>2. stop \in LocalStop
  BY <1>1 DEF LocalStop, Member
<1>3. n \in Member /\ n.status = "working" /\ n.generation = m.generation /\ SameWaits(m, n)
  <2> HIDE DEF stop
  <2> QED BY <1>1, <1>2 DEF Member, Status, ReservedStatus, ActiveStatus, SameWaits, SameTargets
<1>4. MayBecome(m, n)
  <2> HIDE DEF n
  <2> QED BY <1>1, <1>3 DEF MayBecome, Executing, Member
<1>5. guard \in Effect /\ NewIntent(guard) /\ NewNote(guard)
  BY <1>1 DEF NewEffect, Effect, EffectKind, Phase, IntentState, Member, NewIntent, Phased, NewNote, HostOwned, Candid
<1>6. DeferCompletion(T, t, turn) = AddEffect(P, guard)
  BY DEF DeferCompletion
<1>7. Fit(P) /\ Edits(T, P, {}, {})
  <2>1. n.status # "completed"
    BY <1>3
  <2> HIDE DEF n
  <2> QED BY <1>1, <1>3, <1>4, <2>1, PutGood, PutSameWaits
<1>8. Good(DeferCompletion(T, t, turn))
  BY <1>1, DeferCompletionGood
<1> HIDE DEF P, guard
<1>9. Fit(AddEffect(P, guard)) /\ Edits(P, AddEffect(P, guard), {}, {})
  BY <1>5, <1>6, <1>7, <1>8, AddEdits
<1> QED
  BY <1>6, <1>7, <1>9, EditsTrans DEF Fit


(* Work completes only while nothing below it is active.                   *)
Completes(T, U) ==
    \A t \in Thread :
        U.members[t].status = "completed" /\ T.members[t].status # "completed"
          => ActiveBelow(U, t) = {}

(* An edit that exempts no thread completes nothing.                       *)
LEMMA EditsComplete ==
    ASSUME NEW T, NEW U, NEW X, Ages(T, U, X, {})
    PROVE  Completes(T, U)
BY DEF Ages, Completes

(* Settling work that has nothing active below it may complete it.         *)
LEMMA FinishCompletes ==
    ASSUME NEW T, NEW S, Fit(S), NEW t \in Thread, NEW status \in Outcome,
           Reserved(S.members[t]), ~S.members[t].hostRunning,
           \A u \in Thread \ {t} : S.members[u] = T.members[u],
           status = "completed" => ActiveBelow(S, t) = {}
    PROVE  Completes(T, Finish(S, t, status))
<1> DEFINE U == Finish(S, t, status)
<1>1. /\ \A u \in Thread \ {t} : U.members[u] = S.members[u]
      /\ Edits(S, U, {}, IF status = "completed" THEN {t} ELSE {})
  BY FinishEdits
<1>2. status # "completed" => (U.members[t].status = "completed" => S.members[t].status = "completed")
  BY <1>1 DEF Edits, Ages
<1>3. S.members[t].status # "completed"
  BY DEF Reserved, ReservedStatus, ActiveStatus
<1>4. ActiveBelow(U, t) = ActiveBelow(S, t)
  <2>1. \A c \in Below[t] : U.members[c] = S.members[c]
    BY <1>1, TaskTree
  <2> QED BY <2>1 DEF ActiveBelow
<1> QED
  BY <1>1, <1>2, <1>3, <1>4 DEF Completes

(* A recoverable failure holds its thread's work.                          *)
LEMMA HoldForRecoveryEdits ==
    ASSUME NEW T, Fit(T), NEW t \in Thread, NEW turn \in Nat, Reserved(T.members[t])
    PROVE  Fit(HoldForRecovery(T, t, turn)) /\ Edits(T, HoldForRecovery(T, t, turn), {}, {})
<1> DEFINE m == T.members[t]
           captured == [c \in Thread |-> IF c \in ActiveBelow(T, t)
                                         THEN T.members[c].generation ELSE 0]
           targets == {c \in Below[t] : T.members[c].status # "absent"}
           w == [NoWait EXCEPT !.id = m.calls + 1, !.state = "registered", !.stop = "committed",
                   !.generation = m.generation, !.turn = turn, !.recovery = captured,
                   !.targets = targets]
           S == CancelCompletion(T, t)
<1>1. m \in Member /\ Good(T) /\ \A c \in Thread : T.members[c] \in Member
  BY FitParts
<1>2. captured \in [Thread -> Nat] /\ targets \in SUBSET Thread
  BY <1>1, TaskTree DEF Member
<1>3. m.calls + 1 \in Nat /\ m.generation \in Nat
  BY <1>1 DEF Member
<1>4. w \in Wait /\ w.id = m.calls + 1 /\ w.state = "registered" /\ w.compact = "none"
      /\ ~w.standalone
  <2> HIDE DEF captured, targets, m
  <2>1. w \in Wait
    BY <1>2, <1>3, NoWaitType, RecoveryWaitType
  <2> QED BY <2>1 DEF NoWait
<1>5. Fit(S) /\ Edits(T, S, {}, {}) /\ S.members = T.members
  BY CancelCompletionEdits
<1>6. HoldForRecovery(T, t, turn) = Hold(S, t, w, "recovery", turn)
  BY DEF HoldForRecovery
<1> HIDE DEF w, S
<1>7. Fit(Hold(S, t, w, "recovery", turn)) /\ Edits(S, Hold(S, t, w, "recovery", turn), {}, {})
  BY <1>4, <1>5, HoldEdits
<1> QED
  BY <1>5, <1>6, <1>7, EditsTrans DEF Fit

(* The end of a turn: its observed interrupts are confirmed, and its work  *)
(* checkpoints, defers, recovers or settles; it completes only with        *)
(* nothing active below it.                                                *)
LEMMA TerminalEdits ==
    ASSUME NEW T, Fit(T), NEW t \in Thread, NEW turn \in Nat,
           NEW outcome \in Outcome \cup {"recoverable"}
    PROVE  LET U == Terminal(T, t, turn, outcome) IN
           Fit(U) /\ Edits(T, U, {}, {t}) /\ Completes(T, U)
<1> DEFINE m == T.members[t]
           n == [m EXCEPT !.hostRunning = FALSE]
           P == Put(T, t, n)
           seen(e) == /\ e.kind = "interrupt" /\ Addressed(e, t)
                      /\ e.turn = turn /\ e.state \in HostOwned
           f == [i \in Indices(P) |-> IF seen(P.effects[i]) THEN SetState(P.effects[i], "confirmed")
                                       ELSE P.effects[i]]
           S == [P EXCEPT !.effects = f]
           U == Terminal(T, t, turn, outcome)
<1>1. m \in Member /\ Executing(m) /\ Good(T) /\ T \in Tree
  BY FitParts DEF Good
<1>2. /\ n \in Member /\ n.status = m.status /\ n.generation = m.generation /\ n.hostRunning = FALSE
      /\ SameWaits(m, n)
  BY <1>1 DEF Member, SameWaits, SameTargets
<1>3. MayBecome(m, n)
  <2> HIDE DEF n
  <2> QED BY <1>1, <1>2 DEF MayBecome, Executing, Reserved, Member
<1>4. /\ Fit(P) /\ Edits(T, P, {}, {}) /\ P.members[t] = n
      /\ \A u \in Thread \ {t} : P.members[u] = T.members[u]
  <2> HIDE DEF n
  <2> QED BY <1>1, <1>2, <1>3, PutGood, PutSameWaits, PutSelects
<1> HIDE DEF P
<1>5. ASSUME NEW i \in Indices(P)
      PROVE  SameWork(P.effects[i], f[i]) /\ IntentEdit(P, P.effects[i], f[i])
  <2> DEFINE e == P.effects[i]
  <2>1. e \in Effect
    BY <1>4, GoodEffects DEF Fit
  <2>2. f[i] = e \/ (f[i] = SetState(e, "confirmed") /\ e.kind = "interrupt")
    OBVIOUS
  <2> HIDE DEF e, f
  <2>3. CASE f[i] = e
    BY <2>1, <2>3, EditEffect DEF IntentEdit, IntentAges, CreationKept, NoteKept, e
  <2>4. CASE f[i] = SetState(e, "confirmed") /\ e.kind = "interrupt"
    <3>1. /\ f[i].kind = e.kind /\ f[i].target = e.target /\ f[i].phase = e.phase
          /\ f[i].state = "confirmed" /\ f[i].consumed = e.consumed /\ f[i].claimedBy = e.claimedBy
      BY <2>1, <2>4 DEF Effect, SetState
    <3>2. SameWork(e, f[i])
      BY <2>1, <2>4, EditEffect DEF IntentState
    <3> QED BY <2>4, <3>1, <3>2 DEF IntentEdit, IntentAges, CreationKept, NoteKept, HostOwned, Unsent, e, Candid
  <2> QED BY <2>2, <2>3, <2>4
<1>6. f \in [Indices(P) -> Effect]
  <2>1. \A i \in Indices(P) : f[i] \in Effect
    BY <1>5 DEF SameWork
  <2> QED BY <2>1
<1>7. Fit(S) /\ Edits(P, S, {}, {}) /\ S.members = P.members
  <2> HIDE DEF f
  <2> QED BY <1>4, <1>5, <1>6, EffectsEdits
<1>8. CASE m.turn # turn \/ ~m.hostRunning
  <2>1. U = T
    BY <1>8 DEF Terminal
  <2> QED BY <1>1, <2>1, NoEdit DEF Completes
<1>9. CASE ~(m.turn # turn \/ ~m.hostRunning)
  <2>1. Reserved(S.members[t]) /\ ~S.members[t].hostRunning
    BY <1>1, <1>2, <1>4, <1>7, <1>9 DEF Executing, Reserved, ReservedStatus, ActiveStatus
  <2>2. WorkOutcome(outcome) \in Outcome
    BY DEF WorkOutcome, Outcome
  <2>3. \/ U = HoldForRecovery(S, t, turn)
        \/ U = CheckpointTurn(S, t)
        \/ U = DeferCompletion(S, t, turn)
        \/ /\ U = Finish(S, t, WorkOutcome(outcome))
           /\ WorkOutcome(outcome) = "completed" =>
                ActiveBelow(T, t) = {}
    BY <1>9 DEF Terminal, EachEffect, P, WorkOutcome
  <2>4. ActiveBelow(S, t) = ActiveBelow(T, t)
    <3>1. \A c \in Below[t] : S.members[c] = T.members[c]
      BY <1>4, <1>7, TaskTree
    <3> QED BY <3>1 DEF ActiveBelow
  <2> HIDE DEF S, U
  <2>5. Edits(T, S, {}, {})
    BY <1>1, <1>4, <1>7, EditsTrans DEF Fit
  <2>6. CASE U = HoldForRecovery(S, t, turn) \/ U = CheckpointTurn(S, t) \/ U = DeferCompletion(S, t, turn)
    <3>1. Fit(U) /\ Edits(S, U, {}, {})
      BY <1>7, <2>1, <2>6, HoldForRecoveryEdits, CheckpointTurnEdits, DeferCompletionEdits
    <3>2. Edits(T, U, {}, {})
      BY <1>1, <1>7, <2>5, <3>1, EditsTrans DEF Fit
    <3> QED BY <3>1, <3>2, EditsWeaken, EditsComplete DEF Edits, U
  <2>7. CASE /\ U = Finish(S, t, WorkOutcome(outcome))
             /\ WorkOutcome(outcome) = "completed" => ActiveBelow(T, t) = {}
    <3>1. Fit(U) /\ Edits(S, U, {}, {t})
      BY <1>7, <2>1, <2>2, <2>7, FinishEdits
    <3>2. Edits(T, U, {}, {t})
      BY <1>1, <1>7, <2>5, <3>1, EditsTrans, EditsWeaken DEF Fit
    <3>3. Completes(T, U)
      BY <1>4, <1>7, <2>1, <2>2, <2>4, <2>7, FinishCompletes
    <3> QED BY <3>1, <3>2, <3>3 DEF U
  <2> QED
    BY <2>3, <2>6, <2>7
<1> QED
  BY <1>8, <1>9


(* A manual checkpoint stops the execution at its stop.                    *)
LEMMA CheckpointEdits ==
    ASSUME NEW T, Fit(T), NEW t \in Thread, NEW turn \in Nat
    PROVE  Fit(Checkpoint(T, t, turn)) /\ Edits(T, Checkpoint(T, t, turn), {}, {})
<1> DEFINE m == T.members[t]
           n == [m EXCEPT !.hostRunning = FALSE]
<1>1. m \in Member /\ Good(T) /\ Good(Checkpoint(T, t, turn))
  BY FitParts, CheckpointGood
<1>2. SameWaits(m, n) /\ n.status = m.status
  BY <1>1 DEF Member, SameWaits, SameTargets
<1>3. Checkpoint(T, t, turn) = T \/ Checkpoint(T, t, turn) = Put(T, t, n)
  BY DEF Checkpoint
<1> HIDE DEF n
<1> QED
  BY <1>1, <1>2, <1>3, NoEdit, PutSameWaits

-----------------------------------------------------------------------------
(* Stops, supersession and the provider.                                   *)

(* The evidence of an execution arms a wait's stop or retires the wait.    *)
LEMMA ExecutionEdits ==
    ASSUME NEW T, Fit(T), NEW t \in Thread, NEW turn \in Nat, NEW succeeded \in BOOLEAN
    PROVE  LET U == Execution(T, t, turn, succeeded) IN Fit(U) /\ Edits(T, U, {}, {})
<1> DEFINE m == T.members[t]
           C == CancelSubscription(T, t)
           k == C.members[t]
           n == [m EXCEPT !.wait.stop = "eligible"]
           r == [k EXCEPT !.stop = NoStop, !.status = IF k.status = "waiting" THEN "working" ELSE k.status]
           U == Execution(T, t, turn, succeeded)
<1>1. m \in Member /\ Good(T) /\ Good(U)
  BY FitParts, ExecutionGood
<1>2. CASE U = T
  BY <1>1, <1>2, NoEdit
<1>3. CASE U = Put(T, t, n)
  <2>1. SameWaits(m, n) /\ n.status = m.status
    BY <1>1 DEF Member, Wait, SameWaits, SameTargets
  <2> HIDE DEF n, U
  <2> QED BY <1>1, <1>3, <2>1, PutSameWaits DEF U
<1>4. CASE U = Put(C, t, r) /\ m.wait.state = "registered"
  <2>1. Fit(C) /\ Edits(T, C, {}, {})
    BY <1>4, CancelSubscriptionEdits DEF Dispatched, HostOwned
  <2> HIDE DEF C
  <2>2. k \in Member
    BY <2>1, FitParts
  <2>3. SameWaits(k, r) /\ (r.status = "completed" => k.status = "completed")
    <3> HIDE DEF k
    <3> QED BY <2>2 DEF Member, SameWaits, SameTargets
  <2> HIDE DEF r, U
  <2> QED BY <1>1, <1>4, <2>1, <2>3, PutAfter DEF U
<1>5. U = T \/ U = Put(T, t, n) \/ (U = Put(C, t, r) /\ m.wait.state = "registered")
  BY DEF Execution
<1> QED
  BY <1>2, <1>3, <1>4, <1>5

(* A claimed stop is the wait's own.                                       *)
LEMMA ClaimStopEdits ==
    ASSUME NEW T, Fit(T), NEW t \in Thread, NEW turn \in Nat
    PROVE  Fit(ClaimStop(T, t, turn)) /\ Edits(T, ClaimStop(T, t, turn), {}, {})
<1> DEFINE m == T.members[t]
           stop == [kind |-> "wait", generation |-> m.generation, turn |-> turn, wait |-> m.wait.id]
           n == [m EXCEPT !.wait.stop = "committed", !.status = "waiting", !.stop = stop]
<1>1. m \in Member /\ Good(T) /\ Good(ClaimStop(T, t, turn))
  BY FitParts, ClaimStopGood
<1>2. SameWaits(m, n) /\ n.status = "waiting"
  <2> HIDE DEF stop
  <2> QED BY <1>1 DEF Member, Wait, SameWaits, SameTargets
<1>3. ClaimStop(T, t, turn) = T \/ ClaimStop(T, t, turn) = Put(T, t, n)
  BY DEF ClaimStop
<1> HIDE DEF n
<1> QED
  BY <1>1, <1>2, <1>3, NoEdit, PutSameWaits

(* The human supersedes what waits, unless the host may own the wake.      *)
LEMMA SupersedeEdits ==
    ASSUME NEW T, Fit(T), NEW t \in Thread
    PROVE  Fit(Supersede(T, t)) /\ Edits(T, Supersede(T, t), {}, {})
<1> DEFINE C == CancelCompletion(T, t)
           D == IF C.members[t].wait.state \in {"canceled", "completed"}
                THEN C ELSE CancelSubscription(C, t)
           k == D.members[t]
           r == [k EXCEPT !.stop = NoStop, !.status = IF k.status = "waiting" THEN "working" ELSE k.status]
           U == Supersede(T, t)
<1>1. Good(T) /\ Good(U)
  BY SupersedeGood DEF Fit
<1>2. CASE Dispatched(T.members[t].wait)
  BY <1>1, <1>2, NoEdit DEF Supersede
<1>3. CASE ~Dispatched(T.members[t].wait)
  <2>1. Fit(C) /\ Edits(T, C, {}, {}) /\ C.members = T.members
    BY CancelCompletionEdits
  <2>2. U = Put(D, t, r)
    BY <1>3 DEF Supersede
  <2> HIDE DEF C
  <2>3. Fit(D) /\ Edits(C, D, {}, {})
    BY <1>3, <2>1, CancelSubscriptionEdits, NoEdit DEF Fit
  <2> HIDE DEF D
  <2>4. Edits(T, D, {}, {}) /\ k \in Member
    BY <1>1, <2>1, <2>3, EditsTrans, FitParts DEF Fit
  <2>5. SameWaits(k, r) /\ (r.status = "completed" => k.status = "completed")
    <3> HIDE DEF k
    <3> QED BY <2>4 DEF Member, SameWaits, SameTargets
  <2> HIDE DEF r, U
  <2> QED BY <1>1, <2>2, <2>3, <2>4, <2>5, PutAfter DEF U
<1> QED
  BY <1>2, <1>3

(* The human interrupts a wait or a stop; work that executes nothing       *)
(* settles as interrupted.                                                 *)
LEMMA InterruptWaitEdits ==
    ASSUME NEW T, Fit(T), NEW t \in Thread
    PROVE  Fit(InterruptWait(T, t)) /\ Edits(T, InterruptWait(T, t), {}, {})
<1> DEFINE m == T.members[t]
           B == CancelSubscription(T, t)
           C == CancelCompletion(B, t)
           k == C.members[t]
           n == [k EXCEPT !.stop = NoStop]
           S == Put(C, t, n)
           U == InterruptWait(T, t)
<1>1. Good(T) /\ Good(U)
  BY InterruptWaitGood DEF Fit
<1>2. CASE Dispatched(m.wait)
  BY <1>1, <1>2, NoEdit DEF InterruptWait
<1>3. CASE ~Dispatched(m.wait)
  <2>1. Fit(B) /\ Edits(T, B, {}, {}) /\ KeepsStanding(m, B.members[t])
    BY <1>3, CancelSubscriptionEdits
  <2> HIDE DEF B
  <2>2. Fit(C) /\ Edits(B, C, {}, {}) /\ C.members = B.members
    BY <2>1, CancelCompletionEdits
  <2> HIDE DEF C
  <2>3. Edits(T, C, {}, {}) /\ k \in Member /\ Executing(k) /\ KeepsStanding(m, k)
    BY <1>1, <2>1, <2>2, EditsTrans, FitParts DEF Fit
  <2>4. n \in Member /\ SameWaits(k, n) /\ KeepsStanding(k, n)
    <3> HIDE DEF k
    <3> QED BY <2>3, NoStopType DEF Member, SameWaits, SameTargets, KeepsStanding
  <2>5. /\ Fit(S) /\ Edits(T, S, {}, {}) /\ S.members[t] = n
    <3>1. Good(S)
      BY <2>2, <2>3, <2>4, StandingMayBecome, PutGood DEF Fit
    <3> HIDE DEF n
    <3> QED BY <2>2, <2>3, <2>4, <3>1, PutAfter, PutSelects DEF Fit, Good, KeepsStanding
  <2>6. U = T \/ U = S \/ (U = Finish(S, t, "interrupted") /\ Reserved(m) /\ ~m.hostRunning)
    BY DEF InterruptWait, C, B
  <2>7. Reserved(m) /\ ~m.hostRunning => Reserved(S.members[t]) /\ ~S.members[t].hostRunning
    BY <2>3, <2>4, <2>5 DEF KeepsStanding, Reserved
  <2> HIDE DEF S, U
  <2>8. CASE U = Finish(S, t, "interrupted") /\ Reserved(m) /\ ~m.hostRunning
    <3>1. Fit(U) /\ Edits(S, U, {}, {})
      BY <2>5, <2>7, <2>8, FinishEdits DEF Outcome
    <3> QED BY <1>1, <2>5, <3>1, EditsTrans DEF Fit, U
  <2> QED
    BY <1>1, <2>5, <2>6, <2>8, NoEdit DEF U
<1> QED
  BY <1>2, <1>3

(* Rejected inference waits for the provider.                              *)
LEMMA WaitForProviderEdits ==
    ASSUME NEW T, Fit(T), NEW t \in Thread, NEW turn \in Nat,
           NEW timer \in {"none", "armed", "due"}
    PROVE  LET U == WaitForProvider(T, t, turn, timer) IN Fit(U) /\ Edits(T, U, {}, {})
<1> DEFINE m == T.members[t]
           w == [NoWait EXCEPT !.id = m.calls + 1, !.state = "registered", !.stop = "committed",
                   !.generation = m.generation, !.turn = turn, !.provider = TRUE, !.timer = timer]
           U == WaitForProvider(T, t, turn, timer)
<1>1. m.calls + 1 \in Nat /\ m.generation \in Nat /\ Executing(m) /\ Good(T)
  BY FitParts DEF Member
<1>2. w \in Wait /\ w.id = m.calls + 1 /\ w.state = "registered" /\ w.compact = "none"
      /\ ~w.standalone
  <2> HIDE DEF m
  <2>1. w \in Wait
    BY <1>1, NoWaitType, ProviderWaitType
  <2> QED BY <2>1 DEF NoWait
<1>3. m.hostRunning => Reserved(m)
  BY <1>1 DEF Executing, Reserved, ReservedStatus, ActiveStatus
<1>4. U = T \/ (m.hostRunning /\ U = Hold(T, t, w, "provider", turn))
  BY DEF WaitForProvider
<1> HIDE DEF w
<1> QED
  BY <1>1, <1>2, <1>3, <1>4, HoldEdits, NoEdit

(* A checkpoint the host rejects fails before it goes out.                 *)
LEMMA RejectCompactionEdits ==
    ASSUME NEW T, Fit(T), NEW t \in Thread, NEW turn \in Nat
    PROVE  LET U == RejectCompaction(T, t, turn) IN Fit(U) /\ Edits(T, U, {}, {})
<1> DEFINE m == T.members[t]
           n == [m EXCEPT !.wait.compact = "failed"]
<1>1. m \in Member /\ WaitsInOrder(m) /\ Good(T) /\ Good(RejectCompaction(T, t, turn))
  BY FitParts, RejectCompactionGood
<1>2. /\ n.wait.id = m.wait.id /\ n.wait.state = m.wait.state /\ n.wait.compact = "failed"
      /\ n.recoveryWait = m.recoveryWait /\ n.calls = m.calls /\ n.status = m.status
      /\ SameTargets(m, n)
  BY <1>1 DEF Member, Wait, SameTargets
<1>3. MemberEdit(m, n) /\ WaitsInOrder(n)
  <2> HIDE DEF n
  <2> QED BY <1>1, <1>2 DEF SameTargets, MemberEdit, MemberAges, WaitsInOrder, Unseen, Dispatched, HostOwned, Unsent, Rests, Awake
<1>4. RejectCompaction(T, t, turn) = T \/ RejectCompaction(T, t, turn) = Put(T, t, n)
  BY DEF RejectCompaction
<1> HIDE DEF n
<1> QED
  BY <1>1, <1>2, <1>3, <1>4, NoEdit, PutEdits

(* A deadline passes.                                                      *)
LEMMA DeadlineEdits ==
    ASSUME NEW T, Fit(T), NEW t \in Thread
    PROVE  LET U == Put(T, t, [T.members[t] EXCEPT !.wait.timer = "due"]) IN
           Fit(U) /\ Edits(T, U, {}, {})
<1> DEFINE m == T.members[t]
           n == [m EXCEPT !.wait.timer = "due"]
<1>1. m \in Member /\ Good(T)
  BY FitParts
<1>2. n \in Member /\ KeepsStanding(m, n) /\ SameWaits(m, n)
  BY <1>1 DEF Member, Wait, KeepsStanding, SameWaits, SameTargets
<1>3. Good(Put(T, t, n))
  <2> HIDE DEF n
  <2> QED BY <1>1, <1>2, PutStandingGood
<1> HIDE DEF n
<1>4. Fit(Put(T, t, n)) /\ Edits(T, Put(T, t, n), {}, {})
  BY <1>1, <1>2, <1>3, PutSameWaits DEF KeepsStanding
<1> QED
  BY <1>4 DEF n


-----------------------------------------------------------------------------
(* Notifications: claimed by a wait that returns or is woken, consumed by  *)
(* the input record.                                                       *)

(* Only free notifications are claimed, and only unclaimed ones consumed.  *)
Marks(T, U) ==
    /\ Indices(U) = Indices(T)
    /\ \A i \in Indices(T) :
         LET e == T.effects[i]
             f == U.effects[i]
         IN  /\ f.target = e.target
             /\ f.claimedBy # e.claimedBy => e.claimedBy = 0 /\ ~e.consumed /\ ~f.consumed
             /\ f.consumed # e.consumed => e.claimedBy = 0 /\ f.claimedBy = 0

(* Effects and members age, and none is new.                               *)
LEMMA KeepAges ==
    ASSUME NEW T, Fit(T), NEW U, Good(U), Indices(U) = Indices(T),
           \A i \in Indices(T) : IntentAges(T.effects[i], U.effects[i])
                                 /\ CreationKept(T.effects[i], U.effects[i]),
           \A t \in Thread : MemberAges(T.members[t], U.members[t]) /\ WaitsInOrder(U.members[t]),
           \A t \in Thread : U.members[t].status = "completed" => T.members[t].status = "completed"
    PROVE  Fit(U) /\ Ages(T, U, {}, {})
<1>1. /\ Len(T.effects) \in Nat /\ Len(U.effects) \in Nat
      /\ Indices(T) = 1 .. Len(T.effects) /\ Indices(U) = 1 .. Len(U.effects)
  BY GoodEffects DEF Fit
<1>2. Len(T.effects) <= Len(U.effects)
  <2>1. CASE Len(T.effects) = 0
    BY <1>1, <2>1
  <2>2. CASE Len(T.effects) # 0
    <3>1. Len(T.effects) \in 1 .. Len(U.effects)
      BY <1>1, <2>2
    <3> QED BY <1>1, <3>1
  <2> QED BY <2>1, <2>2
<1> QED
  BY <1>2 DEF Fit, Ages

(* What an outcome selects is free.                                        *)
LEMMA SelectedFree ==
    ASSUME NEW T, NEW t, NEW w
    PROVE  Selected(T, t, w).claims \subseteq EligibleIn(T, t, w)
<1> DEFINE eligible == EligibleIn(T, t, w)
           messages == {i \in eligible : T.effects[i].kind = "message"}
           c == Selected(T, t, w).claims
<1>1. CASE w.all /\ messages # {}
  <2>1. c = First(messages)
    BY <1>1 DEF Selected
  <2> QED BY <2>1 DEF First
<1>2. CASE w.all /\ messages = {}
  BY <1>2 DEF Selected
<1>3. CASE ~w.all /\ eligible # {}
  <2>1. c = First(eligible)
    BY <1>3 DEF Selected
  <2> QED BY <2>1 DEF First
<1>4. CASE ~w.all /\ eligible = {}
  BY <1>4 DEF Selected
<1> QED
  BY <1>1, <1>2, <1>3, <1>4

(* A wait claims free notifications for itself, and its member changes as  *)
(* members may.                                                            *)
LEMMA ClaimedMarks ==
    ASSUME NEW T, Fit(T), NEW t \in Thread, NEW claims, NEW id \in Nat,
           \A i \in claims \cap Indices(T) : T.effects[i].claimedBy = 0 /\ ~T.effects[i].consumed,
           NEW n, Good(Put(Claimed(T, claims, id), t, n)),
           MemberAges(T.members[t], n), WaitsInOrder(n), n.status = T.members[t].status
    PROVE  LET U == Put(Claimed(T, claims, id), t, n) IN
           Fit(U) /\ Ages(T, U, {}, {}) /\ Marks(T, U)
<1> DEFINE f == [i \in Indices(T) |->
                   IF i \in claims THEN [T.effects[i] EXCEPT !.claimedBy = id] ELSE T.effects[i]]
           C == Claimed(T, claims, id)
           U == Put(C, t, n)
<1>1. Good(T) /\ T \in Tree /\ \A i \in Indices(T) : T.effects[i] \in Effect
  BY GoodEffects DEF Fit, Good
<1>2. Good(C) /\ C.members = T.members
  BY <1>1, ClaimedGood
<1>3. C.effects = f
  BY <1>1 DEF Claimed, Tree
<1> HIDE DEF C, f
<1>4. /\ U.members[t] = n /\ \A u \in Thread \ {t} : U.members[u] = T.members[u]
      /\ U.effects = f
  BY <1>2, <1>3, PutSelects DEF Good
<1>5. Indices(U) = Indices(T)
  <2>1. f \in [Indices(T) -> Effect]
    <3>1. \A i \in Indices(T) : f[i] \in Effect
      BY <1>1 DEF f, Effect
    <3> QED BY <3>1 DEF f
  <2> QED BY <1>1, <1>4, <2>1, GoodEffects DEF Indices
<1>6. ASSUME NEW i \in Indices(T)
      PROVE  LET e == T.effects[i] IN
             /\ IntentAges(e, f[i]) /\ CreationKept(e, f[i]) /\ f[i].consumed = e.consumed
             /\ f[i].claimedBy # e.claimedBy => e.claimedBy = 0 /\ ~e.consumed
  <2> DEFINE e == T.effects[i]
  <2>1. e \in Effect
    BY <1>1
  <2>2. f[i] = e \/ (f[i] = [e EXCEPT !.claimedBy = id] /\ e.claimedBy = 0 /\ ~e.consumed)
    BY DEF f
  <2> HIDE DEF e
  <2>3. /\ f[i].kind = e.kind /\ f[i].target = e.target /\ f[i].phase = e.phase
        /\ f[i].state = e.state /\ f[i].consumed = e.consumed
    BY <2>1, <2>2 DEF Effect
  <2> QED
    BY <2>2, <2>3 DEF e, IntentAges, CreationKept, Candid, HostOwned
<1> HIDE DEF U
<1>7. Fit(U) /\ Ages(T, U, {}, {})
  <2>1. \A u \in Thread : MemberAges(T.members[u], U.members[u]) /\ WaitsInOrder(U.members[u])
    <3>1. \A u \in Thread : MemberAges(T.members[u], T.members[u]) /\ WaitsInOrder(T.members[u])
      BY DEF MemberAges, Fit
    <3> QED BY <1>4, <3>1
  <2>2. \A u \in Thread : U.members[u].status = "completed" => T.members[u].status = "completed"
    BY <1>4
  <2>3. \A i \in Indices(T) : IntentAges(T.effects[i], U.effects[i])
                              /\ CreationKept(T.effects[i], U.effects[i])
    BY <1>4, <1>6
  <2>4. Good(U)
    BY DEF U, C
  <2> QED BY <1>5, <2>1, <2>2, <2>3, <2>4, KeepAges
<1>8. Marks(T, U)
  BY <1>4, <1>5, <1>6 DEF Marks, IntentAges
<1> QED
  BY <1>7, <1>8 DEF U, C


(* A registered wait is new, and claims what it returns with.              *)
LEMMA RegisterWaitMarks ==
    ASSUME NEW T, Fit(T), NEW t \in Thread, MayWait(T.members[t]), NEW targets \in SUBSET Thread,
           NEW all \in BOOLEAN, NEW timer \in {"none", "armed", "due"},
           NEW compact \in BOOLEAN, NEW standalone \in BOOLEAN,
           standalone => targets = {}
    PROVE  LET U == RegisterWait(T, t, targets, all, timer, compact, standalone) IN
           Fit(U) /\ Ages(T, U, {}, {}) /\ Marks(T, U)
<1> DEFINE m == T.members[t]
           c == IF compact THEN "registered" ELSE "none"
           w == [NoWait EXCEPT !.id = m.calls + 1, !.generation = m.generation, !.turn = m.turn,
                   !.targets = targets, !.all = all, !.standalone = standalone, !.timer = timer,
                   !.compact = c]
           chosen == Selected(T, t, w)
           now == ~compact /\ chosen.found
           state == IF now THEN "completed"
                    ELSE IF ~compact /\ timer = "due" THEN "timeout" ELSE "registered"
           claims == IF now THEN chosen.claims ELSE {}
           x == [w EXCEPT !.state = state]
           n == [m EXCEPT !.wait = x, !.calls = w.id]
           U == RegisterWait(T, t, targets, all, timer, compact, standalone)
<1>1. m \in Member /\ WaitsInOrder(m) /\ Good(T) /\ Good(U)
      /\ m.calls \in Nat /\ m.wait.id \in Nat /\ m.recoveryWait.id \in Nat
  BY FitParts, WaitTypes, RegisterWaitGood
<1>2. \A i \in claims \cap Indices(T) : T.effects[i].claimedBy = 0 /\ ~T.effects[i].consumed
  <2>1. claims \subseteq EligibleIn(T, t, w)
    BY SelectedFree
  <2> HIDE DEF claims
  <2> QED BY <2>1 DEF EligibleIn, Eligible
<1>3. w.id = m.calls + 1
  BY DEF NoWait
<1>4. /\ x.id = m.calls + 1 /\ x.compact = c /\ x.state = state
      /\ x.standalone = standalone /\ x.targets = targets
  <2> HIDE DEF state, c, m
  <2> QED BY DEF NoWait
<1>5. state \in {"completed", "timeout", "registered"} /\ c \in {"none", "registered"}
  OBVIOUS
<1>6. U = Put(Claimed(T, claims, w.id), t, n)
  BY DEF RegisterWait
<1> HIDE DEF w, state, claims, c, x
<1>7. n.wait = x /\ n.calls = m.calls + 1 /\ n.recoveryWait = m.recoveryWait /\ n.status = m.status
  BY <1>1, <1>3 DEF Member
<1> HIDE DEF n, U
<1>8. MemberAges(m, n) /\ WaitsInOrder(n)
  <2>1. m.recoveryWait.state = "none"
    BY <1>1 DEF MayWait, WaitsInOrder, Dispatched, HostOwned
  <2> QED BY <1>1, <1>4, <1>5, <1>7, <2>1
          DEF MemberAges, WaitsInOrder, Unseen, Dispatched, HostOwned, Unsent
<1>9. w.id \in Nat
  BY <1>1, <1>3
<1> QED
  BY <1>1, <1>2, <1>6, <1>7, <1>8, <1>9, ClaimedMarks DEF U

(* A queued wake is the registered wait, and claims what it returns with.  *)
LEMMA PrepareWakeMarks ==
    ASSUME NEW T, Fit(T), NEW t \in Thread
    PROVE  LET U == PrepareWake(T, t) IN Fit(U) /\ Ages(T, U, {}, {}) /\ Marks(T, U)
<1> DEFINE m == T.members[t]
           w == m.wait
           chosen == Selected(T, t, w)
           claims == IF w.standalone THEN {} ELSE chosen.claims
           n == [m EXCEPT !.wait.state = "queued"]
           U == PrepareWake(T, t)
<1>1. m \in Member /\ WaitsInOrder(m) /\ Good(T) /\ Good(U) /\ w.id \in Nat
  BY FitParts, WaitTypes, PrepareWakeGood
<1>2. \A i \in claims \cap Indices(T) : T.effects[i].claimedBy = 0 /\ ~T.effects[i].consumed
  <2>1. claims \subseteq EligibleIn(T, t, w)
    BY SelectedFree
  <2> HIDE DEF claims
  <2> QED BY <2>1 DEF EligibleIn, Eligible
<1>3. U = T \/ (U = Put(Claimed(T, claims, w.id), t, n) /\ w.state = "registered")
  BY DEF PrepareWake
<1>4. /\ n.wait.state = "queued" /\ n.wait.id = w.id /\ n.wait.compact = w.compact
      /\ n.calls = m.calls /\ n.recoveryWait = m.recoveryWait /\ n.status = m.status
      /\ SameTargets(m, n)
  BY <1>1 DEF Member, Wait, SameTargets
<1> HIDE DEF n, U, claims
<1>5. w.state = "registered" => MemberAges(m, n) /\ WaitsInOrder(n)
  BY <1>1, <1>4 DEF SameTargets, MemberAges, WaitsInOrder, Unseen, Dispatched, HostOwned, Unsent
<1>6. CASE U = T
  BY <1>1, <1>6, NoEdit DEF Edits, Marks, U
<1>7. CASE U = Put(Claimed(T, claims, w.id), t, n) /\ w.state = "registered"
  BY <1>1, <1>2, <1>4, <1>5, <1>7, ClaimedMarks DEF U
<1> QED
  BY <1>3, <1>6, <1>7

(* Consumption marks unclaimed notifications.                              *)
LEMMA ConsumeMarks ==
    ASSUME NEW T, Fit(T), NEW t \in Thread, NEW items
    PROVE  LET U == Consume(T, t, items) IN Fit(U) /\ Ages(T, U, {}, {}) /\ Marks(T, U)
<1> DEFINE read == {i \in items : T.effects[i].claimedBy = 0}
           f == [i \in Indices(T) |->
                   IF i \in read THEN [T.effects[i] EXCEPT !.consumed = TRUE] ELSE T.effects[i]]
           U == Consume(T, t, items)
<1>1. /\ Good(T) /\ Good(U) /\ T \in Tree /\ \A i \in Indices(T) : T.effects[i] \in Effect
  BY ConsumeGood, GoodEffects DEF Fit, Good
<1>2. U = T \/ U = [T EXCEPT !.effects = f]
  BY DEF Consume
<1>3. CASE U = T
  BY <1>1, <1>3, NoEdit DEF Edits, Marks
<1>4. CASE U = [T EXCEPT !.effects = f]
  <2>1. U.effects = f /\ U.members = T.members
    BY <1>1, <1>4 DEF Tree
  <2>2. f \in [Indices(T) -> Effect]
    <3>1. \A i \in Indices(T) : f[i] \in Effect
      BY <1>1 DEF Effect
    <3> QED BY <3>1
  <2>3. Indices(U) = Indices(T)
    <3> HIDE DEF f, U
    <3> QED BY <1>1, <2>1, <2>2, GoodEffects DEF Indices
  <2>4. ASSUME NEW i \in Indices(T)
        PROVE  LET e == T.effects[i] IN
               /\ IntentAges(e, f[i]) /\ CreationKept(e, f[i]) /\ f[i].claimedBy = e.claimedBy
               /\ f[i].consumed # e.consumed => e.claimedBy = 0
    <3> DEFINE e == T.effects[i]
    <3>1. e \in Effect
      BY <1>1
    <3>2. f[i] = e \/ (f[i] = [e EXCEPT !.consumed = TRUE] /\ e.claimedBy = 0)
      OBVIOUS
    <3> HIDE DEF e, f
    <3>3. /\ f[i].kind = e.kind /\ f[i].target = e.target /\ f[i].phase = e.phase
          /\ f[i].state = e.state /\ f[i].claimedBy = e.claimedBy
      BY <3>1, <3>2 DEF Effect
    <3> QED
      BY <3>2, <3>3 DEF e, IntentAges, CreationKept, Candid, HostOwned
  <2> HIDE DEF f, U
  <2>5. \A u \in Thread : MemberAges(T.members[u], U.members[u]) /\ WaitsInOrder(U.members[u])
    BY <2>1 DEF MemberAges, Fit
  <2>6. Fit(U) /\ Ages(T, U, {}, {})
    BY <1>1, <2>1, <2>3, <2>4, <2>5, KeepAges DEF U
  <2>7. Marks(T, U)
    BY <2>1, <2>3, <2>4 DEF Marks, IntentAges
  <2> QED BY <2>6, <2>7 DEF U
<1> QED
  BY <1>2, <1>3, <1>4


-----------------------------------------------------------------------------
(* A stopped runtime, or a restart.                                        *)

(* The creations that are out: a stop leaves them uncertain.               *)
Creating(T) == {i \in Indices(T) : T.effects[i].kind = "create" /\ T.effects[i].state = "dispatching"}

(* What pausing does to the state of an intent.                            *)
LEMMA PausedStateAges ==
    ASSUME NEW s \in IntentState
    PROVE  LET p == PausedState(s) IN
           /\ p \in IntentState /\ p \notin {"dispatching", "queued", "pending"}
           /\ p \in HostOwned <=> s \in HostOwned
           /\ p \in Unsent <=> s \in Unsent
           /\ p = "none" <=> s = "none"
           /\ s \in {"none", "registered", "paused"} => p \in {"none", "paused"}
           /\ p \in Awake => s \in Awake
           /\ p # "registered"
           /\ s \in {"confirmed", "failed", "paused"} => p = s
           /\ s = "pending" => p = "paused"
BY DEF PausedState, IntentState, HostOwned, Unsent, Awake

(* A paused thread's wait and the continuation behind it age.              *)
LEMMA PausedMember ==
    ASSUME NEW m \in Member, NEW n \in Member, WaitsInOrder(m),
           n.wait.id = m.wait.id, n.recoveryWait.id = m.recoveryWait.id, n.calls = m.calls,
           n.wait.state = PausedState(m.wait.state),
           n.wait.compact = PausedState(m.wait.compact),
           n.recoveryWait.state = PausedState(m.recoveryWait.state),
           n.recoveryWait.compact = PausedState(m.recoveryWait.compact),
           SameTargets(m, n), n.recoveryWait.standalone = m.recoveryWait.standalone
    PROVE  MemberEdit(m, n) /\ WaitsInOrder(n)
<1>1. /\ m.wait.state \in IntentState /\ m.wait.compact \in IntentState
      /\ m.recoveryWait.state \in IntentState /\ m.recoveryWait.compact \in IntentState
      /\ m.wait.id \in Nat /\ m.recoveryWait.id \in Nat /\ m.calls \in Nat
  BY WaitTypes
<1> DEFINE s == PausedState(m.wait.state)
           c == PausedState(m.wait.compact)
           rs == PausedState(m.recoveryWait.state)
           rc == PausedState(m.recoveryWait.compact)
<1>2. /\ s \notin {"dispatching", "queued", "registered"}
      /\ s \in Awake => m.wait.state \in Awake
      /\ s \in HostOwned <=> m.wait.state \in HostOwned
      /\ s \in Unsent <=> m.wait.state \in Unsent
  BY <1>1, PausedStateAges
<1>3. /\ c # "dispatching"
      /\ c \in HostOwned <=> m.wait.compact \in HostOwned
      /\ c \in Unsent <=> m.wait.compact \in Unsent
  BY <1>1, PausedStateAges
<1>4. /\ rs \in {"none", "paused"}
      /\ rs = "none" <=> m.recoveryWait.state = "none"
      /\ rc = "none"
  BY <1>1, PausedStateAges DEF WaitsInOrder
<1> HIDE DEF s, c, rs, rc
<1>5. n.wait.state = s /\ n.wait.compact = c /\ n.recoveryWait.state = rs /\ n.recoveryWait.compact = rc
  BY DEF s, c, rs, rc
<1> QED
  BY <1>1, <1>2, <1>3, <1>4, <1>5
     DEF SameTargets, MemberEdit, MemberAges, WaitsInOrder, Unseen, Dispatched, Rests

(* Pausing sends nothing, and keeps what was out from being sent again: it *)
(* is an edit but for the creations it leaves uncertain.                   *)
LEMMA PauseAllEdits ==
    ASSUME NEW T, Fit(T), NEW S \in SUBSET Thread
    PROVE  LET U == PauseAll(T, S) IN
           /\ Fit(U) /\ Edits(T, U, Creating(T), {}) /\ Indices(U) = Indices(T)
           /\ \A i \in Indices(T) : IntentAges(T.effects[i], U.effects[i])
<1> DEFINE PauseWait(w) == [w EXCEPT !.state = PausedState(w.state), !.compact = PausedState(w.compact)]
           paused(m) == [m EXCEPT !.status = IF Reserved(m) THEN "paused" ELSE m.status,
                           !.hostRunning = FALSE, !.turn = 0,
                           !.wait = PauseWait(m.wait), !.recoveryWait = PauseWait(m.recoveryWait)]
           g == [t \in Thread |-> IF t \in S THEN paused(T.members[t]) ELSE T.members[t]]
           V == [T EXCEPT !.members = g]
           touched(e) == e.caller \in S \/ \E t \in S : Addressed(e, t)
           f == [i \in Indices(V) |->
                   IF touched(V.effects[i]) THEN SetState(V.effects[i], PausedState(V.effects[i].state))
                   ELSE V.effects[i]]
           U == PauseAll(T, S)
<1>1. /\ Good(T) /\ T \in Tree /\ \A i \in Indices(T) : T.effects[i] \in Effect
      /\ Good(U)
  BY GoodEffects, PauseAllGood DEF Fit, Good
<1>2. U = [V EXCEPT !.effects = f]
  BY DEF PauseAll, EachEffect
<1>3. V.members = g /\ V.effects = T.effects /\ Indices(V) = Indices(T)
  BY <1>1 DEF Tree, Indices
<1> HIDE DEF g, f, touched, paused, PauseWait
<1>4. U.members = g /\ U.effects = f
  BY <1>1, <1>2, <1>3 DEF Tree
<1> HIDE DEF U
<1>5. ASSUME NEW i \in Indices(T)
      PROVE  /\ f[i] \in Effect
             /\ IntentAges(T.effects[i], f[i]) /\ NoteKept(T, T.effects[i], f[i])
             /\ i \notin Creating(T) => CreationKept(T.effects[i], f[i])
  <2> DEFINE e == T.effects[i]
             s == PausedState(e.state)
  <2>1. e \in Effect /\ e.state \in IntentState
    BY <1>1 DEF Effect
  <2>2. s \in IntentState /\ s \notin {"dispatching", "queued", "pending"}
        /\ (e.state \in {"confirmed", "failed", "paused"} => s = e.state)
        /\ (e.state = "pending" => s = "paused")
        /\ (s \in HostOwned <=> e.state \in HostOwned) /\ (s \in Unsent <=> e.state \in Unsent)
    BY <2>1, PausedStateAges
  <2>3. f[i] = e \/ f[i] = SetState(e, s)
    BY <1>3 DEF f
  <2>4. i \notin Creating(T) => ~(e.kind = "create" /\ e.state = "dispatching")
    BY DEF Creating
  <2> HIDE DEF e, s
  <2>5. /\ f[i].kind = e.kind /\ f[i].target = e.target /\ f[i].phase = e.phase
        /\ f[i].state \in {e.state, s} /\ f[i].claimedBy = e.claimedBy /\ f[i].consumed = e.consumed
        /\ f[i] \in Effect
    BY <2>1, <2>2, <2>3 DEF SetState, Effect
  <2> QED
    BY <2>2, <2>4, <2>5 DEF e, IntentAges, CreationKept, NoteKept, Candid, HostOwned
<1>6. ASSUME NEW t \in Thread
      PROVE  /\ MemberEdit(T.members[t], g[t]) /\ WaitsInOrder(g[t])
             /\ g[t].status = "completed" => T.members[t].status = "completed"
  <2> DEFINE m == T.members[t]
  <2>1. m \in Member /\ WaitsInOrder(m) /\ g[t] \in Member
    BY <1>1, <1>4, FitParts, GoodParts
  <2>2. CASE t \notin S
    <3>1. g[t] = m
      BY <2>2 DEF g
    <3> QED BY <2>1, <3>1 DEF MemberEdit, MemberAges, Rests, Awake, HostOwned
  <2>3. CASE t \in S
    <3>1. g[t] = paused(m)
      BY <2>3 DEF g
    <3> DEFINE s == IF Reserved(m) THEN "paused" ELSE m.status
    <3>2. s = "completed" => m.status = "completed"
      OBVIOUS
    <3>3. m.wait \in Wait /\ m.recoveryWait \in Wait
      BY <2>1 DEF Member
    <3>4. \A w \in Wait : /\ PauseWait(w).id = w.id
                          /\ PauseWait(w).state = PausedState(w.state)
                          /\ PauseWait(w).compact = PausedState(w.compact)
                          /\ PauseWait(w).standalone = w.standalone
                          /\ PauseWait(w).targets = w.targets
      BY DEF PauseWait, Wait
    <3>5. /\ paused(m).wait = PauseWait(m.wait) /\ paused(m).recoveryWait = PauseWait(m.recoveryWait)
          /\ paused(m).calls = m.calls /\ paused(m).status = s
      BY <2>1 DEF paused, Member
    <3> HIDE DEF m, s
    <3>6. MemberEdit(m, g[t]) /\ WaitsInOrder(g[t])
      BY <2>1, <3>1, <3>3, <3>4, <3>5, PausedMember DEF SameTargets
    <3> QED BY <3>1, <3>2, <3>5, <3>6 DEF m
  <2> QED BY <2>2, <2>3
<1>7. Indices(U) = Indices(T) /\ Len(U.effects) = Len(T.effects) /\ Len(T.effects) \in Nat
  <2>1. f \in [Indices(T) -> Effect]
    <3>1. \A i \in Indices(T) : f[i] \in Effect
      BY <1>5
    <3> QED BY <1>3, <3>1 DEF f
  <2> QED BY <1>1, <1>4, <2>1, GoodEffects DEF Indices
<1>8. Fit(U)
  BY <1>1, <1>4, <1>6 DEF Fit, U
<1>9. Ages(T, U, Creating(T), {})
  BY <1>4, <1>5, <1>6, <1>7 DEF Ages, MemberEdit
<1>10. Notes(T, U)
  BY <1>4, <1>5, <1>6, <1>7 DEF Notes, MemberEdit, IntentAges
<1> QED
  BY <1>4, <1>5, <1>7, <1>8, <1>9, <1>10 DEF Edits, U


-----------------------------------------------------------------------------
(* Preparing an intent.                                                    *)

(* A reserved spawn is a new creation.                                     *)
LEMMA SpawnEdits ==
    ASSUME NEW T, Fit(T), NEW caller \in Thread, NEW child \in Thread
    PROVE  Fit(Spawn(T, caller, child)) /\ Edits(T, Spawn(T, caller, child), {}, {})
<1> DEFINE m == T.members[caller]
           d == NewEffect("create", caller, m.turn, m.generation, child, 1)
           e == [d EXCEPT !.phase = "create"]
<1>1. m.turn \in Nat /\ m.generation \in Nat
  BY FitParts DEF Member
<1>2. /\ d \in Effect /\ d.kind = "create" /\ d.state = "pending" /\ d.claimedBy = 0
      /\ ~d.consumed
  BY <1>1 DEF NewEffect, Effect, Phase, IntentState, EffectKind
<1>3. e \in Effect /\ NewIntent(e) /\ NewNote(e)
  <2> HIDE DEF d
  <2> QED BY <1>2 DEF Effect, Phase, NewIntent, Phased, NewNote, HostOwned, Candid
<1>4. Spawn(T, caller, child) = AddEffect(T, e) /\ Good(Spawn(T, caller, child))
  BY SpawnGood DEF Spawn, Fit
<1> HIDE DEF e
<1> QED
  BY <1>3, <1>4, AddEdits

(* Every effect is edited.                                                 *)
LEMMA EachEdits ==
    ASSUME NEW T, Fit(T), NEW f, DOMAIN f = Indices(T), f = [i \in Indices(T) |-> f[i]],
           \A i \in Indices(T) : SameWork(T.effects[i], f[i]) /\ IntentEdit(T, T.effects[i], f[i])
    PROVE  LET U == [T EXCEPT !.effects = f] IN
           /\ Fit(U) /\ Edits(T, U, {}, {}) /\ U.members = T.members /\ Indices(U) = Indices(T)
           /\ U.effects = f
<1>1. f \in [Indices(T) -> Effect]
  BY DEF SameWork
<1> QED
  BY <1>1, EffectsEdits

(* Resuming an admission makes a paused creation pending again, or cancels *)
(* its first assignment.                                                   *)
LEMMA ResumeAdmissionEdits ==
    ASSUME NEW T, Fit(T), NEW target \in Thread
    PROVE  LET U == ResumeAdmission(T, target) IN
           Fit(U) /\ Edits(T, U, {}, {}) /\ U.members = T.members
<1> DEFINE edit(e) ==
             CASE ~(e.kind = "create" /\ Addressed(e, target) /\ e.state = "paused") -> e
               [] OTHER -> IF e.phase = "initial" THEN SetState(e, "canceled")
                           ELSE [e EXCEPT !.state = "pending", !.outcome = "interrupted"]
           f == [i \in Indices(T) |-> edit(T.effects[i])]
           U == ResumeAdmission(T, target)
<1>1. Good(T) /\ \A i \in Indices(T) : T.effects[i] \in Effect
  BY GoodEffects DEF Fit
<1>2. ASSUME NEW i \in Indices(T)
      PROVE  SameWork(T.effects[i], f[i]) /\ IntentEdit(T, T.effects[i], f[i])
  <2> DEFINE e == T.effects[i]
  <2>1. e \in Effect
    BY <1>1
  <2>2. \/ f[i] = e
        \/ /\ e.kind = "create" /\ e.state = "paused"
           /\ \/ f[i] = SetState(e, "canceled")
              \/ f[i] = [e EXCEPT !.state = "pending", !.outcome = "interrupted"]
    OBVIOUS
  <2> HIDE DEF e, f
  <2>3. /\ f[i].kind = e.kind /\ f[i].target = e.target /\ f[i].phase = e.phase
        /\ f[i].claimedBy = e.claimedBy /\ f[i].consumed = e.consumed
        /\ f[i] = e \/ (e.kind = "create" /\ e.state = "paused" /\ f[i].state \in {"canceled", "pending"})
    BY <2>1, <2>2 DEF Effect, SetState
  <2>4. SameWork(e, f[i])
    <3>1. SameWork(e, [e EXCEPT !.state = "pending", !.outcome = "interrupted"])
      BY <2>1 DEF SameWork, Effect, IntentState, Outcome
    <3> QED BY <2>1, <2>2, <3>1, EditEffect DEF IntentState
  <2> QED
    BY <2>3, <2>4 DEF e, IntentEdit, IntentAges, CreationKept, NoteKept, HostOwned, Unsent, Candid
<1>3. U = T \/ U = [T EXCEPT !.effects = f]
  BY DEF ResumeAdmission, EachEffect
<1>4. DOMAIN f = Indices(T) /\ f = [i \in Indices(T) |-> f[i]]
  OBVIOUS
<1> HIDE DEF f, U
<1>5. CASE U = T
  <2>1. Fit(U) /\ Edits(T, U, {}, {}) /\ U.members = T.members
    BY <1>1, <1>5, NoEdit
  <2> QED BY <2>1 DEF U
<1>6. CASE U = [T EXCEPT !.effects = f]
  <2>1. Fit(U) /\ Edits(T, U, {}, {}) /\ U.members = T.members
    BY <1>2, <1>4, <1>6, EachEdits
  <2> QED BY <2>1 DEF U
<1> QED
  BY <1>3, <1>5, <1>6

(* The control event retires the target's deferred completion and wait.    *)
LEMMA ControlEventEdits ==
    ASSUME NEW T, Fit(T), NEW t \in Thread, ~Dispatched(T.members[t].wait)
    PROVE  Fit(ControlEvent(T, t)) /\ Edits(T, ControlEvent(T, t), {}, {})
<1> DEFINE C == CancelCompletion(T, t)
           U == CancelSubscription(C, t)
<1>1. Fit(C) /\ Edits(T, C, {}, {}) /\ C.members = T.members
  BY CancelCompletionEdits
<1> HIDE DEF C
<1>2. Fit(U) /\ Edits(C, U, {}, {})
  BY <1>1, CancelSubscriptionEdits
<1>3. U = ControlEvent(T, t)
  BY DEF ControlEvent, C
<1> HIDE DEF U
<1> QED
  BY <1>1, <1>2, <1>3, EditsTrans DEF Fit

(* A prepared intent is new; what waited at its target is retired.         *)
LEMMA PrepareEdits ==
    ASSUME NEW T, Fit(T), NEW caller \in Thread, NEW target \in Thread,
           NEW kind \in {"message", "followup", "interrupt"}, MayPrepare(T, target, kind)
    PROVE  LET U == Prepare(T, caller, target, kind) IN Fit(U) /\ Edits(T, U, {}, {})
<1> DEFINE sender == T.members[caller]
           R == IF kind = "followup" THEN ResumeAdmission(T, target) ELSE T
           C == IF kind = "message" THEN R ELSE ControlEvent(R, target)
           m == C.members[target]
           x == [Reserve(m) EXCEPT !.stop = NoStop]
           N == IF kind = "followup" /\ (~Reserved(m) \/ m.status = "paused")
                THEN Put(C, target, x) ELSE C
           g == N.members[target].generation
           d == NewEffect(kind, caller, sender.turn, sender.generation, target, g)
           U == Prepare(T, caller, target, kind)
<1>1. sender.turn \in Nat /\ sender.generation \in Nat /\ Good(T) /\ Good(U)
  BY FitParts, PrepareGood DEF Member
<1>2. Fit(R) /\ Edits(T, R, {}, {}) /\ R.members = T.members
  BY <1>1, ResumeAdmissionEdits, NoEdit
<1>3. U = AddEffect(N, d)
  BY DEF Prepare
<1> HIDE DEF R
<1>4. Fit(C) /\ Edits(T, C, {}, {})
  <2>1. kind # "message" => ~Dispatched(R.members[target].wait)
    BY <1>2 DEF MayPrepare
  <2>2. kind # "message" => Fit(ControlEvent(R, target)) /\ Edits(R, ControlEvent(R, target), {}, {})
    BY <1>2, <2>1, ControlEventEdits
  <2> QED BY <1>1, <1>2, <2>2, EditsTrans DEF Fit
<1> HIDE DEF C
<1>5. Fit(N) /\ Edits(T, N, {}, {})
  <2>1. m \in Member /\ Executing(m)
    BY <1>4, FitParts
  <2>2. ~Reserved(m) \/ m.status = "paused" => Good(Put(C, target, x))
    <3> HIDE DEF x
    <3> QED BY <1>4, <2>1, ReserveMayBecome, PutGood DEF x, Fit
  <2>3. SameWaits(m, x) /\ x.status = "pending"
    <3> HIDE DEF m
    <3> QED BY <2>1 DEF Reserve, Member, SameWaits, SameTargets
  <2> HIDE DEF x
  <2> QED BY <1>4, <2>2, <2>3, PutAfter
<1> HIDE DEF N
<1>6. g \in Nat
  BY <1>5, FitParts DEF Member
<1>7. d \in Effect /\ NewIntent(d) /\ NewNote(d)
  <2> HIDE DEF g, sender
  <2> QED BY <1>1, <1>6 DEF NewEffect, Effect, EffectKind, Phase, IntentState, NewIntent, Phased, NewNote, HostOwned, Candid
<1> HIDE DEF d, U
<1>8. Fit(U) /\ Edits(N, U, {}, {})
  BY <1>1, <1>3, <1>5, <1>7, AddEdits
<1> QED
  BY <1>1, <1>5, <1>8, EditsTrans DEF Fit, U

(* An interrupt cancels what is queued, and records the rest's outcome.    *)
LEMMA CancelQueuedWorkEdits ==
    ASSUME NEW T, Fit(T), NEW t \in Thread
    PROVE  LET U == CancelQueuedWork(T, t) IN
           /\ Fit(U) /\ Edits(T, U, {}, {}) /\ U.members = T.members /\ Indices(U) = Indices(T)
           /\ \A i \in Indices(T) :
                /\ U.effects[i].callerTurn = T.effects[i].callerTurn
                /\ U.effects[i].generation = T.effects[i].generation
                /\ U.effects[i].caller = T.effects[i].caller
                /\ Step(T.effects[i]) \notin {"initial", "followup"} =>
                     U.effects[i].state = T.effects[i].state
<1> DEFINE outcome(e) == IF e.kind = "create" THEN "interrupted" ELSE e.outcome
           state(e) == IF Step(e) \in {"initial", "followup"} THEN "canceled" ELSE e.state
           edit(e) ==
             CASE ~(Addressed(e, t) /\ e.generation = T.members[t].generation
                      /\ e.state = "pending") -> e
               [] OTHER -> [e EXCEPT !.outcome = outcome(e), !.state = state(e)]
           f == [i \in Indices(T) |-> edit(T.effects[i])]
           U == CancelQueuedWork(T, t)
<1>1. Good(T) /\ \A i \in Indices(T) : T.effects[i] \in Effect
  BY GoodEffects DEF Fit
<1>2. U = [T EXCEPT !.effects = f]
  BY DEF CancelQueuedWork, EachEffect
<1>3. ASSUME NEW i \in Indices(T)
      PROVE  /\ SameWork(T.effects[i], f[i]) /\ IntentEdit(T, T.effects[i], f[i])
             /\ f[i].callerTurn = T.effects[i].callerTurn
             /\ f[i].generation = T.effects[i].generation
             /\ f[i].caller = T.effects[i].caller
             /\ Step(T.effects[i]) \notin {"initial", "followup"} => f[i].state = T.effects[i].state
  <2> DEFINE e == T.effects[i]
  <2>1. e \in Effect
    BY <1>1
  <2>2. \/ f[i] = e
        \/ e.state = "pending" /\ f[i] = [e EXCEPT !.outcome = outcome(e), !.state = state(e)]
    OBVIOUS
  <2>3. state(e) = e.state \/ (state(e) = "canceled" /\ Step(e) \in {"initial", "followup"})
    OBVIOUS
  <2>4. outcome(e) \in Outcome \cup {"none"} /\ state(e) \in IntentState
    BY <2>1, <2>3 DEF Effect, IntentState, Outcome
  <2> HIDE DEF e, f, outcome, state
  <2>5. /\ f[i] \in Effect /\ f[i].kind = e.kind /\ f[i].target = e.target /\ f[i].phase = e.phase
        /\ f[i].claimedBy = e.claimedBy /\ f[i].consumed = e.consumed /\ f[i].caller = e.caller
        /\ f[i].callerGeneration = e.callerGeneration /\ f[i].callerTurn = e.callerTurn
        /\ f[i].generation = e.generation
        /\ f[i].state = e.state \/ (e.state = "pending" /\ f[i].state = state(e))
    BY <2>1, <2>2, <2>4 DEF Effect
  <2>6. SameWork(e, f[i])
    BY <2>5 DEF SameWork
  <2> QED
    BY <2>3, <2>5, <2>6 DEF e, IntentEdit, IntentAges, CreationKept, NoteKept, HostOwned, Unsent, Candid, Step
<1>4. DOMAIN f = Indices(T) /\ f = [i \in Indices(T) |-> f[i]]
  OBVIOUS
<1> HIDE DEF f, U
<1>5. U.effects = f /\ Fit(U) /\ Edits(T, U, {}, {}) /\ U.members = T.members /\ Indices(U) = Indices(T)
  BY <1>2, <1>3, <1>4, EachEdits
<1> QED
  BY <1>3, <1>5 DEF U

-----------------------------------------------------------------------------
(* Sound trees.                                                            *)

(* Input reaches its target in the order it was prepared (Blocked).        *)
Ordered == {"message", "final", "followup", "human", "completion"}
InOrder(T) ==
    \A i, j \in Indices(T) :
        (/\ i < j /\ T.effects[i].target = T.effects[j].target
         /\ T.effects[i].kind \in Ordered /\ T.effects[j].kind \in Ordered
         /\ T.effects[j].state = "dispatching")
        => T.effects[i].state \notin {"pending"} \cup HostOwned

(* Beside a checkpoint the host may own, only interrupts are out.          *)
Alone(T) ==
    \A t \in Thread : T.members[t].wait.compact \in HostOwned =>
        \A i \in Indices(T) :
            Addressed(T.effects[i], t) /\ T.effects[i].state = "dispatching"
              => T.effects[i].kind = "interrupt"

Noted(T) == \A i \in Indices(T) : ~(T.effects[i].consumed /\ T.effects[i].claimedBy # 0)

Sound(T) ==
    /\ Fit(T) /\ InOrder(T) /\ Alone(T) /\ Noted(T)
    /\ \A i \in Indices(T) : Phased(T.effects[i])

(* The steps of a creation that are behind it in a phase.                  *)
Passed(phase) ==
    CASE phase = "assignment_input" -> {"create"}
      [] phase = "admit"            -> {"create", "assignment_input"}
      [] phase = "initial"          -> {"create", "assignment_input", "admit"}
      [] OTHER                      -> {}

(* A step of an intent is spent: it went out, or will never go out again.  *)
SpentBy(e, step) ==
    IF e.kind = "create"
    THEN step \in Passed(e.phase) \/ (step = e.phase /\ e.state \notin Unsent)
    ELSE step = e.kind /\ e.state \notin Unsent
Spent(T, r, step) ==
    LET m == T.members[r.thread] IN
    CASE r.slot = "effect" -> r.id \in Indices(T) /\ SpentBy(T.effects[r.id], step)
      [] r.slot = "wake"   -> ~Unseen(m, r.id) /\ (m.wait.id = r.id => m.wait.state \notin Unsent)
      [] OTHER             -> ~Unseen(m, r.id) /\ (m.wait.id = r.id => m.wait.compact \notin Unsent)

(* What the host is given, or is being given.                              *)
Out(T) == {r \in Refs(T) : Known(T, r) /\ StateOf(T, r) = "dispatching"}

(* An intent after a step that does not dispatch it.                       *)
Follows(e, f) ==
    /\ f.kind = e.kind /\ f.target = e.target
    /\ Phased(e) => Phased(f)
    /\ f.state = "dispatching" => e.state = "dispatching" /\ f.phase = e.phase
    /\ f.kind # "create" /\ f.state \in {"pending"} \cup HostOwned =>
         e.state \in {"pending"} \cup HostOwned
    /\ \A step : SpentBy(e, step) => SpentBy(f, step)

(* One notification is used once, from a tree to the next.                 *)
NotedOnce(T, U) ==
    \A i \in Indices(T) :
        LET e == T.effects[i]
            f == U.effects[i]
            w == T.members[e.target].wait
        IN  /\ e.consumed => f.claimedBy = e.claimedBy
            /\ e.claimedBy # 0 => f.consumed = e.consumed
            /\ e.claimedBy # 0 /\ f.claimedBy # e.claimedBy =>
                 f.claimedBy = 0 /\ w.id = e.claimedBy /\ w.state = "queued"

Stays(T, U) ==
    /\ Indices(T) \subseteq Indices(U)
    /\ \A i \in Indices(T) : U.effects[i].kind = T.effects[i].kind
                             /\ U.effects[i].target = T.effects[i].target
SpentKept(T, U) == \A r \in Ref : \A step : Spent(T, r, step) => Spent(U, r, step)
Sends(T, U) == \A r \in Out(U) \ Out(T) : ~Spent(T, r, StepOf(U, r))

(* A wait for all its targets returns, and neither by its deadline nor by  *)
(* a message leaves a result of theirs behind.                             *)
Owes(U, t, w, e) ==
    /\ e.kind = "final" /\ e.target = t /\ e.caller \in w.targets
    /\ e.callerGeneration = U.members[e.caller].generation
Has(e) == e.state = "paused" \/ (Delivered(e) /\ (e.consumed \/ e.claimedBy # 0))
Answered(U, t, w) ==
    \/ \E i \in Indices(U) : U.effects[i].kind = "message" /\ U.effects[i].claimedBy = w.id
    \/ \A i \in Indices(U) : Owes(U, t, w, U.effects[i]) => Has(U.effects[i])
Returns(v, w) ==
    /\ w.all /\ w.timer # "due"
    /\ \/ w.state = "queued" /\ v.state = "registered"
       \/ w.state = "completed" /\ v.id # w.id
Decides(T, U) ==
    \A t \in Thread :
        Returns(T.members[t].wait, U.members[t].wait) => Answered(U, t, U.members[t].wait)

(* From a sound tree T to U.                                               *)
Keeps(T, U) ==
    /\ Sound(U) /\ Stays(T, U) /\ SpentKept(T, U) /\ Sends(T, U)
    /\ NotedOnce(T, U) /\ Completes(T, U) /\ Decides(T, U)

(* The creations that are out stay as they are, but for those of X.        *)
CreationsKept(T, U, X) ==
    \A i \in Indices(T) \ X :
        T.effects[i].kind = "create" /\ T.effects[i].state = "dispatching" =>
            U.effects[i].state = "dispatching" /\ U.effects[i].phase = T.effects[i].phase

(* The same, of a step that uses no notification and answers no creation.  *)
Keeping(T, U) == Keeps(T, U) /\ CreationsKept(T, U, {}) /\ Notes(T, U)

-----------------------------------------------------------------------------
(* What a wait for all its targets returns with.                           *)

(* A set of indices that is not empty has a first.                         *)
Smaller == {p \in Nat \X Nat : p[1] < p[2]}
LEMMA FirstExists ==
    ASSUME NEW S \in SUBSET Nat, S # {}
    PROVE  \E i \in S : i \in First(S)
<1>1. IsWellFoundedOn(Smaller, Nat)
  <2>1. Smaller = OpToRel(<, Nat)
    BY DEF Smaller, OpToRel
  <2> QED BY <2>1, NatLessThanWellFounded, Zenon
<1>2. PICK i \in S : \A j \in S : ~(<<j, i>> \in Smaller)
  BY <1>1, WFMin
<1>3. ASSUME NEW j \in S
      PROVE  i <= j
  <2>1. j < i => <<j, i>> \in Smaller
    BY DEF Smaller
  <2> QED BY <1>2, <2>1
<1> QED
  BY <1>3 DEF First

(* A final result that is owed and no longer on its way can be claimed,    *)
(* was claimed or used, or is held with its runtime.                       *)
LEMMA OwedResult ==
    ASSUME NEW T, Sound(T), NEW t \in Thread, NEW w, NEW i \in Indices(T),
           Owes(T, t, w, T.effects[i]), \A c \in w.targets : Settled(T, c, t)
    PROVE  Has(T.effects[i]) \/ (Eligible(T.effects[i], t, w) /\ Delivered(T.effects[i]))
<1> DEFINE e == T.effects[i]
<1>1. /\ e.kind = "final" /\ e.target = t /\ e.caller \in w.targets
      /\ e.callerGeneration = T.members[e.caller].generation
  BY DEF Owes
<1>2. e.phase = "none" /\ Candid(e)
  BY <1>1 DEF Sound, Phased
<1>3. e.state \notin HostOwned \cup {"pending"}
  BY <1>1 DEF Settled, ResultPending
<1>4. e.state \in {"confirmed", "failed", "paused"}
  BY <1>1, <1>2, <1>3 DEF Candid
<1>5. Addressed(e, t)
  BY <1>1, <1>2 DEF Addressed
<1> QED
  BY <1>1, <1>4, <1>5 DEF Has, Delivered, Eligible

(* A notification is marked with the wait that claims it, and no other.    *)
ClaimsOf(T, U, claims, id) ==
    /\ Indices(U) = Indices(T)
    /\ \A u \in Thread : U.members[u].generation = T.members[u].generation
    /\ \A i \in Indices(T) :
         LET e == T.effects[i]
             f == U.effects[i]
         IN  /\ f.kind = e.kind /\ f.target = e.target /\ f.caller = e.caller
             /\ f.callerGeneration = e.callerGeneration
             /\ f.state = e.state /\ f.consumed = e.consumed
             /\ i \in claims => f.claimedBy = id
             /\ i \notin claims => f.claimedBy = e.claimedBy

(* What a wait for all its targets selects answers it once it is claimed.  *)
LEMMA SelectedAnswers ==
    ASSUME NEW T, Sound(T), NEW t \in Thread, NEW w, w.all, w.targets \subseteq Thread,
           Selected(T, t, w).found, NEW id \in Nat \ {0},
           NEW U, ClaimsOf(T, U, Selected(T, t, w).claims, id),
           NEW x, x.id = id, x.targets = w.targets
    PROVE  Answered(U, t, x)
<1> DEFINE eligible == EligibleIn(T, t, w)
           messages == {i \in eligible : T.effects[i].kind = "message"}
           current == {i \in eligible \ messages :
                         T.effects[i].callerGeneration = T.members[T.effects[i].caller].generation}
           settled == \A c \in w.targets : Settled(T, c, t)
           claims == Selected(T, t, w).claims
<1>1. Indices(T) \subseteq Nat
  BY GoodEffects DEF Sound, Fit
<1>2. ASSUME messages # {}
      PROVE  Answered(U, t, x)
  <2>1. claims = First(messages)
    BY <1>2 DEF Selected
  <2>2. messages \in SUBSET Nat
    BY <1>1 DEF EligibleIn
  <2>3. PICK i \in messages : i \in First(messages)
    <3> HIDE DEF messages
    <3> QED BY <1>2, <2>2, FirstExists
  <2>4. i \in Indices(T) /\ T.effects[i].kind = "message"
    BY DEF EligibleIn
  <2>5. i \in claims
    BY <2>1, <2>3
  <2>6. U.effects[i].kind = "message" /\ U.effects[i].claimedBy = id /\ i \in Indices(U)
    <3> HIDE DEF claims
    <3>1. ClaimsOf(T, U, claims, id)
      BY DEF claims
    <3> QED BY <2>4, <2>5, <3>1 DEF ClaimsOf
  <2> QED BY <2>6 DEF Answered
<1>3. ASSUME messages = {}
      PROVE  Answered(U, t, x)
  <2>1. Selected(T, t, w) = [found |-> settled, claims |-> IF settled THEN current ELSE {}]
    BY <1>3 DEF Selected
  <2>2. settled /\ claims = current
    <3> HIDE DEF settled, current
    <3> QED BY <2>1
  <2> SUFFICES ASSUME NEW i \in Indices(U), Owes(U, t, x, U.effects[i])
               PROVE  Has(U.effects[i])
    BY DEF Answered
  <2> DEFINE e == T.effects[i]
             f == U.effects[i]
  <2>3. ClaimsOf(T, U, claims, id)
    OBVIOUS
  <2> HIDE DEF claims
  <2>4. /\ i \in Indices(T) /\ f.kind = e.kind /\ f.target = e.target /\ f.caller = e.caller
        /\ f.callerGeneration = e.callerGeneration /\ f.state = e.state /\ f.consumed = e.consumed
        /\ i \in claims => f.claimedBy = id
        /\ i \notin claims => f.claimedBy = e.claimedBy
    BY <2>3 DEF ClaimsOf
  <2>5. Owes(T, t, w, e)
    <3>1. e.caller \in Thread
      BY <2>4 DEF Owes
    <3> QED BY <2>3, <2>4, <3>1 DEF Owes, ClaimsOf
  <2>6. Has(e) \/ (Eligible(e, t, w) /\ Delivered(e))
    BY <2>2, <2>4, <2>5, OwedResult
  <2>7. CASE Has(e)
    BY <2>4, <2>7 DEF Has, Delivered
  <2>8. CASE Eligible(e, t, w) /\ Delivered(e)
    <3>1. i \in current
      BY <1>3, <2>4, <2>5, <2>8 DEF EligibleIn, Owes
    <3>2. f.claimedBy = id
      BY <2>2, <2>4, <3>1
    <3> QED BY <2>4, <2>8, <3>2 DEF Has, Delivered
  <2> QED BY <2>6, <2>7, <2>8
<1> QED
  BY <1>2, <1>3

(* A checkpoint alone awaits nothing.                                      *)
LEMMA NothingOwed ==
    ASSUME NEW U, NEW t, NEW w, w.targets = {}
    PROVE  Answered(U, t, w)
BY DEF Answered, Owes

(* Marking what is selected marks nothing else.                            *)
LEMMA ClaimedClaims ==
    ASSUME NEW T, Good(T), NEW t \in Thread, NEW claims, NEW id \in Nat,
           NEW n, n.generation = T.members[t].generation
    PROVE  LET U == Put(Claimed(T, claims, id), t, n) IN
           /\ ClaimsOf(T, U, claims, id) /\ U.members[t] = n
           /\ \A u \in Thread \ {t} : U.members[u] = T.members[u]
<1> DEFINE f == [i \in Indices(T) |->
                   IF i \in claims THEN [T.effects[i] EXCEPT !.claimedBy = id] ELSE T.effects[i]]
           C == Claimed(T, claims, id)
           U == Put(C, t, n)
<1>1. T \in Tree /\ \A i \in Indices(T) : T.effects[i] \in Effect
  BY GoodEffects DEF Good
<1>2. Good(C) /\ C.members = T.members
  BY <1>1, ClaimedGood
<1>3. C.effects = f
  BY <1>1 DEF Claimed, Tree
<1> HIDE DEF C, f
<1>4. /\ U.members[t] = n /\ \A u \in Thread \ {t} : U.members[u] = T.members[u]
      /\ U.effects = f
  BY <1>2, <1>3, PutSelects DEF Good
<1>5. Indices(U) = Indices(T)
  <2>1. f \in [Indices(T) -> Effect]
    <3>1. \A i \in Indices(T) : f[i] \in Effect
      BY <1>1 DEF f, Effect
    <3> QED BY <3>1 DEF f
  <2> QED BY <1>1, <1>4, <2>1, GoodEffects DEF Indices
<1>6. ASSUME NEW i \in Indices(T)
      PROVE  LET e == T.effects[i] IN
             /\ f[i].kind = e.kind /\ f[i].target = e.target /\ f[i].caller = e.caller
             /\ f[i].callerGeneration = e.callerGeneration
             /\ f[i].state = e.state /\ f[i].consumed = e.consumed
             /\ i \in claims => f[i].claimedBy = id
             /\ i \notin claims => f[i].claimedBy = e.claimedBy
  <2> DEFINE e == T.effects[i]
  <2>1. e \in Effect
    BY <1>1
  <2>2. /\ i \in claims => f[i] = [e EXCEPT !.claimedBy = id]
        /\ i \notin claims => f[i] = e
    BY DEF f
  <2> HIDE DEF e
  <2> QED BY <2>1, <2>2 DEF Effect, e
<1> HIDE DEF U
<1>7. \A u \in Thread : U.members[u].generation = T.members[u].generation
  BY <1>4
<1>8. ClaimsOf(T, U, claims, id)
  BY <1>4, <1>5, <1>6, <1>7 DEF ClaimsOf
<1> QED
  BY <1>4, <1>8 DEF U, C

(* A thread whose wait alone changes returns alone.                        *)
OnlyOf(T, U, t) == \A u \in Thread \ {t} : U.members[u] = T.members[u]
LEMMA ReturnsAlone ==
    ASSUME NEW T, NEW U, NEW t \in Thread,
           OnlyOf(T, U, t),
           Returns(T.members[t].wait, U.members[t].wait) => Answered(U, t, U.members[t].wait)
    PROVE  Decides(T, U)
<1>1. \A u \in Thread \ {t} : ~Returns(T.members[u].wait, U.members[u].wait)
  BY DEF Returns, OnlyOf
<1> QED
  BY <1>1 DEF Decides

(* A wait that returns as it is registered has its results.                *)
LEMMA RegisterWaitDecides ==
    ASSUME NEW T, Sound(T), NEW t \in Thread, NEW targets \in SUBSET Thread,
           NEW all \in BOOLEAN, NEW timer \in {"none", "armed", "due"},
           NEW compact \in BOOLEAN, NEW standalone \in BOOLEAN
    PROVE  Decides(T, RegisterWait(T, t, targets, all, timer, compact, standalone))
<1> DEFINE m == T.members[t]
           c == IF compact THEN "registered" ELSE "none"
           w == [NoWait EXCEPT !.id = m.calls + 1, !.generation = m.generation, !.turn = m.turn,
                   !.targets = targets, !.all = all, !.standalone = standalone, !.timer = timer,
                   !.compact = c]
           chosen == Selected(T, t, w)
           now == ~compact /\ chosen.found
           state == IF now THEN "completed"
                    ELSE IF ~compact /\ timer = "due" THEN "timeout" ELSE "registered"
           claims == IF now THEN chosen.claims ELSE {}
           x == [w EXCEPT !.state = state]
           n == [m EXCEPT !.wait = x, !.calls = w.id]
           U == RegisterWait(T, t, targets, all, timer, compact, standalone)
<1>1. m \in Member /\ Good(T) /\ m.calls \in Nat
  BY FitParts, WaitTypes DEF Sound, Fit
<1>2. w.id = m.calls + 1 /\ w.all = all /\ w.targets = targets
  <2> HIDE DEF c, m
  <2> QED BY DEF NoWait
<1>3. x.id = m.calls + 1 /\ x.state = state /\ x.all = all /\ x.targets = targets
  <2> HIDE DEF state, c, m
  <2> QED BY DEF NoWait
<1>4. state = "completed" => now
  OBVIOUS
<1>5. state # "queued"
  OBVIOUS
<1>6. U = Put(Claimed(T, claims, w.id), t, n)
  BY DEF RegisterWait
<1>7. now => chosen.found /\ claims = chosen.claims
  OBVIOUS
<1> HIDE DEF w, state, claims, c, x, now
<1>8. n.wait = x /\ n.generation = m.generation
  BY <1>1 DEF Member
<1>9. w.id \in Nat \ {0}
  BY <1>1, <1>2
<1> HIDE DEF n, U
<1>10. /\ ClaimsOf(T, U, claims, w.id) /\ U.members[t] = n
       /\ \A u \in Thread \ {t} : U.members[u] = T.members[u]
  BY <1>1, <1>6, <1>8, <1>9, ClaimedClaims
<1>11. ASSUME Returns(m.wait, x)
       PROVE  Answered(U, t, x)
  <2>1. all /\ now
    BY <1>3, <1>4, <1>5, <1>11 DEF Returns
  <2>2. Selected(T, t, w).found /\ claims = Selected(T, t, w).claims /\ w.all
    BY <1>2, <1>7, <2>1
  <2>3. x.id = w.id /\ x.targets = w.targets /\ w.targets \subseteq Thread
    BY <1>2, <1>3
  <2>4. ClaimsOf(T, U, Selected(T, t, w).claims, w.id)
    BY <1>10, <2>2
  <2> QED BY <1>9, <2>2, <2>3, <2>4, SelectedAnswers
<1>12. Returns(T.members[t].wait, U.members[t].wait) => Answered(U, t, U.members[t].wait)
  BY <1>8, <1>10, <1>11
<1>13. Decides(T, U)
  <2>1. OnlyOf(T, U, t)
    BY <1>10 DEF OnlyOf
  <2> QED BY <1>12, <2>1, ReturnsAlone
<1> QED
  BY <1>13 DEF U

(* So has a stopped wait that wakes by what it selected.                   *)
LEMMA PrepareWakeDecides ==
    ASSUME NEW T, Sound(T), NEW t \in Thread
    PROVE  Decides(T, PrepareWake(T, t))
<1> DEFINE m == T.members[t]
           w == m.wait
           chosen == Selected(T, t, w)
           claims == IF w.standalone THEN {} ELSE chosen.claims
           n == [m EXCEPT !.wait.state = "queued"]
           U == PrepareWake(T, t)
<1>1. m \in Member /\ WaitsInOrder(m) /\ Good(T) /\ w.id \in Nat /\ w \in Wait
  BY FitParts, WaitTypes DEF Sound, Fit, Member
<1>2. U = T \/ (/\ U = Put(Claimed(T, claims, w.id), t, n) /\ w.state = "registered"
                /\ w.standalone \/ chosen.found \/ w.timer = "due")
  BY DEF PrepareWake
<1>3. ~w.standalone => claims = chosen.claims
  OBVIOUS
<1> HIDE DEF claims
<1>4. /\ n.generation = m.generation /\ n.wait.id = w.id /\ n.wait.targets = w.targets
      /\ n.wait.all = w.all /\ n.wait.timer = w.timer /\ n.wait.state = "queued"
  BY <1>1 DEF Member, Wait
<1> HIDE DEF n, U
<1>5. CASE U = T
  BY <1>5 DEF Decides, Returns, U
<1>6. CASE /\ U = Put(Claimed(T, claims, w.id), t, n) /\ w.state = "registered"
           /\ w.standalone \/ chosen.found \/ w.timer = "due"
  <2>1. /\ ClaimsOf(T, U, claims, w.id) /\ U.members[t] = n
        /\ \A u \in Thread \ {t} : U.members[u] = T.members[u]
    BY <1>1, <1>4, <1>6, ClaimedClaims
  <2>2. ASSUME Returns(w, n.wait)
        PROVE  Answered(U, t, n.wait)
    <3>1. w.all /\ w.timer # "due"
      BY <1>4, <2>2 DEF Returns
    <3>2. CASE w.standalone
      <4>1. n.wait.targets = {}
        BY <1>1, <1>4, <3>2 DEF WaitsInOrder
      <4> QED BY <4>1, NothingOwed
    <3>3. CASE ~w.standalone
      <4>1. Selected(T, t, w).found /\ claims = Selected(T, t, w).claims
        BY <1>3, <1>6, <3>1, <3>3
      <4>2. w.id \in Nat \ {0} /\ w.targets \subseteq Thread
        BY <1>1, <1>6 DEF WaitsInOrder, Wait
      <4>3. ClaimsOf(T, U, Selected(T, t, w).claims, w.id)
        BY <2>1, <4>1
      <4> QED BY <1>4, <3>1, <4>1, <4>2, <4>3, SelectedAnswers
    <3> QED BY <3>2, <3>3
  <2>3. Returns(T.members[t].wait, U.members[t].wait) => Answered(U, t, U.members[t].wait)
    BY <2>1, <2>2
  <2>4. Decides(T, U)
    <3>1. OnlyOf(T, U, t)
      BY <2>1 DEF OnlyOf
    <3> QED BY <2>3, <3>1, ReturnsAlone
  <2> QED BY <2>4 DEF U
<1> QED
  BY <1>2, <1>5, <1>6

(* Reading a notification returns no wait.                                 *)
LEMMA ConsumeDecides ==
    ASSUME NEW T, Good(T), NEW t \in Thread, NEW items
    PROVE  Decides(T, Consume(T, t, items))
<1> DEFINE U == Consume(T, t, items)
<1>1. U.members = T.members
  BY DEF Consume, Good, Tree
<1> HIDE DEF U
<1> QED
  BY <1>1 DEF Decides, Returns, U

-----------------------------------------------------------------------------
(* Steps that dispatch nothing.                                            *)

(* An aged intent follows the one it was.                                  *)
LEMMA AgedFollows ==
    ASSUME NEW e, NEW f, IntentAges(e, f)
    PROVE  Follows(e, f)
BY DEF IntentAges, Follows, SpentBy, Phased, Unsent, HostOwned

(* A member's wait that is spent stays spent.                              *)
LEMMA WaitSpent ==
    ASSUME NEW T, NEW U, NEW r \in Ref, NEW step, r.slot # "effect", Spent(T, r, step),
           MemberAges(T.members[r.thread], U.members[r.thread])
    PROVE  Spent(U, r, step)
<1> DEFINE m == T.members[r.thread]
           n == U.members[r.thread]
<1>1. r.id \in Nat
  BY DEF Ref
<1>2. ~Unseen(m, r.id) /\ ~Unseen(n, r.id)
  BY <1>1 DEF Spent, MemberAges
<1>3. CASE r.slot = "wake"
  <2>1. m.wait.id = r.id => m.wait.state \notin Unsent
    BY <1>3 DEF Spent
  <2>2. n.wait.id = r.id => n.wait.state \notin Unsent
    BY <1>2, <2>1 DEF MemberAges
  <2> QED BY <1>2, <1>3, <2>2 DEF Spent
<1>4. CASE r.slot = "compact"
  <2>1. m.wait.id = r.id => m.wait.compact \notin Unsent
    BY <1>4 DEF Spent
  <2>2. n.wait.id = r.id => n.wait.compact \notin Unsent
    BY <1>2, <2>1 DEF MemberAges
  <2> QED BY <1>2, <1>4, <2>2 DEF Spent
<1> QED
  BY <1>3, <1>4 DEF Ref

(* Members age and intents follow: nothing is sent, and order, checkpoints *)
(* and spent steps are kept.                                               *)
LEMMA FollowKeeps ==
    ASSUME NEW T, Sound(T), NEW U, Fit(U), Completes(T, U), Noted(U), NotedOnce(T, U),
           Decides(T, U),
           Len(T.effects) <= Len(U.effects),
           \A i \in Indices(T) : Follows(T.effects[i], U.effects[i]),
           \A i \in Indices(U) \ Indices(T) : NewIntent(U.effects[i]),
           \A t \in Thread : MemberAges(T.members[t], U.members[t])
    PROVE  Keeps(T, U) /\ Out(U) \subseteq Out(T)
<1>1. /\ Len(T.effects) \in Nat /\ Len(U.effects) \in Nat
      /\ Indices(T) = 1 .. Len(T.effects) /\ Indices(U) = 1 .. Len(U.effects)
      /\ \A i \in Indices(U) : U.effects[i].target \in Thread
  BY GoodEffects DEF Sound, Fit, Effect
<1>2. Indices(T) \subseteq Indices(U)
  BY <1>1
<1>3. \A i \in Indices(U) : U.effects[i].state \in HostOwned => i \in Indices(T)
  BY DEF NewIntent
<1>4. \A i \in Indices(U) : Phased(U.effects[i])
  BY DEF Sound, Follows, NewIntent
<1>5. InOrder(U)
  <2> SUFFICES ASSUME NEW i \in Indices(U), NEW j \in Indices(U), i < j,
                      U.effects[i].target = U.effects[j].target,
                      U.effects[i].kind \in Ordered, U.effects[j].kind \in Ordered,
                      U.effects[j].state = "dispatching",
                      U.effects[i].state \in {"pending"} \cup HostOwned
               PROVE  FALSE
    BY DEF InOrder
  <2>1. j \in Indices(T) /\ i \in Indices(T)
    BY <1>1, <1>3 DEF HostOwned
  <2>2. Follows(T.effects[i], U.effects[i]) /\ Follows(T.effects[j], U.effects[j])
    BY <2>1
  <2>3. U.effects[i].kind # "create"
    BY DEF Ordered
  <2> QED BY <2>1, <2>2, <2>3 DEF Sound, InOrder, Follows
<1>6. Alone(U)
  <2> SUFFICES ASSUME NEW t \in Thread, U.members[t].wait.compact \in HostOwned,
                      NEW i \in Indices(U), Addressed(U.effects[i], t),
                      U.effects[i].state = "dispatching"
               PROVE  U.effects[i].kind = "interrupt"
    BY DEF Alone
  <2>1. i \in Indices(T) /\ T.members[t].wait.compact \in HostOwned
    BY <1>3 DEF HostOwned, MemberAges
  <2>2. Follows(T.effects[i], U.effects[i])
    BY <2>1
  <2> QED BY <2>1, <2>2 DEF Sound, Alone, Follows, Addressed
<1>7. Stays(T, U)
  BY <1>2 DEF Stays, Follows
<1>8. SpentKept(T, U)
  <2> SUFFICES ASSUME NEW r \in Ref, NEW step, Spent(T, r, step)
               PROVE  Spent(U, r, step)
    BY DEF SpentKept
  <2>1. CASE r.slot = "effect"
    <3>1. r.id \in Indices(T) /\ SpentBy(T.effects[r.id], step)
      BY <2>1 DEF Spent
    <3>2. SpentBy(U.effects[r.id], step)
      BY <3>1 DEF Follows
    <3> QED BY <1>2, <2>1, <3>1, <3>2 DEF Spent
  <2>2. CASE r.slot # "effect"
    <3>1. r.thread \in Thread
      BY DEF Ref
    <3> QED BY <2>2, <3>1, WaitSpent
  <2> QED BY <2>1, <2>2
<1>9. Out(U) \subseteq Out(T)
  <2> SUFFICES ASSUME NEW r \in Out(U)
               PROVE  r \in Out(T)
    OBVIOUS
  <2>1. r \in Refs(U) /\ Known(U, r) /\ StateOf(U, r) = "dispatching"
    BY DEF Out
  <2>2. CASE \E i \in Indices(U) : r = EffectRef(U, i)
    <3>1. PICK i \in Indices(U) : r = EffectRef(U, i)
      BY <2>2
    <3>2. r.slot = "effect" /\ r.id = i
      BY <3>1 DEF EffectRef
    <3>3. U.effects[i].state = "dispatching"
      BY <2>1, <3>2 DEF StateOf
    <3>4. i \in Indices(T)
      BY <1>3, <3>3 DEF HostOwned
    <3>5. T.effects[i].state = "dispatching" /\ T.effects[i].target = U.effects[i].target
      BY <3>3, <3>4 DEF Follows
    <3>6. r = EffectRef(T, i)
      BY <3>1, <3>5 DEF EffectRef
    <3> QED BY <3>2, <3>4, <3>5, <3>6 DEF Out, Refs, Known, StateOf
  <2>3. CASE \E slot \in {"wake", "compact"}, t \in Thread :
               r = WaitRef(slot, t, U.members[t].wait)
    <3>1. PICK slot \in {"wake", "compact"}, t \in Thread :
            r = WaitRef(slot, t, U.members[t].wait)
      BY <2>3
    <3>2. r.slot = slot /\ r.thread = t /\ r.id = U.members[t].wait.id
      BY <3>1 DEF WaitRef
    <3> DEFINE v == T.members[t].wait
               w == U.members[t].wait
    <3>3. MemberAges(T.members[t], U.members[t])
      OBVIOUS
    <3>4. CASE slot = "wake"
      <4>1. w.state = "dispatching"
        BY <2>1, <3>2, <3>4 DEF StateOf
      <4>2. v.state = "dispatching" /\ w.id = v.id
        BY <3>3, <4>1 DEF MemberAges
      <4>3. r = WaitRef(slot, t, v)
        BY <3>1, <4>2 DEF WaitRef
      <4>4. Known(T, r) /\ StateOf(T, r) = "dispatching"
        BY <3>2, <3>4, <4>2 DEF Known, StateOf
      <4> QED BY <4>3, <4>4 DEF Out, Refs
    <3>5. CASE slot = "compact"
      <4>1. w.compact = "dispatching"
        BY <2>1, <3>2, <3>5 DEF StateOf
      <4>2. v.compact = "dispatching" /\ w.id = v.id
        BY <3>3, <4>1 DEF MemberAges, HostOwned
      <4>3. r = WaitRef(slot, t, v)
        BY <3>1, <4>2 DEF WaitRef
      <4>4. Known(T, r) /\ StateOf(T, r) = "dispatching"
        BY <3>2, <3>5, <4>2 DEF Known, StateOf
      <4> QED BY <4>3, <4>4 DEF Out, Refs
    <3> QED BY <3>4, <3>5
  <2> QED BY <2>1, <2>2, <2>3 DEF Refs
<1> QED
  BY <1>4, <1>5, <1>6, <1>7, <1>8, <1>9 DEF Keeps, Sound, Sends


(* What edits the notifications wakes no wait.                             *)
LEMMA NotesDecide ==
    ASSUME NEW T, NEW U, Notes(T, U)
    PROVE  Decides(T, U)
<1> SUFFICES ASSUME NEW t \in Thread, Returns(T.members[t].wait, U.members[t].wait)
             PROVE  FALSE
  BY DEF Decides
<1>1. Rests(T.members[t], U.members[t])
  BY DEF Notes
<1>2. U.members[t].wait.state = "queued" => T.members[t].wait.state = "queued"
  BY DEF Notes
<1> QED
  BY <1>1, <1>2 DEF Returns, Rests, Awake

(* An edit uses no notification, and frees only those of a canceled wake.  *)
LEMMA NotesOnce ==
    ASSUME NEW T, Noted(T), NEW U, Notes(T, U)
    PROVE  Noted(U) /\ NotedOnce(T, U)
<1>1. Noted(U)
  BY DEF Noted, Notes, NoteKept, NewNote
<1>2. ASSUME NEW i \in Indices(T)
      PROVE  /\ T.effects[i].consumed => U.effects[i].claimedBy = T.effects[i].claimedBy
             /\ T.effects[i].claimedBy # 0 => U.effects[i].consumed = T.effects[i].consumed
             /\ T.effects[i].claimedBy # 0 /\ U.effects[i].claimedBy # T.effects[i].claimedBy =>
                  /\ U.effects[i].claimedBy = 0
                  /\ T.members[T.effects[i].target].wait.id = T.effects[i].claimedBy
                  /\ T.members[T.effects[i].target].wait.state = "queued"
  BY DEF Noted, Notes, NoteKept
<1> QED
  BY <1>1, <1>2 DEF NotedOnce

(* Claiming free notifications and consuming unclaimed ones uses each once. *)
LEMMA MarksOnce ==
    ASSUME NEW T, Noted(T), NEW U, Marks(T, U)
    PROVE  Noted(U) /\ NotedOnce(T, U)
<1>1. ASSUME NEW i \in Indices(T)
      PROVE  /\ ~(U.effects[i].consumed /\ U.effects[i].claimedBy # 0)
             /\ T.effects[i].consumed => U.effects[i].claimedBy = T.effects[i].claimedBy
             /\ T.effects[i].claimedBy # 0 => U.effects[i].consumed = T.effects[i].consumed
             /\ T.effects[i].claimedBy # 0 => U.effects[i].claimedBy = T.effects[i].claimedBy
  BY DEF Noted, Marks
<1> QED
  BY <1>1 DEF NotedOnce, Noted, Marks

(* An edit, of which at most the completions are exempt, keeps everything. *)
LEMMA EditKeeps ==
    ASSUME NEW T, Sound(T), NEW U, Fit(U), NEW Y, Edits(T, U, {}, Y), Completes(T, U)
    PROVE  Keeping(T, U) /\ Out(U) \subseteq Out(T)
<1>1. \A i \in Indices(T) : /\ IntentAges(T.effects[i], U.effects[i])
                            /\ CreationKept(T.effects[i], U.effects[i])
                            /\ Follows(T.effects[i], U.effects[i])
  BY AgedFollows DEF Edits, Ages
<1>2. Noted(U) /\ NotedOnce(T, U) /\ Decides(T, U)
  BY NotesOnce, NotesDecide DEF Edits, Sound
<1> QED
  BY <1>1, <1>2, FollowKeeps DEF Edits, Ages, CreationsKept, CreationKept, IntentAges, Keeping

(* The same of an edit that completes nothing.                             *)
LEMMA PlainKeeps ==
    ASSUME NEW T, Sound(T), NEW U, Fit(U), Edits(T, U, {}, {})
    PROVE  Keeping(T, U) /\ Out(U) \subseteq Out(T)
BY EditKeeps, EditsComplete DEF Edits

(* A tree that is left alone.                                              *)
LEMMA SameKeeps ==
    ASSUME NEW T, Sound(T)
    PROVE  Keeping(T, T)
BY NoEdit, PlainKeeps DEF Sound, Fit

(* Claims and consumption of notifications keep everything.                *)
LEMMA MarkKeeps ==
    ASSUME NEW T, Sound(T), NEW U, Fit(U), Ages(T, U, {}, {}), Marks(T, U), Decides(T, U)
    PROVE  Keeps(T, U) /\ CreationsKept(T, U, {})
<1>1. \A i \in Indices(T) : /\ IntentAges(T.effects[i], U.effects[i])
                            /\ CreationKept(T.effects[i], U.effects[i])
                            /\ Follows(T.effects[i], U.effects[i])
  BY AgedFollows DEF Ages
<1>2. Noted(U) /\ NotedOnce(T, U) /\ Completes(T, U)
  BY MarksOnce, EditsComplete DEF Sound
<1> QED
  BY <1>1, <1>2, FollowKeeps DEF Ages, CreationsKept, CreationKept, IntentAges

(* So does a pause, which leaves what was out uncertain.                   *)
LEMMA PauseKeeps ==
    ASSUME NEW T, Sound(T), NEW S \in SUBSET Thread
    PROVE  LET U == PauseAll(T, S) IN
           Keeps(T, U) /\ \A i \in Indices(T) : IntentAges(T.effects[i], U.effects[i])
<1> DEFINE U == PauseAll(T, S)
<1>1. /\ Fit(U) /\ Edits(T, U, Creating(T), {}) /\ Indices(U) = Indices(T)
      /\ \A i \in Indices(T) : IntentAges(T.effects[i], U.effects[i])
  BY PauseAllEdits DEF Sound
<1> HIDE DEF U
<1>2. Noted(U) /\ NotedOnce(T, U) /\ Completes(T, U) /\ Decides(T, U)
  BY <1>1, NotesOnce, NotesDecide, EditsComplete DEF Edits, Sound
<1>3. \A i \in Indices(T) : Follows(T.effects[i], U.effects[i])
  BY <1>1, AgedFollows
<1>4. Keeps(T, U)
  BY <1>1, <1>2, <1>3, FollowKeeps DEF Edits, Ages
<1> QED
  BY <1>1, <1>4 DEF U

-----------------------------------------------------------------------------
(* An intent that is settled.                                              *)

(* An intent the host owned is settled, held for reconciliation, or, a     *)
(* creation, moves to its next step.                                       *)
Acked(e, f) ==
    /\ f.kind = e.kind /\ f.target = e.target /\ e.state \in HostOwned /\ f.state # "dispatching"
    /\ Phased(e) => Phased(f)
    /\ f.kind # "create" => f.state \notin Unsent
    /\ f.kind = "create" =>
         \/ f.phase = e.phase /\ f.state \notin Unsent
         \/ Passed(f.phase) = Passed(e.phase) \cup {e.phase}

(* A settled intent follows the one it was.                                *)
LEMMA AckedFollows ==
    ASSUME NEW e, NEW f, Acked(e, f)
    PROVE  Follows(e, f)
<1>1. ASSUME NEW step, SpentBy(e, step)
      PROVE  SpentBy(f, step)
  <2>1. CASE f.kind = "create"
    BY <1>1, <2>1 DEF Acked, SpentBy
  <2>2. CASE f.kind # "create"
    BY <1>1, <2>2 DEF Acked, SpentBy
  <2> QED BY <2>1, <2>2
<1> QED
  BY <1>1 DEF Acked, Follows

(* An edit but for the intent of X that is settled keeps everything.       *)
LEMMA AckKeeps ==
    ASSUME NEW T, Sound(T), NEW U, Fit(U), NEW i \in Indices(T), Edits(T, U, {i}, {}),
           Acked(T.effects[i], U.effects[i])
    PROVE  Keeps(T, U) /\ CreationsKept(T, U, {i})
<1>1. \A j \in Indices(T) \ {i} :
        /\ IntentAges(T.effects[j], U.effects[j]) /\ CreationKept(T.effects[j], U.effects[j])
        /\ Follows(T.effects[j], U.effects[j])
  BY AgedFollows DEF Edits, Ages
<1>2. \A j \in Indices(T) : Follows(T.effects[j], U.effects[j])
  BY <1>1, AckedFollows
<1>3. Noted(U) /\ NotedOnce(T, U) /\ Completes(T, U) /\ Decides(T, U)
  BY NotesOnce, NotesDecide, EditsComplete DEF Edits, Sound
<1>4. \A j \in Indices(U) \ Indices(T) : NewIntent(U.effects[j])
  BY DEF Edits, Ages
<1>5. Keeps(T, U)
  BY <1>2, <1>3, <1>4, FollowKeeps DEF Edits, Ages
<1> QED
  BY <1>1, <1>5 DEF CreationsKept, CreationKept, IntentAges


-----------------------------------------------------------------------------
(* An intent that goes out (claimEffect).                                  *)

(* From T to U the intent r goes out, and nothing else happens.            *)
Launch(T, U, r) ==
    /\ StateOf(T, r) \in {"pending", "queued"} /\ StateOf(U, r) = "dispatching"
    /\ Indices(U) = Indices(T)
    /\ \A t \in Thread \ {r.thread} : U.members[t] = T.members[t]
    /\ \A i \in Indices(T) : (r.slot = "effect" /\ r.id = i) \/ U.effects[i] = T.effects[i]
    /\ r.slot = "effect" =>
         LET e == T.effects[r.id]
             f == U.effects[r.id]
         IN  /\ U.members[r.thread] = T.members[r.thread]
             /\ f.kind = e.kind /\ f.target = e.target /\ f.phase = e.phase
             /\ f.consumed = e.consumed /\ f.claimedBy = e.claimedBy
    /\ r.slot # "effect" =>
         LET m == T.members[r.thread]
             n == U.members[r.thread]
         IN  /\ SameWaits([m EXCEPT !.wait = n.wait], n) /\ n.status = m.status
             /\ n.wait.id = m.wait.id /\ SameTargets(m, n)
             /\ r.slot = "wake" => n.wait.compact = m.wait.compact
             /\ r.slot = "compact" => n.wait.state = m.wait.state

(* The reference names its effect as Tree.Effect finds it.                 *)
Aims(T, r) == r \in Ref /\ Known(T, r) /\ (r.slot = "effect" => r.thread = T.effects[r.id].target)

(* What launching leaves of the members' waits.                            *)
LEMMA LaunchWaits ==
    ASSUME NEW T, Fit(T), NEW U, Good(U), NEW r, Aims(T, r), Launch(T, U, r), NEW t \in Thread
    PROVE  LET m == T.members[t]
               n == U.members[t]
           IN  /\ n.wait.id = m.wait.id /\ n.recoveryWait = m.recoveryWait /\ n.calls = m.calls
               /\ n.status = m.status /\ WaitsInOrder(n)
               /\ n.wait.state = m.wait.state \/ (r.slot = "wake" /\ r.thread = t)
               /\ n.wait.compact = m.wait.compact \/ (r.slot = "compact" /\ r.thread = t)
<1> DEFINE m == T.members[t]
           n == U.members[t]
<1>1. m \in Member /\ n \in Member /\ WaitsInOrder(m) /\ r \in Ref
  BY FitParts, GoodParts DEF Aims
<1>2. CASE r.thread = t /\ r.slot # "effect"
  <2>1. /\ SameWaits([m EXCEPT !.wait = n.wait], n) /\ n.status = m.status
        /\ n.wait.id = m.wait.id /\ SameTargets(m, n)
        /\ r.slot = "wake" => n.wait.compact = m.wait.compact
        /\ r.slot = "compact" => n.wait.state = m.wait.state
    BY <1>2 DEF Launch
  <2>2. n.recoveryWait = m.recoveryWait /\ n.calls = m.calls
    <3> HIDE DEF m, n
    <3> QED BY <1>1, <2>1 DEF SameWaits, SameTargets, Member
  <2>3. r.slot = "wake" => n.wait.state = "dispatching"
    BY <1>2 DEF Launch, StateOf
  <2>4. r.slot \in {"wake", "compact"}
    BY <1>1, <1>2 DEF Ref
  <2> QED
    BY <1>1, <1>2, <2>1, <2>2, <2>3, <2>4 DEF SameTargets, WaitsInOrder, Dispatched, HostOwned
<1>3. CASE ~(r.thread = t /\ r.slot # "effect")
  <2>1. n = m
    BY <1>3 DEF Launch
  <2> QED BY <1>1, <2>1
<1> QED
  BY <1>2, <1>3

(* What goes out had not: the launched intent is not spent, and no other   *)
(* intent goes out.                                                        *)
LEMMA LaunchSends ==
    ASSUME NEW T, Fit(T), NEW U, Good(U), NEW r, Aims(T, r), Launch(T, U, r)
    PROVE  Sends(T, U) /\ SpentKept(T, U)
<1>1. r \in Ref /\ r.thread \in Thread /\ r.slot \in {"effect", "wake", "compact"} /\ r.id \in Nat
  BY DEF Aims, Ref
<1>2. ASSUME NEW s \in Out(U) \ Out(T)
      PROVE  s = r
  <2>1. s \in Refs(U) /\ Known(U, s) /\ StateOf(U, s) = "dispatching"
    BY DEF Out
  <2>2. CASE \E i \in Indices(U) : s = EffectRef(U, i)
    <3>1. PICK i \in Indices(U) : s = EffectRef(U, i)
      BY <2>2
    <3>2. s.slot = "effect" /\ s.id = i /\ s.thread = U.effects[i].target /\ i \in Indices(T)
      BY <3>1 DEF EffectRef, Launch
    <3>3. CASE U.effects[i] = T.effects[i]
      <4>1. s = EffectRef(T, i) /\ Known(T, s) /\ StateOf(T, s) = "dispatching"
        BY <2>1, <3>1, <3>2, <3>3 DEF EffectRef, Known, StateOf
      <4> QED BY <3>2, <4>1 DEF Out, Refs
    <3>4. CASE r.slot = "effect" /\ r.id = i
      <4>1. r.thread = s.thread
        BY <3>2, <3>4 DEF Aims, Launch
      <4> QED BY <1>1, <3>1, <3>2, <3>4, <4>1 DEF EffectRef, Ref
    <3> QED BY <3>2, <3>3, <3>4 DEF Launch
  <2>3. CASE \E slot \in {"wake", "compact"}, t \in Thread :
               s = WaitRef(slot, t, U.members[t].wait)
    <3>1. PICK slot \in {"wake", "compact"}, t \in Thread :
            s = WaitRef(slot, t, U.members[t].wait)
      BY <2>3
    <3>2. s.slot = slot /\ s.thread = t /\ s.id = U.members[t].wait.id
      BY <3>1 DEF WaitRef
    <3> DEFINE v == T.members[t].wait
               w == U.members[t].wait
    <3>3. /\ w.id = v.id
          /\ w.state = v.state \/ (r.slot = "wake" /\ r.thread = t)
          /\ w.compact = v.compact \/ (r.slot = "compact" /\ r.thread = t)
      BY LaunchWaits
    <3>4. CASE r.slot = slot /\ r.thread = t
      <4>1. r.id = v.id
        BY <1>1, <3>4 DEF Aims, Known
      <4> QED BY <1>1, <3>1, <3>2, <3>3, <3>4, <4>1 DEF WaitRef, Ref
    <3>5. CASE ~(r.slot = slot /\ r.thread = t)
      <4>1. slot = "wake" => w.state = v.state
        BY <3>3, <3>5
      <4>2. slot = "compact" => w.compact = v.compact
        BY <3>3, <3>5
      <4>3. s = WaitRef(slot, t, v) /\ Known(T, s) /\ StateOf(T, s) = "dispatching"
        BY <2>1, <3>1, <3>2, <3>3, <4>1, <4>2 DEF WaitRef, Known, StateOf
      <4> QED BY <4>3 DEF Out, Refs
    <3> QED BY <3>4, <3>5
  <2> QED BY <2>1, <2>2, <2>3 DEF Refs
<1>3. ~Spent(T, r, StepOf(U, r))
  <2>1. CASE r.slot = "effect"
    <3> DEFINE e == T.effects[r.id]
    <3>1. e \in Effect /\ r.id \in Indices(T)
      BY <2>1, GoodEffects DEF Aims, Known, Fit
    <3>2. StepOf(U, r) = Step(e) /\ e.state \in {"pending", "queued"}
      BY <2>1 DEF StepOf, Step, Launch, StateOf
    <3>3. e.phase \notin Passed(e.phase)
      BY DEF Passed
    <3>4. ~SpentBy(e, Step(e))
      BY <3>2, <3>3 DEF SpentBy, Step, Unsent
    <3> QED BY <2>1, <3>2, <3>4 DEF Spent
  <2>2. CASE r.slot = "wake"
    BY <2>2 DEF Spent, Launch, StateOf, Aims, Known, Unsent
  <2>3. CASE r.slot = "compact"
    BY <2>3 DEF Spent, Launch, StateOf, Aims, Known, Unsent
  <2> QED BY <1>1, <2>1, <2>2, <2>3
<1>4. Sends(T, U)
  BY <1>2, <1>3 DEF Sends
<1>5. ASSUME NEW s \in Ref, NEW step, Spent(T, s, step)
      PROVE  Spent(U, s, step)
  <2>1. CASE s.slot = "effect"
    <3>1. s.id \in Indices(T) /\ s.id \in Indices(U) /\ SpentBy(T.effects[s.id], step)
      BY <1>5, <2>1 DEF Spent, Launch
    <3>2. U.effects[s.id] = T.effects[s.id] \/ (r.slot = "effect" /\ r.id = s.id)
      BY <3>1 DEF Launch
    <3>3. CASE r.slot = "effect" /\ r.id = s.id
      <4>1. /\ U.effects[s.id].kind = T.effects[s.id].kind
            /\ U.effects[s.id].phase = T.effects[s.id].phase
            /\ U.effects[s.id].state = "dispatching"
        BY <3>3 DEF Launch, StateOf
      <4>2. SpentBy(U.effects[s.id], step)
        BY <3>1, <4>1 DEF SpentBy, Unsent
      <4> QED BY <2>1, <3>1, <4>2 DEF Spent
    <3> QED BY <2>1, <3>1, <3>2, <3>3 DEF Spent
  <2>2. CASE s.slot # "effect"
    <3> DEFINE m == T.members[s.thread]
               n == U.members[s.thread]
    <3>1. s.thread \in Thread /\ s.slot \in {"wake", "compact"}
      BY <2>2 DEF Ref
    <3>2. /\ n.wait.id = m.wait.id /\ n.recoveryWait = m.recoveryWait /\ n.calls = m.calls
          /\ n.wait.state = m.wait.state \/ (r.slot = "wake" /\ r.thread = s.thread)
          /\ n.wait.compact = m.wait.compact \/ (r.slot = "compact" /\ r.thread = s.thread)
      BY <3>1, LaunchWaits
    <3>3. /\ n.wait.state = m.wait.state \/ n.wait.state = "dispatching"
          /\ n.wait.compact = m.wait.compact \/ n.wait.compact = "dispatching"
      BY <3>2 DEF Launch, StateOf
    <3>4. ~Unseen(n, s.id)
      BY <1>5, <2>2, <3>1, <3>2 DEF Spent, Unseen
    <3>5. s.slot = "wake" /\ n.wait.id = s.id => n.wait.state \notin Unsent
      BY <1>5, <3>2, <3>3 DEF Spent, Unsent
    <3>6. s.slot = "compact" /\ n.wait.id = s.id => n.wait.compact \notin Unsent
      BY <1>5, <3>2, <3>3 DEF Spent, Unsent
    <3> QED BY <3>1, <3>4, <3>5, <3>6 DEF Spent
  <2> QED BY <2>1, <2>2
<1> QED
  BY <1>4, <1>5 DEF SpentKept


(* What is not blocked goes out in order, and not beside a checkpoint.     *)
LEMMA LaunchKeeps ==
    ASSUME NEW T, Sound(T), NEW U, Good(U), NEW r, Aims(T, r), ~Blocked(T, r), Launch(T, U, r)
    PROVE  Keeping(T, U)
<1>1. /\ Fit(T) /\ Good(T) /\ r \in Ref /\ r.thread \in Thread
      /\ r.slot \in {"effect", "wake", "compact"}
  BY DEF Aims, Ref, Sound, Fit
<1>2. ASSUME NEW t \in Thread
      PROVE  LET m == T.members[t]
                 n == U.members[t]
             IN  /\ n.status = m.status /\ WaitsInOrder(n) /\ n.wait.id = m.wait.id
                 /\ n.wait.compact = m.wait.compact \/ (r.slot = "compact" /\ r.thread = t)
  BY <1>1, LaunchWaits
<1>3. Fit(U)
  BY <1>2 DEF Fit
<1>4. ASSUME NEW i \in Indices(T)
      PROVE  LET e == T.effects[i]
                 f == U.effects[i]
             IN  /\ f.kind = e.kind /\ f.target = e.target /\ f.phase = e.phase
                 /\ f.consumed = e.consumed /\ f.claimedBy = e.claimedBy
                 /\ f.state = e.state \/ (r.slot = "effect" /\ r.id = i)
  BY DEF Launch
<1>5. Indices(U) = Indices(T) /\ Indices(T) = 1 .. Len(T.effects) /\ Len(T.effects) \in Nat
  BY <1>1, GoodEffects DEF Launch
<1>6. ASSUME NEW j \in Indices(T), Contends(T, r, j), HoldsBack(T, r, j)
      PROVE  CreatesThread(T, r)
  BY <1>6 DEF Blocked
<1>7. InOrder(U)
  <2> SUFFICES ASSUME NEW i \in Indices(U), NEW j \in Indices(U), i < j,
                      U.effects[i].target = U.effects[j].target,
                      U.effects[i].kind \in Ordered, U.effects[j].kind \in Ordered,
                      U.effects[j].state = "dispatching",
                      U.effects[i].state \in {"pending"} \cup HostOwned
               PROVE  FALSE
    BY DEF InOrder
  <2> DEFINE e == T.effects[i]
             f == T.effects[j]
  <2>1. /\ i \in Indices(T) /\ j \in Indices(T) /\ e.target = f.target
        /\ e.kind \in Ordered /\ f.kind \in Ordered /\ i \in Nat /\ j \in Nat
    BY <1>4, <1>5
  <2>2. e.kind # "create" /\ f.kind # "create" /\ e.phase = "none" /\ f.phase = "none"
    BY <2>1 DEF Ordered, Sound, Phased
  <2>3. CASE r.slot = "effect" /\ r.id = j
    <3>1. U.effects[i] = e /\ r.thread = f.target /\ KindOf(T, r) = f.kind /\ ~CreatesThread(T, r)
      BY <2>1, <2>2, <2>3 DEF Launch, Aims, KindOf, CreatesThread, StepOf, Step
    <3>2. Contends(T, r, i)
      BY <2>1, <2>2, <2>3, <3>1 DEF Contends, Addressed, Ordered
    <3>3. HoldsBack(T, r, i)
      BY <2>1, <2>3, <3>1 DEF HoldsBack
    <3> QED BY <1>6, <2>1, <3>1, <3>2, <3>3
  <2>4. CASE r.slot = "effect" /\ r.id = i
    <3>1. U.effects[j] = f /\ r.thread = e.target /\ KindOf(T, r) = e.kind /\ ~CreatesThread(T, r)
      BY <2>1, <2>2, <2>4 DEF Launch, Aims, KindOf, CreatesThread, StepOf, Step
    <3>2. Contends(T, r, j)
      BY <2>1, <2>2, <2>4, <3>1 DEF Contends, Addressed, Ordered
    <3>3. HoldsBack(T, r, j)
      BY <3>1 DEF HoldsBack, HostOwned
    <3> QED BY <1>6, <2>1, <3>1, <3>2, <3>3
  <2>5. CASE ~(r.slot = "effect" /\ r.id \in {i, j})
    <3>1. U.effects[i] = e /\ U.effects[j] = f
      BY <2>1, <2>5 DEF Launch
    <3> QED BY <2>1, <3>1 DEF Sound, InOrder
  <2> QED BY <2>3, <2>4, <2>5
<1>8. Alone(U)
  <2> SUFFICES ASSUME NEW t \in Thread, U.members[t].wait.compact \in HostOwned,
                      NEW i \in Indices(U), Addressed(U.effects[i], t),
                      U.effects[i].state = "dispatching", U.effects[i].kind # "interrupt"
               PROVE  FALSE
    BY DEF Alone
  <2> DEFINE e == T.effects[i]
             m == T.members[t]
  <2>1. /\ i \in Indices(T) /\ e.kind = U.effects[i].kind /\ Addressed(e, t)
        /\ e.state = "dispatching" \/ (r.slot = "effect" /\ r.id = i)
        /\ m.wait.compact \in HostOwned \/ (r.slot = "compact" /\ r.thread = t)
    BY <1>2, <1>4, <1>5 DEF Addressed
  <2>2. CASE r.slot = "effect" /\ r.id = i
    <3>1. r.thread = t /\ m.wait.compact \in HostOwned
      BY <2>1, <2>2 DEF Aims, Addressed
    <3>2. KindOf(T, r) = e.kind /\ ~CreatesThread(T, r)
      BY <2>1, <2>2 DEF KindOf, CreatesThread, StepOf, Step, Addressed
    <3>3. e.kind # "compact"
      <4>1. e \in Effect
        BY <1>1, <2>1, GoodEffects
      <4> QED BY <4>1 DEF Effect, EffectKind
    <3>4. CompactionPending(m.wait)
      BY <3>1 DEF CompactionPending
    <3> QED BY <2>1, <3>1, <3>2, <3>3, <3>4 DEF Blocked
  <2>3. CASE r.slot = "compact" /\ r.thread = t
    <3>1. e.state = "dispatching" /\ KindOf(T, r) = "compact" /\ ~CreatesThread(T, r)
      BY <2>1, <2>3 DEF KindOf, CreatesThread, StepOf
    <3>2. Contends(T, r, i) /\ HoldsBack(T, r, i)
      BY <2>1, <2>3, <3>1 DEF Contends, HoldsBack, HostOwned
    <3> QED BY <1>6, <2>1, <3>1, <3>2
  <2>4. CASE ~(r.slot = "effect" /\ r.id = i) /\ ~(r.slot = "compact" /\ r.thread = t)
    BY <2>1, <2>4 DEF Sound, Alone
  <2> QED BY <2>2, <2>3, <2>4
<1>9. Noted(U) /\ \A i \in Indices(U) : Phased(U.effects[i])
  <2>1. ASSUME NEW i \in Indices(T)
        PROVE  U.effects[i].state = T.effects[i].state \/ U.effects[i].state = "dispatching"
    BY <1>4 DEF Launch, StateOf
  <2> QED BY <1>4, <1>5, <2>1 DEF Sound, Noted, Phased, Candid, HostOwned
<1>10. NotedOnce(T, U) /\ Stays(T, U)
  BY <1>4, <1>5 DEF NotedOnce, Stays
<1>11. Completes(T, U)
  BY <1>2 DEF Completes
<1>12. CreationsKept(T, U, {})
  <2>1. \A i \in Indices(T) : T.effects[i].state = "dispatching" =>
           U.effects[i].state = "dispatching"
    BY <1>4 DEF Launch, StateOf
  <2> QED BY <1>4, <2>1 DEF CreationsKept
<1>13. Sends(T, U) /\ SpentKept(T, U)
  BY <1>1, LaunchSends
<1>14. Notes(T, U)
  <2>1. ASSUME NEW t \in Thread, U.members[t].wait.state = "queued"
        PROVE  T.members[t].wait.state = "queued" /\ U.members[t].wait.id = T.members[t].wait.id
    <3>1. /\ U.members[t].wait.id = T.members[t].wait.id
          /\ U.members[t].wait.state = T.members[t].wait.state \/ (r.slot = "wake" /\ r.thread = t)
      BY <1>1, LaunchWaits
    <3> QED BY <2>1, <3>1 DEF Launch, StateOf
  <2>2. ASSUME NEW t \in Thread
        PROVE  Rests(T.members[t], U.members[t])
    <3>1. /\ U.members[t].wait.id = T.members[t].wait.id
          /\ U.members[t].wait.state = T.members[t].wait.state \/ (r.slot = "wake" /\ r.thread = t)
      BY <1>1, LaunchWaits
    <3>2. r.slot = "wake" /\ r.thread = t => T.members[t].wait.state \in {"pending", "queued"}
      BY DEF Launch, StateOf
    <3> QED BY <3>1, <3>2 DEF Rests, Awake
  <2> QED BY <1>4, <1>5, <2>1, <2>2 DEF Notes, NoteKept
<1>15. Decides(T, U)
  BY <1>14, NotesDecide
<1> QED
  BY <1>3, <1>7, <1>8, <1>9, <1>10, <1>11, <1>12, <1>13, <1>14, <1>15 DEF Keeps, Sound, Keeping

(* What Dispatch does to the intent it is given.                           *)
LEMMA DispatchLaunch ==
    ASSUME NEW T, Good(T), NEW r, Aims(T, r), StateOf(T, r) \in {"pending", "queued"}
    PROVE  Good(Dispatch(T, r)) /\ Launch(T, Dispatch(T, r), r)
<1> DEFINE t == r.thread
           m == T.members[t]
           D == WithState(T, r, "dispatching")
           turn == IF KindOf(T, r) = "human" /\ ~m.hostRunning THEN 0 ELSE m.turn
           U == Dispatch(T, r)
<1>1. /\ r \in Ref /\ t \in Thread /\ r.slot \in {"effect", "wake", "compact"} /\ Known(T, r)
      /\ m \in Member /\ T \in Tree /\ Good(U)
  BY GoodParts, DispatchGood DEF Aims, Ref, Good
<1>2. CASE r.slot = "effect"
  <2> DEFINE e == T.effects[r.id]
             d == SetState(e, "dispatching")
             f == [d EXCEPT !.turn = turn]
  <2>1. r.id \in Indices(T) /\ e \in Effect
    BY <1>1, <1>2, GoodEffects DEF Known
  <2>2. SameWork(e, d)
    BY <2>1, EditEffect DEF IntentState, HostOwned
  <2>3. D = PutEffect(T, r.id, d)
    BY <1>2 DEF WithState
  <2>4. /\ Good(D) /\ D.members = T.members /\ Indices(D) = Indices(T) /\ D.effects[r.id] = d
        /\ \A i \in Indices(T) \ {r.id} : D.effects[i] = T.effects[i]
    <3> HIDE DEF d, D
    <3> QED BY <1>1, <2>1, <2>2, <2>3, PutEffectGood, PutEffectSelects
  <2>5. turn \in Nat
    BY <1>1 DEF Member
  <2>6. /\ d.kind = e.kind /\ d.target = e.target /\ d.phase = e.phase /\ d.state = "dispatching"
        /\ d.consumed = e.consumed /\ d.claimedBy = e.claimedBy
    <3> HIDE DEF e
    <3> QED BY <2>1 DEF SetState, Effect
  <2>7. /\ f.kind = e.kind /\ f.target = e.target /\ f.phase = e.phase /\ f.state = "dispatching"
        /\ f.consumed = e.consumed /\ f.claimedBy = e.claimedBy /\ SameWork(d, f)
    <3>1. d \in Effect
      BY <2>2 DEF SameWork
    <3> HIDE DEF d, turn
    <3> QED BY <2>5, <2>6, <3>1 DEF Effect, SameWork
  <2>8. U = D \/ U = PutEffect(D, r.id, f)
    BY <1>2, <2>4 DEF Dispatch
  <2> HIDE DEF D, U, f
  <2>9. /\ U.members = T.members /\ Indices(U) = Indices(T)
        /\ U.effects[r.id] = d \/ U.effects[r.id] = f
        /\ \A i \in Indices(T) \ {r.id} : U.effects[i] = T.effects[i]
    <3>1. CASE U = D
      BY <2>4, <3>1
    <3>2. CASE U = PutEffect(D, r.id, f)
      <4>1. D \in Tree /\ r.id \in Indices(D) /\ SameWork(D.effects[r.id], f)
        BY <2>1, <2>4, <2>7 DEF Good
      <4> QED BY <2>4, <3>2, <4>1, PutEffectGood, PutEffectSelects
    <3> QED BY <2>8, <3>1, <3>2
  <2> HIDE DEF d
  <2>10. StateOf(U, r) = "dispatching"
    BY <1>2, <2>6, <2>7, <2>9 DEF StateOf
  <2>11. Launch(T, U, r)
    BY <1>2, <2>6, <2>7, <2>9, <2>10 DEF Launch
  <2> QED BY <1>1, <2>11 DEF U
<1>3. CASE r.slot = "wake"
  <2> DEFINE d == [m EXCEPT !.wait.state = "dispatching"]
             n == [d EXCEPT !.wait.turn = turn]
  <2>1. D = Put(T, t, d) /\ D.members[t] = d /\ D.effects = T.effects
        /\ \A u \in Thread \ {t} : D.members[u] = T.members[u]
    BY <1>1, <1>3, PutSelects DEF WithState
  <2>2. U = Put(D, t, n)
    BY <1>3, <2>1 DEF Dispatch, CreatesThread, StepOf
  <2>3. Good(D)
    BY <1>1, WithStateGood DEF IntentState, HostOwned
  <2>4. /\ n.wait.state = "dispatching" /\ n.wait.id = m.wait.id /\ n.wait.compact = m.wait.compact
        /\ n.status = m.status /\ n.recoveryWait = m.recoveryWait /\ n.calls = m.calls
        /\ SameTargets(m, n)
    <3> HIDE DEF m, turn
    <3> QED BY <1>1 DEF Member, Wait, SameTargets
  <2> HIDE DEF n, D, U
  <2>5. /\ U.members[t] = n /\ U.effects = T.effects
        /\ \A u \in Thread \ {t} : U.members[u] = T.members[u]
    BY <1>1, <2>1, <2>2, <2>3, PutSelects DEF Good
  <2>6. SameWaits([m EXCEPT !.wait = n.wait], n)
    <3> HIDE DEF m
    <3> QED BY <1>1, <2>4 DEF SameWaits, SameTargets, Member
  <2>7. Launch(T, U, r)
    BY <1>1, <1>3, <2>4, <2>5, <2>6 DEF Launch, StateOf, Indices
  <2> QED BY <1>1, <2>7 DEF U
<1>4. CASE r.slot = "compact"
  <2> DEFINE n == [m EXCEPT !.wait.compact = "dispatching"]
  <2>1. U = Put(T, t, n) /\ U.members[t] = n /\ U.effects = T.effects
        /\ \A u \in Thread \ {t} : U.members[u] = T.members[u]
    BY <1>1, <1>4, PutSelects DEF WithState, Dispatch
  <2>2. /\ n.wait.compact = "dispatching" /\ n.wait.id = m.wait.id /\ n.wait.state = m.wait.state
        /\ n.status = m.status /\ n.recoveryWait = m.recoveryWait /\ n.calls = m.calls
        /\ SameTargets(m, n)
    <3> HIDE DEF m
    <3> QED BY <1>1 DEF Member, Wait, SameTargets
  <2> HIDE DEF n, U
  <2>3. SameWaits([m EXCEPT !.wait = n.wait], n)
    <3> HIDE DEF m
    <3> QED BY <1>1, <2>2 DEF SameWaits, SameTargets, Member
  <2>4. Launch(T, U, r)
    BY <1>1, <1>4, <2>1, <2>2, <2>3 DEF Launch, StateOf, Indices
  <2> QED BY <1>1, <2>4 DEF U
<1> QED
  BY <1>1, <1>2, <1>3, <1>4


(* One intent is edited, or is the one an edit exempts.                    *)
LEMMA PutEffectEdits ==
    ASSUME NEW T, Fit(T), NEW i \in Indices(T), NEW f, SameWork(T.effects[i], f),
           f.target = T.effects[i].target, NoteKept(T, T.effects[i], f)
    PROVE  LET U == PutEffect(T, i, f) IN
           /\ Fit(U) /\ Edits(T, U, {i}, {}) /\ U.members = T.members /\ Indices(U) = Indices(T)
           /\ U.effects[i] = f /\ \A j \in Indices(T) \ {i} : U.effects[j] = T.effects[j]
           /\ IntentEdit(T, T.effects[i], f) => Edits(T, U, {}, {})
<1> DEFINE U == PutEffect(T, i, f)
<1>1. /\ Good(U) /\ U.members = T.members /\ Indices(U) = Indices(T) /\ U.effects[i] = f
      /\ \A j \in Indices(T) \ {i} : U.effects[j] = T.effects[j]
  BY PutEffectGood, PutEffectSelects DEF Fit, Good
<1> HIDE DEF U
<1>2. Fit(U) /\ \A t \in Thread : MemberAges(T.members[t], U.members[t])
  BY <1>1 DEF Fit, MemberAges
<1>3. Len(U.effects) = Len(T.effects) /\ Len(T.effects) \in Nat
  <2>1. Good(T) /\ Good(U)
    BY <1>1 DEF Fit
  <2>2. /\ Len(T.effects) \in Nat /\ Len(U.effects) \in Nat
        /\ 1 .. Len(U.effects) = 1 .. Len(T.effects)
    BY <1>1, <2>1, GoodEffects
  <2>3. Len(U.effects) <= Len(T.effects)
    <3>1. CASE Len(U.effects) = 0
      BY <2>2, <3>1
    <3>2. CASE Len(U.effects) # 0
      <4>1. Len(U.effects) \in 1 .. Len(T.effects)
        BY <2>2, <3>2
      <4> QED BY <2>2, <4>1
    <3> QED BY <3>1, <3>2
  <2>4. Len(T.effects) <= Len(U.effects)
    <3>1. CASE Len(T.effects) = 0
      BY <2>2, <3>1
    <3>2. CASE Len(T.effects) # 0
      <4>1. Len(T.effects) \in 1 .. Len(U.effects)
        BY <2>2, <3>2
      <4> QED BY <2>2, <4>1
    <3> QED BY <3>1, <3>2
  <2> QED BY <2>2, <2>3, <2>4
<1>4. \A j \in Indices(T) \ {i} :
         IntentAges(T.effects[j], U.effects[j]) /\ CreationKept(T.effects[j], U.effects[j])
         /\ NoteKept(T, T.effects[j], U.effects[j])
  BY <1>1 DEF IntentAges, CreationKept, NoteKept
<1>5. Notes(T, U)
  BY <1>1, <1>4 DEF Notes, Rests, Awake, HostOwned
<1>6. Edits(T, U, {i}, {})
  BY <1>1, <1>2, <1>3, <1>4, <1>5 DEF Edits, Ages
<1>7. IntentEdit(T, T.effects[i], f) => Edits(T, U, {}, {})
  BY <1>1, <1>2, <1>3, <1>4, <1>5 DEF Edits, Ages, IntentEdit
<1> QED
  BY <1>1, <1>2, <1>6, <1>7 DEF U

(* An unsent intent is withdrawn.                                          *)
LEMMA WithdrawEdits ==
    ASSUME NEW T, Fit(T), NEW r, Aims(T, r), r.slot = "effect", KindOf(T, r) \notin {"create", "final"},
           NEW s \in {"canceled", "confirmed"}
    PROVE  LET U == WithState(T, r, s) IN
           Fit(U) /\ Edits(T, U, {}, {}) /\ U.members = T.members
<1> DEFINE e == T.effects[r.id]
           f == SetState(e, s)
<1>1. r.id \in Indices(T) /\ e \in Effect
  BY GoodEffects DEF Aims, Known, Fit
<1>2. /\ SameWork(e, f) /\ f.kind = e.kind /\ f.target = e.target /\ f.phase = e.phase
      /\ f.state = s /\ f.consumed = e.consumed /\ f.claimedBy = e.claimedBy
  <2>1. SameWork(e, f)
    BY <1>1, EditEffect DEF IntentState
  <2> HIDE DEF e
  <2> QED BY <1>1, <2>1 DEF SetState, Effect
<1>3. IntentEdit(T, e, f)
  <2>1. e.kind \notin {"create", "final"}
    BY DEF KindOf
  <2> HIDE DEF e, f
  <2> QED BY <1>2, <2>1 DEF IntentEdit, IntentAges, CreationKept, NoteKept, HostOwned, Unsent, Candid
<1>4. WithState(T, r, s) = PutEffect(T, r.id, f)
  BY DEF WithState
<1> HIDE DEF f
<1>5. f.target = e.target /\ NoteKept(T, e, f)
  BY <1>2, <1>3 DEF IntentEdit
<1>6. /\ Fit(PutEffect(T, r.id, f)) /\ Edits(T, PutEffect(T, r.id, f), {}, {})
      /\ PutEffect(T, r.id, f).members = T.members
  <2>1. PICK i \in Indices(T) : i = r.id
    BY <1>1
  <2>2. SameWork(T.effects[i], f) /\ IntentEdit(T, T.effects[i], f)
        /\ f.target = T.effects[i].target /\ NoteKept(T, T.effects[i], f)
    BY <1>2, <1>3, <1>5, <2>1
  <2> HIDE DEF e
  <2>3. /\ Fit(PutEffect(T, i, f)) /\ Edits(T, PutEffect(T, i, f), {}, {})
        /\ PutEffect(T, i, f).members = T.members
    BY <2>2, PutEffectEdits, ZenonT(30)
  <2> QED BY <2>1, <2>3
<1> QED
  BY <1>4, <1>6

(* A queued wake is withdrawn.                                             *)
LEMMA WakeWithdrawn ==
    ASSUME NEW T, Fit(T), NEW r, Aims(T, r), r.slot = "wake",
           StateOf(T, r) \in {"pending", "queued"}
    PROVE  LET U == WithState(T, r, "canceled") IN Fit(U) /\ Edits(T, U, {}, {})
<1> DEFINE t == r.thread
           m == T.members[t]
           n == [m EXCEPT !.wait.state = "canceled"]
<1>1. /\ r \in Ref /\ t \in Thread /\ m \in Member /\ Good(T) /\ WaitsInOrder(m)
      /\ m.wait.state \in {"pending", "queued"} /\ Known(T, r)
  <2>1. r \in Ref /\ t \in Thread
    BY DEF Aims, Ref
  <2> QED BY <2>1, FitParts DEF Aims, StateOf
<1>2. WithState(T, r, "canceled") = Put(T, t, n) /\ Good(Put(T, t, n))
  BY <1>1, WithStateGood DEF WithState, IntentState
<1>3. /\ n.wait.state = "canceled" /\ n.wait.id = m.wait.id /\ n.wait.compact = m.wait.compact
      /\ n.status = m.status /\ n.recoveryWait = m.recoveryWait /\ n.calls = m.calls
      /\ SameTargets(m, n)
  <2> HIDE DEF m
  <2> QED BY <1>1 DEF Member, Wait, SameTargets
<1>4. m.recoveryWait.state = "none"
  BY <1>1 DEF WaitsInOrder, Dispatched, HostOwned
<1>5. MemberEdit(m, n) /\ WaitsInOrder(n)
  <2> HIDE DEF n
  <2> QED BY <1>1, <1>3, <1>4 DEF SameTargets, MemberEdit, MemberAges, WaitsInOrder, Unseen, Unsent, HostOwned, Rests, Awake
<1> HIDE DEF n
<1> QED
  BY <1>1, <1>2, <1>3, <1>5, PutEdits

(* A withdrawn intent's work settles with an outcome.                      *)
LEMMA WithdrawnSettles ==
    ASSUME NEW T, Fit(T), NEW r, Aims(T, r), r.slot = "effect", KindOf(T, r) \notin {"create", "final"},
           NEW s \in {"canceled", "confirmed"}, NEW status \in Outcome,
           Reserved(T.members[r.thread]), ~T.members[r.thread].hostRunning,
           status = "completed" => ActiveBelow(T, r.thread) = {}
    PROVE  LET U == Finish(WithState(T, r, s), r.thread, status) IN
           Fit(U) /\ Edits(T, U, {}, {r.thread}) /\ Completes(T, U)
<1> DEFINE S == WithState(T, r, s)
           U == Finish(S, r.thread, status)
<1>1. Fit(S) /\ Edits(T, S, {}, {}) /\ S.members = T.members /\ r.thread \in Thread
  BY WithdrawEdits DEF Aims, Ref
<1>2. ActiveBelow(S, r.thread) = ActiveBelow(T, r.thread)
  BY <1>1 DEF ActiveBelow
<1> HIDE DEF S
<1>3. Fit(U) /\ Edits(S, U, {}, {r.thread})
  BY <1>1, FinishEdits
<1>4. Completes(T, U)
  BY <1>1, <1>2, FinishCompletes
<1>5. Edits(T, S, {}, {r.thread})
  BY <1>1, EditsWeaken
<1> HIDE DEF U
<1>6. Edits(T, U, {}, {r.thread})
  BY <1>1, <1>3, <1>5, EditsTrans DEF Fit
<1> QED
  BY <1>3, <1>4, <1>6 DEF U, S


(* A completion guard is withdrawn, completes its work, or goes out.       *)
LEMMA ClaimCompletionKeeps ==
    ASSUME NEW T, Sound(T), NEW r, Aims(T, r), r.slot = "effect", KindOf(T, r) = "completion",
           StateOf(T, r) \in {"pending", "queued"}, ~Blocked(T, r)
    PROVE  Keeping(T, ClaimCompletion(T, r))
<1> DEFINE m == T.members[r.thread]
           W == WithState(T, r, "canceled")
           F == Finish(W, r.thread, "completed")
           D == Dispatch(T, r)
           U == ClaimCompletion(T, r)
<1>1. \/ U = W
      \/ U = F /\ ActiveBelow(T, r.thread) = {} /\ m.status = "working" /\ ~m.hostRunning
      \/ U = D
  BY DEF ClaimCompletion
<1>2. Fit(T) /\ Good(T)
  BY DEF Sound, Fit
<1> HIDE DEF W, F, D, U
<1>3. CASE U = W
  BY <1>2, <1>3, WithdrawEdits, PlainKeeps DEF W, U
<1>4. CASE U = F /\ ActiveBelow(T, r.thread) = {} /\ m.status = "working" /\ ~m.hostRunning
  <2>1. Reserved(m)
    BY <1>4 DEF Reserved, ReservedStatus, ActiveStatus
  <2>2. Fit(F) /\ Edits(T, F, {}, {r.thread}) /\ Completes(T, F)
    BY <1>2, <1>4, <2>1, WithdrawnSettles DEF W, F, Outcome
  <2>3. Keeping(T, F)
    BY <2>2, EditKeeps
  <2> QED BY <1>4, <2>3 DEF U
<1>5. CASE U = D
  <2>1. Good(D) /\ Launch(T, D, r)
    BY <1>2, DispatchLaunch DEF D
  <2>2. Keeping(T, D)
    BY <2>1, LaunchKeeps
  <2> QED BY <1>5, <2>2 DEF U
<1> QED
  BY <1>1, <1>3, <1>4, <1>5

(* An interrupt of work that executes nothing settles it.                  *)
LEMMA ClaimInterruptKeeps ==
    ASSUME NEW T, Sound(T), NEW r, Aims(T, r), r.slot = "effect", KindOf(T, r) = "interrupt",
           StateOf(T, r) \in {"pending", "queued"}, ~Blocked(T, r)
    PROVE  Keeping(T, ClaimInterrupt(T, r))
<1> DEFINE m == T.members[r.thread]
           W == WithState(T, r, "confirmed")
           F == Finish(W, r.thread, "interrupted")
           D == Dispatch(T, r)
           U == ClaimInterrupt(T, r)
<1>1. U = W \/ (U = F /\ Reserved(m) /\ ~m.hostRunning) \/ U = D
  BY DEF ClaimInterrupt
<1>2. Fit(T) /\ Good(T)
  BY DEF Sound, Fit
<1> HIDE DEF W, F, D, U
<1>3. CASE U = W
  BY <1>2, <1>3, WithdrawEdits, PlainKeeps DEF W, U
<1>4. CASE U = F /\ Reserved(m) /\ ~m.hostRunning
  <2>1. Fit(F) /\ Edits(T, F, {}, {r.thread}) /\ Completes(T, F)
    BY <1>2, <1>4, WithdrawnSettles DEF W, F, Outcome
  <2>2. Keeping(T, F)
    BY <2>1, EditKeeps
  <2> QED BY <1>4, <2>2 DEF U
<1>5. CASE U = D
  <2>1. Good(D) /\ Launch(T, D, r)
    BY <1>2, DispatchLaunch DEF D
  <2>2. Keeping(T, D)
    BY <2>1, LaunchKeeps
  <2> QED BY <1>5, <2>2 DEF U
<1> QED
  BY <1>1, <1>3, <1>4, <1>5

(* What is not blocked goes out, waits, or is overtaken.                   *)
LEMMA ClaimStepKeeps ==
    ASSUME NEW T, Sound(T), NEW r, Aims(T, r), StateOf(T, r) \in {"pending", "queued"},
           ~Blocked(T, r)
    PROVE  Keeping(T, ClaimStep(T, r))
<1> DEFINE W == WithState(T, r, "canceled")
           D == Dispatch(T, r)
           C == ClaimCompletion(T, r)
           I == ClaimInterrupt(T, r)
           U == ClaimStep(T, r)
<1>1. Fit(T) /\ Good(T) /\ r \in Ref /\ r.slot \in {"effect", "wake", "compact"}
  BY DEF Sound, Fit, Aims, Ref
<1>2. /\ StepOf(T, r) = "wake" => r.slot = "wake"
      /\ StepOf(T, r) \in {"completion", "interrupt"} =>
            r.slot = "effect" /\ KindOf(T, r) = StepOf(T, r)
  <2>1. r.slot = "effect" => T.effects[r.id] \in Effect
    BY <1>1, GoodEffects DEF Aims, Known
  <2> QED BY <1>1, <2>1 DEF StepOf, KindOf, Step, Effect, Phase, EffectKind
<1>3. \/ U = T \/ U = D
      \/ U = W /\ StepOf(T, r) = "wake"
      \/ U = C /\ StepOf(T, r) = "completion"
      \/ U = I /\ StepOf(T, r) = "interrupt"
  BY DEF ClaimStep
<1> HIDE DEF W, D, C, I, U
<1>4. CASE U = T
  BY <1>4, SameKeeps DEF U
<1>5. CASE U = D
  <2>1. Good(D) /\ Launch(T, D, r)
    BY <1>1, DispatchLaunch DEF D
  <2>2. Keeping(T, D)
    BY <2>1, LaunchKeeps
  <2> QED BY <1>5, <2>2 DEF U
<1>6. CASE U = W /\ StepOf(T, r) = "wake"
  <2>1. Fit(W) /\ Edits(T, W, {}, {})
    BY <1>1, <1>2, <1>6, WakeWithdrawn DEF W
  <2>2. Keeping(T, W)
    BY <2>1, PlainKeeps
  <2> QED BY <1>6, <2>2 DEF U
<1>7. CASE U = C /\ StepOf(T, r) = "completion"
  <2>1. Keeping(T, C)
    BY <1>2, <1>7, ClaimCompletionKeeps DEF C
  <2> QED BY <1>7, <2>1 DEF U
<1>8. CASE U = I /\ StepOf(T, r) = "interrupt"
  <2>1. Keeping(T, I)
    BY <1>2, <1>8, ClaimInterruptKeeps DEF I
  <2> QED BY <1>8, <2>1 DEF U
<1> QED
  BY <1>3, <1>4, <1>5, <1>6, <1>7, <1>8

(* An edit that completes nothing, and then a step that keeps everything.  *)
LEMMA EditThenKeeps ==
    ASSUME NEW T, Sound(T), NEW Q, Fit(Q), Edits(T, Q, {}, {}), NEW U, Keeping(Q, U)
    PROVE  Keeping(T, U)
<1>1. Keeping(T, Q) /\ Out(Q) \subseteq Out(T)
  BY PlainKeeps
<1>2. Stays(T, U)
  BY <1>1 DEF Keeping, Keeps, Stays
<1>3. SpentKept(T, U)
  BY <1>1 DEF Keeping, Keeps, SpentKept
<1>4. Out(U) \subseteq Ref
  <2>1. U \in Tree
    BY DEF Keeping, Keeps, Sound, Fit, Good
  <2>2. \A i \in Indices(U) : U.effects[i].target \in Thread /\ i \in Nat
    <3>1. \A i \in Indices(U) : U.effects[i] \in Effect
      BY <2>1, TreeTypes
    <3>2. \A i \in Indices(U) : i \in Nat
      BY <2>1, TreeTypes DEF Indices
    <3> QED BY <3>1, <3>2 DEF Effect
  <2>3. \A t \in Thread : U.members[t].wait.id \in Nat
    BY <2>1, TreeTypes DEF Member, Wait
  <2> QED BY <2>2, <2>3 DEF Out, Refs, EffectRef, WaitRef, Ref
<1>5. Sends(T, U)
  BY <1>1, <1>4 DEF Keeping, Keeps, Sends, SpentKept
<1>6. Notes(T, U) /\ NotedOnce(T, U) /\ Decides(T, U)
  <2>1. Notes(T, U)
    BY <1>1, NotesTrans DEF Keeping, Keeps, Stays, Edits, Sound, Fit
  <2> QED BY <2>1, NotesOnce, NotesDecide DEF Sound
<1>7. Completes(T, U)
  BY DEF Keeping, Keeps, Completes, Edits, Ages
<1>8. CreationsKept(T, U, {})
  <2>1. Stays(T, Q)
    BY <1>1 DEF Keeping, Keeps
  <2> QED BY <1>1, <2>1 DEF Keeping, CreationsKept, Stays
<1> QED
  BY <1>2, <1>3, <1>5, <1>6, <1>7, <1>8 DEF Keeping, Keeps


(* A claim keeps everything; an interrupt first cancels the queued work.   *)
LEMMA ClaimKeeps ==
    ASSUME NEW T, Sound(T), NEW r, Aims(T, r)
    PROVE  Keeping(T, Claim(T, r))
<1> DEFINE Q == IF KindOf(T, r) = "interrupt" THEN CancelQueuedWork(T, r.thread) ELSE T
           W == WithState(T, r, "confirmed")
           P == ClaimStep(Q, r)
           U == Claim(T, r)
<1>1. /\ Fit(T) /\ Good(T) /\ r \in Ref /\ Known(T, r) /\ r.thread \in Thread
      /\ r.slot \in {"effect", "wake", "compact"}
  BY DEF Sound, Fit, Aims, Ref
<1>2. \/ U = T
      \/ /\ StateOf(T, r) \in {"pending", "queued"}
         /\ \/ U = W /\ KindOf(T, r) = "interrupt"
            \/ U = Q
            \/ U = P /\ ~Blocked(Q, r)
  BY <1>1 DEF Claim
<1>3. KindOf(T, r) = "interrupt" => r.slot = "effect" /\ r.id \in Indices(T)
  BY <1>1 DEF KindOf, Known
<1>4. /\ Fit(Q) /\ Edits(T, Q, {}, {}) /\ Aims(Q, r) /\ StateOf(Q, r) = StateOf(T, r)
      /\ KindOf(Q, r) = KindOf(T, r)
  <2>1. CASE KindOf(T, r) = "interrupt"
    <3> DEFINE C == CancelQueuedWork(T, r.thread)
    <3>1. /\ Fit(C) /\ Edits(T, C, {}, {}) /\ C.members = T.members /\ Indices(C) = Indices(T)
          /\ Step(T.effects[r.id]) \notin {"initial", "followup"} =>
               C.effects[r.id].state = T.effects[r.id].state
      BY <1>1, <1>3, <2>1, CancelQueuedWorkEdits
    <3> HIDE DEF C
    <3>2. Q = C
      BY <2>1 DEF C
    <3>3. /\ C.effects[r.id].target = T.effects[r.id].target
          /\ C.effects[r.id].kind = T.effects[r.id].kind
      BY <1>3, <2>1, <3>1 DEF Edits, Ages, IntentAges, Notes
    <3>4. Step(T.effects[r.id]) = "interrupt"
      BY <1>3, <2>1 DEF KindOf, Step
    <3> HIDE DEF Q
    <3>5. Aims(Q, r)
      BY <1>1, <1>3, <2>1, <3>1, <3>2, <3>3 DEF Aims, Known
    <3> QED
      BY <1>3, <2>1, <3>1, <3>2, <3>3, <3>4, <3>5 DEF StateOf, KindOf
  <2>2. CASE KindOf(T, r) # "interrupt"
    BY <1>1, <2>2, NoEdit
  <2> QED BY <2>1, <2>2
<1> HIDE DEF Q, W, P, U
<1>5. Keeping(T, Q) /\ Sound(Q)
  BY <1>4, PlainKeeps DEF Keeping, Keeps
<1>6. CASE U = T
  BY <1>6, SameKeeps DEF U
<1>7. CASE U = W /\ KindOf(T, r) = "interrupt"
  <2>1. Fit(W) /\ Edits(T, W, {}, {})
    BY <1>1, <1>3, <1>7, WithdrawEdits DEF W
  <2>2. Keeping(T, W)
    BY <2>1, PlainKeeps
  <2> QED BY <1>7, <2>2 DEF U
<1>8. CASE U = Q
  BY <1>5, <1>8 DEF U
<1>9. CASE U = P /\ ~Blocked(Q, r) /\ StateOf(T, r) \in {"pending", "queued"}
  <2>1. Keeping(Q, P)
    BY <1>4, <1>5, <1>9, ClaimStepKeeps DEF P
  <2>2. Keeping(T, P)
    BY <1>4, <2>1, EditThenKeeps
  <2> QED BY <1>9, <2>2 DEF U
<1> QED
  BY <1>2, <1>6, <1>7, <1>8, <1>9

(* The human's input is reserved, supersedes waiting and goes out, or is   *)
(* not accepted.                                                           *)
LEMMA HumanInputKeeps ==
    ASSUME NEW T, Sound(T), NEW t \in Thread
    PROVE  Keeping(T, HumanInput(T, t))
<1> DEFINE m == T.members[t]
           n == Reserve(m)
           N == IF Reserved(m) /\ m.status # "paused" THEN T ELSE Put(T, t, n)
           S == Supersede(N, t)
           g == N.members[t].generation
           d == NewEffect("human", t, 0, 0, t, g)
           A == AddEffect(S, d)
           r == EffectRef(A, Len(A.effects))
           C == Claim(A, r)
           R == Supersede(T, t)
           U == HumanInput(T, t)
<1>1. Fit(T) /\ Good(T) /\ T \in Tree /\ m \in Member /\ Executing(m)
  BY FitParts DEF Sound, Fit, Good
<1>2. U \in {T, R, C}
  BY DEF HumanInput
<1>3. CASE U = T
  BY <1>3, SameKeeps
<1>4. CASE U = R
  <2>1. Fit(R) /\ Edits(T, R, {}, {})
    BY <1>1, SupersedeEdits
  <2> HIDE DEF R, U
  <2>2. Keeping(T, R)
    BY <2>1, PlainKeeps
  <2> QED BY <1>4, <2>2 DEF U
<1>5. CASE U = C
  <2>1. Fit(N) /\ Edits(T, N, {}, {})
    <3>1. CASE Reserved(m) /\ m.status # "paused"
      BY <1>1, <3>1, NoEdit
    <3>2. CASE ~(Reserved(m) /\ m.status # "paused")
      <4>1. MayBecome(m, n)
        BY <1>1, <3>2, ReserveMayBecome
      <4>2. SameWaits(m, n) /\ n.status = "pending"
        <5> HIDE DEF m
        <5> QED BY <1>1 DEF Reserve, Member, SameWaits, SameTargets
      <4> HIDE DEF n
      <4>3. Good(Put(T, t, n))
        BY <1>1, <4>1, PutGood
      <4>4. Fit(Put(T, t, n)) /\ Edits(T, Put(T, t, n), {}, {})
        BY <1>1, <4>2, <4>3, PutSameWaits
      <4> QED BY <3>2, <4>4
    <3> QED BY <3>1, <3>2
  <2> HIDE DEF N
  <2>2. Fit(S) /\ Edits(N, S, {}, {})
    BY <2>1, SupersedeEdits
  <2>3. g \in Nat
    BY <2>1, FitParts DEF Member
  <2> HIDE DEF S, g
  <2>4. d \in Effect /\ NewIntent(d) /\ NewNote(d) /\ d.target = t /\ d.kind = "human"
        /\ d.state = "pending"
    BY <2>3 DEF NewEffect, Effect, EffectKind, Phase, IntentState, NewIntent, Phased, NewNote, HostOwned, Candid
  <2> HIDE DEF d
  <2>5. Good(A)
    BY <2>2, <2>4, AddGood DEF Fit
  <2>6. Fit(A) /\ Edits(S, A, {}, {})
    BY <2>2, <2>4, <2>5, AddEdits
  <2>7. /\ Indices(A) = Indices(S) \cup {Len(S.effects) + 1} /\ Len(S.effects) \in Nat
        /\ Len(A.effects) = Len(S.effects) + 1 /\ A.effects[Len(S.effects) + 1] = d
    BY <2>2, <2>4, AddSelects DEF Fit, Good
  <2> HIDE DEF A
  <2>8. Edits(T, A, {}, {})
    <3>1. Edits(T, S, {}, {})
      BY <1>1, <2>1, <2>2, EditsTrans DEF Fit
    <3> QED BY <1>1, <2>2, <2>6, <3>1, EditsTrans DEF Fit
  <2>9. Sound(A)
    BY <2>6, <2>8, PlainKeeps DEF Keeping, Keeps
  <2>10. Aims(A, r)
    BY <2>4, <2>7 DEF Aims, EffectRef, Ref, Known
  <2> HIDE DEF r
  <2>11. Keeping(A, C)
    BY <2>9, <2>10, ClaimKeeps
  <2> HIDE DEF C, U
  <2>12. Keeping(T, C)
    BY <2>6, <2>8, <2>11, EditThenKeeps
  <2> QED BY <1>5, <2>12 DEF U
<1> QED
  BY <1>2, <1>3, <1>4, <1>5

(* The host's history names the human's input: it is confirmed.            *)
LEMMA HumanCommittedKeeps ==
    ASSUME NEW T, Sound(T), NEW r, Aims(T, r), NEW turn \in Nat
    PROVE  Keeping(T, HumanCommitted(T, r, turn))
<1> DEFINE e == T.effects[r.id]
           f == [e EXCEPT !.state = "confirmed", !.turn = turn]
           U == HumanCommitted(T, r, turn)
<1>1. Fit(T) /\ (r.slot = "effect" => r.id \in Indices(T) /\ e \in Effect)
  BY GoodEffects DEF Sound, Fit, Aims, Known
<1>2. CASE U = T
  BY <1>2, SameKeeps
<1>3. CASE U = PutEffect(T, r.id, f) /\ r.slot = "effect" /\ e.kind = "human"
  <2>1. /\ SameWork(e, f) /\ f.kind = e.kind /\ f.target = e.target /\ f.phase = e.phase
        /\ f.state = "confirmed" /\ f.consumed = e.consumed /\ f.claimedBy = e.claimedBy
    <3>1. e \in Effect
      BY <1>1, <1>3
    <3> HIDE DEF e
    <3> QED BY <3>1 DEF SameWork, Effect, IntentState
  <2>2. IntentEdit(T, e, f) /\ NoteKept(T, e, f)
    <3> HIDE DEF e, f
    <3> QED BY <1>3, <2>1 DEF IntentEdit, IntentAges, CreationKept, NoteKept, HostOwned, Unsent, Candid
  <2> HIDE DEF f
  <2>3. PICK i \in Indices(T) : i = r.id
    BY <1>1, <1>3
  <2>4. SameWork(T.effects[i], f) /\ IntentEdit(T, T.effects[i], f)
        /\ f.target = T.effects[i].target /\ NoteKept(T, T.effects[i], f)
    BY <2>1, <2>2, <2>3
  <2>5. Fit(PutEffect(T, i, f)) /\ Edits(T, PutEffect(T, i, f), {}, {})
    BY <1>1, <2>4, PutEffectEdits, ZenonT(30)
  <2>6. Keeping(T, PutEffect(T, i, f))
    BY <2>5, PlainKeeps
  <2> QED BY <1>3, <2>3, <2>6
<1> QED
  BY <1>2, <1>3 DEF HumanCommitted


-----------------------------------------------------------------------------
(* The host's answers (EffectAcknowledged, Reconcile).                     *)

(* The intent an answer is about, of those that are effects.               *)
About(r) == IF r.slot = "effect" THEN {r.id} ELSE {}

(* A settled intent, and then an edit.                                     *)
LEMMA AckThenEdit ==
    ASSUME NEW T, Sound(T), NEW F, Fit(F), NEW i \in Indices(T), Edits(T, F, {i}, {}),
           Acked(T.effects[i], F.effects[i]), NEW U, Fit(U), Edits(F, U, {}, {})
    PROVE  Keeps(T, U) /\ CreationsKept(T, U, {i})
<1>1. Good(T) /\ Good(F) /\ Good(U)
  BY DEF Sound, Fit
<1>2. i \in Indices(F)
  BY <1>1, GoodEffects DEF Edits, Ages
<1>3. IntentAges(F.effects[i], U.effects[i])
  BY <1>2 DEF Edits, Ages
<1>4. Acked(T.effects[i], U.effects[i])
  BY <1>3 DEF Acked, IntentAges, Phased
<1>5. Edits(F, U, {i}, {})
  BY EditsWeaken
<1>6. Edits(T, U, {i}, {})
  BY <1>1, <1>5, EditsAfter
<1> QED
  BY <1>4, <1>6, AckKeeps

(* One effect is given an outcome, or held as uncertain.                   *)
LEMMA OutcomeEdits ==
    ASSUME NEW T, Fit(T), NEW r, Aims(T, r), r.slot = "effect", StateOf(T, r) \in HostOwned,
           NEW s \in {"uncertain", "failed", "confirmed"}
    PROVE  LET F == WithState(T, r, s) IN
           /\ Fit(F) /\ Edits(T, F, {r.id}, {}) /\ F.members = T.members
           /\ Indices(F) = Indices(T) /\ r.id \in Indices(T)
           /\ Acked(T.effects[r.id], F.effects[r.id])
<1> DEFINE e == T.effects[r.id]
           f == SetState(e, s)
           F == WithState(T, r, s)
<1>1. r.id \in Indices(T) /\ e \in Effect
  BY GoodEffects DEF Aims, Known, Fit
<1>2. /\ SameWork(e, f) /\ f.kind = e.kind /\ f.target = e.target /\ f.phase = e.phase
      /\ f.state = s /\ f.consumed = e.consumed /\ f.claimedBy = e.claimedBy
  <2>1. SameWork(e, f)
    BY <1>1, EditEffect DEF IntentState, HostOwned
  <2> HIDE DEF e
  <2> QED BY <1>1, <2>1 DEF SetState, Effect
<1>3. Acked(e, f) /\ NoteKept(T, e, f)
  <2>1. e.state \in HostOwned
    BY DEF StateOf
  <2> HIDE DEF e, f
  <2> QED BY <1>2, <2>1 DEF Acked, NoteKept, Unsent, Phased, Candid, HostOwned
<1>4. F = PutEffect(T, r.id, f)
  BY DEF WithState
<1> HIDE DEF f, F
<1>5. PICK i \in Indices(T) : i = r.id
  BY <1>1
<1>6. SameWork(T.effects[i], f) /\ f.target = T.effects[i].target /\ NoteKept(T, T.effects[i], f)
  BY <1>2, <1>3, <1>5
<1>7. /\ Fit(PutEffect(T, i, f)) /\ Edits(T, PutEffect(T, i, f), {i}, {})
      /\ PutEffect(T, i, f).members = T.members
  BY <1>6, PutEffectEdits, ZenonT(30)
<1>8. Indices(PutEffect(T, i, f)) = Indices(T) /\ PutEffect(T, i, f).effects[i] = f
  <2>1. T \in Tree /\ Good(T) /\ i \in Indices(T)
    BY DEF Fit, Good
  <2>2. Indices(PutEffect(T, i, f)) = Indices(T)
    BY <1>6, <2>1, PutEffectGood, ZenonT(30)
  <2>3. PutEffect(T, i, f).effects[i] = f
    BY <2>1, TreeTypes DEF PutEffect, Tree, Indices
  <2> QED BY <2>2, <2>3
<1>9. F = PutEffect(T, i, f)
  BY <1>4, <1>5
<1> QED
  BY <1>1, <1>3, <1>5, <1>7, <1>8, <1>9 DEF F

(* A new status of the work, in the same generation.                       *)
LEMMA StatusMayBecome ==
    ASSUME NEW m \in Member, Executing(m), NEW status \in Status,
           status = "absent" => m.status = "absent",
           Reserved(m) /\ m.hostRunning => status \in {"working", "waiting", "uncertain"},
           status \in ReservedStatus => Reserved(m)
    PROVE  LET n == [m EXCEPT !.status = status] IN
           /\ MayBecome(m, n) /\ n.status = status /\ SameWaits(m, n)
           /\ n.generation = m.generation /\ n.hostRunning = m.hostRunning
<1> DEFINE n == [m EXCEPT !.status = status]
<1>1. /\ n \in Member /\ n.status = status /\ n.generation = m.generation
      /\ n.hostRunning = m.hostRunning /\ m.generation \in Nat /\ SameWaits(m, n)
  BY DEF Member, SameWaits, SameTargets
<1>2. m.hostRunning => Reserved(m)
  BY DEF Executing, Reserved, ReservedStatus, ActiveStatus
<1> HIDE DEF n
<1>3. MayBecome(m, n)
  BY <1>1, <1>2 DEF MayBecome, Executing, Reserved
<1> QED
  BY <1>1, <1>3 DEF n

(* A failed or uncertain dispatch of an effect.                            *)
LEMMA EffectFailureKeeps ==
    ASSUME NEW T, Sound(T), NEW r, Aims(T, r), r.slot = "effect",
           StateOf(T, r) = "dispatching", NEW receipt
    PROVE  LET U == Failure(T, r, receipt) IN Keeps(T, U) /\ CreationsKept(T, U, {r.id})
<1> DEFINE unsure == receipt.error = "uncertain"
           t == r.thread
           F == WithState(T, r, IF unsure THEN "uncertain" ELSE "failed")
           m == F.members[t]
           kind == KindOf(T, r)
           status == CASE kind \in {"wake", "compact"} /\ Reserved(m) /\ unsure -> "uncertain"
                       [] kind = "create" /\ m.status = "pending" ->
                            IF unsure THEN "uncertain" ELSE "failed"
                       [] OTHER -> m.status
           n == [m EXCEPT !.status = status]
           S == IF m.status = "paused" THEN F ELSE Put(F, t, n)
           k == S.members[t]
           assigned == /\ kind \in {"human", "followup", "completion"} /\ ~m.hostRunning
                       /\ Reserved(m) /\ m.generation = GenerationOf(T, r)
           x == [k EXCEPT !.status = "uncertain"]
           A == IF ~assigned THEN S
                ELSE IF unsure THEN Put(S, t, x)
                ELSE Finish(S, t, "failed")
           U == Failure(T, r, receipt)
<1>1. /\ Fit(F) /\ Edits(T, F, {r.id}, {}) /\ Acked(T.effects[r.id], F.effects[r.id])
      /\ r.id \in Indices(T) /\ t \in Thread /\ Good(F)
  BY OutcomeEdits DEF HostOwned, Sound, Aims, Ref, Fit
<1>2. U = F \/ U = A \/ U = SettleRecovery(A, t)
  BY DEF Failure, F
<1>3. m \in Member /\ Executing(m)
  BY <1>1, FitParts
<1> HIDE DEF F, U
<1>4. /\ status \in Status
      /\ status = "absent" => m.status = "absent"
      /\ Reserved(m) /\ m.hostRunning => status \in {"working", "waiting", "uncertain"}
      /\ status \in ReservedStatus => Reserved(m)
      /\ status = "completed" => m.status = "completed"
      /\ assigned => status = m.status
  BY <1>3 DEF Member, Status, Outcome, Executing, Reserved, ReservedStatus, ActiveStatus
<1>5. /\ MayBecome(m, n) /\ n.status = status /\ SameWaits(m, n)
      /\ n.generation = m.generation /\ n.hostRunning = m.hostRunning
  <2> HIDE DEF status, m
  <2> QED BY <1>3, <1>4, StatusMayBecome
<1>6. /\ Fit(S) /\ Edits(F, S, {}, {}) /\ k.hostRunning = m.hostRunning
      /\ assigned => Reserved(k)
  <2> HIDE DEF n
  <2>1. CASE m.status = "paused"
    BY <1>1, <2>1, NoEdit
  <2>2. CASE m.status # "paused"
    <3> DEFINE P == Put(F, t, n)
    <3>1. Good(P) /\ P.members[t] = n
      BY <1>1, <1>5, PutGood, PutSelects DEF Good
    <3>2. Fit(P) /\ Edits(F, P, {}, {})
      BY <1>1, <1>4, <1>5, <3>1, PutSameWaits
    <3>3. S = P
      BY <2>2
    <3> HIDE DEF P, S, status, m
    <3>4. k = n
      BY <3>1, <3>3
    <3>5. assigned => Reserved(n)
      BY <1>4, <1>5 DEF Reserved
    <3> QED BY <1>5, <3>2, <3>3, <3>4, <3>5
  <2> QED BY <2>1, <2>2
<1> HIDE DEF S
<1>7. Fit(A) /\ Edits(S, A, {}, {})
  <2>1. CASE ~assigned
    BY <1>6, <2>1, NoEdit DEF Fit
  <2>2. CASE assigned /\ unsure
    <3>1. k \in Member /\ Executing(k) /\ Reserved(k)
      BY <1>1, <1>6, <2>2, FitParts
    <3>2. MayBecome(k, x) /\ x.status = "uncertain" /\ SameWaits(k, x)
      <4> HIDE DEF k
      <4> QED BY <3>1, StatusMayBecome DEF Status, ReservedStatus
    <3> HIDE DEF x
    <3>3. Good(Put(S, t, x))
      BY <1>1, <1>6, <3>2, PutGood DEF Fit
    <3>4. Fit(Put(S, t, x)) /\ Edits(S, Put(S, t, x), {}, {})
      BY <1>1, <1>6, <3>2, <3>3, PutSameWaits
    <3> QED BY <2>2, <3>4
  <2>3. CASE assigned /\ ~unsure
    <3>1. Reserved(k) /\ ~k.hostRunning
      BY <1>6, <2>3
    <3>2. Fit(Finish(S, t, "failed")) /\ Edits(S, Finish(S, t, "failed"), {}, {})
      BY <1>1, <1>6, <3>1, FinishEdits DEF Outcome
    <3> QED BY <2>3, <3>2
  <2> QED BY <2>1, <2>2, <2>3
<1> HIDE DEF A
<1>8. Edits(F, A, {}, {})
  BY <1>1, <1>6, <1>7, EditsTrans DEF Fit
<1>9. U = F \/ U = A
  BY <1>1, <1>2, <1>7, SettleRecoveryIdle
<1>10. Fit(U) /\ Edits(F, U, {}, {})
  BY <1>1, <1>7, <1>8, <1>9, NoEdit
<1>11. Keeps(T, U) /\ CreationsKept(T, U, {r.id})
  BY <1>1, <1>10, AckThenEdit
<1> QED
  BY <1>11 DEF U


(* A wake that is held for reconciliation, or a checkpoint's outcome, is   *)
(* an edit of its thread.                                                  *)
LEMMA WaitOutcomeEdits ==
    ASSUME NEW T, Fit(T), NEW t \in Thread, NEW k, MayBecome(T.members[t], k),
           k.wait.id = T.members[t].wait.id, k.recoveryWait = T.members[t].recoveryWait,
           k.calls = T.members[t].calls,
           k.status = "completed" => T.members[t].status = "completed",
           \/ /\ T.members[t].wait.state \in HostOwned /\ k.wait.state = "uncertain"
              /\ k.wait.compact = T.members[t].wait.compact
           \/ /\ T.members[t].wait.compact \in HostOwned
              /\ k.wait.compact \in {"uncertain", "failed", "completed"}
              /\ k.wait.state = T.members[t].wait.state,
           SameTargets(T.members[t], k)
    PROVE  Fit(Put(T, t, k)) /\ Edits(T, Put(T, t, k), {}, {})
<1> DEFINE m == T.members[t]
<1>1. Good(Put(T, t, k))
  BY PutGood DEF Fit
<1>2. WaitsInOrder(m)
  BY FitParts
<1>3. MemberEdit(m, k) /\ WaitsInOrder(k)
  <2> HIDE DEF m
  <2> QED BY <1>2 DEF m, SameTargets, MemberEdit, MemberAges, WaitsInOrder, Unseen, Unsent, HostOwned, Dispatched, Rests, Awake
<1> QED
  BY <1>1, <1>3, PutEdits

(* Editing a member twice is editing it once.                              *)
LEMMA PutTwice ==
    ASSUME NEW T, T \in Tree, NEW t \in Thread, NEW m, NEW n
    PROVE  Put(Put(T, t, m), t, n) = Put(T, t, n) /\ Put(T, t, m).members[t] = m
BY DEF Put, Tree

(* What a failed or uncertain wake or checkpoint leaves of its thread.     *)
LEMMA WaitFailureIs ==
    ASSUME NEW T, Fit(T), NEW r, Aims(T, r), r.slot # "effect", NEW receipt
    PROVE  LET unsure == receipt.error = "uncertain"
               s == IF unsure THEN "uncertain" ELSE "failed"
               m == T.members[r.thread]
               U == Failure(T, r, receipt)
           IN  \E k :
                 /\ MayBecome(m, k)
                 /\ k.wait.id = m.wait.id /\ k.recoveryWait = m.recoveryWait /\ k.calls = m.calls
                 /\ SameTargets(m, k)
                 /\ k.status = "completed" => m.status = "completed"
                 /\ r.slot = "wake" => k.wait.state = s /\ k.wait.compact = m.wait.compact
                 /\ r.slot = "compact" => k.wait.compact = s /\ k.wait.state = m.wait.state
                 /\ U = IF unsure THEN Put(T, r.thread, k)
                        ELSE SettleRecovery(Put(T, r.thread, k), r.thread)
<1> DEFINE unsure == receipt.error = "uncertain"
           s == IF unsure THEN "uncertain" ELSE "failed"
           t == r.thread
           m == T.members[t]
           a == IF r.slot = "wake" THEN [m EXCEPT !.wait.state = s] ELSE [m EXCEPT !.wait.compact = s]
           F == WithState(T, r, s)
           status == IF Reserved(a) /\ unsure THEN "uncertain" ELSE a.status
           b == [a EXCEPT !.status = status]
           k == IF a.status = "paused" THEN a ELSE b
           S == IF F.members[t].status = "paused" THEN F ELSE Put(F, t, b)
           U == Failure(T, r, receipt)
<1>1. /\ T \in Tree /\ m \in Member /\ Executing(m) /\ t \in Thread
      /\ r.slot \in {"wake", "compact"}
  BY FitParts DEF Fit, Good, Aims, Ref
<1>2. s \in IntentState /\ (unsure => s = "uncertain")
  BY DEF IntentState, HostOwned
<1>3. F = Put(T, t, a)
  BY <1>1 DEF WithState
<1>4. F.members[t] = a /\ Put(F, t, b) = Put(T, t, b)
  <2> HIDE DEF a, b, F
  <2> QED BY <1>1, <1>3, PutTwice
<1>5. KindOf(T, r) = r.slot /\ ~CreatesThread(T, r)
  BY <1>1 DEF KindOf, CreatesThread, StepOf
<1>6. U = IF unsure THEN S ELSE SettleRecovery(S, t)
  <2> HIDE DEF a
  <2> QED BY <1>1, <1>4, <1>5 DEF Failure
<1>7. S = Put(T, t, k)
  <2> HIDE DEF a, b, F
  <2> QED BY <1>3, <1>4
<1>8. /\ a \in Member /\ a.wait.id = m.wait.id /\ a.recoveryWait = m.recoveryWait
      /\ a.calls = m.calls /\ a.status = m.status /\ a.generation = m.generation
      /\ a.hostRunning = m.hostRunning /\ SameTargets(m, a)
      /\ r.slot = "wake" => a.wait.state = s /\ a.wait.compact = m.wait.compact
      /\ r.slot = "compact" => a.wait.compact = s /\ a.wait.state = m.wait.state
  <2> HIDE DEF s
  <2>1. CASE r.slot = "wake"
    BY <1>1, <1>2, <2>1 DEF Member, Wait, SameTargets
  <2>2. CASE r.slot = "compact"
    BY <1>1, <1>2, <2>2 DEF Member, Wait, SameTargets
  <2> QED BY <1>1, <2>1, <2>2
<1>9. status \in {a.status, "uncertain"} /\ (status # a.status => Reserved(m)) /\ status \in Status
  <2> HIDE DEF a
  <2> QED BY <1>1, <1>8 DEF Reserved, Member, Status, ReservedStatus
<1>10. /\ b \in Member /\ b.status = status /\ b.generation = a.generation
       /\ b.hostRunning = a.hostRunning /\ b.wait = a.wait /\ b.recoveryWait = a.recoveryWait
       /\ b.calls = a.calls
  <2> HIDE DEF a, status
  <2> QED BY <1>8, <1>9 DEF Member
<1> HIDE DEF b, a, status, s
<1>11. MayBecome(m, k)
  <2>1. m.generation \in Nat
    BY <1>1 DEF Member
  <2>2. MayBecome(m, a)
    BY <1>1, <1>8, <2>1 DEF MayBecome, Executing, Reserved
  <2>3. MayBecome(m, b)
    BY <1>1, <1>8, <1>9, <1>10, <2>1
       DEF MayBecome, Executing, Reserved, ReservedStatus, ActiveStatus, Status, Outcome
  <2> QED BY <2>2, <2>3
<1>12. /\ k.wait = a.wait /\ k.recoveryWait = m.recoveryWait /\ k.calls = m.calls
       /\ SameTargets(m, k)
       /\ k.status = "completed" => m.status = "completed"
  BY <1>8, <1>9, <1>10 DEF SameTargets
<1> HIDE DEF k, S, U
<1>13. U = IF unsure THEN Put(T, t, k) ELSE SettleRecovery(Put(T, t, k), t)
  BY <1>6, <1>7
<1> QED
  BY <1>8, <1>11, <1>12, <1>13 DEF U, s

(* A failed or uncertain wake or checkpoint.                               *)
LEMMA WaitFailureKeeps ==
    ASSUME NEW T, Sound(T), NEW r, Aims(T, r), r.slot # "effect",
           StateOf(T, r) = "dispatching", NEW receipt
    PROVE  Keeping(T, Failure(T, r, receipt))
<1> DEFINE unsure == receipt.error = "uncertain"
           s == IF unsure THEN "uncertain" ELSE "failed"
           t == r.thread
           m == T.members[t]
           U == Failure(T, r, receipt)
<1>1. Fit(T) /\ t \in Thread /\ r.slot \in {"wake", "compact"}
  BY DEF Sound, Aims, Ref
<1>2. PICK k : /\ MayBecome(m, k)
               /\ k.wait.id = m.wait.id /\ k.recoveryWait = m.recoveryWait /\ k.calls = m.calls
               /\ SameTargets(m, k)
               /\ k.status = "completed" => m.status = "completed"
               /\ r.slot = "wake" => k.wait.state = s /\ k.wait.compact = m.wait.compact
               /\ r.slot = "compact" => k.wait.compact = s /\ k.wait.state = m.wait.state
               /\ U = IF unsure THEN Put(T, t, k) ELSE SettleRecovery(Put(T, t, k), t)
  BY <1>1, WaitFailureIs
<1> SUFFICES Keeping(T, U)
  OBVIOUS
<1> HIDE DEF U
<1>3. CASE r.slot = "wake"
  <2>1. m.wait.state = "dispatching" /\ Dispatched(m.wait)
    BY <1>3 DEF StateOf, Dispatched, HostOwned
  <2>2. CASE unsure
    <3>1. Fit(Put(T, t, k)) /\ Edits(T, Put(T, t, k), {}, {})
      BY <1>1, <1>2, <1>3, <2>1, <2>2, WaitOutcomeEdits DEF HostOwned
    <3> QED BY <1>2, <2>2, <3>1, PlainKeeps
  <2>3. CASE ~unsure
    <3>1. k.wait.state = "failed"
      BY <1>2, <1>3, <2>3
    <3>2. /\ Fit(SettleRecovery(Put(T, t, k), t))
          /\ Edits(T, SettleRecovery(Put(T, t, k), t), {}, {})
      BY <1>1, <1>2, <1>3, <2>1, <3>1, WakeSettledEdits
    <3> QED BY <1>2, <2>3, <3>2, PlainKeeps
  <2> QED BY <2>2, <2>3
<1>4. CASE r.slot = "compact"
  <2>1. m.wait.compact = "dispatching"
    BY <1>4 DEF StateOf
  <2>2. Fit(Put(T, t, k)) /\ Edits(T, Put(T, t, k), {}, {})
    BY <1>1, <1>2, <1>4, <2>1, WaitOutcomeEdits DEF HostOwned
  <2>3. U = Put(T, t, k)
    BY <1>1, <1>2, <2>2, SettleRecoveryIdle
  <2> QED BY <2>2, <2>3, PlainKeeps
<1> QED
  BY <1>1, <1>3, <1>4


(* The host's turn starts executing the reserved work.                     *)
LEMMA AcceptTurnEdits ==
    ASSUME NEW T, Fit(T), NEW r \in Ref, NEW turn \in Nat
    PROVE  LET U == AcceptTurn(T, r, turn) IN Fit(U) /\ Edits(T, U, {}, {})
<1> DEFINE t == r.thread
           m == T.members[t]
           n == Start(m, turn)
           P == Put(T, t, n)
           U == AcceptTurn(T, r, turn)
<1>1. t \in Thread /\ Good(T) /\ m \in Member
  BY FitParts DEF Ref, Fit
<1>2. CASE U = T
  BY <1>1, <1>2, NoEdit
<1>3. CASE U # T
  <2>1. U = P
    BY <1>3 DEF AcceptTurn
  <2>2. Good(P)
    BY <1>1, <2>1, AcceptTurnGood
  <2>3. SameWaits(m, n) /\ n.status = "working"
    BY <1>1 DEF Start, Member, SameWaits, SameTargets
  <2> HIDE DEF n
  <2>4. Fit(P) /\ Edits(T, P, {}, {})
    BY <1>1, <2>2, <2>3, PutSameWaits
  <2> QED BY <2>1, <2>4
<1> QED
  BY <1>2, <1>3

(* A creation that moves to its next step, its thread's member edited.     *)
LEMMA NextPhaseKeeps ==
    ASSUME NEW T, Sound(T), NEW A, Fit(A), Edits(T, A, {}, {}), A.effects = T.effects,
           NEW r, Aims(T, r), r.slot = "effect",
           T.effects[r.id].kind = "create", T.effects[r.id].state \in HostOwned,
           NEW phase \in Phase \ {"none"}, NEW state \in {"pending", "paused", "canceled"},
           Passed(phase) = Passed(T.effects[r.id].phase) \cup {T.effects[r.id].phase}
    PROVE  LET U == NextPhase(A, r, phase, state) IN
           Fit(U) /\ Keeps(T, U) /\ CreationsKept(T, U, {r.id})
<1> DEFINE e == T.effects[r.id]
           f == [e EXCEPT !.phase = phase, !.state = state]
           U == NextPhase(A, r, phase, state)
<1>1. /\ r.id \in Indices(T) /\ Indices(A) = Indices(T) /\ Good(A) /\ A \in Tree /\ e \in Effect
      /\ Good(T)
  BY GoodEffects DEF Aims, Known, Sound, Fit, Good, Indices
<1>2. /\ SameWork(e, f) /\ f.target = e.target /\ NoteKept(A, e, f) /\ Acked(e, f)
  <2>1. /\ f \in Effect /\ f.kind = e.kind /\ f.target = e.target /\ f.phase = phase
        /\ f.state = state /\ f.caller = e.caller /\ f.callerGeneration = e.callerGeneration
        /\ f.consumed = e.consumed /\ f.claimedBy = e.claimedBy
    <3>1. state \in IntentState
      BY DEF IntentState, HostOwned
    <3> QED BY <1>1, <3>1 DEF Effect
  <2> HIDE DEF f, e
  <2> QED BY <2>1 DEF SameWork, NoteKept, Acked, Phased, HostOwned, e, Candid
<1>3. U = PutEffect(A, r.id, f)
  BY DEF NextPhase
<1> HIDE DEF f, U
<1>4. PICK i \in Indices(A) : i = r.id
  BY <1>1
<1>5. /\ SameWork(A.effects[i], f) /\ f.target = A.effects[i].target
      /\ NoteKept(A, A.effects[i], f)
  BY <1>2, <1>4
<1>6. Fit(PutEffect(A, i, f)) /\ Edits(A, PutEffect(A, i, f), {i}, {})
  BY <1>5, PutEffectEdits, ZenonT(30)
<1>7. PutEffect(A, i, f).effects[i] = f
  BY <1>1, TreeTypes DEF PutEffect, Tree, Indices
<1>8. Fit(U) /\ Edits(A, U, {r.id}, {}) /\ U.effects[r.id] = f
  BY <1>3, <1>4, <1>6, <1>7
<1>9. Edits(T, U, {r.id}, {})
  BY <1>1, <1>8, EditsTrans DEF Fit
<1>10. Keeps(T, U) /\ CreationsKept(T, U, {r.id})
  BY <1>1, <1>2, <1>8, <1>9, AckKeeps
<1> QED
  BY <1>8, <1>10 DEF U


(* A confirmed step of a creation.                                         *)
LEMMA CreationSuccessKeeps ==
    ASSUME NEW T, Sound(T), NEW r, Aims(T, r), r.slot = "effect",
           StateOf(T, r) \in HostOwned, NEW receipt, ~Conflicting(T, r, receipt),
           StepOf(T, r) \in {"create", "assignment_input", "admit"}
    PROVE  LET U == Success(T, r, receipt) IN Keeps(T, U) /\ CreationsKept(T, U, {r.id})
<1> DEFINE t == r.thread
           m == T.members[t]
           e == T.effects[r.id]
           U == Success(T, r, receipt)
<1>1. /\ Fit(T) /\ Good(T) /\ T \in Tree /\ t \in Thread /\ r \in Ref /\ r.id \in Indices(T)
      /\ m \in Member /\ Executing(m) /\ e \in Effect /\ e.state \in HostOwned
  BY FitParts, GoodEffects DEF Sound, Aims, Known, Ref, Fit, Good, StateOf
<1>2. e.kind = "create" /\ e.phase = StepOf(T, r)
  BY <1>1 DEF StepOf, Step, Effect, EffectKind
<1>3. CASE StepOf(T, r) = "create"
  <2> DEFINE n == [m EXCEPT !.status = "pending", !.generation = 1]
             A == AdmitChild(T, t)
             N == NextPhase(A, r, "assignment_input", "pending")
  <2>1. U = N
    BY <1>3 DEF Success
  <2>2. m.status = "absent"
    BY <1>3 DEF Conflicting, CreatesThread
  <2>3. Good(A)
    BY <1>1, <2>2, AdmitChildGood
  <2>4. A = Put(T, t, n) /\ SameWaits(m, n) /\ n.status = "pending"
    BY <1>1 DEF AdmitChild, Member, SameWaits, SameTargets
  <2> HIDE DEF n, A
  <2>5. Fit(A) /\ Edits(T, A, {}, {})
    BY <1>1, <2>3, <2>4, PutSameWaits
  <2>6. A.effects = T.effects
    BY <1>1, <2>4, PutSelects
  <2>7. Passed("assignment_input") = Passed(e.phase) \cup {e.phase}
    BY <1>2, <1>3 DEF Passed
  <2>8. Keeps(T, N) /\ CreationsKept(T, N, {r.id})
    BY <1>1, <1>2, <2>5, <2>6, <2>7, NextPhaseKeeps DEF Phase
  <2> HIDE DEF N
  <2> QED BY <2>1, <2>8
<1>4. CASE StepOf(T, r) = "assignment_input"
  <2> DEFINE s == IF m.status = "paused" THEN "paused" ELSE "pending"
             N == NextPhase(T, r, "admit", s)
  <2>1. U = SettleRecovery(N, t)
    BY <1>4 DEF Success
  <2>2. Passed("admit") = Passed(e.phase) \cup {e.phase}
    BY <1>2, <1>4 DEF Passed
  <2>3. s \in {"pending", "paused", "canceled"} /\ Edits(T, T, {}, {})
    BY <1>1, NoEdit
  <2> HIDE DEF s
  <2>4. Fit(N) /\ Keeps(T, N) /\ CreationsKept(T, N, {r.id})
    BY <1>1, <1>2, <2>2, <2>3, NextPhaseKeeps DEF Phase
  <2> HIDE DEF N
  <2> QED BY <1>1, <2>1, <2>4, SettleRecoveryIdle
<1>5. CASE StepOf(T, r) = "admit"
  <2> DEFINE n == [m EXCEPT !.audience = TRUE]
             A == Put(T, t, n)
             p == IF m.status = "paused" THEN "paused" ELSE "pending"
             s == IF e.outcome = "interrupted" THEN "canceled" ELSE p
             N == NextPhase(A, r, "initial", s)
  <2>1. U = SettleRecovery(N, t)
    BY <1>5 DEF Success
  <2>2. Passed("initial") = Passed(e.phase) \cup {e.phase}
    BY <1>2, <1>5 DEF Passed
  <2>3. s \in {"pending", "paused", "canceled"}
    OBVIOUS
  <2>4. /\ n \in Member /\ KeepsStanding(m, n) /\ SameWaits(m, n) /\ n.status = m.status
    BY <1>1 DEF Member, SameWaits, SameTargets, KeepsStanding
  <2> HIDE DEF n, s
  <2>5. Good(A)
    BY <1>1, <2>4, PutStandingGood
  <2>6. Fit(A) /\ Edits(T, A, {}, {})
    BY <1>1, <2>4, <2>5, PutSameWaits
  <2>7. A.effects = T.effects
    BY <1>1, PutSelects
  <2> HIDE DEF A
  <2>8. Fit(N) /\ Keeps(T, N) /\ CreationsKept(T, N, {r.id})
    BY <1>1, <1>2, <2>2, <2>3, <2>6, <2>7, NextPhaseKeeps DEF Phase
  <2> HIDE DEF N
  <2> QED BY <1>1, <2>1, <2>8, SettleRecoveryIdle
<1> QED
  BY <1>3, <1>4, <1>5

(* A confirmed effect that is not a step of a creation before its input.   *)
LEMMA EffectSuccessKeeps ==
    ASSUME NEW T, Sound(T), NEW r, Aims(T, r), r.slot = "effect",
           StateOf(T, r) \in HostOwned, NEW receipt, receipt.turn \in Nat,
           StepOf(T, r) \notin {"create", "assignment_input", "admit"}
    PROVE  LET U == Success(T, r, receipt) IN Keeps(T, U) /\ CreationsKept(T, U, {r.id})
<1> DEFINE t == r.thread
           C == WithState(T, r, "confirmed")
           B == AcceptTurn(C, r, receipt.turn)
           U == Success(T, r, receipt)
<1>1. /\ Fit(T) /\ t \in Thread /\ r \in Ref
  BY DEF Sound, Aims, Ref
<1>2. StepOf(T, r) \notin {"wake", "compact"}
  <2>1. T.effects[r.id] \in Effect
    BY <1>1, GoodEffects DEF Aims, Known, Fit
  <2> QED BY <2>1 DEF StepOf, Step, Effect, EffectKind, Phase
<1>3. U = SettleRecovery(C, t) \/ U = SettleRecovery(B, t)
  BY <1>2 DEF Success
<1>4. /\ Fit(C) /\ Edits(T, C, {r.id}, {}) /\ r.id \in Indices(T)
      /\ Acked(T.effects[r.id], C.effects[r.id])
  BY <1>1, OutcomeEdits
<1> HIDE DEF C
<1>5. Fit(B) /\ Edits(C, B, {}, {})
  BY <1>1, <1>4, AcceptTurnEdits
<1> HIDE DEF B
<1>6. CASE U = SettleRecovery(C, t)
  <2>1. U = C /\ Edits(C, C, {}, {})
    BY <1>1, <1>4, <1>6, SettleRecoveryIdle, NoEdit DEF Fit
  <2>2. Keeps(T, C) /\ CreationsKept(T, C, {r.id})
    BY <1>4, <2>1, AckThenEdit
  <2> HIDE DEF U
  <2>3. Keeps(T, U) /\ CreationsKept(T, U, {r.id})
    BY <2>1, <2>2
  <2> QED BY <2>3 DEF U
<1>7. CASE U = SettleRecovery(B, t)
  <2>1. U = B
    BY <1>1, <1>5, <1>7, SettleRecoveryIdle
  <2>2. Keeps(T, B) /\ CreationsKept(T, B, {r.id})
    BY <1>4, <1>5, AckThenEdit
  <2> HIDE DEF U
  <2>3. Keeps(T, U) /\ CreationsKept(T, U, {r.id})
    BY <2>1, <2>2
  <2> QED BY <2>3 DEF U
<1> QED
  BY <1>3, <1>6, <1>7

(* What a confirmed wake or checkpoint leaves of its thread.               *)
LEMMA WaitSuccessIs ==
    ASSUME NEW T, Fit(T), NEW r, Aims(T, r), r.slot # "effect", NEW receipt, receipt.turn \in Nat
    PROVE  LET m == T.members[r.thread]
               U == Success(T, r, receipt)
           IN  \E k :
                 /\ MayBecome(m, k)
                 /\ k.wait.id = m.wait.id /\ k.recoveryWait = m.recoveryWait /\ k.calls = m.calls
                 /\ SameTargets(m, k)
                 /\ k.status = "completed" => m.status = "completed"
                 /\ r.slot = "wake" => k.wait.state = "completed" /\ k.wait.compact = m.wait.compact
                 /\ r.slot = "compact" => k.wait.compact = "completed" /\ k.wait.state = m.wait.state
                 /\ U = SettleRecovery(Put(T, r.thread, k), r.thread)
<1> DEFINE t == r.thread
           m == T.members[t]
           a == IF r.slot = "wake" THEN [m EXCEPT !.wait.state = "completed"]
                ELSE [m EXCEPT !.wait.compact = "completed"]
           C == WithState(T, r, "completed")
           b == [a EXCEPT !.status = "waiting"]
           c == Start(a, receipt.turn)
           S == IF r.slot = "compact"
                THEN IF receipt.reconciled /\ m.status = "uncertain" /\ m.wait.state = "registered"
                     THEN Put(C, t, [C.members[t] EXCEPT !.status = "waiting"]) ELSE C
                ELSE IF receipt.reconciled THEN C ELSE AcceptTurn(C, r, receipt.turn)
           U == Success(T, r, receipt)
<1>1. /\ T \in Tree /\ m \in Member /\ Executing(m) /\ t \in Thread
      /\ r.slot \in {"wake", "compact"}
  BY FitParts DEF Fit, Good, Aims, Ref
<1>2. "completed" \in IntentState
  BY DEF IntentState
<1>3. StepOf(T, r) = r.slot
  BY <1>1 DEF StepOf
<1>4. U = SettleRecovery(S, t)
  <2>1. CASE r.slot = "compact"
    BY <1>3, <2>1 DEF Success
  <2>2. CASE r.slot = "wake"
    BY <1>3, <2>2 DEF Success
  <2> QED BY <1>1, <2>1, <2>2
<1>5. C = Put(T, t, a)
  BY <1>1 DEF WithState
<1>6. C.members[t] = a
  <2> HIDE DEF a, C
  <2> QED BY <1>1, <1>5, PutTwice
<1>7. /\ a \in Member /\ a.wait.id = m.wait.id /\ a.recoveryWait = m.recoveryWait
      /\ a.calls = m.calls /\ a.status = m.status /\ a.generation = m.generation
      /\ a.hostRunning = m.hostRunning /\ SameTargets(m, a)
      /\ r.slot = "wake" => a.wait.state = "completed" /\ a.wait.compact = m.wait.compact
      /\ r.slot = "compact" => a.wait.compact = "completed" /\ a.wait.state = m.wait.state
  <2>1. CASE r.slot = "wake"
    BY <1>1, <1>2, <2>1 DEF Member, Wait, SameTargets
  <2>2. CASE r.slot = "compact"
    BY <1>1, <1>2, <2>2 DEF Member, Wait, SameTargets
  <2> QED BY <1>1, <2>1, <2>2
<1> HIDE DEF a
<1>8. \/ S = Put(T, t, a)
      \/ S = Put(T, t, b) /\ m.status = "uncertain"
      \/ S = Put(T, t, c) /\ Reserved(m)
  <2>1. CASE S = C
    BY <1>5, <2>1
  <2>2. CASE S = Put(C, t, b) /\ m.status = "uncertain"
    <3>1. Put(Put(T, t, a), t, b) = Put(T, t, b)
      BY <1>1, PutTwice
    <3> QED BY <1>5, <2>2, <3>1
  <2>3. CASE S = Put(C, t, c) /\ Reserved(m)
    <3>1. Put(Put(T, t, a), t, c) = Put(T, t, c)
      BY <1>1, PutTwice
    <3> QED BY <1>5, <2>3, <3>1
  <2>4. S = C \/ (S = Put(C, t, b) /\ m.status = "uncertain") \/ (S = Put(C, t, c) /\ Reserved(m))
    <3>1. Reserved(a) => Reserved(m)
      BY <1>7 DEF Reserved
    <3>2. \/ AcceptTurn(C, r, receipt.turn) = C
          \/ AcceptTurn(C, r, receipt.turn) = Put(C, t, c) /\ Reserved(a)
      <4> HIDE DEF C, c
      <4> QED BY <1>6 DEF AcceptTurn, c
    <3> HIDE DEF C, c
    <3> QED BY <1>6, <3>1, <3>2
  <2> QED BY <2>1, <2>2, <2>3, <2>4
<1>9. /\ b \in Member /\ b.wait = a.wait /\ b.recoveryWait = a.recoveryWait /\ b.calls = a.calls
      /\ b.status = "waiting" /\ b.generation = a.generation /\ b.hostRunning = a.hostRunning
  BY <1>7 DEF Member, Status, ReservedStatus, ActiveStatus
<1>10. /\ c \in Member /\ c.wait = a.wait /\ c.recoveryWait = a.recoveryWait /\ c.calls = a.calls
       /\ c.status = "working" /\ c.generation = a.generation /\ c.hostRunning
  BY <1>7 DEF Start, Member, Status, ReservedStatus, ActiveStatus
<1> HIDE DEF b, c
<1>11. /\ MayBecome(m, a) /\ (m.status = "uncertain" => MayBecome(m, b))
       /\ (Reserved(m) => MayBecome(m, c))
  <2>1. m.generation \in Nat
    BY <1>1 DEF Member
  <2> QED BY <1>1, <1>7, <1>9, <1>10, <2>1
          DEF MayBecome, Executing, Reserved, ReservedStatus, ActiveStatus
<1>12. PICK k \in {a, b, c} : S = Put(T, t, k) /\ MayBecome(m, k)
  BY <1>8, <1>11
<1>13. /\ k.wait = a.wait /\ k.recoveryWait = a.recoveryWait /\ k.calls = a.calls
       /\ SameTargets(m, k)
       /\ k.status = "completed" => m.status = "completed"
  BY <1>7, <1>9, <1>10, <1>12 DEF SameTargets
<1> HIDE DEF S, U
<1> QED
  BY <1>4, <1>7, <1>12, <1>13 DEF U


(* A confirmed wake or checkpoint.                                         *)
LEMMA WaitSuccessKeeps ==
    ASSUME NEW T, Sound(T), NEW r, Aims(T, r), r.slot # "effect",
           StateOf(T, r) \in HostOwned, NEW receipt, receipt.turn \in Nat
    PROVE  Keeping(T, Success(T, r, receipt))
<1> DEFINE t == r.thread
           m == T.members[t]
           U == Success(T, r, receipt)
<1>1. Fit(T) /\ t \in Thread /\ r.slot \in {"wake", "compact"}
  BY DEF Sound, Aims, Ref
<1>2. PICK k : /\ MayBecome(m, k)
               /\ k.wait.id = m.wait.id /\ k.recoveryWait = m.recoveryWait /\ k.calls = m.calls
               /\ SameTargets(m, k)
               /\ k.status = "completed" => m.status = "completed"
               /\ r.slot = "wake" => k.wait.state = "completed" /\ k.wait.compact = m.wait.compact
               /\ r.slot = "compact" => k.wait.compact = "completed" /\ k.wait.state = m.wait.state
               /\ U = SettleRecovery(Put(T, t, k), t)
  BY <1>1, WaitSuccessIs
<1> SUFFICES Keeping(T, U)
  OBVIOUS
<1> HIDE DEF U
<1>3. CASE r.slot = "wake"
  <2>1. Dispatched(m.wait)
    BY <1>3 DEF StateOf, Dispatched
  <2>2. /\ Fit(SettleRecovery(Put(T, t, k), t))
        /\ Edits(T, SettleRecovery(Put(T, t, k), t), {}, {})
    BY <1>1, <1>2, <1>3, <2>1, WakeSettledEdits
  <2> QED BY <1>2, <2>2, PlainKeeps
<1>4. CASE r.slot = "compact"
  <2>1. m.wait.compact \in HostOwned
    BY <1>4 DEF StateOf
  <2>2. Fit(Put(T, t, k)) /\ Edits(T, Put(T, t, k), {}, {})
    BY <1>1, <1>2, <1>4, <2>1, WaitOutcomeEdits
  <2>3. U = Put(T, t, k)
    BY <1>1, <1>2, <2>2, SettleRecoveryIdle
  <2> QED BY <2>2, <2>3, PlainKeeps
<1> QED
  BY <1>1, <1>3, <1>4

(* The host's answer, or what its history proves of it, keeps everything   *)
(* but the creation it is about.                                           *)
LEMMA AcknowledgeKeeps ==
    ASSUME NEW T, Sound(T), NEW r \in Ref,
           Known(T, r) => Aims(T, r), NEW receipt, receipt.turn \in Nat
    PROVE  LET U == Acknowledge(T, r, receipt) IN Keeps(T, U) /\ CreationsKept(T, U, About(r))
<1> DEFINE U == Acknowledge(T, r, receipt)
           F == Failure(T, r, receipt)
           S == Success(T, r, receipt)
<1> SUFFICES Keeps(T, U) /\ CreationsKept(T, U, About(r))
  OBVIOUS
<1>1. \A X : Keeping(T, X) => Keeps(T, X) /\ CreationsKept(T, X, About(r))
  BY DEF Keeping, CreationsKept
<1>2. CASE U = T
  BY <1>1, <1>2, SameKeeps
<1>3. CASE U = F /\ Acknowledgeable(T, r, receipt) /\ receipt.error # "none"
  <2>1. Aims(T, r) /\ StateOf(T, r) = "dispatching"
    BY <1>3 DEF Acknowledgeable
  <2>2. CASE r.slot = "effect"
    <3>1. Keeps(T, F) /\ CreationsKept(T, F, {r.id})
      BY <2>1, <2>2, EffectFailureKeeps
    <3> HIDE DEF F, U
    <3> QED BY <1>3, <2>2, <3>1 DEF About
  <2>3. CASE r.slot # "effect"
    <3>1. Keeping(T, F)
      BY <2>1, <2>3, WaitFailureKeeps
    <3> HIDE DEF F, U
    <3> QED BY <1>1, <1>3, <3>1
  <2> QED BY <2>2, <2>3
<1>4. CASE U = S /\ Acknowledgeable(T, r, receipt) /\ ~Conflicting(T, r, receipt)
  <2>1. Aims(T, r) /\ StateOf(T, r) \in HostOwned
    BY <1>4 DEF Acknowledgeable, HostOwned
  <2>2. CASE r.slot = "effect"
    <3>1. Keeps(T, S) /\ CreationsKept(T, S, {r.id})
      BY <1>4, <2>1, <2>2, EffectSuccessKeeps, CreationSuccessKeeps
    <3> HIDE DEF S, U
    <3> QED BY <1>4, <2>2, <3>1 DEF About
  <2>3. CASE r.slot # "effect"
    <3>1. Keeping(T, S)
      BY <2>1, <2>3, WaitSuccessKeeps
    <3> HIDE DEF S, U
    <3> QED BY <1>1, <1>4, <3>1
  <2> QED BY <2>2, <2>3
<1>5. \/ U = T
      \/ U = F /\ Acknowledgeable(T, r, receipt) /\ receipt.error # "none"
      \/ U = S /\ Acknowledgeable(T, r, receipt) /\ ~Conflicting(T, r, receipt)
  <2> HIDE DEF F, S
  <2> QED BY DEF Acknowledge, F, S
<1> QED
  BY <1>2, <1>3, <1>4, <1>5
-----------------------------------------------------------------------------
(* Stops and continuations.  Of a member whose host has reported k of its  *)
(* notifications: a registered wait belongs to a turn that is reported to  *)
(* have ended or that executes, and to a generation that was reserved; and *)
(* the stop that a committed wait of the present work is owed is retained. *)
Bound(w, m, k) == w.state = "registered" =>
    /\ 2 * w.turn <= k \/ (m.hostRunning /\ w.turn = m.turn)
    /\ w.generation <= m.generation
    /\ m.status # "absent"
Current(w, m) ==
    /\ w.state = "registered" /\ w.stop = "committed" /\ w.generation = m.generation
    /\ IF m.hostRunning THEN w.turn = m.turn ELSE Reserved(m)

Dated(m, k)   == Bound(m.wait, m, k) /\ Bound(m.recoveryWait, m, k)
Backed(m)     == Current(m.wait, m) \/ Current(m.recoveryWait, m) => m.stop.kind # "none"
Retains(m, k) == Dated(m, k) /\ Backed(m)

(* Nothing is registered that a stop could be owed to.                     *)
Idle(m) == m.wait.state # "registered" /\ m.recoveryWait.state # "registered"

(* What a registered wait is owed, it was owed before.                     *)
Pales(w, v) == v.state = "registered" =>
    /\ w.state = "registered" /\ v.turn = w.turn /\ v.generation = w.generation
    /\ v.stop = "committed" => w.stop = "committed"
Eases(m, n) ==
    /\ n.hostRunning = m.hostRunning /\ n.turn = m.turn /\ n.generation = m.generation
    /\ Reserved(n) => Reserved(m)
    /\ n.status = "absent" => m.status = "absent"
    /\ n.stop.kind = "none" => m.stop.kind = "none"
    /\ Pales(m.wait, n.wait) \/ Pales(m.recoveryWait, n.wait)
    /\ Pales(m.wait, n.recoveryWait) \/ Pales(m.recoveryWait, n.recoveryWait)

(* What a handler leaves retained that was, whatever has been reported.    *)
Calmer(m, n) == \A k \in Nat : Retains(m, k) => Retains(n, k)
Calm(T, U)   == \A t \in Thread : Calmer(T.members[t], U.members[t])

(* Easing keeps dates, and what is backed.                                 *)
LEMMA EasesKeeps ==
    ASSUME NEW m, NEW n, Eases(m, n)
    PROVE  /\ \A k \in Nat : Dated(m, k) => Dated(n, k)
           /\ Backed(m) => Backed(n)
           /\ Calmer(m, n)
<1>1. ASSUME NEW k \in Nat, Dated(m, k)
      PROVE  Dated(n, k)
  <2>1. ASSUME NEW w, w \in {m.wait, m.recoveryWait}, NEW v, Pales(w, v)
        PROVE  Bound(v, n, k)
    <3>1. Bound(w, m, k)
      BY <1>1, <2>1 DEF Dated
    <3> QED BY <2>1, <3>1 DEF Bound, Pales, Eases
  <2> QED BY <2>1 DEF Eases, Dated
<1>2. ASSUME Backed(m)
      PROVE  Backed(n)
  <2>1. ASSUME NEW w, w \in {m.wait, m.recoveryWait}, NEW v, Pales(w, v), Current(v, n)
        PROVE  n.stop.kind # "none"
    <3>1. Current(w, m)
      BY <2>1 DEF Current, Pales, Eases
    <3> QED BY <1>2, <2>1, <3>1 DEF Backed, Eases
  <2> QED BY <2>1 DEF Eases, Backed
<1> QED
  BY <1>1, <1>2 DEF Calmer, Retains

(* A member without registered waits retains whatever it owes.             *)
LEMMA IdleRetains ==
    ASSUME NEW n, Idle(n)
    PROVE  (\A k \in Nat : Retains(n, k)) /\ \A m : Calmer(m, n)
BY DEF Idle, Retains, Dated, Backed, Bound, Current, Calmer

(* More reports date no wait anew.                                         *)
LEMMA RetainsLater ==
    ASSUME NEW m \in Member, NEW k \in Nat, NEW j \in Nat, k <= j
    PROVE  (Dated(m, k) => Dated(m, j)) /\ (Retains(m, k) => Retains(m, j))
<1>1. m.wait.turn \in Nat /\ m.recoveryWait.turn \in Nat
  BY DEF Member, Wait
<1> QED
  BY <1>1 DEF Retains, Dated, Bound

(* Members that stay as they are.                                          *)
LEMMA CalmSame ==
    ASSUME NEW T, NEW U, U.members = T.members
    PROVE  Calm(T, U)
BY DEF Calm, Calmer

(* Two calm steps in a row are one.                                        *)
LEMMA CalmTrans ==
    ASSUME NEW T, NEW U, NEW V, Calm(T, U), Calm(U, V)
    PROVE  Calm(T, V)
BY DEF Calm, Calmer

(* One member that is replaced.                                            *)
LEMMA CalmPut ==
    ASSUME NEW T, T \in Tree, NEW t \in Thread, NEW n, Calmer(T.members[t], n)
    PROVE  Calm(T, Put(T, t, n))
BY PutSelects DEF Calm, Calmer

(* One member changes, and is calmer.                                      *)
LEMMA CalmOne ==
    ASSUME NEW T, NEW U, NEW t \in Thread, Calmer(T.members[t], U.members[t]),
           \A u \in Thread \ {t} : U.members[u] = T.members[u]
    PROVE  Calm(T, U)
BY DEF Calm, Calmer

(* A canceled subscription of a member is not registered, and nothing else *)
(* of the member changes.                                                  *)
LEMMA CanceledMember ==
    ASSUME NEW T, Good(T), NEW t \in Thread
    PROVE  LET C == CancelSubscription(T, t)
               m == T.members[t]
               n == C.members[t]
           IN  /\ n.hostRunning = m.hostRunning /\ n.turn = m.turn /\ n.generation = m.generation
               /\ n.status = m.status /\ n.stop = m.stop /\ n.recoveryWait = m.recoveryWait
               /\ n.wait.state # "registered"
               /\ \A u \in Thread \ {t} : C.members[u] = T.members[u]
<1> DEFINE m == T.members[t]
           w == m.wait
           c == IF w.compact \in HostOwned \cup {"none"} THEN w.compact ELSE "canceled"
           v == [w EXCEPT !.state = "canceled", !.stop = "none", !.compact = c]
           n == [m EXCEPT !.wait = v]
           C == CancelSubscription(T, t)
<1>1. m \in Member /\ T \in Tree
  BY GoodParts
<1>2. CASE w.state = "none"
  <2>1. C = T
    BY <1>2 DEF CancelSubscription
  <2> QED BY <1>2, <2>1
<1>3. CASE w.state # "none"
  <2>1. C.members = Put(T, t, n).members
    BY <1>1, <1>3 DEF CancelSubscription, EachEffect, Put, Tree
  <2>2. v.state = "canceled"
    BY <1>1 DEF Member, Wait
  <2> HIDE DEF v
  <2>3. /\ n.hostRunning = m.hostRunning /\ n.turn = m.turn /\ n.generation = m.generation
        /\ n.status = m.status /\ n.stop = m.stop /\ n.recoveryWait = m.recoveryWait
        /\ n.wait = v
    BY <1>1 DEF Member
  <2> HIDE DEF n, C
  <2>4. Put(T, t, n).members[t] = n /\ \A u \in Thread \ {t} : Put(T, t, n).members[u] = T.members[u]
    BY <1>1, PutSelects
  <2> QED BY <2>1, <2>2, <2>3, <2>4 DEF C
<1> QED
  BY <1>2, <1>3

(* Canceling a subscription is calm, and where no wake is out it leaves    *)
(* nothing registered.                                                     *)
LEMMA CanceledCalm ==
    ASSUME NEW T, Fit(T), NEW t \in Thread
    PROVE  LET C == CancelSubscription(T, t) IN
           /\ Calm(T, C)
           /\ Eases(T.members[t], C.members[t])
           /\ ~Dispatched(T.members[t].wait) => Idle(C.members[t])
<1> DEFINE m == T.members[t]
           n == CancelSubscription(T, t).members[t]
<1>1. /\ n.hostRunning = m.hostRunning /\ n.turn = m.turn /\ n.generation = m.generation
      /\ n.status = m.status /\ n.stop = m.stop /\ n.recoveryWait = m.recoveryWait
      /\ n.wait.state # "registered"
      /\ \A u \in Thread \ {t} : CancelSubscription(T, t).members[u] = T.members[u]
  BY CanceledMember DEF Fit
<1>2. WaitsInOrder(m)
  BY FitParts
<1> HIDE DEF n, m
<1>3. Eases(m, n)
  BY <1>1 DEF Eases, Pales, Reserved
<1>4. ~Dispatched(m.wait) => Idle(n)
  BY <1>1, <1>2 DEF Idle, WaitsInOrder
<1>5. Calmer(m, n)
  BY <1>3, EasesKeeps
<1> QED
  BY <1>1, <1>3, <1>4, <1>5, CalmOne DEF m, n

(* A deferred completion and a dispatched wake are settled calmly.         *)
LEMMA CompletionCalm ==
    ASSUME NEW T, Fit(T), NEW t \in Thread
    PROVE  Calm(T, CancelCompletion(T, t)) /\ CancelCompletion(T, t).members = T.members
BY CancelCompletionEdits, CalmSame

(* Canceling a wait, unless the host may own its wake, eases its member.   *)
LEMMA UnlessDispatchedEases ==
    ASSUME NEW T, Fit(T), NEW t \in Thread
    PROVE  LET C == CancelUnlessDispatched(T, t)
               m == T.members[t]
               n == C.members[t]
           IN  /\ Eases(m, n) /\ n.status = m.status /\ n.stop = m.stop
               /\ n.recoveryWait = m.recoveryWait /\ Pales(m.wait, n.wait)
               /\ \A u \in Thread \ {t} : C.members[u] = T.members[u]
<1> DEFINE m == T.members[t]
           C == CancelUnlessDispatched(T, t)
           n == C.members[t]
<1>1. Good(T)
  BY DEF Fit
<1>2. C = T \/ C = CancelSubscription(T, t)
  BY DEF CancelUnlessDispatched
<1>3. CASE C = T
  BY <1>3 DEF Eases, Pales
<1>4. CASE C = CancelSubscription(T, t)
  BY <1>1, <1>4, CanceledMember DEF Eases, Pales, Reserved
<1> QED
  BY <1>2, <1>3, <1>4

(* Settled work owes its waits no stop.                                    *)
LEMMA FinishedMember ==
    ASSUME NEW T, Fit(T), NEW t \in Thread, NEW status \in Outcome,
           Reserved(T.members[t]), ~T.members[t].hostRunning
    PROVE  LET U == Finish(T, t, status)
               m == T.members[t]
               n == U.members[t]
           IN  /\ \A k \in Nat : Dated(m, k) => Retains(n, k)
               /\ Idle(m) => Idle(n)
               /\ Calm(T, U)
               /\ \A u \in Thread \ {t} : U.members[u] = T.members[u]
<1> DEFINE m == T.members[t]
           S == CancelCompletion(T, t)
           p == [S.members[t] EXCEPT !.status = status]
           P == Put(S, t, p)
           R == CancelUnlessDispatched(P, t)
           k == R.members[t]
           U == Finish(T, t, status)
           n == U.members[t]
<1>1. /\ Fit(S) /\ S.members = T.members /\ Good(S) /\ S \in Tree
      /\ m \in Member /\ Good(T) /\ Executing(m)
  BY FitParts, CancelCompletionEdits DEF Good, Fit
<1>2. /\ p \in Member /\ p.status = status /\ p.generation = m.generation /\ p.stop = m.stop
      /\ p.hostRunning = m.hostRunning /\ p.turn = m.turn /\ p.wait = m.wait
      /\ p.recoveryWait = m.recoveryWait /\ SameWaits(m, p)
  BY <1>1 DEF Member, Outcome, Status, SameWaits, SameTargets
<1> HIDE DEF S, p
<1>3. MayBecome(m, p)
  BY <1>1, <1>2 DEF MayBecome, Executing, Outcome, Reserved, ReservedStatus, ActiveStatus, Member
<1>4. Fit(P) /\ P.members[t] = p /\ \A u \in Thread \ {t} : P.members[u] = T.members[u]
  <2>1. Good(P)
    BY <1>1, <1>3, PutGood
  <2>2. t \notin {t} /\ p.status = "completed" => m.status = "completed"
    OBVIOUS
  <2>3. Fit(P)
    BY <1>1, <1>2, <2>1, <2>2, PutSameWaits
  <2> QED BY <1>1, <2>3, PutSelects
<1> HIDE DEF P
<1>5. /\ Eases(p, k) /\ k.status = status /\ k.recoveryWait = p.recoveryWait
      /\ Pales(p.wait, k.wait)
      /\ \A u \in Thread \ {t} : R.members[u] = T.members[u]
  BY <1>2, <1>4, UnlessDispatchedEases
<1>6. U.members = R.members
  <2> DEFINE d == NewEffect("final", t, k.turn, k.generation, Parent[t], 0)
             final == [d EXCEPT !.outcome = status]
  <2>1. U = IF t = Root THEN R ELSE AddEffect(R, final)
    BY DEF Finish, R, P, p, S
  <2>2. Fit(R)
    BY <1>4, CancelUnlessDispatchedEdits
  <2>3. R = [members |-> R.members, effects |-> R.effects]
    BY <2>2, TreeTypes DEF Fit, Good
  <2> HIDE DEF R, final, U
  <2> QED BY <2>1, <2>3 DEF AddEffect
<1> HIDE DEF R, U
<1>7. n = k /\ \A u \in Thread \ {t} : U.members[u] = T.members[u]
  BY <1>5, <1>6
<1>8. Eases(m, p) \/ Reserved(p)
  BY <1>2 DEF Eases, Pales, Outcome
<1>9. ~Reserved(k) /\ ~k.hostRunning
  BY <1>2, <1>5 DEF Eases, Reserved, ReservedStatus, ActiveStatus, Outcome
<1>10. Eases(m, p)
  BY <1>2, <1>5, <1>8, <1>9 DEF Reserved
<1>11. \A j \in Nat : Dated(m, j) => Retains(k, j)
  <2>1. Backed(k)
    BY <1>9 DEF Backed, Current
  <2>2. \A j \in Nat : Dated(m, j) => Dated(k, j)
    BY <1>5, <1>10, EasesKeeps
  <2> QED BY <2>1, <2>2 DEF Retains
<1>12. Idle(m) => Idle(k)
  BY <1>2, <1>5 DEF Idle, Pales
<1>13. Calm(T, U)
  <2>1. Calmer(m, n)
    BY <1>7, <1>11 DEF Calmer, Retains
  <2> QED BY <1>7, <2>1, CalmOne
<1> QED
  BY <1>7, <1>11, <1>12, <1>13 DEF U

(* A continuation is owed the stop it comes with.                          *)
LEMMA HeldMember ==
    ASSUME NEW T, Fit(T), NEW t \in Thread, NEW w \in Wait,
           NEW kind \in {"recovery", "provider"}, NEW turn \in Nat, Reserved(T.members[t])
    PROVE  LET U == Hold(T, t, w, kind, turn) IN
           /\ \A k \in Nat : Dated(T.members[t], k) /\ Bound(w, T.members[t], k)
                             => Retains(U.members[t], k)
           /\ \A u \in Thread \ {t} : U.members[u] = T.members[u]
<1> DEFINE m == T.members[t]
           C == IF Dispatched(m.wait) THEN T ELSE CancelSubscription(T, t)
           c == C.members[t]
           stop == [kind |-> kind, generation |-> m.generation, turn |-> turn, wait |-> w.id]
           w1 == IF Dispatched(m.wait) THEN c.wait ELSE w
           w2 == IF Dispatched(m.wait) THEN w ELSE c.recoveryWait
           n == [c EXCEPT !.wait = w1, !.recoveryWait = w2, !.stop = stop,
                          !.status = "waiting", !.calls = w.id]
           U == Hold(T, t, w, kind, turn)
<1>1. /\ Fit(C) /\ c \in Member /\ Eases(m, c) /\ C \in Tree
      /\ \A u \in Thread \ {t} : C.members[u] = T.members[u]
  <2>1. CASE Dispatched(m.wait)
    BY <2>1, FitParts DEF Eases, Pales, Fit, Good
  <2>2. CASE ~Dispatched(m.wait)
    <3>1. Fit(CancelSubscription(T, t)) /\ CancelSubscription(T, t) \in Tree
      BY <2>2, CancelSubscriptionEdits DEF Fit, Good
    <3>2. Eases(m, CancelSubscription(T, t).members[t])
      BY CanceledCalm
    <3>3. \A u \in Thread \ {t} : CancelSubscription(T, t).members[u] = T.members[u]
      BY CanceledMember DEF Fit
    <3> QED BY <2>2, <3>1, <3>2, <3>3, FitParts
  <2> QED BY <2>1, <2>2
<1>2. U = Put(C, t, n)
  BY DEF Hold
<1> HIDE DEF C
<1>3. /\ n.wait = w1 /\ n.recoveryWait = w2 /\ n.stop = stop /\ n.status = "waiting"
      /\ n.hostRunning = m.hostRunning /\ n.turn = m.turn /\ n.generation = m.generation
  <2> HIDE DEF w1, w2, stop
  <2> QED BY <1>1 DEF Member, Eases
<1>4. stop.kind # "none"
  OBVIOUS
<1>5. ASSUME NEW k \in Nat, Dated(m, k), Bound(w, m, k)
      PROVE  Bound(w1, n, k) /\ Bound(w2, n, k)
  <2>1. \A v : Bound(v, c, k) => Bound(v, n, k)
    BY <1>1, <1>3 DEF Bound, Eases
  <2>2. Bound(w, n, k)
    BY <1>3, <1>5 DEF Bound
  <2>3. Bound(c.wait, c, k) /\ Bound(c.recoveryWait, c, k)
    BY <1>1, <1>5, EasesKeeps DEF Dated
  <2> HIDE DEF n
  <2> QED BY <2>1, <2>2, <2>3
<1> HIDE DEF stop, w1, w2, n
<1>6. \A k \in Nat : Dated(m, k) /\ Bound(w, m, k) => Retains(n, k)
  BY <1>3, <1>4, <1>5 DEF Retains, Dated, Backed
<1> QED
  BY <1>1, <1>2, <1>6, PutSelects DEF U

(* Installing the continuation that waited is calm.                        *)
LEMMA SettledCalm ==
    ASSUME NEW T, T \in Tree, NEW t \in Thread
    PROVE  Calm(T, SettleRecovery(T, t))
<1> DEFINE m == T.members[t]
           s == IF m.status = "uncertain" THEN "waiting" ELSE m.status
           n == [m EXCEPT !.wait = m.recoveryWait, !.recoveryWait = NoWait, !.status = s]
<1>1. m \in Member
  BY TreeTypes
<1>2. SettleRecovery(T, t) = T \/ SettleRecovery(T, t) = Put(T, t, n)
  BY DEF SettleRecovery
<1>3. Eases(m, n)
  <2>1. /\ n.hostRunning = m.hostRunning /\ n.turn = m.turn /\ n.generation = m.generation
        /\ n.stop = m.stop /\ n.wait = m.recoveryWait /\ n.recoveryWait = NoWait /\ n.status = s
    BY <1>1 DEF Member
  <2>2. NoWait.state = "none"
    BY DEF NoWait
  <2> HIDE DEF n
  <2> QED BY <2>1, <2>2 DEF Eases, Pales, Reserved, ReservedStatus, ActiveStatus
<1> HIDE DEF n
<1> QED
  BY <1>2, <1>3, EasesKeeps, CalmPut, CalmSame

(* A turn that starts is later than every turn a registered wait belongs   *)
(* to, unless its start had been seen already.                             *)
LEMMA StartedRetains ==
    ASSUME NEW T, Fit(T), NEW t \in Thread, NEW turn \in Nat, NEW k \in Nat, NEW j \in Nat,
           k <= j, j < 2 * turn, Retains(T.members[t], k)
    PROVE  LET U == Started(T, t, turn) IN
           /\ Retains(U.members[t], j)
           /\ \A u \in Thread \ {t} : U.members[u] = T.members[u]
<1> DEFINE m == T.members[t]
           C == IF t = Root /\ m.wait.state \in {"registered", "queued"}
                THEN CancelSubscription(T, t) ELSE T
           c == C.members[t]
           generation == IF Reserved(m) THEN m.generation ELSE m.generation + 1
           g == [c EXCEPT !.generation = generation, !.stop = NoStop]
           n == Start(g, turn)
           admitted == m.audience /\ ~m.hostRunning /\
                       (t = Root \/ (Reserved(m) /\ m.status # "paused"))
           U == Started(T, t, turn)
<1>1. m \in Member /\ T \in Tree /\ Good(T)
  BY FitParts DEF Good, Fit
<1>2. /\ C \in Tree /\ c \in Member /\ Eases(m, c)
      /\ \A u \in Thread \ {t} : C.members[u] = T.members[u]
  <2>1. CASE C = T
    BY <1>1, <2>1 DEF Eases, Pales
  <2>2. CASE C = CancelSubscription(T, t)
    <3>1. CancelSubscription(T, t) \in Tree /\ CancelSubscription(T, t).members[t] \in Member
      BY <1>1, CancelSubscriptionGood, GoodParts DEF Good
    <3> QED BY <1>1, <2>2, <3>1, CanceledCalm, CanceledMember
  <2> QED BY <2>1, <2>2
<1>3. U = IF ~admitted THEN T ELSE Put(C, t, n)
  BY DEF Started
<1> HIDE DEF C
<1>4. CASE ~admitted
  BY <1>1, <1>3, <1>4, RetainsLater
<1>5. CASE admitted
  <2>1. /\ n.hostRunning /\ n.turn = turn /\ n.generation = generation /\ n.status = "working"
        /\ n.wait = c.wait /\ n.recoveryWait = c.recoveryWait
    <3>1. g.wait = c.wait /\ g.recoveryWait = c.recoveryWait /\ g.generation = generation /\ g \in Member
      <4>1. generation \in Nat
        BY <1>1 DEF Member
      <4> HIDE DEF generation
      <4> QED BY <1>2, <4>1, NoStopType DEF Member
    <3> HIDE DEF g
    <3> QED BY <3>1 DEF Start, Member
  <2>2. Dated(c, k)
    BY <1>2, EasesKeeps DEF Retains
  <2>3. ~c.hostRunning /\ c.generation <= generation
    BY <1>1, <1>2, <1>5 DEF Eases, Member
  <2>4. \A v \in Wait : Bound(v, c, k) => Bound(v, n, j) /\ ~Current(v, n)
    <3> SUFFICES ASSUME NEW v \in Wait, Bound(v, c, k), v.state = "registered"
                 PROVE  Bound(v, n, j) /\ ~Current(v, n)
      BY DEF Bound, Current
    <3>1. 2 * v.turn <= k /\ v.generation <= c.generation /\ v.turn \in Nat /\ v.generation \in Nat
      BY <2>3 DEF Bound, Wait
    <3>2. 2 * v.turn <= j /\ v.turn # turn
      BY <3>1
    <3>3. v.generation <= n.generation
      <4>1. c.generation \in Nat /\ generation \in Nat
        BY <1>1, <1>2 DEF Member
      <4> HIDE DEF generation, n, c
      <4> QED BY <2>1, <2>3, <3>1, <4>1
    <3> HIDE DEF n
    <3> QED BY <2>1, <3>2, <3>3 DEF Bound, Current
  <2>5. c.wait \in Wait /\ c.recoveryWait \in Wait
    BY <1>2 DEF Member
  <2>6. U = Put(C, t, n)
    BY <1>3, <1>5
  <2> HIDE DEF n, admitted, U
  <2>7. Retains(n, j)
    BY <2>1, <2>2, <2>4, <2>5 DEF Retains, Dated, Backed
  <2>8. U.members[t] = n /\ \A u \in Thread \ {t} : U.members[u] = C.members[u]
    BY <1>2, <2>6, PutSelects
  <2> QED BY <1>2, <2>7, <2>8 DEF U
<1> QED
  BY <1>4, <1>5

(* A host that takes input into a turn finds nothing executing, or that    *)
(* turn itself.                                                            *)
LEMMA StartCalm ==
    ASSUME NEW m \in Member, ~m.hostRunning, Reserved(m), NEW turn \in Nat
    PROVE  Calmer(m, Start(m, turn))
<1> DEFINE n == Start(m, turn)
<1>1. /\ n.hostRunning /\ n.turn = turn /\ n.generation = m.generation /\ n.status = "working"
      /\ n.wait = m.wait /\ n.recoveryWait = m.recoveryWait /\ n.stop = m.stop
  BY DEF Start, Member
<1> HIDE DEF n
<1>2. \A v : Current(v, n) => Current(v, m)
  BY <1>1 DEF Current
<1>3. \A v : \A k \in Nat : Bound(v, m, k) => Bound(v, n, k)
  BY <1>1 DEF Bound
<1>4. Calmer(m, n)
  BY <1>1, <1>2, <1>3 DEF Calmer, Retains, Dated, Backed
<1> QED
  BY <1>4 DEF n

(* The turn a request was taken into begins for a member that runs none.   *)
LEMMA AcceptTurnCalm ==
    ASSUME NEW T, T \in Tree, NEW r \in Ref, NEW turn \in Nat,
           T.members[r.thread].hostRunning => T.members[r.thread].turn = turn
    PROVE  Calm(T, AcceptTurn(T, r, turn))
<1> DEFINE m == T.members[r.thread]
<1>1. m \in Member /\ r.thread \in Thread
  BY TreeTypes DEF Ref
<1>2. CASE AcceptTurn(T, r, turn) = T
  BY <1>2, CalmSame
<1>3. CASE /\ AcceptTurn(T, r, turn) = Put(T, r.thread, Start(m, turn))
           /\ Reserved(m) /\ m.turn # turn
  <2>1. Calmer(m, Start(m, turn))
    BY <1>1, <1>3, StartCalm
  <2> QED BY <1>1, <1>3, <2>1, CalmPut
<1> QED
  BY <1>2, <1>3 DEF AcceptTurn

-----------------------------------------------------------------------------
(* The end of a turn dates the waits that belong to it.                    *)
LEMMA EndedMember ==
    ASSUME NEW m \in Member, NEW k \in Nat, NEW j \in Nat, k <= j, Dated(m, k),
           m.hostRunning, 2 * m.turn <= j
    PROVE  LET n == [m EXCEPT !.hostRunning = FALSE] IN
           /\ Dated(n, j) /\ n \in Member /\ n.status = m.status /\ ~n.hostRunning
           /\ n.generation = m.generation /\ n.turn = m.turn /\ n.stop = m.stop /\ n.wait = m.wait
           /\ n.recoveryWait = m.recoveryWait /\ n.calls = m.calls
<1> DEFINE n == [m EXCEPT !.hostRunning = FALSE]
<1>1. /\ n \in Member /\ n.status = m.status /\ ~n.hostRunning
      /\ n.generation = m.generation /\ n.turn = m.turn /\ n.stop = m.stop /\ n.wait = m.wait
      /\ n.recoveryWait = m.recoveryWait /\ n.calls = m.calls
  BY DEF Member
<1>2. m.wait.turn \in Nat /\ m.recoveryWait.turn \in Nat /\ m.turn \in Nat
  BY DEF Member, Wait
<1> HIDE DEF n
<1>3. Dated(n, j)
  BY <1>1, <1>2 DEF Dated, Bound
<1> QED
  BY <1>1, <1>3 DEF n

(* A manual checkpoint ends a turn at the stop it retains.                 *)
LEMMA CheckpointRetains ==
    ASSUME NEW T, Fit(T), NEW t \in Thread, NEW turn \in Nat, NEW k \in Nat, NEW j \in Nat,
           k <= j, 2 * turn <= j, Retains(T.members[t], k)
    PROVE  LET U == Checkpoint(T, t, turn) IN
           /\ Retains(U.members[t], j)
           /\ \A u \in Thread \ {t} : U.members[u] = T.members[u]
<1> DEFINE m == T.members[t]
           n == [m EXCEPT !.hostRunning = FALSE]
           U == Checkpoint(T, t, turn)
<1>1. m \in Member /\ T \in Tree
  BY FitParts DEF Good
<1>2. CASE U = T
  BY <1>1, <1>2, RetainsLater
<1>3. CASE U = Put(T, t, n) /\ m.hostRunning /\ m.turn = turn /\ StoppedAt(m, turn)
  <2>1. Dated(n, j) /\ n.stop = m.stop
    BY <1>1, <1>3, EndedMember DEF Retains
  <2> HIDE DEF n, U
  <2>2. Retains(n, j)
    BY <1>3, <2>1 DEF Retains, Backed, StoppedAt
  <2> QED BY <1>1, <1>3, <2>2, PutSelects DEF U
<1> QED
  BY <1>2, <1>3 DEF Checkpoint

(* Work that ended at its stop still has it.                               *)
LEMMA CheckpointTurnMember ==
    ASSUME NEW T, T \in Tree, NEW t \in Thread, NEW k \in Nat, Dated(T.members[t], k),
           T.members[t].stop.kind # "none"
    PROVE  LET U == CheckpointTurn(T, t) IN
           /\ Retains(U.members[t], k)
           /\ \A u \in Thread \ {t} : U.members[u] = T.members[u]
<1> DEFINE m == T.members[t]
           waits == m.wait.state = "registered"
           s == IF waits \/ m.recoveryWait.state = "registered" THEN "waiting" ELSE "working"
           c == IF waits /\ m.wait.compact = "registered" THEN "pending" ELSE m.wait.compact
           w == [m.wait EXCEPT !.compact = c]
           n == [m EXCEPT !.status = s, !.wait = w]
<1>1. m \in Member
  BY TreeTypes
<1>2. CheckpointTurn(T, t) = Put(T, t, n)
  BY <1>1 DEF CheckpointTurn, Member
<1>3. w.state = m.wait.state /\ w.turn = m.wait.turn /\ w.generation = m.wait.generation
  <2> HIDE DEF c
  <2> QED BY <1>1 DEF Member, Wait
<1> HIDE DEF w
<1>4. /\ n.hostRunning = m.hostRunning /\ n.turn = m.turn /\ n.generation = m.generation
      /\ n.status = s /\ n.stop = m.stop /\ n.wait = w /\ n.recoveryWait = m.recoveryWait
  BY <1>1 DEF Member
<1> HIDE DEF n
<1>5. Retains(n, k)
  BY <1>3, <1>4 DEF Retains, Dated, Bound, Backed
<1> QED
  BY <1>2, <1>5, PutSelects

(* A deferred completion is a stop.                                        *)
LEMMA DeferredMember ==
    ASSUME NEW T, Fit(T), NEW t \in Thread, NEW turn \in Nat, NEW k \in Nat,
           Dated(T.members[t], k)
    PROVE  LET U == DeferCompletion(T, t, turn) IN
           /\ Retains(U.members[t], k)
           /\ \A u \in Thread \ {t} : U.members[u] = T.members[u]
<1> DEFINE m == T.members[t]
           guard == NewEffect("completion", t, turn, 0, t, m.generation)
           stop == [kind |-> "completion", generation |-> m.generation, turn |-> turn, wait |-> 0]
           n == [m EXCEPT !.stop = stop, !.status = "working"]
           P == Put(T, t, n)
           U == DeferCompletion(T, t, turn)
<1>1. m \in Member /\ T \in Tree
  BY FitParts DEF Good
<1>2. /\ n.hostRunning = m.hostRunning /\ n.turn = m.turn /\ n.generation = m.generation
      /\ n.status = "working" /\ n.stop = stop /\ n.wait = m.wait
      /\ n.recoveryWait = m.recoveryWait
  <2> HIDE DEF stop
  <2> QED BY <1>1 DEF Member
<1>3. stop.kind # "none"
  OBVIOUS
<1> HIDE DEF n, stop
<1>4. Retains(n, k)
  BY <1>2, <1>3 DEF Retains, Dated, Bound, Backed
<1>5. U.members = P.members
  <2>1. U = AddEffect(P, guard)
    BY DEF DeferCompletion, n, stop
  <2>2. P = [members |-> P.members, effects |-> P.effects]
    BY <1>1 DEF Put, Tree
  <2> HIDE DEF P, guard, U
  <2> QED BY <2>1, <2>2 DEF AddEffect
<1> QED
  BY <1>1, <1>4, <1>5, PutSelects

(* A recoverable failure is owed its recovery stop.                        *)
LEMMA HeldForRecovery ==
    ASSUME NEW T, Fit(T), NEW t \in Thread, NEW turn \in Nat, NEW k \in Nat,
           Dated(T.members[t], k), Reserved(T.members[t]), 2 * turn <= k
    PROVE  LET U == HoldForRecovery(T, t, turn) IN
           /\ Retains(U.members[t], k)
           /\ \A u \in Thread \ {t} : U.members[u] = T.members[u]
<1> DEFINE m == T.members[t]
           captured == [c \in Thread |-> IF c \in ActiveBelow(T, t)
                                         THEN T.members[c].generation ELSE 0]
           targets == {c \in Below[t] : T.members[c].status # "absent"}
           w == [NoWait EXCEPT !.id = m.calls + 1, !.state = "registered", !.stop = "committed",
                   !.generation = m.generation, !.turn = turn, !.recovery = captured,
                   !.targets = targets]
           S == CancelCompletion(T, t)
<1>1. m \in Member /\ Good(T) /\ \A c \in Thread : T.members[c] \in Member
  BY FitParts
<1>2. captured \in [Thread -> Nat] /\ targets \in SUBSET Thread
  BY <1>1, TaskTree DEF Member
<1>3. m.calls + 1 \in Nat /\ m.generation \in Nat
  BY <1>1 DEF Member
<1>4. w \in Wait /\ w.state = "registered" /\ w.turn = turn /\ w.generation = m.generation
  <2> HIDE DEF captured, targets, m
  <2>1. w \in Wait
    BY <1>2, <1>3, NoWaitType, RecoveryWaitType
  <2> QED BY <2>1 DEF NoWait
<1>5. Fit(S) /\ S.members = T.members
  BY CancelCompletionEdits
<1>6. HoldForRecovery(T, t, turn) = Hold(S, t, w, "recovery", turn)
  BY DEF HoldForRecovery
<1> HIDE DEF w, S
<1>7. Bound(w, m, k)
  BY <1>3, <1>4 DEF Bound, Reserved, ReservedStatus, ActiveStatus
<1>8. LET U == Hold(S, t, w, "recovery", turn) IN
      /\ \A j \in Nat : Dated(m, j) /\ Bound(w, m, j) => Retains(U.members[t], j)
      /\ \A u \in Thread \ {t} : U.members[u] = S.members[u]
  BY <1>4, <1>5, HeldMember
<1> QED
  BY <1>5, <1>6, <1>7, <1>8

(* Seeing an interrupted turn end confirms its interrupts, and only them.   *)
LEMMA ObservedFit ==
    ASSUME NEW P, Fit(P), NEW t \in Thread, NEW turn \in Nat,
           NEW f, f = [i \in Indices(P) |->
                         IF /\ P.effects[i].kind = "interrupt" /\ Addressed(P.effects[i], t)
                            /\ P.effects[i].turn = turn /\ P.effects[i].state \in HostOwned
                         THEN SetState(P.effects[i], "confirmed") ELSE P.effects[i]]
    PROVE  LET S == [P EXCEPT !.effects = f] IN Fit(S) /\ S.members = P.members
<1>1. ASSUME NEW i \in Indices(P)
      PROVE  SameWork(P.effects[i], f[i]) /\ IntentEdit(P, P.effects[i], f[i])
  <2> DEFINE e == P.effects[i]
             g == f[i]
  <2>1. e \in Effect
    BY GoodEffects DEF Fit
  <2>2. g = e \/ (g = SetState(e, "confirmed") /\ e.kind = "interrupt")
    OBVIOUS
  <2> HIDE DEF e, g
  <2>3. CASE g = e
    BY <2>1, <2>3, EditEffect DEF IntentEdit, IntentAges, CreationKept, NoteKept, e, g
  <2>4. CASE g = SetState(e, "confirmed") /\ e.kind = "interrupt"
    <3>1. /\ g.kind = e.kind /\ g.target = e.target /\ g.phase = e.phase
          /\ g.state = "confirmed" /\ g.consumed = e.consumed /\ g.claimedBy = e.claimedBy
      BY <2>1, <2>4 DEF Effect, SetState
    <3>2. SameWork(e, g)
      BY <2>1, <2>4, EditEffect DEF IntentState
    <3> QED BY <2>4, <3>1, <3>2 DEF IntentEdit, IntentAges, CreationKept, NoteKept, HostOwned, Unsent, e, g, Candid
  <2> QED BY <2>2, <2>3, <2>4
<1>2. f \in [Indices(P) -> Effect]
  <2>1. \A i \in Indices(P) : f[i] \in Effect
    BY <1>1 DEF SameWork
  <2> QED BY <2>1
<1> QED
  BY <1>1, <1>2, EffectsEdits

(* The end of a turn: whatever becomes of the work, a stop is owed only    *)
(* where one is retained.                                                  *)
LEMMA TerminalRetains ==
    ASSUME NEW T, Fit(T), NEW t \in Thread, NEW turn \in Nat,
           NEW outcome \in Outcome \cup {"recoverable"}, NEW k \in Nat, NEW j \in Nat,
           k <= j, 2 * turn <= j, Retains(T.members[t], k)
    PROVE  LET U == Terminal(T, t, turn, outcome) IN
           /\ Retains(U.members[t], j)
           /\ \A u \in Thread \ {t} : U.members[u] = T.members[u]
<1> DEFINE m == T.members[t]
           n == [m EXCEPT !.hostRunning = FALSE]
           P == Put(T, t, n)
           f == [i \in Indices(P) |->
                   IF /\ P.effects[i].kind = "interrupt" /\ Addressed(P.effects[i], t)
                      /\ P.effects[i].turn = turn /\ P.effects[i].state \in HostOwned
                   THEN SetState(P.effects[i], "confirmed") ELSE P.effects[i]]
           S == [P EXCEPT !.effects = f]
           U == Terminal(T, t, turn, outcome)
<1>1. m \in Member /\ Executing(m) /\ Good(T) /\ T \in Tree
  BY FitParts DEF Good
<1>2. CASE m.turn # turn \/ ~m.hostRunning
  <2>1. U = T
    BY <1>2 DEF Terminal
  <2> QED BY <1>1, <2>1, RetainsLater
<1>3. CASE ~(m.turn # turn \/ ~m.hostRunning)
  <2>1. /\ Dated(n, j) /\ n \in Member /\ n.status = m.status /\ ~n.hostRunning
        /\ n.generation = m.generation /\ n.stop = m.stop /\ SameWaits(m, n)
    BY <1>1, <1>3, EndedMember DEF Retains, SameWaits, SameTargets
  <2> HIDE DEF n
  <2>2. MayBecome(m, n)
    BY <1>1, <2>1 DEF MayBecome, Executing, Reserved, Member
  <2>3. /\ Fit(P) /\ P.members[t] = n
        /\ \A u \in Thread \ {t} : P.members[u] = T.members[u]
    BY <1>1, <2>1, <2>2, PutGood, PutSameWaits, PutSelects
  <2> HIDE DEF P
  <2>4. Fit(S) /\ S.members = P.members
    <3>1. f = [i \in Indices(P) |->
                IF /\ P.effects[i].kind = "interrupt" /\ Addressed(P.effects[i], t)
                   /\ P.effects[i].turn = turn /\ P.effects[i].state \in HostOwned
                THEN SetState(P.effects[i], "confirmed") ELSE P.effects[i]]
      OBVIOUS
    <3> HIDE DEF f
    <3> QED BY <2>3, <3>1, ObservedFit
  <2>5. Reserved(S.members[t]) /\ ~S.members[t].hostRunning /\ Dated(S.members[t], j)
    BY <1>1, <1>3, <2>1, <2>3, <2>4 DEF Executing, Reserved, ReservedStatus, ActiveStatus
  <2>6. WorkOutcome(outcome) \in Outcome
    BY DEF WorkOutcome, Outcome
  <2>7. \/ U = HoldForRecovery(S, t, turn)
        \/ U = CheckpointTurn(S, t) /\ StoppedAt(m, turn)
        \/ U = DeferCompletion(S, t, turn)
        \/ U = Finish(S, t, WorkOutcome(outcome))
    BY <1>3 DEF Terminal, EachEffect, P, n
  <2> HIDE DEF S, U
  <2>8. CASE U = HoldForRecovery(S, t, turn)
    <3>1. Retains(U.members[t], j) /\ \A u \in Thread \ {t} : U.members[u] = S.members[u]
      BY <2>4, <2>5, <2>8, HeldForRecovery
    <3> QED BY <2>3, <2>4, <3>1 DEF U
  <2>9. CASE U = CheckpointTurn(S, t) /\ StoppedAt(m, turn)
    <3>1. S.members[t].stop.kind # "none" /\ S \in Tree
      BY <2>1, <2>3, <2>4, <2>9 DEF StoppedAt, Fit, Good
    <3>2. Retains(U.members[t], j) /\ \A u \in Thread \ {t} : U.members[u] = S.members[u]
      BY <2>5, <2>9, <3>1, CheckpointTurnMember
    <3> QED BY <2>3, <2>4, <3>2 DEF U
  <2>10. CASE U = DeferCompletion(S, t, turn)
    <3>1. Retains(U.members[t], j) /\ \A u \in Thread \ {t} : U.members[u] = S.members[u]
      BY <2>4, <2>5, <2>10, DeferredMember
    <3> QED BY <2>3, <2>4, <3>1 DEF U
  <2>11. CASE U = Finish(S, t, WorkOutcome(outcome))
    <3>1. /\ \A i \in Nat : Dated(S.members[t], i) => Retains(U.members[t], i)
          /\ \A u \in Thread \ {t} : U.members[u] = S.members[u]
      BY <2>4, <2>5, <2>6, <2>11, FinishedMember
    <3> QED BY <2>3, <2>4, <2>5, <3>1 DEF U
  <2> QED
    BY <2>7, <2>8, <2>9, <2>10, <2>11
<1> QED
  BY <1>2, <1>3
-----------------------------------------------------------------------------
(* Stops, supersession and the provider.                                   *)

(* One member is replaced after a calm edit.                               *)
LEMMA CalmAfter ==
    ASSUME NEW T, NEW C, C \in Tree, Calm(T, C), NEW t \in Thread, NEW n,
           Calmer(C.members[t], n)
    PROVE  Calm(T, Put(C, t, n))
BY CalmPut, CalmTrans

(* What an Idle member becomes without a new wait is idle.                 *)
LEMMA IdleAfter ==
    ASSUME NEW T, NEW C, C \in Tree, Calm(T, C), NEW t \in Thread, NEW n,
           Idle(C.members[t]), n.wait = C.members[t].wait,
           n.recoveryWait = C.members[t].recoveryWait
    PROVE  Calm(T, Put(C, t, n)) /\ Idle(n)
<1>1. Idle(n)
  BY DEF Idle
<1> QED
  BY <1>1, IdleRetains, CalmAfter

(* An execution arms its wait's stop, or the wait retires with it.         *)
LEMMA ExecutionCalm ==
    ASSUME NEW T, Fit(T), NEW t \in Thread, NEW turn \in Nat, NEW succeeded \in BOOLEAN
    PROVE  Calm(T, Execution(T, t, turn, succeeded))
<1> DEFINE m == T.members[t]
           C == CancelSubscription(T, t)
           k == C.members[t]
           n == [m EXCEPT !.wait.stop = "eligible"]
           r == [k EXCEPT !.stop = NoStop, !.status = IF k.status = "waiting" THEN "working" ELSE k.status]
           U == Execution(T, t, turn, succeeded)
<1>1. m \in Member /\ T \in Tree /\ m.wait \in Wait
  BY FitParts DEF Good, Member
<1>2. CASE U = T
  BY <1>2, CalmSame
<1>3. CASE U = Put(T, t, n)
  <2>1. /\ n.hostRunning = m.hostRunning /\ n.turn = m.turn /\ n.generation = m.generation
        /\ n.status = m.status /\ n.stop = m.stop /\ n.recoveryWait = m.recoveryWait
        /\ n.wait.turn = m.wait.turn /\ n.wait.generation = m.wait.generation
        /\ n.wait.state = m.wait.state /\ n.wait.stop = "eligible"
    BY <1>1 DEF Member, Wait
  <2> HIDE DEF n
  <2>2. Eases(m, n)
    BY <2>1 DEF Eases, Pales, Reserved
  <2> QED BY <1>1, <1>3, <2>2, EasesKeeps, CalmPut
<1>4. CASE U = Put(C, t, r) /\ m.wait.state = "registered"
  <2>1. Fit(C) /\ Calm(T, C) /\ Idle(k)
    BY <1>4, CancelSubscriptionEdits, CanceledCalm DEF Dispatched, HostOwned
  <2>2. k \in Member /\ C \in Tree
    BY <2>1, FitParts DEF Good
  <2> HIDE DEF C
  <2>3. r.wait = k.wait /\ r.recoveryWait = k.recoveryWait
    <3> HIDE DEF k
    <3> QED BY <2>2 DEF Member
  <2> HIDE DEF r
  <2> QED BY <1>4, <2>1, <2>2, <2>3, IdleAfter
<1>5. U = T \/ U = Put(T, t, n) \/ (U = Put(C, t, r) /\ m.wait.state = "registered")
  BY DEF Execution
<1> QED
  BY <1>2, <1>3, <1>4, <1>5

(* A claimed stop is retained.                                             *)
LEMMA ClaimStopCalm ==
    ASSUME NEW T, Fit(T), NEW t \in Thread, NEW turn \in Nat
    PROVE  Calm(T, ClaimStop(T, t, turn))
<1> DEFINE m == T.members[t]
           stop == [kind |-> "wait", generation |-> m.generation, turn |-> turn, wait |-> m.wait.id]
           n == [m EXCEPT !.wait.stop = "committed", !.status = "waiting", !.stop = stop]
<1>1. m \in Member /\ T \in Tree /\ m.wait \in Wait
  BY FitParts DEF Good, Member
<1>2. /\ n.hostRunning = m.hostRunning /\ n.turn = m.turn /\ n.generation = m.generation
      /\ n.status = "waiting" /\ n.stop.kind = "wait" /\ n.recoveryWait = m.recoveryWait
      /\ n.wait.turn = m.wait.turn /\ n.wait.generation = m.wait.generation
      /\ n.wait.state = m.wait.state
  BY <1>1 DEF Member, Wait
<1>3. ClaimStop(T, t, turn) = T \/ ClaimStop(T, t, turn) = Put(T, t, n)
  BY DEF ClaimStop
<1> HIDE DEF n
<1>4. Calmer(m, n)
  BY <1>2 DEF Calmer, Retains, Dated, Bound, Backed
<1> QED
  BY <1>1, <1>3, <1>4, CalmSame, CalmPut

(* What the human supersedes waits no more.                                *)
LEMMA SupersedeCalm ==
    ASSUME NEW T, Fit(T), NEW t \in Thread
    PROVE  /\ Calm(T, Supersede(T, t))
           /\ ~Dispatched(T.members[t].wait) => Idle(Supersede(T, t).members[t])
           /\ \A u \in Thread \ {t} : Supersede(T, t).members[u] = T.members[u]
<1> DEFINE C == CancelCompletion(T, t)
           D == IF C.members[t].wait.state \in {"canceled", "completed"}
                THEN C ELSE CancelSubscription(C, t)
           k == D.members[t]
           r == [k EXCEPT !.stop = NoStop, !.status = IF k.status = "waiting" THEN "working" ELSE k.status]
           U == Supersede(T, t)
<1>1. CASE Dispatched(T.members[t].wait)
  BY <1>1, CalmSame DEF Supersede
<1>2. CASE ~Dispatched(T.members[t].wait)
  <2>1. Fit(C) /\ C.members = T.members
    BY CancelCompletionEdits
  <2>2. U = Put(D, t, r)
    BY <1>2 DEF Supersede
  <2> HIDE DEF C
  <2>3. Fit(D) /\ Idle(k) /\ Calm(T, D) /\ \A u \in Thread \ {t} : D.members[u] = T.members[u]
    <3>1. CASE C.members[t].wait.state \in {"canceled", "completed"}
      BY <1>2, <2>1, <3>1, FitParts, CalmSame DEF Idle, WaitsInOrder
    <3>2. CASE C.members[t].wait.state \notin {"canceled", "completed"}
      <4>1. Fit(D) /\ Idle(k) /\ Calm(C, D) /\ \A u \in Thread \ {t} : D.members[u] = C.members[u]
        BY <1>2, <2>1, <3>2, CancelSubscriptionEdits, CanceledCalm
      <4> QED BY <2>1, <4>1 DEF Calm
    <3> QED BY <3>1, <3>2
  <2>4. k \in Member /\ D \in Tree
    BY <2>3, FitParts DEF Good
  <2> HIDE DEF D
  <2>5. r.wait = k.wait /\ r.recoveryWait = k.recoveryWait
    <3> HIDE DEF k
    <3> QED BY <2>4 DEF Member
  <2> HIDE DEF r, U
  <2>6. Calm(T, U) /\ Idle(r)
    BY <2>2, <2>3, <2>4, <2>5, IdleAfter
  <2> QED BY <2>2, <2>3, <2>4, <2>6, PutSelects DEF U
<1> QED
  BY <1>1, <1>2

(* What the human interrupts waits no more.                                *)
LEMMA InterruptWaitCalm ==
    ASSUME NEW T, Fit(T), NEW t \in Thread
    PROVE  Calm(T, InterruptWait(T, t))
<1> DEFINE m == T.members[t]
           B == CancelSubscription(T, t)
           C == CancelCompletion(B, t)
           k == C.members[t]
           n == [k EXCEPT !.stop = NoStop]
           S == Put(C, t, n)
           U == InterruptWait(T, t)
<1>1. CASE Dispatched(m.wait)
  BY <1>1, CalmSame DEF InterruptWait
<1>2. CASE ~Dispatched(m.wait)
  <2>1. Fit(B) /\ KeepsStanding(m, B.members[t]) /\ Idle(B.members[t]) /\ Calm(T, B)
    BY <1>2, CancelSubscriptionEdits, CanceledCalm
  <2> HIDE DEF B
  <2>2. Fit(C) /\ C.members = B.members
    BY <2>1, CancelCompletionEdits
  <2> HIDE DEF C
  <2>3. k \in Member /\ Executing(k) /\ KeepsStanding(m, k) /\ Idle(k) /\ Calm(T, C) /\ C \in Tree
    BY <2>1, <2>2, FitParts DEF Calm, Good
  <2>4. n \in Member /\ SameWaits(k, n) /\ KeepsStanding(k, n)
        /\ n.wait = k.wait /\ n.recoveryWait = k.recoveryWait
    <3> HIDE DEF k
    <3> QED BY <2>3, NoStopType DEF Member, SameWaits, SameTargets, KeepsStanding
  <2>5. Fit(S) /\ S.members[t] = n
    <3>1. Good(S)
      BY <2>2, <2>3, <2>4, StandingMayBecome, PutGood DEF Fit
    <3> HIDE DEF n
    <3> QED BY <2>2, <2>3, <2>4, <3>1, PutSameWaits, PutSelects DEF Fit, Good, KeepsStanding
  <2>6. Calm(T, S) /\ Idle(n)
    <3> HIDE DEF n
    <3> QED BY <2>3, <2>4, IdleAfter
  <2>7. U = T \/ U = S \/ (U = Finish(S, t, "interrupted") /\ Reserved(m) /\ ~m.hostRunning)
    BY DEF InterruptWait, C, B
  <2>8. Reserved(m) /\ ~m.hostRunning => Reserved(S.members[t]) /\ ~S.members[t].hostRunning
    BY <2>3, <2>4, <2>5 DEF KeepsStanding, Reserved
  <2> HIDE DEF S, U
  <2>9. CASE U = Finish(S, t, "interrupted") /\ Reserved(m) /\ ~m.hostRunning
    <3>1. Calm(S, U)
      BY <2>5, <2>8, <2>9, FinishedMember DEF Outcome
    <3> QED BY <2>6, <3>1, CalmTrans DEF U
  <2> QED
    BY <2>6, <2>7, <2>9, CalmSame DEF U
<1> QED
  BY <1>1, <1>2

(* A provider wait belongs to the turn that executes, and owns its stop.   *)
LEMMA WaitForProviderCalm ==
    ASSUME NEW T, Fit(T), NEW t \in Thread, NEW turn \in Nat,
           NEW timer \in {"none", "armed", "due"}
    PROVE  Calm(T, WaitForProvider(T, t, turn, timer))
<1> DEFINE m == T.members[t]
           w == [NoWait EXCEPT !.id = m.calls + 1, !.state = "registered", !.stop = "committed",
                   !.generation = m.generation, !.turn = turn, !.provider = TRUE, !.timer = timer]
           U == WaitForProvider(T, t, turn, timer)
<1>1. m.calls + 1 \in Nat /\ m.generation \in Nat /\ Executing(m)
  BY FitParts DEF Member
<1>2. w \in Wait /\ w.state = "registered" /\ w.turn = turn /\ w.generation = m.generation
  <2> HIDE DEF m
  <2>1. w \in Wait
    BY <1>1, NoWaitType, ProviderWaitType
  <2> QED BY <2>1 DEF NoWait
<1>3. U = T \/ (m.hostRunning /\ m.turn = turn /\ U = Hold(T, t, w, "provider", turn))
  BY DEF WaitForProvider
<1> HIDE DEF w
<1>4. CASE m.hostRunning /\ m.turn = turn /\ U = Hold(T, t, w, "provider", turn)
  <2>1. Reserved(m) /\ m.status # "absent"
    BY <1>1, <1>4 DEF Executing, Reserved, ReservedStatus, ActiveStatus
  <2>2. \A k \in Nat : Bound(w, m, k)
    BY <1>1, <1>2, <1>4, <2>1 DEF Bound
  <2> HIDE DEF U
  <2>3. /\ \A k \in Nat : Dated(m, k) /\ Bound(w, m, k) => Retains(U.members[t], k)
        /\ \A u \in Thread \ {t} : U.members[u] = T.members[u]
    BY <1>2, <1>4, <2>1, HeldMember
  <2>4. Calmer(m, U.members[t])
    BY <2>2, <2>3 DEF Calmer, Retains
  <2> QED BY <2>3, <2>4, CalmOne DEF U
<1> QED
  BY <1>3, <1>4, CalmSame

(* A checkpoint that is rejected, and a deadline that passes, leave the    *)
(* stop of their wait alone.                                               *)
LEMMA RejectCompactionCalm ==
    ASSUME NEW T, Fit(T), NEW t \in Thread, NEW turn \in Nat
    PROVE  Calm(T, RejectCompaction(T, t, turn))
<1> DEFINE m == T.members[t]
           n == [m EXCEPT !.wait.compact = "failed"]
<1>1. m \in Member /\ T \in Tree /\ m.wait \in Wait
  BY FitParts DEF Good, Member
<1>2. Eases(m, n)
  BY <1>1 DEF Eases, Pales, Reserved, Member, Wait
<1>3. RejectCompaction(T, t, turn) = T \/ RejectCompaction(T, t, turn) = Put(T, t, n)
  BY DEF RejectCompaction
<1> HIDE DEF n
<1> QED
  BY <1>1, <1>2, <1>3, EasesKeeps, CalmSame, CalmPut

(* The same of the deadline.                                               *)
LEMMA DeadlineCalm ==
    ASSUME NEW T, Fit(T), NEW t \in Thread
    PROVE  Calm(T, Put(T, t, [T.members[t] EXCEPT !.wait.timer = "due"]))
<1> DEFINE m == T.members[t]
           n == [m EXCEPT !.wait.timer = "due"]
<1>1. m \in Member /\ T \in Tree /\ m.wait \in Wait
  BY FitParts DEF Good, Member
<1>2. Eases(m, n)
  BY <1>1 DEF Eases, Pales, Reserved, Member, Wait
<1> HIDE DEF n
<1>3. Calm(T, Put(T, t, n))
  BY <1>1, <1>2, EasesKeeps, CalmPut
<1> QED
  BY <1>3 DEF n
-----------------------------------------------------------------------------
(* Waiting, and the intents that are prepared for a thread.                *)

(* An intent that is added changes no member.                              *)
LEMMA AddedMembers ==
    ASSUME NEW T, T \in Tree, NEW e
    PROVE  AddEffect(T, e).members = T.members
<1>1. T = [members |-> T.members, effects |-> T.effects]
  BY TreeTypes
<1> QED
  BY <1>1 DEF AddEffect

(* A wait is registered by the turn that executes, and stops nothing yet.  *)
LEMMA RegisterWaitCalm ==
    ASSUME NEW T, Fit(T), NEW t \in Thread, MayWait(T.members[t]), T.members[t].hostRunning,
           NEW targets \in SUBSET Thread,
           NEW all \in BOOLEAN, NEW timer \in {"none", "armed", "due"},
           NEW compact \in BOOLEAN, NEW standalone \in BOOLEAN
    PROVE  Calm(T, RegisterWait(T, t, targets, all, timer, compact, standalone))
<1> DEFINE m == T.members[t]
           c == IF compact THEN "registered" ELSE "none"
           w == [NoWait EXCEPT !.id = m.calls + 1, !.generation = m.generation, !.turn = m.turn,
                   !.targets = targets, !.all = all, !.standalone = standalone, !.timer = timer,
                   !.compact = c]
           chosen == Selected(T, t, w)
           now == ~compact /\ chosen.found
           state == IF now THEN "completed"
                    ELSE IF ~compact /\ timer = "due" THEN "timeout" ELSE "registered"
           claims == IF now THEN chosen.claims ELSE {}
           x == [w EXCEPT !.state = state]
           n == [m EXCEPT !.wait = x, !.calls = w.id]
           C == Claimed(T, claims, w.id)
           U == RegisterWait(T, t, targets, all, timer, compact, standalone)
<1>1. m \in Member /\ WaitsInOrder(m) /\ Good(T) /\ m.calls \in Nat /\ Executing(m)
      /\ m.generation \in Nat
  BY FitParts, WaitTypes DEF Member
<1>2. w.id = m.calls + 1 /\ w.id \in Nat
  <2>1. w.id = m.calls + 1
    BY DEF NoWait
  <2> QED BY <1>1, <2>1
<1>3. x.stop = "none" /\ x.turn = m.turn /\ x.generation = m.generation
  <2> HIDE DEF state, c, m
  <2> QED BY DEF NoWait
<1>4. U = Put(C, t, n)
  BY DEF RegisterWait
<1>5. Good(C) /\ C.members = T.members /\ C \in Tree
  <2> HIDE DEF w, claims
  <2> QED BY <1>1, <1>2, ClaimedGood DEF Good
<1> HIDE DEF w, state, claims, c, x
<1>6. /\ n.wait = x /\ n.recoveryWait = m.recoveryWait /\ n.status = m.status
      /\ n.hostRunning = m.hostRunning /\ n.turn = m.turn /\ n.generation = m.generation
  BY <1>1 DEF Member
<1>7. m.recoveryWait.state = "none"
  BY <1>1 DEF MayWait, WaitsInOrder, Dispatched, HostOwned
<1>8. m.status # "absent"
  BY <1>1 DEF Executing
<1> HIDE DEF n, U, C
<1>9. Calmer(m, n)
  BY <1>1, <1>3, <1>6, <1>7, <1>8 DEF Calmer, Retains, Dated, Bound, Backed, Current
<1>10. Calmer(C.members[t], n) /\ Calm(T, C)
  BY <1>5, <1>9, CalmSame
<1> QED
  BY <1>4, <1>5, <1>10, CalmAfter DEF U

(* A queued wake is registered no more.                                    *)
LEMMA PrepareWakeCalm ==
    ASSUME NEW T, Fit(T), NEW t \in Thread
    PROVE  Calm(T, PrepareWake(T, t))
<1> DEFINE m == T.members[t]
           w == m.wait
           chosen == Selected(T, t, w)
           claims == IF w.standalone THEN {} ELSE chosen.claims
           n == [m EXCEPT !.wait.state = "queued"]
           C == Claimed(T, claims, w.id)
           U == PrepareWake(T, t)
<1>1. m \in Member /\ Good(T) /\ w.id \in Nat /\ m.wait \in Wait
  BY FitParts, WaitTypes DEF Member
<1>2. U = T \/ U = Put(C, t, n)
  BY DEF PrepareWake
<1>3. Good(C) /\ C.members = T.members /\ C \in Tree
  <2> HIDE DEF claims
  <2> QED BY <1>1, ClaimedGood DEF Good
<1>4. Eases(m, n)
  BY <1>1 DEF Eases, Pales, Reserved, Member, Wait
<1> HIDE DEF C, U, n
<1>5. Calmer(C.members[t], n) /\ Calm(T, C)
  BY <1>3, <1>4, EasesKeeps, CalmSame
<1> QED
  BY <1>2, <1>3, <1>5, CalmAfter, CalmSame DEF U

(* Notifications, human inputs and spawns change no member.                *)
LEMMA MarkedCalm ==
    ASSUME NEW T, Fit(T)
    PROVE  /\ \A t, items : Calm(T, Consume(T, t, items))
           /\ \A r, turn : Calm(T, HumanCommitted(T, r, turn))
           /\ \A caller, child : Calm(T, Spawn(T, caller, child))
<1>1. T \in Tree /\ T = [members |-> T.members, effects |-> T.effects]
  BY TreeTypes DEF Fit, Good
<1>2. ASSUME NEW f
      PROVE  [T EXCEPT !.effects = f].members = T.members
  BY <1>1
<1>3. ASSUME NEW t, NEW items
      PROVE  Consume(T, t, items).members = T.members
  BY <1>2 DEF Consume
<1>4. ASSUME NEW r, NEW turn
      PROVE  HumanCommitted(T, r, turn).members = T.members
  BY <1>1 DEF HumanCommitted, PutEffect
<1>5. ASSUME NEW caller, NEW child
      PROVE  Spawn(T, caller, child).members = T.members
  BY <1>1, AddedMembers DEF Spawn
<1> QED
  BY <1>3, <1>4, <1>5, CalmSame

(* The control event leaves its target nothing registered.                 *)
LEMMA ControlEventCalm ==
    ASSUME NEW T, Fit(T), NEW t \in Thread, ~Dispatched(T.members[t].wait)
    PROVE  Calm(T, ControlEvent(T, t)) /\ Idle(ControlEvent(T, t).members[t])
<1> DEFINE C == CancelCompletion(T, t)
           U == CancelSubscription(C, t)
<1>1. Fit(C) /\ C.members = T.members
  BY CancelCompletionEdits
<1> HIDE DEF C
<1>2. Calm(C, U) /\ Idle(U.members[t])
  BY <1>1, CanceledCalm
<1>3. U = ControlEvent(T, t)
  BY DEF ControlEvent, C
<1> HIDE DEF U
<1> QED
  BY <1>1, <1>2, <1>3 DEF Calm

(* Work that is assigned anew waits for nothing.                           *)
LEMMA PrepareCalm ==
    ASSUME NEW T, Fit(T), NEW caller \in Thread, NEW target \in Thread,
           NEW kind \in {"message", "followup", "interrupt"}, MayPrepare(T, target, kind)
    PROVE  Calm(T, Prepare(T, caller, target, kind))
<1> DEFINE sender == T.members[caller]
           R == IF kind = "followup" THEN ResumeAdmission(T, target) ELSE T
           C == IF kind = "message" THEN R ELSE ControlEvent(R, target)
           m == C.members[target]
           x == [Reserve(m) EXCEPT !.stop = NoStop]
           N == IF kind = "followup" /\ (~Reserved(m) \/ m.status = "paused")
                THEN Put(C, target, x) ELSE C
           d == NewEffect(kind, caller, sender.turn, sender.generation, target,
                          N.members[target].generation)
           U == Prepare(T, caller, target, kind)
<1>1. Fit(R) /\ R.members = T.members
  BY ResumeAdmissionEdits
<1>2. U = AddEffect(N, d)
  BY DEF Prepare
<1> HIDE DEF R
<1>3. /\ Fit(C) /\ Calm(T, C) /\ C \in Tree /\ m \in Member
      /\ kind # "message" => Idle(m)
  <2>1. kind # "message" => ~Dispatched(R.members[target].wait)
    BY <1>1 DEF MayPrepare
  <2>2. kind # "message" =>
          /\ Fit(ControlEvent(R, target)) /\ Calm(R, ControlEvent(R, target))
          /\ Idle(ControlEvent(R, target).members[target])
    BY <1>1, <2>1, ControlEventEdits, ControlEventCalm
  <2>3. Fit(C) /\ Calm(R, C)
    BY <1>1, <2>2, CalmSame
  <2> QED BY <1>1, <2>2, <2>3, FitParts DEF Calm, Good
<1> HIDE DEF C
<1>4. x.wait = m.wait /\ x.recoveryWait = m.recoveryWait
  <2> HIDE DEF m
  <2> QED BY <1>3 DEF Reserve, Member
<1> HIDE DEF x
<1>5. Calm(T, N) /\ N \in Tree
  <2>1. CASE N = C
    BY <1>3, <2>1
  <2>2. CASE kind = "followup" /\ (~Reserved(m) \/ m.status = "paused")
    <3>1. N = Put(C, target, x)
      BY <2>2
    <3>2. x \in Member
      BY <1>3, <2>2, FitParts, ReserveMayBecome DEF x, MayBecome
    <3>3. N \in Tree
      BY <1>3, <3>1, <3>2 DEF Put, Tree
    <3>4. Idle(m)
      BY <1>3, <2>2
    <3>5. Calm(T, Put(C, target, x))
      BY <1>3, <1>4, <3>4, IdleAfter
    <3> QED BY <3>1, <3>3, <3>5
  <2> QED BY <2>1, <2>2
<1> HIDE DEF N, d
<1>6. U.members = N.members
  BY <1>2, <1>5, AddedMembers
<1> QED
  BY <1>5, <1>6 DEF Calm, U

(* A paused thread waits for nothing that is registered.                   *)
LEMMA PausedIdle ==
    ASSUME NEW T, Fit(T), NEW S \in SUBSET Thread
    PROVE  LET U == PauseAll(T, S) IN
           /\ \A t \in S : Idle(U.members[t])
           /\ \A t \in Thread \ S : U.members[t] = T.members[t]
<1> DEFINE PauseWait(w) == [w EXCEPT !.state = PausedState(w.state), !.compact = PausedState(w.compact)]
           paused(m) == [m EXCEPT !.status = IF Reserved(m) THEN "paused" ELSE m.status,
                           !.hostRunning = FALSE, !.turn = 0,
                           !.wait = PauseWait(m.wait), !.recoveryWait = PauseWait(m.recoveryWait)]
           g == [t \in Thread |-> IF t \in S THEN paused(T.members[t]) ELSE T.members[t]]
           U == PauseAll(T, S)
<1>1. T \in Tree /\ T = [members |-> T.members, effects |-> T.effects]
  BY TreeTypes DEF Fit, Good
<1>2. U.members = g
  <2> DEFINE V == [T EXCEPT !.members = g]
             touched(e) == e.caller \in S \/ \E t \in S : Addressed(e, t)
             f == [i \in Indices(V) |->
                     IF touched(V.effects[i]) THEN SetState(V.effects[i], PausedState(V.effects[i].state))
                     ELSE V.effects[i]]
  <2>1. U = [V EXCEPT !.effects = f]
    BY DEF PauseAll, EachEffect
  <2> HIDE DEF g, f, U
  <2> QED BY <1>1, <2>1 DEF Tree
<1>3. ASSUME NEW w \in Wait
      PROVE  PauseWait(w).state # "registered"
  <2>1. w.state \in IntentState
    BY DEF Wait
  <2>2. PausedState(w.state) # "registered"
    BY <2>1 DEF PausedState, IntentState, HostOwned
  <2> QED BY <2>2 DEF Wait
<1> HIDE DEF PauseWait
<1>4. ASSUME NEW m \in Member
      PROVE  Idle(paused(m))
  <2>1. paused(m).wait = PauseWait(m.wait) /\ paused(m).recoveryWait = PauseWait(m.recoveryWait)
    BY DEF Member
  <2>2. m.wait \in Wait /\ m.recoveryWait \in Wait
    BY DEF Member
  <2> HIDE DEF paused
  <2> QED BY <1>3, <2>1, <2>2 DEF Idle
<1> HIDE DEF paused
<1>5. \A t \in Thread : T.members[t] \in Member
  BY FitParts
<1> HIDE DEF U
<1>6. /\ \A t \in S : U.members[t] = paused(T.members[t])
      /\ \A t \in Thread \ S : U.members[t] = T.members[t]
  BY <1>2
<1> QED
  BY <1>4, <1>5, <1>6 DEF U
-----------------------------------------------------------------------------
(* Claims.                                                                 *)

(* What a wake or a checkpoint that changes its state leaves of its thread. *)
LEMMA WithStateCalm ==
    ASSUME NEW T, Good(T), NEW r, Aims(T, r), NEW s \in IntentState \ {"registered"}
    PROVE  LET U == WithState(T, r, s)
               m == T.members[r.thread]
               n == U.members[r.thread]
           IN  /\ Good(U) /\ U \in Tree /\ Calm(T, U) /\ Eases(m, n)
               /\ r.slot = "effect" => U.members = T.members
               /\ r.slot = "wake" => n.wait.state = s
               /\ n.status = m.status /\ n.hostRunning = m.hostRunning
               /\ n.stop = m.stop /\ n.recoveryWait = m.recoveryWait
               /\ \A u \in Thread \ {r.thread} : U.members[u] = T.members[u]
<1> DEFINE t == r.thread
           m == T.members[t]
           U == WithState(T, r, s)
<1>1. /\ r \in Ref /\ t \in Thread /\ r.slot \in {"effect", "wake", "compact"} /\ Known(T, r)
      /\ T \in Tree /\ Good(U)
  BY WithStateGood DEF Aims, Ref, Good
<1>2. m \in Member /\ m.wait \in Wait /\ U \in Tree
  BY <1>1, GoodParts DEF Good, Member
<1>3. CASE r.slot = "effect"
  <2>1. U = PutEffect(T, r.id, SetState(T.effects[r.id], s))
    BY <1>3 DEF WithState
  <2>2. T = [members |-> T.members, effects |-> T.effects]
    BY <1>1, TreeTypes
  <2>3. U.members = T.members
    BY <2>1, <2>2 DEF PutEffect
  <2> HIDE DEF U, m
  <2>4. Eases(m, m)
    BY DEF Eases, Pales
  <2> QED BY <1>1, <1>2, <1>3, <2>3, <2>4, CalmSame DEF U, m
<1>4. ASSUME NEW n, U = Put(T, t, n), Eases(m, n), r.slot = "wake" => n.wait.state = s,
             n.status = m.status, n.stop = m.stop, n.recoveryWait = m.recoveryWait
      PROVE  /\ Calm(T, U) /\ Eases(m, U.members[t])
             /\ r.slot = "wake" => U.members[t].wait.state = s
             /\ U.members[t].status = m.status /\ U.members[t].hostRunning = m.hostRunning
             /\ U.members[t].stop = m.stop /\ U.members[t].recoveryWait = m.recoveryWait
             /\ \A u \in Thread \ {t} : U.members[u] = T.members[u]
  <2>1. U.members[t] = n /\ \A u \in Thread \ {t} : U.members[u] = T.members[u]
    BY <1>1, <1>4, PutSelects
  <2>2. Calmer(m, n) /\ n.hostRunning = m.hostRunning
    BY <1>4, EasesKeeps DEF Eases
  <2> HIDE DEF U
  <2>3. Calm(T, U)
    <3>1. Calmer(T.members[t], U.members[t])
      BY <2>1, <2>2
    <3> HIDE DEF m
    <3> QED BY <1>1, <2>1, <3>1, CalmOne
  <2> QED BY <1>4, <2>1, <2>2, <2>3
<1>5. CASE r.slot = "wake"
  <2> DEFINE n == [m EXCEPT !.wait.state = s]
  <2>1. U = Put(T, t, n)
    BY <1>5 DEF WithState
  <2>2. /\ n.wait.state = s /\ n.status = m.status /\ n.stop = m.stop
        /\ n.recoveryWait = m.recoveryWait /\ n.hostRunning = m.hostRunning
        /\ n.turn = m.turn /\ n.generation = m.generation
    <3> HIDE DEF m
    <3> QED BY <1>2 DEF Member, Wait
  <2> HIDE DEF n, m, U
  <2>3. Eases(m, n)
    BY <2>2 DEF Eases, Pales, Reserved
  <2> QED BY <1>1, <1>2, <1>4, <1>5, <2>1, <2>2, <2>3 DEF m, U
<1>6. CASE r.slot = "compact"
  <2> DEFINE n == [m EXCEPT !.wait.compact = s]
  <2>1. U = Put(T, t, n)
    BY <1>6 DEF WithState
  <2>2. /\ n.status = m.status /\ n.stop = m.stop /\ n.wait.stop = m.wait.stop
        /\ n.wait.state = m.wait.state /\ n.wait.turn = m.wait.turn
        /\ n.wait.generation = m.wait.generation
        /\ n.recoveryWait = m.recoveryWait /\ n.hostRunning = m.hostRunning
        /\ n.turn = m.turn /\ n.generation = m.generation
    <3> HIDE DEF m
    <3> QED BY <1>2 DEF Member, Wait
  <2> HIDE DEF n, m, U
  <2>3. Eases(m, n)
    BY <2>2 DEF Eases, Pales, Reserved
  <2> QED BY <1>1, <1>2, <1>4, <1>6, <2>1, <2>2, <2>3 DEF m, U
<1> QED
  BY <1>1, <1>3, <1>5, <1>6

(* An intent that goes out is registered no more.                          *)
LEMMA DispatchCalm ==
    ASSUME NEW T, Good(T), NEW r, Aims(T, r)
    PROVE  Calm(T, Dispatch(T, r))
<1> DEFINE t == r.thread
           m == T.members[t]
           D == WithState(T, r, "dispatching")
           d == D.members[t]
           turn == IF KindOf(T, r) = "human" /\ ~m.hostRunning THEN 0 ELSE m.turn
           n == [d EXCEPT !.wait.turn = turn]
           e == [D.effects[r.id] EXCEPT !.turn = turn]
           U == Dispatch(T, r)
<1>1. /\ Calm(T, D) /\ D \in Tree /\ t \in Thread /\ d \in Member
      /\ r.slot = "wake" => d.wait.state = "dispatching"
  <2>1. Good(D) /\ Calm(T, D) /\ t \in Thread /\ r.slot = "wake" => d.wait.state = "dispatching"
    BY WithStateCalm DEF Aims, Ref, IntentState, HostOwned
  <2>2. Good(D) /\ Calm(T, D) /\ t \in Thread
    BY WithStateCalm DEF Aims, Ref, IntentState, HostOwned
  <2> QED BY <2>1, <2>2, GoodParts DEF Good
<1>2. \/ U = D
      \/ U = Put(D, t, n) /\ r.slot = "wake"
      \/ U = PutEffect(D, r.id, e)
  BY DEF Dispatch
<1> HIDE DEF D, U, turn, e
<1>3. CASE U = Put(D, t, n) /\ r.slot = "wake"
  <2>1. /\ n.hostRunning = d.hostRunning /\ n.turn = d.turn /\ n.generation = d.generation
        /\ n.status = d.status /\ n.stop = d.stop /\ n.recoveryWait = d.recoveryWait
        /\ n.wait.state = "dispatching"
    <3> HIDE DEF d
    <3> QED BY <1>1, <1>3 DEF Member, Wait
  <2> HIDE DEF n, d
  <2>2. Eases(d, n)
    BY <2>1 DEF Eases, Pales, Reserved
  <2> QED BY <1>1, <1>3, <2>2, EasesKeeps, CalmAfter DEF d, U
<1>4. CASE U = PutEffect(D, r.id, e)
  <2>1. D = [members |-> D.members, effects |-> D.effects]
    BY <1>1, TreeTypes
  <2>2. U.members = D.members
    BY <1>4, <2>1 DEF PutEffect
  <2> QED BY <1>1, <2>2 DEF Calm, U
<1> QED
  BY <1>1, <1>2, <1>3, <1>4 DEF U

(* A withdrawn intent, and the work that settles with it.                  *)
LEMMA WithdrawnCalm ==
    ASSUME NEW T, Fit(T), NEW r, Aims(T, r), r.slot = "effect", KindOf(T, r) \notin {"create", "final"},
           NEW s \in {"canceled", "confirmed"}, NEW status \in Outcome
    PROVE  LET W == WithState(T, r, s) IN
           /\ Calm(T, W)
           /\ Reserved(T.members[r.thread]) /\ ~T.members[r.thread].hostRunning
                => Calm(T, Finish(W, r.thread, status))
<1> DEFINE W == WithState(T, r, s)
<1>1. Fit(W) /\ W.members = T.members /\ r.thread \in Thread
  BY WithdrawEdits DEF Aims, Ref
<1> HIDE DEF W
<1>2. Calm(T, W)
  BY <1>1, CalmSame
<1>3. ASSUME Reserved(T.members[r.thread]), ~T.members[r.thread].hostRunning
      PROVE  Calm(T, Finish(W, r.thread, status))
  <2>1. Calm(W, Finish(W, r.thread, status))
    BY <1>1, <1>3, FinishedMember
  <2> QED BY <1>2, <2>1, CalmTrans
<1> QED
  BY <1>2, <1>3 DEF W

(* What is not blocked goes out, waits, or is overtaken, calmly.           *)
LEMMA ClaimStepCalm ==
    ASSUME NEW T, Fit(T), NEW r, Aims(T, r)
    PROVE  Calm(T, ClaimStep(T, r))
<1> DEFINE m == T.members[r.thread]
           W == WithState(T, r, "canceled")
           D == Dispatch(T, r)
           C == ClaimCompletion(T, r)
           I == ClaimInterrupt(T, r)
           N == WithState(T, r, "confirmed")
           X == Finish(W, r.thread, "completed")
           Y == Finish(N, r.thread, "interrupted")
           U == ClaimStep(T, r)
<1>1. Good(T) /\ r \in Ref /\ r.slot \in {"effect", "wake", "compact"}
  BY DEF Fit, Aims, Ref
<1>2. StepOf(T, r) \in {"completion", "interrupt"} => r.slot = "effect" /\ KindOf(T, r) \notin {"create", "final"}
  <2>1. r.slot = "effect" => T.effects[r.id] \in Effect
    BY <1>1, GoodEffects DEF Aims, Known
  <2> QED BY <1>1, <2>1 DEF StepOf, KindOf, Step, Effect, Phase, EffectKind
<1>3. \/ U = T \/ U = D \/ U = W
      \/ /\ StepOf(T, r) \in {"completion", "interrupt"}
         /\ \/ U = N
            \/ U = X /\ Reserved(m) /\ ~m.hostRunning
            \/ U = Y /\ Reserved(m) /\ ~m.hostRunning
  <2>1. U = T \/ U = D \/ U = W \/ (U = C /\ StepOf(T, r) = "completion")
        \/ (U = I /\ StepOf(T, r) = "interrupt")
    BY DEF ClaimStep
  <2>2. C = W \/ C = D \/ (C = X /\ m.status = "working" /\ ~m.hostRunning)
    BY DEF ClaimCompletion
  <2>3. I = N \/ I = D \/ (I = Y /\ Reserved(m) /\ ~m.hostRunning)
    BY DEF ClaimInterrupt
  <2>4. m.status = "working" => Reserved(m)
    BY DEF Reserved, ReservedStatus, ActiveStatus
  <2> HIDE DEF U, C, D, W, I, X, Y, N, m
  <2> QED BY <2>1, <2>2, <2>3, <2>4
<1>4. Calm(T, T) /\ Calm(T, D) /\ Calm(T, W)
  BY <1>1, CalmSame, DispatchCalm, WithStateCalm DEF IntentState, HostOwned
<1>5. ASSUME StepOf(T, r) \in {"completion", "interrupt"}
      PROVE  /\ Calm(T, N)
             /\ Reserved(m) /\ ~m.hostRunning => Calm(T, X) /\ Calm(T, Y)
  BY <1>2, <1>5, WithdrawnCalm DEF Outcome
<1> HIDE DEF U, D, W, X, Y, N
<1> QED
  BY <1>3, <1>4, <1>5 DEF U

(* A claim is calm.                                                        *)
LEMMA ClaimCalm ==
    ASSUME NEW T, Fit(T), NEW r, Aims(T, r)
    PROVE  Calm(T, Claim(T, r))
<1> DEFINE Q == IF KindOf(T, r) = "interrupt" THEN CancelQueuedWork(T, r.thread) ELSE T
           W == WithState(T, r, "confirmed")
           P == ClaimStep(Q, r)
           U == Claim(T, r)
<1>1. /\ Good(T) /\ r \in Ref /\ Known(T, r) /\ r.thread \in Thread
      /\ r.slot \in {"effect", "wake", "compact"}
  BY DEF Fit, Aims, Ref
<1>2. U \in {T, W, Q, P}
  BY <1>1 DEF Claim
<1>3. KindOf(T, r) = "interrupt" => r.slot = "effect" /\ r.id \in Indices(T)
  BY <1>1 DEF KindOf, Known
<1>4. Fit(Q) /\ Aims(Q, r) /\ Q.members = T.members
  <2>1. CASE KindOf(T, r) = "interrupt"
    <3> DEFINE C == CancelQueuedWork(T, r.thread)
    <3>1. /\ Fit(C) /\ Edits(T, C, {}, {}) /\ C.members = T.members /\ Indices(C) = Indices(T)
      BY <1>1, CancelQueuedWorkEdits
    <3> HIDE DEF C
    <3>2. Q = C
      BY <2>1 DEF C
    <3>3. C.effects[r.id].target = T.effects[r.id].target
      BY <1>3, <2>1, <3>1 DEF Edits, Ages, IntentAges, Notes
    <3> HIDE DEF Q
    <3> QED
      BY <1>1, <1>3, <2>1, <3>1, <3>2, <3>3 DEF Aims, Known
  <2>2. CASE KindOf(T, r) # "interrupt"
    BY <1>1, <2>2
  <2> QED BY <2>1, <2>2
<1> HIDE DEF Q
<1>5. Calm(T, T) /\ Calm(T, Q)
  BY <1>4, CalmSame
<1>6. Calm(T, W)
  BY <1>1, WithStateCalm DEF IntentState
<1>7. Calm(T, P)
  BY <1>4, <1>5, ClaimStepCalm, CalmTrans
<1> HIDE DEF W, P, U
<1> QED
  BY <1>2, <1>5, <1>6, <1>7 DEF U

(* The human's input supersedes what waited, and goes out.                 *)
LEMMA HumanInputCalm ==
    ASSUME NEW T, Fit(T), NEW t \in Thread
    PROVE  Calm(T, HumanInput(T, t))
<1> DEFINE m == T.members[t]
           n == Reserve(m)
           N == IF Reserved(m) /\ m.status # "paused" THEN T ELSE Put(T, t, n)
           S == Supersede(N, t)
           g == N.members[t].generation
           d == NewEffect("human", t, 0, 0, t, g)
           A == AddEffect(S, d)
           r == EffectRef(A, Len(A.effects))
           C == Claim(A, r)
           R == Supersede(T, t)
           U == HumanInput(T, t)
<1>1. Good(T) /\ T \in Tree /\ m \in Member /\ Executing(m)
  BY FitParts DEF Fit, Good
<1>2. U \in {T, R} \/ (U = C /\ ~Dispatched(m.wait))
  BY DEF HumanInput
<1>3. Calm(T, T) /\ Calm(T, R)
  BY CalmSame, SupersedeCalm
<1>4. CASE U = C /\ ~Dispatched(m.wait)
  <2>1. /\ Fit(N) /\ N.members[t].wait = m.wait
        /\ \A u \in Thread \ {t} : N.members[u] = T.members[u]
    <3>1. CASE Reserved(m) /\ m.status # "paused"
      BY <3>1
    <3>2. CASE ~(Reserved(m) /\ m.status # "paused")
      <4>1. MayBecome(m, n)
        BY <1>1, <3>2, ReserveMayBecome
      <4>2. SameWaits(m, n) /\ n.status = "pending" /\ n.wait = m.wait
        <5> HIDE DEF m
        <5> QED BY <1>1 DEF Reserve, Member, SameWaits, SameTargets
      <4> HIDE DEF n
      <4>3. Good(Put(T, t, n))
        BY <1>1, <4>1, PutGood
      <4>4. Fit(Put(T, t, n))
        BY <1>1, <4>2, <4>3, PutSameWaits
      <4> QED BY <1>1, <3>2, <4>2, <4>4, PutSelects
    <3> QED BY <3>1, <3>2
  <2> HIDE DEF N
  <2>2. /\ Fit(S) /\ Idle(S.members[t])
        /\ \A u \in Thread \ {t} : S.members[u] = T.members[u]
    BY <1>4, <2>1, SupersedeEdits, SupersedeCalm
  <2>3. g \in Nat
    BY <2>1, FitParts DEF Member
  <2> HIDE DEF S, g
  <2>4. Calm(T, S)
    BY <2>2, IdleRetains, CalmOne
  <2>5. d \in Effect /\ NewIntent(d) /\ NewNote(d) /\ d.target = t /\ d.kind = "human"
    BY <2>3 DEF NewEffect, Effect, EffectKind, Phase, IntentState, NewIntent, Phased, NewNote, HostOwned, Candid
  <2> HIDE DEF d
  <2>6. Good(A) /\ A.members = S.members
    BY <2>2, <2>5, AddGood DEF Fit
  <2>7. Fit(A) /\ Calm(T, A)
    BY <2>2, <2>4, <2>5, <2>6, AddEdits DEF Calm
  <2>8. /\ Indices(A) = Indices(S) \cup {Len(S.effects) + 1} /\ Len(S.effects) \in Nat
        /\ Len(A.effects) = Len(S.effects) + 1 /\ A.effects[Len(S.effects) + 1] = d
    BY <2>2, <2>5, AddSelects DEF Fit, Good
  <2> HIDE DEF A
  <2>9. Aims(A, r)
    BY <2>5, <2>8 DEF Aims, EffectRef, Ref, Known
  <2> HIDE DEF r
  <2>10. Calm(A, C)
    BY <2>7, <2>9, ClaimCalm
  <2> HIDE DEF C, U
  <2>11. Calm(T, C)
    BY <2>7, <2>10, CalmTrans
  <2> QED BY <1>4, <2>11 DEF U
<1> HIDE DEF U, R, C
<1> QED
  BY <1>2, <1>3, <1>4 DEF U
-----------------------------------------------------------------------------
(* Acknowledgements.                                                       *)

(* A new status reserves nothing that was not.                             *)
LEMMA StatusEases ==
    ASSUME NEW m \in Member, NEW s, s = "absent" => m.status = "absent",
           s \in ReservedStatus => Reserved(m)
    PROVE  LET n == [m EXCEPT !.status = s] IN
           /\ Eases(m, n) /\ Calmer(m, n) /\ n.status = s /\ n.hostRunning = m.hostRunning
           /\ n.generation = m.generation
<1> DEFINE n == [m EXCEPT !.status = s]
<1>1. /\ n.hostRunning = m.hostRunning /\ n.turn = m.turn /\ n.generation = m.generation
      /\ n.status = s /\ n.stop = m.stop /\ n.wait = m.wait /\ n.recoveryWait = m.recoveryWait
  BY DEF Member
<1> HIDE DEF n
<1>2. Eases(m, n)
  BY <1>1 DEF Eases, Pales, Reserved
<1> QED
  BY <1>1, <1>2, EasesKeeps DEF n

(* What a failed or uncertain dispatch leaves is owed no other stop.       *)
LEMMA FailureCalm ==
    ASSUME NEW T, Fit(T), NEW r, Aims(T, r), StateOf(T, r) = "dispatching", NEW receipt
    PROVE  Calm(T, Failure(T, r, receipt))
<1> DEFINE unsure == receipt.error = "uncertain"
           t == r.thread
           s == IF unsure THEN "uncertain" ELSE "failed"
           F == WithState(T, r, s)
           m == F.members[t]
           kind == KindOf(T, r)
           status == CASE kind \in {"wake", "compact"} /\ Reserved(m) /\ unsure -> "uncertain"
                       [] kind = "create" /\ m.status = "pending" ->
                            IF unsure THEN "uncertain" ELSE "failed"
                       [] OTHER -> m.status
           n == [m EXCEPT !.status = status]
           S == IF m.status = "paused" THEN F ELSE Put(F, t, n)
           k == S.members[t]
           assigned == /\ kind \in {"human", "followup", "completion"} /\ ~m.hostRunning
                       /\ Reserved(m) /\ m.generation = GenerationOf(T, r)
           x == [k EXCEPT !.status = "uncertain"]
           A == IF ~assigned THEN S
                ELSE IF unsure THEN Put(S, t, x)
                ELSE Finish(S, t, "failed")
           U == Failure(T, r, receipt)
<1>1. /\ Good(F) /\ F \in Tree /\ Calm(T, F) /\ t \in Thread /\ m \in Member /\ Executing(m)
  <2>1. s \in IntentState \ {"registered"}
    BY DEF IntentState, HostOwned
  <2> HIDE DEF s
  <2>2. Good(F) /\ F \in Tree /\ Calm(T, F)
    BY <2>1, WithStateCalm DEF Fit
  <2> HIDE DEF F
  <2> QED BY <2>2, GoodParts DEF Aims, Ref
<1>2. U = F \/ U = A \/ U = SettleRecovery(A, t)
  BY DEF Failure, F
<1>3. assigned => r.slot = "effect"
  BY DEF KindOf, Aims, Ref
<1>4. r.slot = "effect" => Fit(F)
  BY OutcomeEdits DEF HostOwned
<1> HIDE DEF F, U
<1>5. /\ status \in Status
      /\ status = "absent" => m.status = "absent"
      /\ Reserved(m) /\ m.hostRunning => status \in {"working", "waiting", "uncertain"}
      /\ status \in ReservedStatus => Reserved(m)
      /\ assigned => status = m.status
  BY <1>1 DEF Member, Status, Outcome, Executing, Reserved, ReservedStatus, ActiveStatus
<1>6. /\ Calmer(m, n) /\ MayBecome(m, n) /\ n.status = status /\ SameWaits(m, n)
      /\ n.generation = m.generation /\ n.hostRunning = m.hostRunning
  <2> HIDE DEF status, m
  <2> QED BY <1>1, <1>5, StatusEases, StatusMayBecome
<1>7. /\ Calm(T, S) /\ S \in Tree /\ k \in Member
      /\ assigned => Fit(S) /\ Reserved(k) /\ ~k.hostRunning
  <2> HIDE DEF n
  <2>1. CASE m.status = "paused"
    BY <1>1, <1>3, <1>4, <2>1
  <2>2. CASE m.status # "paused"
    <3> DEFINE P == Put(F, t, n)
    <3>1. Good(P) /\ P.members[t] = n /\ P \in Tree
      BY <1>1, <1>6, PutGood, PutSelects DEF Good
    <3>2. Calm(T, P)
      BY <1>1, <1>6, CalmAfter
    <3>3. assigned => Fit(P)
      <4>1. assigned => Fit(F) /\ (n.status = "completed" => m.status = "completed")
        BY <1>3, <1>4, <1>5, <1>6
      <4> HIDE DEF assigned, status
      <4> QED BY <1>1, <1>6, <3>1, <4>1, PutSameWaits
    <3>4. S = P
      BY <2>2
    <3>5. n \in Member
      BY <1>6 DEF MayBecome
    <3>6. assigned => Reserved(n) /\ ~n.hostRunning
      BY <1>5, <1>6 DEF Reserved
    <3> HIDE DEF P, S, assigned
    <3> QED BY <3>1, <3>2, <3>3, <3>4, <3>5, <3>6
  <2> QED BY <2>1, <2>2
<1> HIDE DEF S
<1>8. Calm(T, A) /\ A \in Tree
  <2>1. CASE ~assigned
    BY <1>7, <2>1
  <2>2. CASE assigned /\ unsure
    <3>1. Reserved(k)
      BY <1>7, <2>2
    <3>2. Calmer(k, x)
      <4> HIDE DEF k
      <4> QED BY <1>7, <3>1, StatusEases DEF ReservedStatus
    <3>3. x \in Member
      <4> HIDE DEF k
      <4> QED BY <1>7 DEF Member, Status, ReservedStatus
    <3> HIDE DEF x
    <3>4. Put(S, t, x) \in Tree
      BY <1>7, <3>3 DEF Put, Tree
    <3>5. Calm(T, Put(S, t, x))
      BY <1>1, <1>7, <3>2, CalmAfter
    <3> QED BY <2>2, <3>4, <3>5
  <2>3. CASE assigned /\ ~unsure
    <3>1. /\ Fit(Finish(S, t, "failed")) /\ Calm(S, Finish(S, t, "failed"))
      BY <1>1, <1>7, <2>3, FinishEdits, FinishedMember DEF Outcome
    <3>2. Calm(T, Finish(S, t, "failed")) /\ Finish(S, t, "failed") \in Tree
      BY <1>7, <3>1, CalmTrans DEF Fit, Good
    <3> QED BY <2>3, <3>2
  <2> QED BY <2>1, <2>2, <2>3
<1> HIDE DEF A
<1>9. Calm(T, SettleRecovery(A, t))
  BY <1>1, <1>8, SettledCalm, CalmTrans
<1> QED
  BY <1>1, <1>2, <1>8, <1>9 DEF U

(* A phase of a creation changes no member.                                *)
LEMMA PhaseMembers ==
    ASSUME NEW T, T \in Tree, NEW r, NEW phase, NEW state
    PROVE  NextPhase(T, r, phase, state).members = T.members
<1>1. T = [members |-> T.members, effects |-> T.effects]
  BY TreeTypes
<1> QED
  BY <1>1 DEF NextPhase, PutEffect

(* A child that becomes a member had nothing registered.                   *)
LEMMA AdmitChildCalm ==
    ASSUME NEW T, T \in Tree, NEW t \in Thread, T.members[t].status = "absent"
    PROVE  Calm(T, AdmitChild(T, t)) /\ AdmitChild(T, t) \in Tree
<1> DEFINE m == T.members[t]
           n == [m EXCEPT !.status = "pending", !.generation = 1]
<1>1. m \in Member
  BY TreeTypes
<1>2. n \in Member /\ n.wait = m.wait /\ n.recoveryWait = m.recoveryWait
  <2> HIDE DEF m
  <2> QED BY <1>1 DEF Member, Status, ReservedStatus, ActiveStatus
<1>3. AdmitChild(T, t) = Put(T, t, n)
  BY DEF AdmitChild
<1> HIDE DEF n
<1>4. Calmer(m, n)
  <2>1. ASSUME NEW k \in Nat, Retains(m, k)
        PROVE  Idle(m)
    BY <2>1 DEF Retains, Dated, Bound, Idle
  <2>2. Idle(m) => Idle(n)
    BY <1>2 DEF Idle
  <2> QED BY <2>1, <2>2, IdleRetains DEF Calmer
<1>5. Put(T, t, n) \in Tree
  BY <1>2 DEF Put, Tree
<1> QED
  BY <1>3, <1>4, <1>5, CalmPut

(* A confirmed intent is calm.                                             *)
LEMMA SuccessCalm ==
    ASSUME NEW T, Fit(T), NEW r, Aims(T, r),
           NEW receipt, receipt.turn \in Nat, ~Conflicting(T, r, receipt)
    PROVE  Calm(T, Success(T, r, receipt))
<1> DEFINE step == StepOf(T, r)
           t == r.thread
           m == T.members[t]
           phaseState == IF m.status = "paused" THEN "paused" ELSE "pending"
           C == WithState(T, r, IF step \in {"wake", "compact"} THEN "completed" ELSE "confirmed")
           k == C.members[t]
           w == [k EXCEPT !.status = "waiting"]
           a == [m EXCEPT !.audience = TRUE]
           B == Put(T, t, a)
           state == IF T.effects[r.id].outcome = "interrupted" THEN "canceled" ELSE phaseState
           created == NextPhase(AdmitChild(T, t), r, "assignment_input", "pending")
           assigned == NextPhase(T, r, "admit", phaseState)
           admitted == NextPhase(B, r, "initial", state)
           V == AcceptTurn(C, r, receipt.turn)
           W == Put(C, t, w)
           S == CASE step = "compact" ->
                       IF receipt.reconciled /\ m.status = "uncertain" /\ m.wait.state = "registered"
                       THEN W ELSE C
                  [] step = "create" -> created
                  [] step = "assignment_input" -> assigned
                  [] step = "admit" -> admitted
                  [] step \in {"initial", "followup", "wake", "human", "completion"} ->
                       IF receipt.reconciled THEN C ELSE V
                  [] OTHER -> C
           U == Success(T, r, receipt)
<1>1. /\ r \in Ref /\ t \in Thread /\ T \in Tree /\ Good(T) /\ m \in Member /\ Known(T, r)
  <2>1. r \in Ref /\ t \in Thread /\ Good(T) /\ Known(T, r)
    BY DEF Aims, Ref, Fit
  <2> QED BY <2>1, GoodParts DEF Good
<1>2. /\ Calm(T, C) /\ Good(C) /\ C \in Tree /\ k \in Member /\ Eases(m, k) /\ k.status = m.status
  <2>1. /\ Calm(T, C) /\ Good(C) /\ C \in Tree /\ Eases(m, k) /\ k.status = m.status
    BY <1>1, WithStateCalm DEF IntentState
  <2> HIDE DEF C
  <2> QED BY <1>1, <2>1, GoodParts
<1> HIDE DEF C
<1>3. m.status = "uncertain" => Calm(T, W) /\ W \in Tree
  <2> SUFFICES ASSUME m.status = "uncertain" PROVE Calm(T, W) /\ W \in Tree
    OBVIOUS
  <2>1. Reserved(k)
    BY <1>2 DEF Reserved, ReservedStatus
  <2>2. Calmer(k, w) /\ w \in Member
    <3> HIDE DEF k
    <3>1. Calmer(k, w)
      BY <1>2, <2>1, StatusEases DEF ReservedStatus, ActiveStatus
    <3>2. w \in Member
      BY <1>2 DEF Member, Status, ReservedStatus, ActiveStatus
    <3> QED BY <3>1, <3>2
  <2> HIDE DEF w
  <2>3. W \in Tree
    BY <1>2, <2>2 DEF Put, Tree
  <2>4. Calm(T, W)
    BY <1>1, <1>2, <2>2, CalmAfter
  <2> QED BY <2>3, <2>4
<1>4. step = "create" => Calm(T, created) /\ created \in Tree
  <2> SUFFICES ASSUME step = "create" PROVE Calm(T, created) /\ created \in Tree
    OBVIOUS
  <2> DEFINE D == AdmitChild(T, t)
  <2>1. m.status = "absent"
    BY DEF Conflicting, CreatesThread
  <2>2. r.id \in Indices(T)
    BY <1>1 DEF StepOf, Known, Ref
  <2>3. Calm(T, D) /\ D \in Tree /\ Good(D) /\ Indices(D) = Indices(T)
    BY <1>1, <2>1, AdmitChildCalm, AdmitChildGood
  <2> HIDE DEF D
  <2>4. NextPhase(D, r, "assignment_input", "pending").members = D.members
    BY <2>3, PhaseMembers
  <2>5. Good(NextPhase(D, r, "assignment_input", "pending"))
    BY <1>1, <2>2, <2>3, NextPhaseGood DEF Phase, IntentState
  <2> QED BY <2>3, <2>4, <2>5 DEF D, Calm, Good
<1>5. step \in {"assignment_input", "admit"} => r.id \in Indices(T)
  BY <1>1 DEF StepOf, Known, Ref
<1>6. step = "assignment_input" => Calm(T, assigned) /\ assigned \in Tree
  BY <1>1, <1>5, PhaseMembers, CalmSame, NextPhaseGood DEF Phase, IntentState, Good
<1>7. step = "admit" => Calm(T, admitted) /\ admitted \in Tree
  <2>1. Eases(m, a) /\ a \in Member
    <3>1. /\ a.hostRunning = m.hostRunning /\ a.turn = m.turn /\ a.generation = m.generation
          /\ a.status = m.status /\ a.stop = m.stop /\ a.wait = m.wait
          /\ a.recoveryWait = m.recoveryWait /\ a \in Member
      <4> HIDE DEF m
      <4> QED BY <1>1 DEF Member
    <3> HIDE DEF a
    <3> QED BY <3>1 DEF Eases, Pales, Reserved
  <2>2. KeepsStanding(m, a)
    <3> HIDE DEF m
    <3> QED BY <1>1 DEF Member, KeepsStanding
  <2>3. MayBecome(m, a)
    BY <1>1, <2>1, <2>2, GoodParts, StandingMayBecome
  <2> HIDE DEF a
  <2>4. Calm(T, B) /\ Good(B) /\ B \in Tree /\ Indices(B) = Indices(T)
    BY <1>1, <2>1, <2>3, EasesKeeps, CalmPut, PutGood DEF Indices, Good
  <2> HIDE DEF B
  <2>5. state \in IntentState
    BY DEF IntentState
  <2> HIDE DEF state
  <2>6. admitted.members = B.members
    BY <2>4, PhaseMembers
  <2>7. step = "admit" => Good(admitted)
    BY <1>1, <1>5, <2>4, <2>5, NextPhaseGood DEF Phase
  <2> QED BY <2>4, <2>6, <2>7 DEF Calm, Good
<1>8. step \in {"initial", "followup", "wake", "human", "completion"} /\ ~receipt.reconciled
        => Calm(T, V) /\ V \in Tree
  <2> SUFFICES ASSUME step \in {"initial", "followup", "wake", "human", "completion"},
                      ~receipt.reconciled
               PROVE  Calm(T, V) /\ V \in Tree
    OBVIOUS
  <2>1. m.hostRunning => m.turn = receipt.turn
    BY DEF Conflicting
  <2>2. k.hostRunning => k.turn = receipt.turn
    BY <1>2, <2>1 DEF Eases
  <2>3. Calm(C, V)
    BY <1>1, <1>2, <2>2, AcceptTurnCalm
  <2>4. Good(V)
    BY <1>1, <1>2, AcceptTurnGood
  <2> QED BY <1>2, <2>3, <2>4, CalmTrans DEF Good
<1>9. Calm(T, S) /\ S \in Tree
  <2> HIDE DEF C, created, assigned, admitted, V, W
  <2> QED BY <1>2, <1>3, <1>4, <1>6, <1>7, <1>8
<1>10. U = S \/ U = SettleRecovery(S, t)
  BY DEF Success, C
<1> HIDE DEF S, U
<1>11. Calm(T, SettleRecovery(S, t))
  BY <1>1, <1>9, SettledCalm, CalmTrans
<1> QED
  BY <1>9, <1>10, <1>11 DEF U

(* An acknowledgement is calm.                                             *)
LEMMA AcknowledgeCalm ==
    ASSUME NEW T, Fit(T), NEW r \in Ref, Known(T, r) => Aims(T, r),
           NEW receipt, receipt.turn \in Nat
    PROVE  Calm(T, Acknowledge(T, r, receipt))
<1> DEFINE U == Acknowledge(T, r, receipt)
           F == Failure(T, r, receipt)
           S == Success(T, r, receipt)
<1>1. \/ U = T
      \/ U = F /\ Acknowledgeable(T, r, receipt) /\ receipt.error # "none"
      \/ U = S /\ Acknowledgeable(T, r, receipt) /\ ~Conflicting(T, r, receipt)
  <2> HIDE DEF F, S
  <2> QED BY DEF Acknowledge, F, S
<1>2. ASSUME Acknowledgeable(T, r, receipt), receipt.error # "none"
      PROVE  Calm(T, F)
  <2>1. Aims(T, r) /\ StateOf(T, r) = "dispatching"
    BY <1>2 DEF Acknowledgeable
  <2> QED BY <2>1, FailureCalm
<1>3. ASSUME Acknowledgeable(T, r, receipt), ~Conflicting(T, r, receipt)
      PROVE  Calm(T, S)
  <2>1. Aims(T, r)
    BY <1>3 DEF Acknowledgeable
  <2> QED BY <1>3, <2>1, SuccessCalm
<1> HIDE DEF U, F, S
<1> QED
  BY <1>1, <1>2, <1>3, CalmSame DEF U
=============================================================================
