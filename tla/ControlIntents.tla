--------------------------- MODULE ControlIntents ---------------------------
(***************************************************************************)
(* Control intents: prepared by an agent or the human, claimed by a driver *)
(* (at most one at a time per target), dispatched to the host, and settled *)
(* by the host's acknowledgement or by reconciliation with its history.    *)
(*                                                                         *)
(* An intent is named by a reference: a retained effect by its index, the  *)
(* continuation embedded in a thread's current wait ("wake") and its       *)
(* checkpoint ("compact") by the wait's ordinal.  A reference to a wait    *)
(* that was replaced names nothing, as Tree.Effect then finds nothing.     *)
(***************************************************************************)
EXTENDS ControlHandlers

Ref == [slot : {"effect", "wake", "compact"}, thread : Thread, id : Nat]
EffectRef(T, i) == [slot |-> "effect", thread |-> T.effects[i].target, id |-> i]
WaitRef(slot, t, w) == [slot |-> slot, thread |-> t, id |-> w.id]

Refs(T) ==
    {EffectRef(T, i) : i \in Indices(T)} \cup
    {WaitRef(slot, t, T.members[t].wait) : slot \in {"wake", "compact"}, t \in Thread}

Known(T, r) ==
    LET w == T.members[r.thread].wait IN
    CASE r.slot = "effect" -> r.id \in Indices(T)
      [] r.slot = "wake"    -> w.state # "none" /\ w.id = r.id
      [] OTHER              -> w.compact # "none" /\ w.id = r.id

(* The intent's own fields, wherever it is stored.                         *)
StateOf(T, r) ==
    CASE r.slot = "effect" -> T.effects[r.id].state
      [] r.slot = "wake"    -> T.members[r.thread].wait.state
      [] OTHER              -> T.members[r.thread].wait.compact
StepOf(T, r) == IF r.slot = "effect" THEN Step(T.effects[r.id]) ELSE r.slot
KindOf(T, r) == IF r.slot = "effect" THEN T.effects[r.id].kind ELSE r.slot
GenerationOf(T, r) == IF r.slot = "effect" THEN T.effects[r.id].generation
                      ELSE T.members[r.thread].wait.generation
CreatesThread(T, r) == StepOf(T, r) = "create"

WithState(T, r, s) ==
    CASE r.slot = "effect" -> PutEffect(T, r.id, SetState(T.effects[r.id], s))
      [] r.slot = "wake"    -> Put(T, r.thread, [T.members[r.thread] EXCEPT !.wait.state = s])
      [] OTHER              -> Put(T, r.thread, [T.members[r.thread] EXCEPT !.wait.compact = s])

-----------------------------------------------------------------------------
(* Preparing an intent.                                                    *)

(* ReserveSpawn: one creation per task name unless the last one failed.    *)
MaySpawn(T, child) ==
    /\ T.members[child].status = "absent"
    /\ \A i \in Indices(T) : LET e == T.effects[i] IN
          e.kind = "create" /\ e.target = child => e.state = "failed"
Spawn(T, caller, child) ==
    LET m == T.members[caller] IN
    AddEffect(T, [NewEffect("create", caller, m.turn, m.generation, child, 1)
                    EXCEPT !.phase = "create"])

(* PrepareAction: what its checks require of the target.                   *)
MayPrepare(T, target, kind) ==
    LET m == T.members[target] IN
    /\ m.status # "absent"
    /\ kind # "message" => target # Root /\ ~Dispatched(m.wait)
    /\ kind = "followup" =>
         \A i \in Indices(T) : LET e == T.effects[i] IN
            ~(e.kind = "human" /\ e.target = target /\ e.state \in HostOwned)
    /\ kind = "message" => target = Root \/ m.audience

(* A follow-up of paused work finishes its admission, not its first task.  *)
ResumeAdmission(T, target) ==
    LET Resume(e) ==
          CASE ~(e.kind = "create" /\ Addressed(e, target) /\ e.state = "paused") -> e
            [] OTHER -> IF e.phase = "initial" THEN SetState(e, "canceled")
                        ELSE [e EXCEPT !.state = "pending", !.outcome = "interrupted"]
    IN  IF T.members[target].status = "paused" THEN EachEffect(T, Resume) ELSE T

(* The control event: the target's deferred completion and wait retire.    *)
ControlEvent(T, t) == CancelSubscription(CancelCompletion(T, t), t)

(* Wrong on purpose: new work reuses the settled generation.               *)
ReserveAgain(m) == [m EXCEPT !.status = "pending"]
(* A new assignment reserves a new generation unless one is reserved.      *)
Reserve(m) == [m EXCEPT !.generation = IF Reserved(m) THEN @ ELSE @ + 1, !.status = "pending"]

Prepare(T, caller, target, kind) ==
    LET sender == T.members[caller]
        R == IF kind = "followup" THEN ResumeAdmission(T, target) ELSE T
        C == IF kind = "message" THEN R ELSE ControlEvent(R, target)
        m == C.members[target]
        N == IF kind = "followup" /\ (~Reserved(m) \/ m.status = "paused")
             THEN Put(C, target, [Reserve(m) EXCEPT !.stop = NoStop]) ELSE C
    IN  AddEffect(N, NewEffect(kind, caller, sender.turn, sender.generation,
                               target, N.members[target].generation))

-----------------------------------------------------------------------------
(* Claiming an intent for dispatch.                                        *)

(* An interrupt cancels the work queued for the generation it interrupts.  *)
CancelQueuedWork(T, t) ==
    LET Cancel(e) ==
          CASE ~(Addressed(e, t) /\ e.generation = T.members[t].generation
                   /\ e.state = "pending") -> e
            [] OTHER -> [e EXCEPT
                 !.outcome = IF e.kind = "create" THEN "interrupted" ELSE @,
                 !.state = IF Step(e) \in {"initial", "followup"} THEN "canceled" ELSE @]
    IN  EachEffect(T, Cancel)

(* Another intent addressed to the same thread, which an interrupt of an   *)
(* executing turn overtakes when it is only the initial assignment.        *)
Contends(T, r, j) ==
    LET e == T.effects[j] IN
    /\ ~(r.slot = "effect" /\ j = r.id)
    /\ Addressed(e, r.thread)
    /\ ~(KindOf(T, r) = "interrupt" /\ T.members[r.thread].hostRunning /\ Step(e) = "initial")

(* Wrong on purpose: intents prepared before are not waited for.           *)
OwnedHoldsBack(T, r, j) == T.effects[j].state \in HostOwned
(* Wrong on purpose: intents prepared later are waited for as well.        *)
AnyHoldsBack(T, r, j) == T.effects[j].state \in HostOwned \cup {"pending"}

(* Per-target order: an intent waits for what the host owns and for every  *)
(* intent prepared before it.                                              *)
HoldsBack(T, r, j) ==
    \/ T.effects[j].state \in HostOwned
    \/ /\ r.slot # "effect" \/ j < r.id
       /\ T.effects[j].state = "pending" /\ r.slot # "compact"

Blocked(T, r) ==
    LET m == T.members[r.thread]
    IN  /\ ~CreatesThread(T, r)
        /\ \/ CompactionPending(m.wait) /\ KindOf(T, r) \notin {"compact", "interrupt"}
           \/ Dispatched(m.wait) /\ r.slot # "wake"
           \/ \E j \in Indices(T) : Contends(T, r, j) /\ HoldsBack(T, r, j)

Dispatch(T, r) ==
    LET m == T.members[r.thread]
        D == WithState(T, r, "dispatching")
        turn == IF KindOf(T, r) = "human" /\ ~m.hostRunning THEN 0 ELSE m.turn
    IN  CASE r.slot = "compact" \/ CreatesThread(T, r) -> D
          [] r.slot = "wake" -> Put(D, r.thread, [D.members[r.thread] EXCEPT !.wait.turn = turn])
          [] OTHER -> PutEffect(D, r.id, [D.effects[r.id] EXCEPT !.turn = turn])

(* Wrong on purpose: the guard completes without looking below again.      *)
ClaimCompletionOnce(T, r) == Finish(WithState(T, r, "canceled"), r.thread, "completed")

(* A completion guard that was overtaken is canceled; one whose            *)
(* descendants have all settled lets the original completion proceed.      *)
ClaimCompletion(T, r) ==
    LET m == T.members[r.thread]
        current == /\ ~m.hostRunning /\ m.status = "working"
                   /\ m.turn = T.effects[r.id].callerTurn
                   /\ IsCompletionOf(T.effects[r.id], r.thread, m.stop)
                   /\ m.stop.generation = m.generation
    IN  CASE ~current -> WithState(T, r, "canceled")
          [] OTHER -> IF ActiveBelow(T, r.thread) = {}
                      THEN Finish(WithState(T, r, "canceled"), r.thread, "completed")
                      ELSE Dispatch(T, r)

(* Wrong on purpose: work that has settled is settled again.               *)
ClaimInterruptTwice(T, r) ==
    IF T.members[r.thread].hostRunning THEN Dispatch(T, r)
    ELSE Finish(WithState(T, r, "confirmed"), r.thread, "interrupted")
(* Wrong on purpose: work that executes nothing is left as it is.          *)
ClaimInterruptRunning(T, r) ==
    IF T.members[r.thread].hostRunning THEN Dispatch(T, r) ELSE WithState(T, r, "confirmed")

ClaimInterrupt(T, r) ==
    LET m == T.members[r.thread]
        S == WithState(T, r, "confirmed")
    IN  CASE m.hostRunning -> Dispatch(T, r)
          [] OTHER -> IF Reserved(m) THEN Finish(S, r.thread, "interrupted") ELSE S

ClaimStep(T, r) ==
    LET m == T.members[r.thread]
        step == StepOf(T, r)
        sameWork == m.generation = GenerationOf(T, r)
    IN  CASE step = "compact" ->
               IF ~m.hostRunning /\ m.wait.state = "registered" /\ m.wait.stop = "committed"
                    /\ sameWork
               THEN Dispatch(T, r) ELSE T
          [] step = "wake" ->
               IF m.status = "waiting" /\ ~m.hostRunning /\ sameWork
               THEN Dispatch(T, r) ELSE WithState(T, r, "canceled")
          [] step \in {"initial", "followup", "human"} ->
               IF /\ m.audience /\ Reserved(m) /\ sameWork
                  /\ ~(m.hostRunning /\ m.stop.kind # "none" /\ m.stop.turn = m.turn)
               THEN Dispatch(T, r) ELSE T
          [] step = "completion" -> ClaimCompletion(T, r)
          [] step = "interrupt"  -> ClaimInterrupt(T, r)
          [] OTHER               -> Dispatch(T, r)

(* claimEffect.  An interrupt of settled work confirms without touching    *)
(* the successor; a blocked one has still canceled the queued work.        *)
Claim(T, r) ==
    LET interrupt == KindOf(T, r) = "interrupt"
        stale == interrupt /\ GenerationOf(T, r) # T.members[r.thread].generation
        Q == IF interrupt THEN CancelQueuedWork(T, r.thread) ELSE T
    IN  CASE ~Known(T, r) \/ StateOf(T, r) \notin {"pending", "queued"} -> T
          [] OTHER -> IF stale THEN WithState(T, r, "confirmed")
                      ELSE IF Blocked(Q, r) THEN Q ELSE ClaimStep(Q, r)

-----------------------------------------------------------------------------
(* Settling an intent.  A receipt says what the sole request owner knows:  *)
(* its error ("none", "refused", "uncertain"), the native turn it started  *)
(* or steered, and whether it was reconciled from the host's own history.  *)

Acknowledgeable(T, r, receipt) ==
    /\ Known(T, r)
    /\ \/ StateOf(T, r) = "dispatching"
       \/ /\ StateOf(T, r) = "uncertain" /\ receipt.reconciled /\ receipt.error = "none"
          /\ StepOf(T, r) \notin {"create", "admit"}

(* Wrong on purpose: an intent without an answer is sent again.            *)
FailureRetried(T, r, receipt) ==
    WithState(T, r, IF r.slot = "wake" THEN "queued" ELSE "pending")

(* The work a failed or uncertain dispatch leaves behind.                  *)
Failure(T, r, receipt) ==
    LET unsure == receipt.error = "uncertain"
        F == WithState(T, r, IF unsure THEN "uncertain" ELSE "failed")
        m == F.members[r.thread]
        kind == KindOf(T, r)
        status == CASE kind \in {"wake", "compact"} /\ Reserved(m) /\ unsure -> "uncertain"
                    [] kind = "create" /\ m.status = "pending" ->
                         IF unsure THEN "uncertain" ELSE "failed"
                    [] OTHER -> m.status
        S == IF m.status = "paused" THEN F ELSE Put(F, r.thread, [m EXCEPT !.status = status])
        assigned == /\ kind \in {"human", "followup", "completion"} /\ ~m.hostRunning
                    /\ Reserved(m) /\ m.generation = GenerationOf(T, r)
        A == IF ~assigned THEN S
             ELSE IF unsure THEN Put(S, r.thread, [S.members[r.thread] EXCEPT !.status = "uncertain"])
             ELSE Finish(S, r.thread, "failed")
    IN  CASE CreatesThread(T, r) -> F
          [] OTHER -> IF unsure THEN A ELSE SettleRecovery(A, r.thread)

NextPhase(T, r, phase, state) ==
    PutEffect(T, r.id, [T.effects[r.id] EXCEPT !.phase = phase, !.state = state])

(* The child becomes a member: reserved, not yet in the audience.          *)
AdmitChild(T, t) == Put(T, t, [T.members[t] EXCEPT !.status = "pending", !.generation = 1])

(* The host took the input into `turn`, which starts executing the         *)
(* reserved work unless the turn was already observed.                     *)
AcceptTurn(T, r, turn) ==
    LET m == T.members[r.thread] IN
    IF m.generation = GenerationOf(T, r) /\ Reserved(m) /\ m.turn # turn
    THEN Put(T, r.thread, Start(m, turn)) ELSE T

(* A confirmation that contradicts the tree is an error: a created thread  *)
(* that is a member already, or input in another turn than the running one. *)
Conflicting(T, r, receipt) ==
    LET m == T.members[r.thread] IN
    \/ CreatesThread(T, r) /\ m.status # "absent"
    \/ /\ StepOf(T, r) \in {"initial", "followup", "wake", "human", "completion"}
       /\ ~receipt.reconciled
       /\ receipt.turn = 0 \/ (m.hostRunning /\ m.turn # receipt.turn)

Success(T, r, receipt) ==
    LET step == StepOf(T, r)
        m == T.members[r.thread]
        phaseState == IF m.status = "paused" THEN "paused" ELSE "pending"
        C == WithState(T, r, IF step \in {"wake", "compact"} THEN "completed" ELSE "confirmed")
        S == CASE step = "compact" ->
                    IF receipt.reconciled /\ m.status = "uncertain" /\ m.wait.state = "registered"
                    THEN Put(C, r.thread, [C.members[r.thread] EXCEPT !.status = "waiting"]) ELSE C
               [] step = "create" -> NextPhase(AdmitChild(T, r.thread), r, "assignment_input", "pending")
               [] step = "assignment_input" -> NextPhase(T, r, "admit", phaseState)
               [] step = "admit" ->
                    NextPhase(Put(T, r.thread, [m EXCEPT !.audience = TRUE]), r, "initial",
                      IF T.effects[r.id].outcome = "interrupted" THEN "canceled" ELSE phaseState)
               [] step \in {"initial", "followup", "wake", "human", "completion"} ->
                    IF receipt.reconciled THEN C ELSE AcceptTurn(C, r, receipt.turn)
               [] OTHER -> C
    IN  IF step = "create" THEN S ELSE SettleRecovery(S, r.thread)

(* EffectAcknowledged.                                                     *)
Acknowledge(T, r, receipt) ==
    CASE ~Acknowledgeable(T, r, receipt) -> T
      [] OTHER -> IF receipt.error # "none" THEN Failure(T, r, receipt)
                  ELSE IF Conflicting(T, r, receipt) THEN T ELSE Success(T, r, receipt)

-----------------------------------------------------------------------------
(* HumanInput to a child reserves and claims in one publication; to the    *)
(* root it only supersedes waiting.                                        *)
HumanInput(T, t) ==
    LET m == T.members[t]
        N == IF Reserved(m) /\ m.status # "paused" THEN T ELSE Put(T, t, Reserve(m))
        S == Supersede(N, t)
        A == AddEffect(S, NewEffect("human", t, 0, 0, t, N.members[t].generation))
        C == Claim(A, EffectRef(A, Len(A.effects)))
    IN  CASE ~m.audience \/ Dispatched(m.wait) -> T
          [] OTHER -> IF t = Root THEN Supersede(T, t)
                      ELSE IF C.effects[Len(C.effects)].state = "dispatching" THEN C ELSE T

(* HumanInputCommitted: the host's history names the exact human input.    *)
HumanCommitted(T, r, turn) ==
    LET e == T.effects[r.id] IN
    IF /\ r.slot = "effect" /\ e.kind = "human" /\ e.state \in HostOwned
       /\ e.generation = T.members[r.thread].generation /\ e.turn \in {0, turn}
    THEN PutEffect(T, r.id, [e EXCEPT !.state = "confirmed", !.turn = turn])
    ELSE T

(* Wrong on purpose: what a wait has claimed is consumed as well.          *)
ConsumeClaimed(T, t, items) ==
    [T EXCEPT !.effects = [i \in Indices(T) |->
        IF i \in items THEN [T.effects[i] EXCEPT !.consumed = TRUE] ELSE T.effects[i]]]

(* InputConsumed: the running agent has read these notifications.          *)
Consume(T, t, items) ==
    LET m == T.members[t]
        read == {i \in items : T.effects[i].claimedBy = 0}
    IN  IF CompactionPending(m.wait) \/ ~m.audience THEN T
        ELSE [T EXCEPT !.effects = [i \in Indices(T) |->
                IF i \in read THEN [T.effects[i] EXCEPT !.consumed = TRUE] ELSE T.effects[i]]]
=============================================================================
