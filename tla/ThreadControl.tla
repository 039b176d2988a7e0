--------------------------- MODULE ThreadControl ---------------------------
(***************************************************************************)
(* One coordination tree at work: agents calling its tools, the human, the *)
(* drivers that claim and dispatch its intents, and the native host that   *)
(* runs turns and reports on them later and in order.                      *)
(***************************************************************************)
EXTENDS ControlIntents

CONSTANTS
    Spawned,     \* the threads already spawned when the run starts, in order
    Calls,       \* which calls agents, the human and the provider make
    WaitModes,   \* the wait_mode values agents use, of "any" and "all"
    Timers,      \* the timeouts of waits, of "none", "armed" and "due"
    Faults,      \* what may go wrong, of "refuse", "uncertain" and "pause"
    Outcomes,    \* how native turns end
    MaxTurns,    \* bound: native turns begun, per thread
    MaxRequests, \* bound: intents made, spawned threads included, but for results and completions
    MaxWaits     \* bound: waits registered, per thread

ASSUME Environment ==
    /\ Spawned \in Seq(Thread \ {Root})
    /\ \A i, j \in 1 .. Len(Spawned) : Spawned[i] = Spawned[j] => i = j
    /\ \A i \in 1 .. Len(Spawned) :
          Parent[Spawned[i]] \in {Root} \cup {Spawned[j] : j \in 1 .. i - 1}
    /\ Calls \subseteq {"spawn", "message", "followup", "interrupt", "wait", "compact",
                        "human", "stop", "provider", "consume", "unarmed"}
    /\ WaitModes \subseteq {"any", "all"} /\ Timers \subseteq {"none", "armed", "due"}
    /\ Faults \subseteq {"refuse", "uncertain", "pause"}
    /\ Outcomes \subseteq Outcome \cup {"recoverable", "checkpoint"}
    /\ MaxTurns \in [Thread -> Nat] /\ MaxWaits \in [Thread -> Nat] /\ MaxRequests \in Nat

VARIABLES
    tree,     \* the published tree
    host,     \* the native thread of each member, and what the driver has read of it
    requests, \* native requests of dispatched intents, from claim to acknowledgement
    handed    \* history: each step of an intent the host has taken, and its turn
vars == <<tree, host, requests, handed>>

MemberOf(t) == tree.members[t]

(* begun: the last native turn; live: it still runs; reduced: how many of  *)
(* the thread's notifications (turn 1 started, turn 1 completed, turn 2    *)
(* started, ...) its serial observation worker has reduced; asked: the     *)
(* human's input to the root is on its way to the host.                    *)
Native == [begun : Nat, live : BOOLEAN, reduced : Nat, asked : BOOLEAN]
Emitted(h)   == 2 * h.begun - (IF h.live THEN 1 ELSE 0)
NextTurn(h)  == (h.reduced + 2) \div 2
Begin(h)     == [h EXCEPT !.begun = @ + 1, !.live = TRUE]

(* The root executes its first turn and has already spawned the threads of *)
(* Spawned, each executing its initial assignment in its own first turn.   *)
Working1(m) == [m EXCEPT !.status = "working", !.generation = 1, !.turn = 1,
                         !.hostRunning = TRUE, !.audience = TRUE]
SpawnedRef(i) == [slot |-> "effect", thread |-> Spawned[i], id |-> i]
Started0 == {Root} \cup {Spawned[i] : i \in 1 .. Len(Spawned)}
Handed0 == {[ref |-> SpawnedRef(i), step |-> step, turn |-> IF step = "initial" THEN 1 ELSE 0] :
              i \in 1 .. Len(Spawned), step \in Phase \ {"none"}}

Init ==
    /\ tree = [members |-> [t \in Thread |-> IF t \in Started0 THEN Working1(Absent) ELSE Absent],
               effects |-> [i \in 1 .. Len(Spawned) |->
                 [NewEffect("create", Parent[Spawned[i]], 1, 1, Spawned[i], 1)
                    EXCEPT !.phase = "initial", !.state = "confirmed"]]]
    /\ host = [t \in Thread |-> [begun |-> IF t \in Started0 THEN 1 ELSE 0, live |-> t \in Started0,
                                 reduced |-> IF t \in Started0 THEN 1 ELSE 0, asked |-> FALSE]]
    /\ requests = {}
    /\ handed = Handed0

Publish(T) == tree' = T /\ T # tree
Apply(T)   == Publish(T) /\ UNCHANGED <<host, requests, handed>>
MayRequest ==
    Cardinality({i \in Indices(tree) : tree.effects[i].kind \notin {"final", "completion"}})
        < MaxRequests

-----------------------------------------------------------------------------
(* The native host.                                                        *)

(* The root's own host work: the human's accepted input begins a turn or   *)
(* steers the running one.                                                 *)
HumanTurn ==
    /\ host[Root].asked
    /\ host[Root].live \/ host[Root].begun < MaxTurns[Root]
    /\ host' = [host EXCEPT ![Root] =
                  [(IF @.live THEN @ ELSE Begin(@)) EXCEPT !.asked = FALSE]]
    /\ UNCHANGED <<tree, requests, handed>>

HostTurnEnds(t) ==
    /\ host[t].live
    /\ host' = [host EXCEPT ![t].live = FALSE]
    /\ UNCHANGED <<tree, requests, handed>>

(* An inference request of the running turn authenticates it.              *)
RequestStarted(t) ==
    /\ host[t].live
    /\ Apply(Started(tree, t, host[t].begun))

(* The observation worker reduces the next notification of its thread.     *)
ReduceStarted(t) ==
    /\ host[t].reduced < Emitted(host[t]) /\ host[t].reduced % 2 = 0
    /\ tree' = Started(tree, t, NextTurn(host[t]))
    /\ host' = [host EXCEPT ![t].reduced = @ + 1]
    /\ UNCHANGED <<requests, handed>>

HostCompleted(t, outcome) ==
    /\ host[t].reduced < Emitted(host[t]) /\ host[t].reduced % 2 = 1
    /\ tree' = IF outcome = "checkpoint" THEN Checkpoint(tree, t, NextTurn(host[t]))
               ELSE Terminal(tree, t, NextTurn(host[t]), outcome)
    /\ host' = [host EXCEPT ![t].reduced = @ + 1]
    /\ UNCHANGED <<requests, handed>>

(* What a dispatched intent does at the host.  Input that runs work starts *)
(* a turn or steers the live one; a steer or an interrupt names its turn   *)
(* and is rejected once that turn has ended.                               *)
Runs(r) == \/ StepOf(tree, r) \in {"initial", "followup", "wake", "completion"}
           \/ StepOf(tree, r) = "human" /\ tree.effects[r.id].turn = 0
Aimed(r) == StepOf(tree, r) \in {"human", "interrupt"} /\ ~Runs(r)
Misses(r) == Aimed(r) /\ ~(host[r.thread].live /\ host[r.thread].begun = tree.effects[r.id].turn)
Begins(r) == Runs(r) /\ ~host[r.thread].live
HostAfter(r) == IF Begins(r) THEN [host EXCEPT ![r.thread] = Begin(@)] ELSE host

Sent(r) == [ref |-> r, turn |-> 0, answer |-> "sent"]
Replace(q, turn, answer) == (requests \ {q}) \cup {[ref |-> q.ref, turn |-> turn, answer |-> answer]}
Handed(r, T) == {h \in handed : h.ref = r /\ h.step = StepOf(T, r)}
TurnOf(r) == IF Runs(r) \/ Aimed(r) THEN HostAfter(r)[r.thread].begun ELSE 0

(* The host takes the request; the answer may still be lost on the way.    *)
HostTakes(q) ==
    LET r == q.ref IN
    /\ q.answer = "sent" /\ ~Misses(r)
    /\ Begins(r) => host[r.thread].begun < MaxTurns[r.thread]
    /\ host' = HostAfter(r)
    /\ handed' = handed \cup {[ref |-> r, step |-> StepOf(tree, r), turn |-> TurnOf(r)]}
    /\ \E answer \in {"none"} \cup (Faults \cap {"uncertain"}) :
         requests' = Replace(q, TurnOf(r), answer)
    /\ UNCHANGED tree

(* It rejects the request, or the request is lost, surely or perhaps.      *)
HostRefuses(q) ==
    /\ q.answer = "sent"
    /\ \E answer \in (IF Misses(q.ref) \/ "refuse" \in Faults THEN {"refused"} ELSE {})
                     \cup (Faults \cap {"uncertain"}) :
         requests' = Replace(q, 0, answer)
    /\ UNCHANGED <<tree, host, handed>>

-----------------------------------------------------------------------------
(* The drivers.                                                            *)

(* A claim is a dispatch: its native request is sent by the same call.     *)
Dispatching(T) == {r \in Refs(T) : Known(T, r) /\ StateOf(T, r) = "dispatching"}
SendClaimed(T) == requests' = requests \cup
                    {Sent(r) : r \in Dispatching(T) \ Dispatching(tree)}

ClaimEffect(r) ==
    /\ Known(tree, r)
    /\ Publish(Claim(tree, r)) /\ SendClaimed(Claim(tree, r))
    /\ UNCHANGED <<host, handed>>

EffectAcknowledged(q) ==
    /\ q.answer # "sent"
    /\ tree' = Acknowledge(tree, q.ref,
                 [turn |-> q.turn, error |-> q.answer, reconciled |-> FALSE])
    /\ requests' = requests \ {q}
    /\ UNCHANGED <<host, handed>>

(* Reconcile confirms an uncertain intent the host's history contains.  A   *)
(* compaction is confirmed by one of the two hosts only (Claude).          *)
Reconcile(r) ==
    /\ Known(tree, r) /\ StateOf(tree, r) = "uncertain" /\ Handed(r, tree) # {}
    /\ Apply(Acknowledge(tree, r, [turn |-> 0, error |-> "none", reconciled |-> TRUE]))

Wake(t) == Apply(PrepareWake(tree, t))

(* A runtime stops; the root's stop, or a restart from the checkpoint,     *)
(* stops the tree.  Its host turns end unreported and late answers name    *)
(* intents that are no longer dispatching.                                 *)
Pause(t) ==
    LET S == IF t = Root THEN Thread ELSE {t} IN
    /\ "pause" \in Faults
    /\ Publish(PauseAll(tree, S))
    /\ host' = [u \in Thread |-> IF u \in S
                  THEN [host[u] EXCEPT !.live = FALSE, !.reduced = 2 * host[u].begun, !.asked = FALSE]
                  ELSE host[u]]
    /\ requests' = {q \in requests : q.ref \in Dispatching(PauseAll(tree, S))}
    /\ UNCHANGED handed

-----------------------------------------------------------------------------
(* Agents.  A call is admitted while its turn is the one executing.        *)

ReserveSpawn(t, child) ==
    /\ "spawn" \in Calls /\ MayRequest /\ MemberOf(t).hostRunning /\ Parent[child] = t
    /\ child # Root /\ MaySpawn(tree, child)
    /\ Apply(Spawn(tree, t, child))

PrepareAction(t, target, kind) ==
    /\ kind \in Calls /\ MayRequest /\ MemberOf(t).hostRunning /\ target # t
    /\ MayPrepare(tree, target, kind)
    /\ Apply(Prepare(tree, t, target, kind))

MayRegister(t) ==
    /\ MemberOf(t).hostRunning /\ MayWait(MemberOf(t)) /\ MemberOf(t).calls < MaxWaits[t]
Selectable(t) == {S \in SUBSET Below[t] : S # {} /\ \A c \in S : MemberOf(c).status # "absent"}

WaitAgent(t, targets, mode, timer) ==
    /\ "wait" \in Calls /\ MayRegister(t)
    /\ Apply(RegisterWait(tree, t, targets, mode = "all", timer, FALSE, FALSE))

(* A checkpoint before a wait, or one alone, which has no deadline.        *)
CompactAgent(t, targets, mode, timer) ==
    /\ "compact" \in Calls /\ MayRegister(t)
    /\ Apply(RegisterWait(tree, t, targets, mode = "all", timer, TRUE, targets = {}))

(* The evidence about a wait's enclosing execution arrives with a later    *)
(* request of the same turn; that request then claims the local stop.      *)
ExecutionEnds(t, succeeded) ==
    /\ host[t].live /\ (succeeded \/ "unarmed" \in Calls)
    /\ Apply(Execution(tree, t, host[t].begun, succeeded))
ClaimLocalStop(t) == host[t].live /\ Apply(ClaimStop(tree, t, host[t].begun))
SkipCompaction(t) == host[t].live /\ "compact" \in Calls
                     /\ Apply(RejectCompaction(tree, t, host[t].begun))

WaitForUsageLimit(t, timer) ==
    /\ "provider" \in Calls /\ host[t].live /\ MemberOf(t).calls < MaxWaits[t]
    /\ Apply(WaitForProvider(tree, t, host[t].begun, timer))

Deadline(t) ==
    /\ MemberOf(t).wait.timer = "armed"
    /\ Apply(Put(tree, t, [MemberOf(t) EXCEPT !.wait.timer = "due"]))

(* A request's input holds notifications the host has injected.            *)
InputConsumed(t) ==
    /\ "consume" \in Calls /\ host[t].live
    /\ LET injected == {i \in Indices(tree) :
             /\ tree.effects[i].target = t /\ tree.effects[i].kind \in {"message", "final"}
             /\ \E h \in handed : h.ref = EffectRef(tree, i)}
       IN  \E items \in SUBSET injected : Apply(Consume(tree, t, items))

-----------------------------------------------------------------------------
(* The human.                                                              *)

(* The driver has reconciled what it read as uncertain, once, and before   *)
(* this step: what has become uncertain since holds no input back.         *)
InputFromHuman(t) ==
    /\ "human" \in Calls /\ MayRequest
    /\ IF t = Root
       THEN /\ ~Dispatched(MemberOf(t).wait) /\ MemberOf(t).audience /\ ~host[t].asked
            /\ tree' = HumanInput(tree, t)
            /\ host' = [host EXCEPT ![t].asked = TRUE]
            /\ UNCHANGED requests
       ELSE /\ Publish(HumanInput(tree, t)) /\ SendClaimed(HumanInput(tree, t))
            /\ UNCHANGED host
    /\ UNCHANGED handed

HumanInputCommitted(r) ==
    /\ "human" \in Calls /\ r.slot = "effect"
    /\ \E h \in Handed(r, tree) : Apply(HumanCommitted(tree, r, h.turn))

HumanInterrupt(t) == "stop" \in Calls /\ Apply(InterruptWait(tree, t))

-----------------------------------------------------------------------------
AgentStep(t) ==
    \/ \E child \in Thread : ReserveSpawn(t, child)
    \/ \E target \in Thread, kind \in {"message", "followup", "interrupt"} :
         PrepareAction(t, target, kind)
    \/ \E targets \in Selectable(t), mode \in WaitModes, timer \in Timers :
         WaitAgent(t, targets, mode, timer)
    \/ \E targets \in Selectable(t), mode \in WaitModes, timer \in Timers :
         CompactAgent(t, targets, mode, timer)
    \/ \E mode \in WaitModes : CompactAgent(t, {}, mode, "none")
    \/ \E succeeded \in BOOLEAN : ExecutionEnds(t, succeeded)
    \/ ClaimLocalStop(t) \/ SkipCompaction(t) \/ InputConsumed(t)
    \/ \E timer \in Timers \ {"due"} : WaitForUsageLimit(t, timer)
HumanStep(t) ==
    \/ InputFromHuman(t) \/ HumanInterrupt(t)
    \/ \E r \in Refs(tree) : HumanInputCommitted(r)
HostStep(t) ==
    \/ HostTurnEnds(t) \/ RequestStarted(t) \/ ReduceStarted(t) \/ Deadline(t)
    \/ \E outcome \in Outcomes : HostCompleted(t, outcome)
DriverStep ==
    \/ \E r \in Refs(tree) : ClaimEffect(r) \/ Reconcile(r)
    \/ \E q \in requests : HostTakes(q) \/ HostRefuses(q) \/ EffectAcknowledged(q)

Next ==
    \/ HumanTurn \/ DriverStep
    \/ \E t \in Thread : AgentStep(t) \/ HumanStep(t) \/ HostStep(t) \/ Wake(t) \/ Pause(t)
Spec == Init /\ [][Next]_vars

(* Drivers re-read the tree after every publication and on a timer, turns  *)
(* end, and notifications and answers arrive; agents and the human need do *)
(* nothing.                                                                *)
Fairness == \A t \in Thread :
    /\ WF_vars(HostTurnEnds(t)) /\ WF_vars(ReduceStarted(t)) /\ WF_vars(Wake(t))
    /\ WF_vars(\E outcome \in Outcomes : HostCompleted(t, outcome))
    /\ WF_vars(\E r \in Refs(tree) : r.thread = t /\ ClaimEffect(r))
    /\ WF_vars(\E q \in requests : q.ref.thread = t /\ HostTakes(q))
    /\ WF_vars(\E q \in requests : q.ref.thread = t /\ HostRefuses(q))
    /\ WF_vars(\E q \in requests : q.ref.thread = t /\ EffectAcknowledged(q))
FairSpec == Spec /\ Fairness
-----------------------------------------------------------------------------
(* Properties.                                                             *)

(* Every field holds a value the code can store in it.                     *)
TypeOK ==
    /\ tree \in Tree
    /\ host \in [Thread -> Native]
    /\ \A t \in Thread : host[t].reduced <= Emitted(host[t])
    /\ requests \subseteq [ref : Ref, turn : Nat, answer : {"sent", "none", "refused", "uncertain"}]
    /\ \A h \in handed : h.ref \in Ref /\ h.turn \in Nat

(* A child owes its parent one final result per generation of work, however *)
(* its turn, interrupts, deferred completions, refused inputs and restarts *)
(* interleave (finish, and every handler that reaches it).                 *)
OneFinalPerGeneration ==
    \A i, j \in Indices(tree) : SameReport(tree.effects[i], tree.effects[j]) => i = j

(* Whatever fails, is paused or is answered late, no step of an intent is  *)
(* given to the host a second time once the host has taken it (claimEffect, *)
(* EffectAcknowledged, pause): uncertain dispatch is never repeated.       *)
HandedOnce ==
    [][\A q \in requests' \ requests :
         q.answer = "sent" => Handed(q.ref, tree') = {}]_vars

(* Input for one target reaches the host in the order it was prepared:     *)
(* nothing is dispatched while an earlier intent is unsent or unresolved   *)
(* (claimEffect's serialization).  Interrupts may overtake.                *)
ArrivalOrder ==
    \A i, j \in Indices(tree) :
        LET e == tree.effects[i]
            f == tree.effects[j]
            ordered == {"message", "final", "followup", "human", "completion"}
        IN  (i < j /\ e.target = f.target /\ {e.kind, f.kind} \subseteq ordered
               /\ f.state = "dispatching") => e.state \notin {"pending"} \cup HostOwned

(* One notification is used once: a wait that claimed it keeps it from the *)
(* input record and from every other wait, and input that consumed it      *)
(* keeps it from every wait (InputConsumed against selectWaitOutcome).     *)
NotificationOnce ==
    [][\A i \in Indices(tree) :
         LET e == tree.effects[i]
             f == tree'.effects[i]
             w == MemberOf(e.target).wait
         IN  /\ e.consumed => f.claimedBy = e.claimedBy
             /\ e.claimedBy # 0 => f.consumed = e.consumed
             /\ e.claimedBy # 0 /\ f.claimedBy # e.claimedBy =>
                  f.claimedBy = 0 /\ w.id = e.claimedBy /\ w.state = "queued"]_vars

(* Work completes only once nothing below it is active, also when its      *)
(* deferred completion is released later (completionStop, claimEffect).    *)
CompletionGuard ==
    [][\A t \in Thread :
         tree'.members[t].status = "completed" /\ MemberOf(t).status # "completed"
           => ActiveBelow(tree', t) = {}]_vars

(* A recovery or provider wait queues only behind a wake the host may own, *)
(* so settling that wake always installs it (settleRecovery).              *)
RecoveryQueued ==
    \A t \in Thread : MemberOf(t).recoveryWait.state # "none" => Dispatched(MemberOf(t).wait)

(* ClaimLocalStop dereferences the member's stop when the executing turn's *)
(* own wait is already committed, so every handler that clears the stop    *)
(* has retired that wait.                                                  *)
StopRetained ==
    \A t \in Thread :
        LET m == MemberOf(t) IN
        (m.hostRunning /\ m.wait.state = "registered" /\ m.wait.stop = "committed"
           /\ m.wait.turn = m.turn /\ m.wait.generation = m.generation) => m.stop.kind # "none"

(* A wait_all that returns without a message or its deadline returns with  *)
(* every result its targets owe its thread: none is still on its way, and  *)
(* each is claimed, was used before, or is held with its thread's paused   *)
(* runtime (Settled against the delivery of finals, which arrive after the *)
(* status they report).                                                    *)
Decided(t) == LET w == tree'.members[t].wait IN
    /\ w.all /\ w.timer # "due"
    /\ \/ w.state = "queued" /\ MemberOf(t).wait.state = "registered"
       \/ w.state = "completed" /\ MemberOf(t).wait.id # w.id
WaitAllComplete ==
    [][\A t \in Thread : Decided(t) =>
         LET w == tree'.members[t].wait
             Owed(e) == /\ e.kind = "final" /\ e.target = t /\ e.caller \in w.targets
                        /\ e.callerGeneration = tree'.members[e.caller].generation
         IN  \/ \E i \in Indices(tree') : tree'.effects[i].kind = "message"
                                          /\ tree'.effects[i].claimedBy = w.id
             \/ \A i \in Indices(tree') : LET e == tree'.effects[i] IN
                  Owed(e) => \/ e.state = "paused"
                             \/ Delivered(e) /\ (e.consumed \/ e.claimedBy # 0)]_vars

(* The host compacts a thread while nothing but an interrupt is on its way *)
(* to it: input dispatched before the stop holds the checkpoint back, and  *)
(* the checkpoint holds later input back (claimEffect, CompactionPending). *)
CheckpointAlone ==
    \A t \in Thread : MemberOf(t).wait.compact \in HostOwned =>
        \A i \in Indices(tree) :
            Addressed(tree.effects[i], t) /\ tree.effects[i].state = "dispatching"
              => tree.effects[i].kind = "interrupt"

(* Waiting work that executes nothing still has something that will resume *)
(* or settle it: its wait, the recovery behind it, or an unsettled intent. *)
WaitingHasWake ==
    \A t \in Thread :
        LET m == MemberOf(t) IN
        (m.status = "waiting" /\ ~m.hostRunning) =>
            \/ m.wait.state \in HostOwned \cup {"registered", "queued"}
            \/ m.wait.compact \in HostOwned
            \/ \E i \in Indices(tree) :
                  /\ Addressed(tree.effects[i], t)
                  /\ tree.effects[i].kind \in {"followup", "interrupt", "human"}
                  /\ tree.effects[i].state \in HostOwned \cup {"pending"}

(* A stopped thread whose awaited work comes to rest is woken: its wait    *)
(* does not stay registered, queued or dispatching (Due, PrepareWake,      *)
(* claimEffect and the driver's pump), unless the run is out of turns.     *)
OutOfTurns(t) == host[t].begun = MaxTurns[t]
Resting(t) == LET w == MemberOf(t).wait IN
    w.stop = "committed" /\ w.state \in {"registered", "queued", "dispatching"}
WaitEnds == \A t \in {u \in Thread : Below[u] # {}} :
    Resting(t) ~> (~Resting(t) \/ OutOfTurns(t))

(* Every final result a child owes reaches its parent, with the same       *)
(* exception: it is neither overtaken for ever nor lost behind the parent's *)
(* deferred completions and wakes.                                         *)
Owing(c) == \E i \in Indices(tree) :
    /\ tree.effects[i].kind = "final" /\ tree.effects[i].caller = c
    /\ tree.effects[i].state \in {"pending", "dispatching"}
FinalArrives == \A c \in Thread \ {Root} :
    Owing(c) ~> (~Owing(c) \/ OutOfTurns(Parent[c]))

-----------------------------------------------------------------------------
(* What SPEC.md says of these hazards and the code does not keep.          *)

(* followup_task "start[s] when idle, steer[s] its actual running turn":   *)
(* a prepared follow-up belongs to work that can still take it.            *)
FollowupDeliverable ==
    \A i \in Indices(tree) :
        LET e == tree.effects[i] IN
        (e.kind = "followup" /\ e.state = "pending") =>
            Reserved(MemberOf(e.target)) /\ MemberOf(e.target).generation = e.generation

(* A superseded undispatched wake releases its claims.                     *)
ClaimsReleased ==
    \A i \in Indices(tree) :
        LET e == tree.effects[i]
            w == MemberOf(e.target).wait
        IN  ~(e.claimedBy # 0 /\ e.claimedBy = w.id /\ w.state = "canceled")

(* A compaction whose outcome is unknown is not replaced: its wait stays   *)
(* on record, for reconciliation and to hold back later checkpoints.       *)
UncertainCompactionKept ==
    [][\A t \in Thread : MemberOf(t).wait.compact = "uncertain" =>
         tree'.members[t].wait.id = MemberOf(t).wait.id]_vars

(* What was dispatched stays dispatching only until its answer arrives.    *)
DispatchSettles == \A r \in Dispatching(tree) : \E q \in requests : q.ref = r
=============================================================================
