-------------------------- MODULE ControlHandlers --------------------------
(***************************************************************************)
(* What each entry point of modules/threadcontrol/control does to a tree.  *)
(* transitionHost's cases are the first group, waits the second, intents   *)
(* and their dispatch the third.  Every operator is total: it returns the  *)
(* tree unchanged where the code returns an error or "unchanged".          *)
(***************************************************************************)
EXTENDS ControlTree

(* start: the host's turn becomes the thread's executing turn.             *)
Start(m, turn) == [m EXCEPT !.turn = turn, !.status = "working", !.hostRunning = TRUE]

(* RequestStarted: a root turn supersedes a waiting root; a child turn     *)
(* only executes work that was reserved for it.                            *)
Started(T, t, turn) ==
    LET m == T.members[t]
        C == IF t = Root /\ m.wait.state \in {"registered", "queued"}
             THEN CancelSubscription(T, t) ELSE T
        generation == IF Reserved(m) THEN m.generation ELSE m.generation + 1
        admitted == m.audience /\ ~m.hostRunning /\
                    (t = Root \/ (Reserved(m) /\ m.status # "paused"))
    IN  IF ~admitted THEN T
        ELSE Put(C, t, Start([C.members[t] EXCEPT !.generation = generation,
                                                  !.stop = NoStop], turn))

(* A completed turn that ended at its own committed stop: the work goes on. *)
CheckpointTurn(T, t) ==
    LET m == T.members[t]
        waits == m.wait.state = "registered"
    IN  Put(T, t, [m EXCEPT
          !.status = IF waits \/ m.recoveryWait.state = "registered"
                     THEN "waiting" ELSE "working",
          !.wait.compact = IF waits /\ @ = "registered" THEN "pending" ELSE @])

(* An ordinary completion while descendants are active is deferred to one  *)
(* more turn that asks the agent to wait for them.                         *)
DeferCompletion(T, t, turn) ==
    LET m == T.members[t]
        guard == NewEffect("completion", t, turn, 0, t, m.generation)
        stop == [kind |-> "completion", generation |-> m.generation, turn |-> turn, wait |-> 0]
    IN  AddEffect(Put(T, t, [m EXCEPT !.stop = stop, !.status = "working"]), guard)

(* A recoverable failure while descendants are active waits for their work. *)
HoldForRecovery(T, t, turn) ==
    LET m == T.members[t]
        captured == [c \in Thread |-> IF c \in ActiveBelow(T, t)
                                      THEN T.members[c].generation ELSE 0]
        w == [NoWait EXCEPT !.id = m.calls + 1, !.state = "registered", !.stop = "committed",
                !.generation = m.generation, !.turn = turn, !.recovery = captured,
                !.targets = {c \in Below[t] : T.members[c].status # "absent"}]
    IN  Hold(CancelCompletion(T, t), t, w, "recovery", turn)

StoppedAt(m, turn) ==
    m.stop.kind # "none" /\ m.stop.turn = turn /\ m.stop.generation = m.generation

(* A failure that nothing waits on is a plain failure of the work.         *)
HostOutcome(outcome) == outcome  \* wrong on purpose: reported as it came
WorkOutcome(outcome) == IF outcome = "recoverable" THEN "failed" ELSE outcome

(* HostCompleted: the native turn reached `outcome`.                       *)
Terminal(T, t, turn, outcome) ==
    LET m == T.members[t]
        Observed(e) == IF /\ e.kind = "interrupt" /\ Addressed(e, t)
                          /\ e.turn = turn /\ e.state \in HostOwned
                       THEN SetState(e, "confirmed") ELSE e
        S == EachEffect(Put(T, t, [m EXCEPT !.hostRunning = FALSE]), Observed)
        active == ActiveBelow(T, t) # {}
    IN  CASE m.turn # turn \/ ~m.hostRunning -> T
          [] m.turn = turn /\ m.hostRunning /\ outcome = "recoverable" /\ active ->
               HoldForRecovery(S, t, turn)
          [] m.turn = turn /\ m.hostRunning /\ outcome = "completed" /\ StoppedAt(m, turn) ->
               CheckpointTurn(S, t)
          [] m.turn = turn /\ m.hostRunning /\ outcome = "completed"
               /\ ~StoppedAt(m, turn) /\ active ->
               DeferCompletion(S, t, turn)
          [] OTHER ->
               Finish(S, t, WorkOutcome(outcome))

(* CheckpointWait: manual compaction ended a turn at its committed stop.   *)
Checkpoint(T, t, turn) ==
    LET m == T.members[t] IN
    IF m.hostRunning /\ m.turn = turn /\ StoppedAt(m, turn)
    THEN Put(T, t, [m EXCEPT !.hostRunning = FALSE]) ELSE T

(* Execution: the wait's enclosing execution succeeded, which arms its     *)
(* local stop, or failed, which retires the wait.                          *)
Execution(T, t, turn, succeeded) ==
    LET m == T.members[t]
        C == CancelSubscription(T, t)
    IN  CASE m.wait.state # "registered" \/ m.wait.turn # turn
               \/ m.wait.generation # m.generation -> T
          [] OTHER -> IF succeeded THEN Put(T, t, [m EXCEPT !.wait.stop = "eligible"])
                      ELSE Put(C, t, [C.members[t] EXCEPT !.stop = NoStop,
                             !.status = IF @ = "waiting" THEN "working" ELSE @])

(* ClaimLocalStop, for a stop no request has claimed yet.                  *)
ClaimStop(T, t, turn) ==
    LET m == T.members[t] IN
    IF /\ m.wait.stop = "eligible" /\ m.wait.state = "registered" /\ m.wait.turn = turn
       /\ m.wait.generation = m.generation /\ m.hostRunning
    THEN Put(T, t, [m EXCEPT !.wait.stop = "committed", !.status = "waiting",
                 !.stop = [kind |-> "wait", generation |-> m.generation,
                           turn |-> turn, wait |-> m.wait.id]])
    ELSE T

(* The human's input supersedes waiting, unless the host owns the wake.    *)
Supersede(T, t) ==
    LET C == CancelCompletion(T, t)
        D == IF C.members[t].wait.state \in {"canceled", "completed"}
             THEN C ELSE CancelSubscription(C, t)
    IN  IF Dispatched(T.members[t].wait) THEN T
        ELSE Put(D, t, [D.members[t] EXCEPT !.stop = NoStop,
                          !.status = IF @ = "waiting" THEN "working" ELSE @])

(* Wrong on purpose: the subscription survives the stop it was cut at.     *)
InterruptStop(T, t) ==
    LET m == T.members[t]
        S == Put(T, t, [m EXCEPT !.stop = NoStop])
    IN  IF Dispatched(m.wait) \/ (~Reserved(m) /\ ~m.hostRunning) THEN T
        ELSE IF ~m.hostRunning /\ Reserved(m) THEN Finish(S, t, "interrupted") ELSE S

(* HumanInterrupt of the wait or stop the human is looking at.             *)
InterruptWait(T, t) ==
    LET m == T.members[t]
        C == CancelCompletion(CancelSubscription(T, t), t)
        S == Put(C, t, [C.members[t] EXCEPT !.stop = NoStop])
    IN  CASE \/ m.wait.state = "none" /\ m.stop.kind = "none"
             \/ ~Reserved(m) /\ ~m.hostRunning
             \/ Dispatched(m.wait) -> T
          [] OTHER -> IF ~m.hostRunning /\ Reserved(m) THEN Finish(S, t, "interrupted") ELSE S

-----------------------------------------------------------------------------
(* Waits: selecting an outcome, registering, waking.                       *)

Delivered(e) == \/ e.kind \in {"message", "final"} /\ e.state = "confirmed"
                \/ e.kind = "final" /\ e.state = "failed"
Eligible(e, t, w) ==
    /\ Delivered(e) /\ Addressed(e, t) /\ e.caller \in w.targets
    /\ ~e.consumed /\ e.claimedBy = 0

Stopped(m) == ~m.hostRunning /\ m.status \in Outcome \cup {"paused"}

(* The final result of c's current work is still on its way to t.          *)
ResultPending(T, c, t) ==
    \E i \in Indices(T) :
        LET e == T.effects[i] IN
        /\ e.kind = "final" /\ e.caller = c /\ e.target = t
        /\ e.callerGeneration = T.members[c].generation
        /\ e.state \in HostOwned \cup {"pending"}

(* Wrong on purpose: a settled status is taken for a delivered result.     *)
SettledStatus(T, c, t) == Stopped(T.members[c])
Settled(T, c, t) == Stopped(T.members[c]) /\ ~ResultPending(T, c, t)

(* Recovery observes the captured work's own result, whoever receives it.  *)
CapturedOutcome(T, w) ==
    \E i \in Indices(T) :
        LET e == T.effects[i] IN
        /\ e.kind = "final" /\ Delivered(e) /\ w.recovery[e.caller] # 0
        /\ e.callerGeneration = w.recovery[e.caller]

EligibleIn(T, t, w) == {i \in Indices(T) : Eligible(T.effects[i], t, w)}
First(S) == {i \in S : \A j \in S : i <= j}

(* selectWaitOutcome: whether the wait has an outcome, and the             *)
(* notifications it claims for it.                                         *)
Selected(T, t, w) ==
    LET eligible == EligibleIn(T, t, w)
        messages == {i \in eligible : T.effects[i].kind = "message"}
        current == {i \in eligible \ messages :
                      T.effects[i].callerGeneration = T.members[T.effects[i].caller].generation}
        settled == \A c \in w.targets : Settled(T, c, t)
    IN  CASE w.all /\ messages # {}   -> [found |-> TRUE, claims |-> First(messages)]
          [] w.all /\ messages = {}   -> [found |-> settled,
                                          claims |-> IF settled THEN current ELSE {}]
          [] ~w.all /\ eligible # {}  -> [found |-> TRUE, claims |-> First(eligible)]
          [] OTHER -> [found |-> IF w.recovery # NoRecovery THEN CapturedOutcome(T, w)
                                 ELSE \E c \in w.targets : Settled(T, c, t),
                       claims |-> {}]

Claimed(T, claims, id) ==
    [T EXCEPT !.effects = [i \in Indices(T) |->
        IF i \in claims THEN [T.effects[i] EXCEPT !.claimedBy = id] ELSE T.effects[i]]]

(* Whether hostEventWaitRegistration lets a call replace the retained wait. *)
MayWait(m) ==
    /\ m.wait.compact \notin HostOwned
    /\ m.wait.state \in {"none", "canceled", "completed", "paused", "timeout"}

(* registerWait, for a caller that passed `admitted` and MayWait.          *)
RegisterWait(T, t, targets, all, timer, compact, standalone) ==
    LET m == T.members[t]
        w == [NoWait EXCEPT !.id = m.calls + 1, !.generation = m.generation, !.turn = m.turn,
                !.targets = targets, !.all = all, !.standalone = standalone, !.timer = timer,
                !.compact = IF compact THEN "registered" ELSE "none"]
        chosen == Selected(T, t, w)
        now == ~compact /\ chosen.found
        state == IF now THEN "completed"
                 ELSE IF ~compact /\ timer = "due" THEN "timeout" ELSE "registered"
    IN  Put(Claimed(T, IF now THEN chosen.claims ELSE {}, w.id), t,
            [m EXCEPT !.wait = [w EXCEPT !.state = state], !.calls = w.id])

(* PrepareWake: the stopped thread's wait has its outcome or deadline.     *)
PrepareWake(T, t) ==
    LET m == T.members[t]
        w == m.wait
        chosen == Selected(T, t, w)
        ready == /\ w.state = "registered" /\ w.stop = "committed" /\ ~m.hostRunning
                 /\ m.status = "waiting" /\ w.generation = m.generation
                 /\ ~CompactionPending(w)
                 /\ w.provider => w.timer = "due"
                 /\ w.standalone \/ chosen.found \/ w.timer = "due"
        claims == IF w.standalone THEN {} ELSE chosen.claims
    IN  IF ready THEN Put(Claimed(T, claims, w.id), t, [m EXCEPT !.wait.state = "queued"])
        ELSE T

(* WaitForUsageLimit: rejected inference waits for the provider.           *)
WaitForProvider(T, t, turn, timer) ==
    LET m == T.members[t]
        w == [NoWait EXCEPT !.id = m.calls + 1, !.state = "registered", !.stop = "committed",
                !.generation = m.generation, !.turn = turn, !.provider = TRUE, !.timer = timer]
    IN  IF ~m.hostRunning \/ m.turn # turn
             \/ (m.stop.kind = "provider" /\ StoppedAt(m, turn)) THEN T
        ELSE Hold(T, t, w, "provider", turn)

RejectCompaction(T, t, turn) ==
    LET m == T.members[t] IN
    IF /\ m.wait.state = "registered" /\ m.wait.turn = turn
       /\ m.wait.generation = m.generation
       /\ m.wait.compact = "registered" /\ m.wait.stop = "eligible"
    THEN Put(T, t, [m EXCEPT !.wait.compact = "failed"]) ELSE T
=============================================================================
