---------------------------- MODULE ControlTree ----------------------------
(***************************************************************************)
(* The coordination tree of modules/threadcontrol/control: one durable     *)
(* value per root, holding every admitted agent thread (a member) and      *)
(* every retained control intent (an effect).  Service.update runs one     *)
(* handler on a private copy of the tree and publishes the copy whole, or  *)
(* publishes nothing when the handler fails or reports "unchanged".  A     *)
(* handler is therefore an operator from tree to tree here; an operator    *)
(* that returns its argument is a handler that published nothing.          *)
(*                                                                         *)
(* Message texts, settings, answers, paths, metrics and feature counters   *)
(* are data that no guard of these handlers reads, and are left out.  An   *)
(* effect is identified by its place in `effects` (arrival order) instead  *)
(* of its <caller, call> strings, a native turn by its ordinal on its      *)
(* thread, with 0 for the empty turn, and a wait by its ordinal on its     *)
(* thread, with 0 for "unclaimed".                                         *)
(***************************************************************************)
EXTENDS Integers, Sequences, FiniteSets

CONSTANTS
    Thread,  \* every thread that is, or may be spawned as, a member
    Root,    \* the selected root, whose work belongs to the human
    Parent,  \* the thread that spawns a thread (the root is its own)
    Below    \* the threads whose task path extends a thread's task path

(* A task path is its parent's path and one more segment, so the tasks     *)
(* below a thread are its children and the tasks below them.               *)
ASSUME TaskTree ==
    /\ Root \in Thread
    /\ Parent \in [Thread -> Thread]
    /\ Parent[Root] = Root
    /\ Below \in [Thread -> SUBSET (Thread \ {Root})]
    /\ \A t \in Thread, c \in Thread \ {Root} :
          c \in Below[t] <=> Parent[c] = t \/ Parent[c] \in Below[t]
    /\ \A t \in Thread : t \notin Below[t]

ActiveStatus   == {"pending", "working", "waiting"}
ReservedStatus == ActiveStatus \cup {"paused", "uncertain"}
Outcome        == {"completed", "failed", "interrupted"}
Status         == ReservedStatus \cup Outcome \cup {"absent"}
HostOwned      == {"dispatching", "uncertain"}
IntentState    == HostOwned \cup {"none", "registered", "pending", "queued", "confirmed",
                     "completed", "failed", "canceled", "paused", "timeout"}
EffectKind     == {"create", "message", "followup", "interrupt", "human", "completion", "final"}
Phase          == {"create", "assignment_input", "admit", "initial", "none"}

Reserved(m) == m.status \in ReservedStatus
Active(m)   == m.status \in ActiveStatus

Effect ==
    [kind : EffectKind, phase : Phase, state : IntentState,
     caller : Thread, target : Thread, callerTurn : Nat, callerGeneration : Nat,
     generation : Nat, turn : Nat, claimedBy : Nat, consumed : BOOLEAN,
     outcome : Outcome \cup {"none"}]

LocalStop == [kind : {"none", "wait", "recovery", "provider", "completion"},
              generation : Nat, turn : Nat, wait : Nat]
NoStop    == [kind |-> "none", generation |-> 0, turn |-> 0, wait |-> 0]

Wait ==
    [id : Nat, state : IntentState, stop : {"none", "eligible", "committed"},
     generation : Nat, turn : Nat, targets : SUBSET Thread, all : BOOLEAN,
     standalone : BOOLEAN, provider : BOOLEAN, timer : {"none", "armed", "due"},
     recovery : [Thread -> Nat], compact : IntentState]
NoRecovery == [t \in Thread |-> 0]
NoWait ==
    [id |-> 0, state |-> "none", stop |-> "none", generation |-> 0, turn |-> 0,
     targets |-> {}, all |-> FALSE, standalone |-> FALSE, provider |-> FALSE,
     timer |-> "none", recovery |-> NoRecovery, compact |-> "none"]

Member ==
    [status : Status, generation : Nat, turn : Nat, hostRunning : BOOLEAN,
     audience : BOOLEAN, wait : Wait, recoveryWait : Wait, stop : LocalStop,
     calls : Nat]  \* waits this thread has made, which is what makes their ids fresh
Tree == [members : [Thread -> Member], effects : Seq(Effect)]

Absent ==
    [status |-> "absent", generation |-> 0, turn |-> 0, hostRunning |-> FALSE,
     audience |-> FALSE, wait |-> NoWait, recoveryWait |-> NoWait, stop |-> NoStop,
     calls |-> 0]

-----------------------------------------------------------------------------
(* Reading and editing a tree.                                             *)

Indices(T)     == 1 .. Len(T.effects)
Put(T, t, m)   == [T EXCEPT !.members = [@ EXCEPT ![t] = m]]
PutEffect(T, i, e) == [T EXCEPT !.effects = [@ EXCEPT ![i] = e]]
EachEffect(T, Edit(_)) == [T EXCEPT !.effects = [i \in Indices(T) |-> Edit(T.effects[i])]]
SetState(e, s) == [e EXCEPT !.state = s]

ActiveBelow(T, t) == {c \in Below[t] : Active(T.members[c])}

(* A thread that the host has not created yet is not addressed by its own  *)
(* creation: the effect carries no target until creation is acknowledged.  *)
Addressed(e, t) == e.target = t /\ e.phase # "create"
Step(e) == IF e.kind = "create" THEN e.phase ELSE e.kind

NewEffect(kind, caller, callerTurn, callerGeneration, target, generation) ==
    [kind |-> kind, phase |-> "none", state |-> "pending", caller |-> caller,
     target |-> target, callerTurn |-> callerTurn, callerGeneration |-> callerGeneration,
     generation |-> generation, turn |-> 0, claimedBy |-> 0, consumed |-> FALSE,
     outcome |-> "none"]
(* TLC's Append overlooks the EXCEPTs of a function it has not enumerated, *)
(* so the effects are listed anew.                                         *)
AddEffect(T, e) == [T EXCEPT !.effects = Append([i \in Indices(T) |-> @[i]], e)]

(* Wrong on purpose: deliveries held only until the checkpoint is claimed. *)
CompactionRegistered(w) == w.compact = "registered" /\ w.state = "registered"
(* Wrong on purpose: the absent checkpoint of an ordinary wait counts too. *)
CompactionUnsettled(w) ==
    w.compact \in HostOwned \/ (w.stop = "committed" /\ w.compact # "completed")

CompactionPending(w) ==
    \/ w.compact \in HostOwned
    \/ w.compact = "registered" /\ w.state = "registered"
    \/ w.stop = "committed" /\ w.compact \notin {"none", "completed", "failed", "canceled"}

(* A wait that must not be dropped: replacing it queues behind it instead. *)
Dispatched(w) == w.state \in HostOwned

-----------------------------------------------------------------------------
(* Settling a subscription, a deferred completion and logical work.        *)

CancelSubscription(T, t) ==
    LET w == T.members[t].wait
        canceled == [w EXCEPT !.state = "canceled", !.stop = "none",
                       !.compact = IF @ \in HostOwned \cup {"none"} THEN @ ELSE "canceled"]
        Release(e) == IF w.state = "queued" /\ e.target = t /\ e.claimedBy = w.id
                      THEN [e EXCEPT !.claimedBy = 0] ELSE e
    IN  IF w.state = "none" THEN T
        ELSE EachEffect(Put(T, t, [T.members[t] EXCEPT !.wait = canceled]), Release)

IsCompletionOf(e, t, stop) ==
    /\ e.kind = "completion" /\ e.caller = t /\ stop.kind = "completion"
    /\ e.generation = stop.generation /\ e.callerTurn = stop.turn

CancelCompletion(T, t) ==
    LET Cancel(e) == IF IsCompletionOf(e, t, T.members[t].stop) /\ e.state = "pending"
                     THEN SetState(e, "canceled") ELSE e
    IN  EachEffect(T, Cancel)

CancelUnlessDispatched(T, t) ==
    IF T.members[t].wait.state = "completed" \/ Dispatched(T.members[t].wait)
    THEN T ELSE CancelSubscription(T, t)

(* finish: the only way work of one generation settles with an outcome, and *)
(* the only source of the final result a child owes its parent.            *)
Finish(T, t, status) ==
    LET settled == CancelCompletion(T, t)
        retired == CancelUnlessDispatched(
                     Put(settled, t, [settled.members[t] EXCEPT !.status = status]), t)
        m == retired.members[t]
        final == [NewEffect("final", t, m.turn, m.generation, Parent[t], 0)
                    EXCEPT !.outcome = status]
    IN  IF t = Root THEN retired ELSE AddEffect(retired, final)

(* Wrong on purpose: behind a dispatched wake the continuation is dropped. *)
HoldUnlessDispatched(T, t, w, kind, turn) ==
    LET m == T.members[t]
        C == IF Dispatched(m.wait) THEN T ELSE CancelSubscription(T, t)
    IN  Put(C, t, [C.members[t] EXCEPT
              !.wait = IF Dispatched(m.wait) THEN @ ELSE w,
              !.stop = [kind |-> kind, generation |-> m.generation, turn |-> turn, wait |-> w.id],
              !.status = "waiting", !.calls = w.id])

(* Install a continuation that owns the thread's stop, behind a wake that  *)
(* the host may already have taken.                                        *)
Hold(T, t, w, kind, turn) ==
    LET m == T.members[t]
        C == IF Dispatched(m.wait) THEN T ELSE CancelSubscription(T, t)
    IN  Put(C, t, [C.members[t] EXCEPT
              !.wait = IF Dispatched(m.wait) THEN @ ELSE w,
              !.recoveryWait = IF Dispatched(m.wait) THEN w ELSE @,
              !.stop = [kind |-> kind, generation |-> m.generation, turn |-> turn, wait |-> w.id],
              !.status = "waiting", !.calls = w.id])

(* Wrong on purpose: recovery is installed only while the thread executes. *)
SettleRecoveryRunning(T, t) ==
    LET m == T.members[t] IN
    IF m.recoveryWait.state = "none" \/ Dispatched(m.wait) \/ ~m.hostRunning THEN T
    ELSE Put(T, t, [m EXCEPT !.wait = m.recoveryWait, !.recoveryWait = NoWait])

SettleRecovery(T, t) ==
    LET m == T.members[t] IN
    IF m.recoveryWait.state = "none" \/ Dispatched(m.wait) THEN T
    ELSE Put(T, t, [m EXCEPT !.wait = m.recoveryWait, !.recoveryWait = NoWait,
                             !.status = IF @ = "uncertain" THEN "waiting" ELSE @])

PausedState(s) ==
    CASE s = "dispatching"                         -> "uncertain"
      [] s \in {"pending", "registered", "queued"} -> "paused"
      [] OTHER                                     -> s

(* pause: retire the runtimes of S; S is one thread or the whole tree.     *)
PauseAll(T, S) ==
    LET PauseWait(w) == [w EXCEPT !.state = PausedState(@), !.compact = PausedState(@)]
        PauseMember(m) == [m EXCEPT !.status = IF Reserved(m) THEN "paused" ELSE @,
                             !.hostRunning = FALSE, !.turn = 0,
                             !.wait = PauseWait(@), !.recoveryWait = PauseWait(@)]
        PauseEffect(e) == IF e.caller \in S \/ \E t \in S : Addressed(e, t)
                          THEN SetState(e, PausedState(e.state)) ELSE e
    IN  EachEffect([T EXCEPT !.members =
                      [t \in Thread |-> IF t \in S THEN PauseMember(@[t]) ELSE @[t]]],
                   PauseEffect)

-----------------------------------------------------------------------------
(* How work and its final results relate, in every tree that is published. *)

(* Work that executes a native turn is reserved and neither newly assigned *)
(* nor paused.                                                             *)
Executing(m) == m.hostRunning => m.status \in {"working", "waiting", "uncertain"}

(* A final result was reported by settled work: by an earlier generation of *)
(* its thread, or by the current one once nothing is reserved any more.    *)
ReportsSettledWork(T, e) ==
    LET m == T.members[e.caller] IN
    /\ m.status # "absent"
    /\ e.callerGeneration <= m.generation
    /\ e.callerGeneration = m.generation => ~Reserved(m)

SameReport(e, f) ==
    /\ e.kind = "final" /\ f.kind = "final"
    /\ e.caller = f.caller /\ e.callerGeneration = f.callerGeneration

WorkConsistent(T) ==
    /\ \A t \in Thread : Executing(T.members[t])
    /\ \A i \in Indices(T) : T.effects[i].kind = "final" => ReportsSettledWork(T, T.effects[i])
    /\ \A i, j \in Indices(T) : SameReport(T.effects[i], T.effects[j]) => i = j
=============================================================================
