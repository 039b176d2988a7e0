-------------------------------- MODULE MCLive --------------------------------
(***************************************************************************)
(* The parts whose progress is checked, each alone: the maintenance of a   *)
(* full history store, the frames of a native view, the start of a control *)
(* server, and the credit of a control connection.  One of them runs; the  *)
(* others keep an initial state.                                           *)
(***************************************************************************)
EXTENDS MCHistoryStore, NativeFeed, ControlStart, ControlConnection

VARIABLE part

(* No client is looking for a server.                                      *)
NoStart ==
    /\ caller = [c \in Client |-> [stage |-> "failed", started |-> Nothing]]
    /\ server = [s \in Server |-> "new"]
    /\ startup = Nothing /\ lifetime = Nothing /\ socket = Nothing /\ deaths = 0

LiveInit ==
    /\ part \in {"store", "feed", "start", "connection"}
    /\ Init /\ NativeInit /\ ConnectionInit
    /\ part # "feed" => sent.local
    /\ IF part = "start" THEN StartInit ELSE NoStart
LiveNext ==
    /\ \/ part = "store" /\ Next /\ UNCHANGED <<nativeVars, startVars, connectionVars>>
       \/ part = "feed" /\ NativeNext /\ UNCHANGED <<vars, startVars, connectionVars>>
       \/ part = "start" /\ StartNext /\ UNCHANGED <<vars, nativeVars, connectionVars>>
       \/ part = "connection" /\ ConnectionNext /\ UNCHANGED <<vars, nativeVars, startVars>>
    /\ UNCHANGED part

(* The store's worker ticks every second, and a reader adopts what it has  *)
(* read, while the store runs.  The parts that do not run have no other    *)
(* fair step to take: no frames, nobody looking for a server, nothing sent. *)
Used == part = "store"
StoreFairness ==
    /\ WF_vars(Used /\ \E p \in Process, expire \in BOOLEAN : PlanStart(p, expire))
    /\ WF_vars(Used /\ PlanList)
    /\ WF_vars(Used /\ PlanFinish)
    /\ WF_vars(Used /\ CommitBatch)
    /\ WF_vars(Used /\ FinishPlan)
    /\ \A p \in Process : WF_vars(Used /\ \E noted \in Touches : RetainInput(p, noted))
LiveSpec ==
    /\ LiveInit /\ [][LiveNext]_<<part, vars, nativeVars, startVars, connectionVars>>
    /\ NativeFairness /\ StartFairness /\ ConnectionFairness /\ StoreFairness
=============================================================================
