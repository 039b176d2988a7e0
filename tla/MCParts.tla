------------------------------- MODULE MCParts -------------------------------
(***************************************************************************)
(* The smaller parts of the system, each alone: one of them runs, from any *)
(* of its initial states, and the others keep one of theirs.               *)
(***************************************************************************)
EXTENDS NativeFeed, CallRequests, CommandReports, RuntimeHub

CONSTANTS r1, r2, r3, s1, s2, s3, t1, t2, x, y, z, script, h1, h2, w1, w2,
    m1, m2, m3

VARIABLE part

(* Two sessions of one thread and one of another; calls of two sizes; one  *)
(* script for all items.                                                   *)
SessionThreads == [session \in CallSession |-> IF session = s3 THEN t2 ELSE t1]
CallSizes == [c \in Call |-> IF c = y THEN 2 ELSE 1]
ItemScripts == [i \in Item |-> script]
HelloScripts == [h \in Hello |-> script]

PartsInit ==
    /\ part \in {"feed", "effects", "calls", "reports", "hub"}
    /\ NativeInit /\ CallInit /\ ReportInit /\ HubInit
    /\ part \notin {"feed", "effects"} => sent.local
    /\ request[r1].session = s1 /\ request[r3].session = s2
    /\ part # "calls" => request[r2].session = s1

(* Frames and consequences are explored apart: publications without        *)
(* consequences, or two with, of a feed of one entry.                      *)
FeedOnly == ledger'.next = 0
EffectsOnly == Len(history') <= 2 /\ sent'.frame.main[2] = Absent

(* Helpers that differ in nothing, windows and runtimes begin in a fixed   *)
(* order.                                                                  *)
RuntimesInOrder ==
    /\ runtime'[m2].stage # "new" => runtime'[m1].stage # "new"
    /\ runtime'[m3].stage # "new" => runtime'[m2].stage # "new"
InOrder ==
    /\ hello'[h2].stage # "new" => hello'[h1].stage # "new"
    /\ window'[w2].stage # "new" => window'[w1].stage # "new"

PartsNext ==
    /\ \/ /\ part = "feed" /\ NativeNext /\ FeedOnly
          /\ UNCHANGED <<callVars, reportVars, hubVars>>
       \/ /\ part = "effects" /\ NativeNext /\ EffectsOnly
          /\ UNCHANGED <<callVars, reportVars, hubVars>>
       \/ part = "calls" /\ CallNext /\ UNCHANGED <<nativeVars, reportVars, hubVars>>
       \/ /\ part = "reports" /\ ReportNext /\ InOrder
          /\ UNCHANGED <<nativeVars, callVars, hubVars>>
       \/ /\ part = "hub" /\ HubNext /\ RuntimesInOrder
          /\ UNCHANGED <<nativeVars, callVars, reportVars>>
    /\ UNCHANGED part
PartsSpec == PartsInit /\ [][PartsNext]_<<part, nativeVars, callVars, reportVars, hubVars>>
=============================================================================
