--------------------------- MODULE MCHistoryStore ---------------------------
(* Instances of the session history store.                                 *)
EXTENDS HistoryStore, TLC

CONSTANTS call, snapshot

(* A call's record refers to the snapshot it reads; the index to the call. *)
CallDeps == [r \in Record |-> IF r = call THEN {snapshot} ELSE {}]

Renamings == {f @@ g : f \in Permutations(Process), g \in Permutations(Thread)}

(* Revisions are only compared with the current one, and never return to   *)
(* it, so what is stamped with another revision is never used again.       *)
Current(revision) == revision = disk.revision
Reduced ==
    LET views == [p \in Process |-> IF Current(cache[p].revision) THEN <<1, cache[p].files>> ELSE <<0, {}>>]
        known == [p \in Process |-> {<<c.thread, c.value>> : c \in {d \in cache[p].catalog : Current(d.revision)}}]
        made  == IF Current(plan.revision) THEN [plan EXCEPT !.revision = 1]
                 ELSE [NoPlan EXCEPT !.by = plan.by, !.stage = plan.stage]
    IN  <<[disk EXCEPT !.revision = 0], views, known, client, made, spent>>
=============================================================================
