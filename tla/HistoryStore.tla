---------------------------- MODULE HistoryStore ----------------------------
(***************************************************************************)
(* The retained session history: several processes publish records under one *)
(* lock and revision, adopt each other's records, and prune what inactive  *)
(* sessions own by plans that are read outside the lock.                   *)
(*                                                                         *)
(* A transaction is atomic to other lock holders but not to a failure: it  *)
(* is computed together with every state in which a failing effect would   *)
(* leave the files (`past`), and a failure keeps one of those.             *)
(***************************************************************************)
EXTENDS Integers, FiniteSets, FiniteSetsExt, Functions

CONSTANTS
    Process,     \* routers sharing the directory
    Thread,      \* sessions, each with an ownership catalog
    Record,      \* names of retained records
    Deps,        \* the records a stored record refers to
    Indexed,     \* the records the workspace's change index refers to
    Legacy,      \* records kept from before sessions had catalogs
    Capacity,    \* budget, in units of one record
    Touches,     \* whether a catalog was last noted as used over a minute ago
    Batch,       \* files removed per commit of a prune
    MaxWrites,   \* bound: enrolments and publications that write
    MaxReads,    \* bound: readings of visible history
    MaxFailures  \* bound: transactions that fail midway, and crashes

Idle == "idle"
Index == "index"
Smaller(a, b) == IF a < b THEN a ELSE b
Name == Record \cup Thread \cup {Index}
Candidate == Record \cup Thread

ASSUME Storage ==
    /\ Record \cap Thread = {} /\ Idle \notin Candidate /\ Index \notin Candidate
    /\ Deps \in [Record -> SUBSET Record] /\ Indexed \subseteq Record
    /\ Legacy \subseteq Record /\ \A r \in Legacy : Deps[r] \subseteq Legacy
    /\ \A touch \in Touches : touch \in BOOLEAN
    /\ Capacity \in Nat /\ Batch \in Nat \ {0} /\ MaxWrites \in Nat /\ MaxReads \in Nat
    /\ MaxFailures \in Nat

VARIABLES
    disk,    \* the directory
    cache,   \* each process's revision-stamped view of it
    client,  \* each process's session, its leases and what it has read or published
    plan,    \* the maintenance at work, by the process that holds its lock
    spent    \* bounds
vars == <<disk, cache, client, plan, spent>>

NoCatalog == [exists |-> FALSE, files |-> {}]
NoCache  == [revision |-> 0, files |-> {}, catalog |-> {}]
NoClient == [session |-> Idle, held |-> {}, reading |-> FALSE, seen |-> {}]
NoPlan   == [by |-> Idle, stage |-> "none", revision |-> 0, expire |-> FALSE, pressure |-> {}, old |-> {},
             catalogs |-> [t \in Thread |-> NoCatalog], sizes |-> [n \in Name |-> 0],
             present |-> {}, index |-> {}, current |-> Idle, todo |-> {},
             rest |-> [c \in Candidate |-> {}], owner |-> [r \in Record |-> {}]]

Init ==
    /\ disk = [revision |-> 0, records |-> Legacy, index |-> {}, pressure |-> {}, old |-> {},
               swept |-> FALSE, catalogs |-> [t \in Thread |-> NoCatalog]]
    /\ cache = [p \in Process |-> NoCache]
    /\ client = [p \in Process |-> NoClient]
    /\ plan = NoPlan
    /\ spent = [writes |-> 0, reads |-> 0, failures |-> 0]

-----------------------------------------------------------------------------
(* Transactions.                                                           *)

CatalogSize(c) == IF c.exists THEN 1 + Cardinality(c.files) ELSE 0
View(d) == [n \in Name |-> CASE n \in Record -> IF n \in d.records THEN 1 ELSE 0
                             [] n \in Thread -> CatalogSize(d.catalogs[n])
                             [] OTHER -> Cardinality(d.index)]
Usage(sizes) == Cardinality(UNION {{n} \X (1 .. sizes[n]) : n \in Name})

Open(p) == [disk |-> disk, mine |-> cache[p], revised |-> FALSE, ok |-> TRUE, past |-> {}]
Did(S, d, m) == [S EXCEPT !.disk = d, !.mine = m, !.past = @ \cup {[disk |-> S.disk, mine |-> S.mine]}]

(* Mutated form: a revision that is advanced without dropping the views.   *)
AdvanceRevisionCached(S) ==
    IF S.revised THEN S
    ELSE [Did(S, [S.disk EXCEPT !.revision = @ + 1], [S.mine EXCEPT !.revision = S.disk.revision + 1])
            EXCEPT !.revised = TRUE]

(* Plans and caches are invalidated before any effect, once per transaction. *)
AdvanceRevision(S) ==
    LET next    == S.disk.revision + 1
        dropped == Did(S, S.disk, [S.mine EXCEPT !.files = {}, !.catalog = {}])
    IN  IF S.revised THEN dropped
        ELSE [Did(dropped, [S.disk EXCEPT !.revision = next], [dropped.mine EXCEPT !.revision = next])
                EXCEPT !.revised = TRUE]

(* Write replaces one file, giving directory d.  A view that described the *)
(* directory until now is carried over with the new size.                  *)
Write(S, name, d) ==
    LET A     == AdvanceRevision(S)
        files == IF S.mine.revision # S.disk.revision THEN {}
                 ELSE {[n \in Name |-> IF n = name THEN View(d)[n] ELSE sizes[n]] : sizes \in S.mine.files}
        kept  == {c \in S.mine.catalog : c.thread # name /\ c.revision = S.disk.revision}
    IN  Did(A, [d EXCEPT !.revision = A.disk.revision],
            [A.mine EXCEPT !.files = files,
                           !.catalog = {[c EXCEPT !.revision = A.mine.revision] : c \in kept}])
Put(S, name, d) == IF d = S.disk THEN S ELSE Write(S, name, d)

FileSizes(S) ==
    IF S.mine.files # {} /\ S.mine.revision = S.disk.revision THEN S
    ELSE [S EXCEPT !.mine.revision = S.disk.revision, !.mine.files = {View(S.disk)}]

(* Admit refuses growth beyond the budget and leaves a request to prune.   *)
Admit(S, name, size) ==
    LET L      == FileSizes(S)
        sizes  == CHOOSE v \in L.mine.files : TRUE
        growth == IF size > sizes[name] THEN size - sizes[name] ELSE 0
        full   == IF size > Capacity THEN L
                  ELSE Put(L, "pressure", [L.disk EXCEPT !.pressure = {growth}])
    IN  IF Usage(sizes) - sizes[name] + size <= Capacity THEN L ELSE [full EXCEPT !.ok = FALSE]

(* Retain adopts names, and what the stored ones depend on, for a session. *)
(* A catalog that already owns them is rewritten only to note its use.     *)
Retain(S, t, names, noted) ==
    LET cached  == {c \in S.mine.catalog : c.thread = t /\ c.revision = S.disk.revision}
        value   == IF cached = {} THEN S.disk.catalogs[t] ELSE (CHOOSE c \in cached : TRUE).value
        wanted  == names \cup UNION {Deps[r] : r \in names \cap S.disk.records}
        next    == [exists |-> TRUE, files |-> value.files \cup wanted]
        Cached(T, v) == [T EXCEPT !.mine.catalog =
                           {[thread |-> t, revision |-> T.disk.revision, value |-> v]}]
        L       == IF value.exists THEN Cached(S, value) ELSE [S EXCEPT !.mine.catalog = {}]
        A       == IF names = {} THEN L ELSE Admit(L, t, CatalogSize(next))
    IN  IF next = value /\ t \notin S.disk.old /\ ~noted THEN L
        ELSE IF ~A.ok THEN A
        ELSE Cached(Write(A, t, [A.disk EXCEPT !.catalogs[t] = next, !.old = @ \ {t}]), next)

(* A call's record is published behind its ownership, then the change      *)
(* index behind the record, all in one transaction.  A record that gained  *)
(* evidence since is written again.                                        *)
PublishRecord(S, t, r, noted) ==
    LET R == Retain(S, t, {r}, noted)
        A == Admit(R, r, 1)
    IN  IF ~R.ok THEN R ELSE IF ~A.ok THEN A
        ELSE Write(A, r, [A.disk EXCEPT !.records = @ \cup {r}, !.old = @ \ {r}])
PublishIndex(S, r) ==
    LET A == Admit(S, Index, Cardinality(S.disk.index \cup {r})) IN
    IF ~S.ok \/ r \notin Indexed THEN S ELSE IF ~A.ok THEN A
    ELSE Put(A, Index, [A.disk EXCEPT !.index = @ \cup {r}])

Commit(p, S) == disk' = S.disk /\ cache' = [cache EXCEPT ![p] = S.mine]
Fail(p, S) ==
    /\ spent.failures < MaxFailures
    /\ \E left \in S.past : disk' = left.disk /\ cache' = [cache EXCEPT ![p] = left.mine]
    /\ spent' = [spent EXCEPT !.failures = @ + 1]
Spend(S) ==
    /\ S.revised => spent.writes < MaxWrites
    /\ spent' = IF S.revised THEN [spent EXCEPT !.writes = @ + 1] ELSE spent
Transact(p, S, after) ==
    \/ /\ Commit(p, S)
       /\ Spend(S)
       /\ client' = [client EXCEPT ![p] = IF S.ok THEN after ELSE @]
    \/ Fail(p, S) /\ UNCHANGED client

-----------------------------------------------------------------------------
(* Clients.                                                                *)

(* The session's lease is taken before its owner is enrolled.              *)
BeginSession(p, t, noted) ==
    /\ client[p].session = Idle
    /\ Transact(p, Retain(Open(p), t, {}, noted), [client[p] EXCEPT !.session = t])
    /\ UNCHANGED plan

EndSession(p) ==
    /\ client[p].session # Idle
    /\ client' = [client EXCEPT ![p] = NoClient]
    /\ UNCHANGED <<disk, cache, plan, spent>>

(* A record goes out once this session has published or adopted what it    *)
(* refers to.                                                              *)
Publish(p, r, noted) ==
    LET c == client[p] IN
    /\ c.session # Idle /\ ~c.reading /\ r \notin c.held /\ Deps[r] \subseteq c.held
    /\ Transact(p, PublishIndex(PublishRecord(Open(p), c.session, r, noted), r),
                [c EXCEPT !.held = @ \cup {r}])
    /\ UNCHANGED plan
(* A session's catalog lists a record.                                     *)
Owns(d, t, r) == d.catalogs[t].exists /\ r \in d.catalogs[t].files
(* A record equal to the stored one is neither retained nor written again, *)
(* and the index follows: its session holds it only where it owned it.     *)
Republish(p, r) ==
    LET c     == client[p]
        again == [c EXCEPT !.held = @ \cup {r}]
    IN
    /\ c.session # Idle /\ ~c.reading /\ r \in disk.records \ c.held /\ Deps[r] \subseteq c.held
    /\ Transact(p, PublishIndex(Open(p), r), IF Owns(disk, c.session, r) THEN again ELSE c)
    /\ UNCHANGED plan

(* Visible history is read under the snapshot lease and adopted by a later *)
(* transaction, which gives the lease up once it holds the lock.           *)
ReadVisible(p, r) ==
    LET c == client[p] IN
    /\ c.session # Idle /\ ~c.reading /\ r \in disk.records \ c.held
    /\ spent.reads < MaxReads /\ spent' = [spent EXCEPT !.reads = @ + 1]
    /\ client' = [client EXCEPT ![p] = [c EXCEPT !.reading = TRUE, !.seen = {r} \cup Deps[r]]]
    /\ UNCHANGED <<disk, cache, plan>>
RetainInput(p, noted) ==
    LET c == client[p]
        after == [c EXCEPT !.reading = FALSE, !.seen = {}]
        S == Retain(Open(p), c.session, c.seen, noted)
        adopted == IF S.ok THEN [after EXCEPT !.held = @ \cup c.seen] ELSE after
    IN  /\ c.reading
        /\ \/ /\ Commit(p, S)
              /\ client' = [client EXCEPT ![p] = adopted]
              /\ UNCHANGED spent
           \/ /\ Fail(p, S)
              /\ client' = [client EXCEPT ![p] = after]
        /\ UNCHANGED plan

(* Two weeks pass for a session, or a record older than sessions, that     *)
(* nobody has used.                                                        *)
Expire(n) ==
    /\ n \in (disk.records \cap Legacy) \cup {t \in Thread : disk.catalogs[t].exists}
    /\ n \notin disk.old
    /\ disk' = [disk EXCEPT !.old = @ \cup {n}]
    /\ UNCHANGED <<cache, client, plan, spent>>

Crash(p) ==
    /\ spent.failures < MaxFailures
    /\ client' = [client EXCEPT ![p] = NoClient] /\ cache' = [cache EXCEPT ![p] = NoCache]
    /\ plan' = IF plan.by = p THEN NoPlan ELSE plan
    /\ spent' = [spent EXCEPT !.failures = @ + 1]
    /\ UNCHANGED disk

-----------------------------------------------------------------------------
(* Maintenance, by the one process that holds the maintenance lock.        *)

Drop == plan' = NoPlan

(* The worker takes its revision under the lock, and reads outside it.     *)
PlanStart(p, expire) ==
    /\ plan.stage = "none"
    /\ ~disk.swept => expire
    /\ expire \/ disk.pressure # {}
    /\ plan' = [NoPlan EXCEPT !.by = p, !.stage = "started", !.revision = disk.revision,
                              !.expire = expire, !.pressure = disk.pressure]
    /\ UNCHANGED <<disk, cache, client, spent>>

PlanList ==
    /\ plan.stage = "started"
    /\ plan' = [plan EXCEPT !.stage = "listed", !.old = disk.old,
                            !.catalogs = disk.catalogs, !.sizes = View(disk)]
    /\ UNCHANGED <<disk, cache, client, spent>>

(* What candidate files reach through the records that are there to be read. *)
Closure(files, present) ==
    LET closed(F) == \A r \in F \cap present : Deps[r] \subseteq F
    IN  {r \in Record : \A F \in SUBSET Record : files \subseteq F /\ closed(F) => r \in F}

(* A view whose records refer to each other in a circle is never planned.  *)
Ordered(present) ==
    \A F \in (SUBSET present) \ {{}} : \E r \in F : \A s \in F : r \notin Deps[s]

(* Records are decoded, owners counted, and the view validated.  A record  *)
(* no session reaches is a candidate of its own unless another refers to it. *)
PlanFinish ==
    LET present  == disk.records
        sessions == {t \in Thread : plan.catalogs[t].exists}
        reached  == [t \in Thread |-> IF t \in sessions THEN Closure(plan.catalogs[t].files, present) ELSE {}]
        unowned  == {r \in Record : plan.sizes[r] > 0} \ UNION Range(reached)
        legacy   == {r \in unowned : \A s \in unowned : r \notin Deps[s]}
        rest     == [c \in Candidate |-> CASE c \in Thread -> reached[c]
                                           [] c \in legacy -> Closure({c}, present)
                                           [] OTHER -> {}]
    IN  /\ plan.stage = "listed"
        /\ IF disk.revision # plan.revision \/ ~Ordered(present) THEN Drop
           ELSE plan' = [plan EXCEPT !.stage = "planned", !.present = present, !.index = disk.index,
                                   !.todo = sessions \cup legacy, !.rest = rest,
                                   !.owner = [r \in Record |-> {c \in Candidate : r \in rest[c]}]]
        /\ UNCHANGED <<disk, cache, client, spent>>

PruneRequired(pl) == Usage(pl.sizes) + SumSet(pl.pressure) > Capacity
Eligible(pl, c) ==
    /\ c \in pl.todo
    /\ c \in Record => c \in pl.old
    /\ (pl.expire /\ c \in pl.old) \/ PruneRequired(pl)
(* Candidates go from the least recently used.                             *)
NextCandidates(pl) ==
    LET eligible == {c \in Candidate : Eligible(pl, c)} IN
    IF pl.current # Idle THEN {pl.current}
    ELSE IF eligible \cap pl.old # {} THEN eligible \cap pl.old ELSE eligible

(* The prune leases a commit tries.                                        *)
Reading == \E q \in Process : client[q].reading
Leased(c) == \E q \in Process : client[q].session = c

(* Mutated forms: files go in any order; shared files go with an owner.    *)
RemovableUnordered(names, present) == SUBSET names
RemovalsShared(pl, B, c) == B

(* Referrers go before what they refer to.                                 *)
Removable(names, present) == {B \in SUBSET names :
    \A r \in B, s \in names \cap present : r \in Deps[s] => s \in B}
Removals(pl, B, c) == {r \in B : pl.owner[r] \subseteq {c}}

(* The effects of one commit, in order: removals, the index, the catalog.  *)
RemoveRecords(S, deleted, present) ==
    LET Without(D) == [disk |-> [S.disk EXCEPT !.records = @ \ D], mine |-> S.mine] IN
    [S EXCEPT !.disk = Without(deleted).disk,
              !.past = @ \cup {Without(D) : D \in Removable(deleted, present)}]
RetireIndex(S, index, deleted) == Put(S, Index, [S.disk EXCEPT !.index = index \ deleted])
RemoveCatalog(S, c) ==
    IF c \notin Thread THEN S
    ELSE Did(S, [S.disk EXCEPT !.catalogs[c] = NoCatalog, !.old = @ \ {c}], S.mine)
(* Mutated form: the catalog goes with the first batch.                    *)
PruneCatalogFirst(S, pl, c, B) ==
    LET deleted == Removals(pl, B, c)
        bare    == RemoveCatalog(AdvanceRevision(S), c)
        retired == RetireIndex(RemoveRecords(bare, deleted, pl.present), pl.index, deleted)
    IN  [retired EXCEPT !.disk.old = @ \ deleted]

Prune(S, pl, c, B) ==
    LET deleted == Removals(pl, B, c)
        retired == RetireIndex(RemoveRecords(AdvanceRevision(S), deleted, pl.present), pl.index, deleted)
        cleared == [retired EXCEPT !.disk.old = @ \ deleted]
    IN  IF B = pl.rest[c] THEN RemoveCatalog(cleared, c) ELSE cleared

Pruned(pl, S, c, B) ==
    LET deleted == Removals(pl, B, c)
        done    == B = pl.rest[c]
    IN  [pl EXCEPT !.revision = S.disk.revision, !.index = @ \ deleted,
                   !.sizes = [n \in Name |-> CASE n \in deleted \/ (done /\ n = c) -> 0
                                               [] n = Index -> Cardinality(pl.index \ deleted)
                                               [] OTHER -> @[n]],
                   !.rest[c] = @ \ B,
                   !.owner = [r \in Record |-> IF r \in B THEN @[r] \ {c} ELSE @[r]],
                   !.current = IF done THEN Idle ELSE c,
                   !.todo = IF done THEN @ \ {c} ELSE @]

CommitBatch ==
    LET pl == plan
        p  == plan.by
    IN
    /\ pl.stage = "planned"
    /\ \E c \in NextCandidates(pl) :
        IF disk.revision # pl.revision \/ Reading
        THEN Drop /\ UNCHANGED <<disk, cache, spent>>
        ELSE IF Leased(c)
        THEN /\ plan' = [pl EXCEPT !.todo = @ \ {c}, !.current = Idle]
             /\ UNCHANGED <<disk, cache, spent>>
        ELSE \E B \in Removable(pl.rest[c], pl.present) :
             LET S == Prune(Open(p), pl, c, B) IN
             /\ Cardinality(B) = Smaller(Cardinality(pl.rest[c]), Batch)
             /\ \/ Commit(p, S) /\ plan' = Pruned(pl, S, c, B) /\ UNCHANGED spent
                \/ Fail(p, S) /\ Drop
    /\ UNCHANGED client

(* Mutated form: the request outlives the plan that answered it.           *)
FinishPlanPending ==
    LET pl == plan
        p  == plan.by
        S  == Put(Open(p), "retention-sweep", [disk EXCEPT !.swept = TRUE])
    IN  /\ pl.stage = "planned" /\ NextCandidates(pl) = {}
        /\ IF disk.revision # pl.revision THEN UNCHANGED <<disk, cache>> ELSE Commit(p, S)
        /\ Drop
        /\ UNCHANGED <<client, spent>>

(* A plan nothing overtook answers the request and marks the sweep.        *)
FinishPlan ==
    LET pl      == plan
        p       == plan.by
        A       == IF pl.pressure = {} THEN Open(p)
                   ELSE LET R == AdvanceRevision(Open(p))
                        IN  Did(R, [R.disk EXCEPT !.pressure = {}], R.mine)
        S       == Put(A, "retention-sweep", [A.disk EXCEPT !.swept = TRUE])
    IN  /\ pl.stage = "planned" /\ NextCandidates(pl) = {}
        /\ IF disk.revision # pl.revision THEN UNCHANGED <<disk, cache, spent>>
           ELSE \/ Commit(p, S) /\ UNCHANGED spent
                \/ Fail(p, S)
        /\ Drop
        /\ UNCHANGED client

Next ==
    \/ \E p \in Process :
        \/ \E expire \in BOOLEAN : PlanStart(p, expire)
        \/ \E t \in Thread, noted \in Touches : BeginSession(p, t, noted)
        \/ \E r \in Record, noted \in Touches : Publish(p, r, noted)
        \/ \E r \in Record : Republish(p, r) \/ ReadVisible(p, r)
        \/ \E noted \in Touches : RetainInput(p, noted)
        \/ EndSession(p) \/ Crash(p)
    \/ PlanList \/ PlanFinish \/ CommitBatch \/ FinishPlan
    \/ \E n \in Candidate : Expire(n)

Spec == Init /\ [][Next]_vars

-----------------------------------------------------------------------------
TypeOK ==
    /\ disk \in [revision : Nat, records : SUBSET Record, index : SUBSET Record, old : SUBSET Candidate,
                 pressure : SUBSET Nat, swept : BOOLEAN,
                 catalogs : [Thread -> [exists : BOOLEAN, files : SUBSET Record]]]
    /\ client \in [Process -> [session : Thread \cup {Idle}, held : SUBSET Record,
                               reading : BOOLEAN, seen : SUBSET Record]]
    /\ spent \in [writes : 0 .. MaxWrites, reads : 0 .. MaxReads, failures : 0 .. MaxFailures]

(* No failure, crash or prune leaves a stored record whose dependencies    *)
(* are gone: referrers go first (retention.go, dependencyOrder), and       *)
(* ownership is counted through dependencies.                              *)
NoDangling == \A r \in disk.records : Deps[r] \subseteq disk.records

(* What an active session has published, adopted or is reading stays       *)
(* stored, whatever plans were made before it came: SPEC.md:40 has "active *)
(* process leases and shared dependencies prevent reclamation".            *)
ActiveKept == \A p \in Process : client[p].held \cup client[p].seen \subseteq disk.records

(* What a process has cached under the current revision is what the        *)
(* directory holds: admission is decided, and catalogs are rewritten, from *)
(* these caches alone (store.go, Write and FileSizes; catalog.go, Retain). *)
CacheCoherent == \A p \in Process :
    /\ cache[p].revision = disk.revision => cache[p].files \subseteq {View(disk)}
    /\ \A c \in cache[p].catalog : c.revision = disk.revision => c.value = disk.catalogs[c.thread]

(* A change index that still names removed records can be repaired: the    *)
(* catalog from which the next cleanup removes them again is still there.  *)
IndexRepairable ==
    disk.index \ disk.records \subseteq Legacy \cup UNION {disk.catalogs[t].files : t \in Thread}

(* A request for space is answered once clients are quiet: a finished plan *)
(* clears it whether or not anything could be removed (retention.go,       *)
(* cleanupSessions).                                                       *)
PressureServed == disk.pressure # {} ~> disk.pressure = {}
=============================================================================
