------------------------- MODULE HistoryStore_proofs -------------------------
(***************************************************************************)
(* Proofs about HistoryStore, for every set of processes, sessions and     *)
(* records and every budget.  First the caches: what a process has cached  *)
(* under the current revision is what the directory holds, also after a    *)
(* transaction that failed at any of its effects.  Then what stays: what   *)
(* an active session holds is stored, and nothing stored refers to what is *)
(* gone, as long as no plan leaves a candidate it has begun to retire.     *)
(* Last the index: what it names of removed records can be removed again.  *)
(***************************************************************************)
EXTENDS HistoryStore, FiniteSetTheorems, TLAPS

(* A directory, a process's view of it, and a transaction at work.         *)
Directory(d) ==
    /\ d = [revision |-> d.revision, records |-> d.records, index |-> d.index, pressure |-> d.pressure,
            old |-> d.old, swept |-> d.swept, catalogs |-> d.catalogs]
    /\ d.revision \in Nat /\ d.catalogs = [t \in Thread |-> d.catalogs[t]]
CacheRecord(m) == m = [revision |-> m.revision, files |-> m.files, catalog |-> m.catalog]
CatalogRecord(c) == c = [thread |-> c.thread, revision |-> c.revision, value |-> c.value]
Transaction(S) ==
    S = [disk |-> S.disk, mine |-> S.mine, revised |-> S.revised, ok |-> S.ok, past |-> S.past]

(* What is cached under the revision of directory d is of that directory,  *)
(* and nothing is cached under a later one.                                *)
Coherent(d, m) ==
    /\ CacheRecord(m) /\ m.revision \in Nat /\ m.revision <= d.revision
    /\ m.revision = d.revision => m.files \subseteq {View(d)}
    /\ \A c \in m.catalog :
         /\ CatalogRecord(c) /\ c.thread \in Thread /\ c.revision \in Nat /\ c.revision <= d.revision
         /\ c.revision = d.revision => c.value = d.catalogs[c.thread]

(* A directory that came from d is under a later revision, or the caches   *)
(* of others tell it from d by nothing they hold.                          *)
Follows(d, e) ==
    /\ d.revision <= e.revision
    /\ e.revision = d.revision => View(e) = View(d) /\ e.catalogs = d.catalogs

Left(d, x) == Directory(x.disk) /\ Coherent(x.disk, x.mine) /\ Follows(d, x.disk)
(* A transaction begun on d, with all it would leave if it failed.         *)
Working(d, S) ==
    /\ Transaction(S) /\ Left(d, S) /\ S.revised \in BOOLEAN
    /\ S.revised => d.revision < S.disk.revision
    /\ \A x \in S.past : Left(d, x)

(* Maintenance is at work for a process.                                   *)
Planned ==
    /\ DOMAIN plan = DOMAIN NoPlan
    /\ plan.stage # "none" => plan.by \in Process
Caches ==
    /\ Directory(disk)
    /\ cache = [p \in Process |-> cache[p]] /\ \A p \in Process : Coherent(disk, cache[p])
(* Who reads has a session.                                                *)
Clients ==
    /\ client \in [Process -> [session : Thread \cup {Idle}, held : SUBSET Record,
                               reading : BOOLEAN, seen : SUBSET Record]]
    /\ \A p \in Process : client[p].reading => client[p].session # Idle
CacheInv == Caches /\ Planned /\ Clients

-----------------------------------------------------------------------------
(* Views.                                                                  *)

(* What a view of the directory is of, name by name.                       *)
LEMMA ViewIs ==
    ASSUME NEW d
    PROVE  View(d) = [n \in Name |-> IF n \in Record THEN (IF n \in d.records THEN 1 ELSE 0)
                                     ELSE IF n \in Thread THEN CatalogSize(d.catalogs[n])
                                     ELSE Cardinality(d.index)]
<1>1. ASSUME NEW n \in Name
      PROVE  (CASE n \in Record -> IF n \in d.records THEN 1 ELSE 0
                [] n \in Thread -> CatalogSize(d.catalogs[n])
                [] OTHER -> Cardinality(d.index))
             = IF n \in Record THEN (IF n \in d.records THEN 1 ELSE 0)
               ELSE IF n \in Thread THEN CatalogSize(d.catalogs[n])
               ELSE Cardinality(d.index)
  BY Storage
<1> QED
  BY <1>1 DEF View

(* Directories of the same records, index and catalogs look the same.      *)
LEMMA SameView ==
    ASSUME NEW d, NEW e, e.records = d.records, e.index = d.index, e.catalogs = d.catalogs
    PROVE  View(e) = View(d)
BY ViewIs

(* A cache stays coherent as the directory is followed.                    *)
LEMMA FollowedCoherent ==
    ASSUME NEW d, NEW e, Directory(d), Directory(e), Follows(d, e), NEW m, Coherent(d, m)
    PROVE  Coherent(e, m)
<1>1. /\ d.revision \in Nat /\ e.revision \in Nat /\ d.revision <= e.revision
      /\ m.revision \in Nat /\ m.revision <= d.revision
  BY DEF Directory, Follows, Coherent
<1>2. ASSUME m.revision = e.revision PROVE m.files \subseteq {View(e)}
  <2>1. e.revision = d.revision /\ m.revision = d.revision
    BY <1>1, <1>2
  <2> QED
    BY <2>1 DEF Follows, Coherent
<1>3. ASSUME NEW c \in m.catalog
      PROVE  c.revision <= e.revision /\ (c.revision = e.revision => c.value = e.catalogs[c.thread])
  <2>1. c.revision \in Nat /\ c.revision <= d.revision
    BY DEF Coherent
  <2>2. ASSUME c.revision = e.revision PROVE c.value = e.catalogs[c.thread]
    <3>1. e.revision = d.revision /\ c.revision = d.revision
      BY <1>1, <2>1, <2>2
    <3> QED
      BY <3>1 DEF Follows, Coherent
  <2> QED
    BY <1>1, <2>1, <2>2
<1> QED
  BY <1>1, <1>2, <1>3 DEF Coherent

-----------------------------------------------------------------------------
(* Transactions.                                                           *)

(* What an effect leaves, field by field.                                  *)
LEMMA DidIs ==
    ASSUME NEW S, Transaction(S), NEW e, NEW m
    PROVE  Did(S, e, m) = [disk |-> e, mine |-> m, revised |-> S.revised, ok |-> S.ok,
                           past |-> S.past \cup {[disk |-> S.disk, mine |-> S.mine]}]
<1>1. \A a, b, c, k, q :
        Did([disk |-> a, mine |-> b, revised |-> c, ok |-> k, past |-> q], e, m)
          = [disk |-> e, mine |-> m, revised |-> c, ok |-> k, past |-> q \cup {[disk |-> a, mine |-> b]}]
  <2> TAKE a, b, c, k, q
  <2> DEFINE R == [disk |-> a, mine |-> b, revised |-> c, ok |-> k, past |-> q]
  <2>1. R.disk = a /\ R.mine = b /\ R.past = q
    OBVIOUS
  <2> DEFINE past == q \cup {[disk |-> a, mine |-> b]}
  <2>2. Did(R, e, m) = [R EXCEPT !.disk = e, !.mine = m, !.past = past]
    BY <2>1, Zenon DEF Did
  <2> HIDE DEF past
  <2>3. [R EXCEPT !.disk = e, !.mine = m, !.past = past]
          = [disk |-> e, mine |-> m, revised |-> c, ok |-> k, past |-> past]
    <3> DEFINE A == [disk |-> e, mine |-> b, revised |-> c, ok |-> k, past |-> q]
               B == [disk |-> e, mine |-> m, revised |-> c, ok |-> k, past |-> q]
               C == [disk |-> e, mine |-> m, revised |-> c, ok |-> k, past |-> past]
    <3>1. [R EXCEPT !.disk = e] = A
      OBVIOUS
    <3>2. [A EXCEPT !.mine = m] = B
      OBVIOUS
    <3>3. [B EXCEPT !.past = past] = C
      OBVIOUS
    <3> HIDE DEF R, A, B, C
    <3>4. [[[R EXCEPT !.disk = e] EXCEPT !.mine = m] EXCEPT !.past = past] = C
      BY <3>1, <3>2, <3>3
    <3> QED
      BY <3>4 DEF C
  <2> QED
    BY <2>2, <2>3 DEF past
<1>2. Did([disk |-> S.disk, mine |-> S.mine, revised |-> S.revised, ok |-> S.ok, past |-> S.past], e, m)
        = [disk |-> e, mine |-> m, revised |-> S.revised, ok |-> S.ok,
           past |-> S.past \cup {[disk |-> S.disk, mine |-> S.mine]}]
  BY <1>1
<1> QED
  BY <1>2 DEF Transaction

(* A transaction with other views of the directory, with other results.    *)
LEMMA HoldIs ==
    ASSUME NEW S, Transaction(S), NEW m
    PROVE  /\ Transaction([S EXCEPT !.mine = m])
           /\ [S EXCEPT !.mine = m].disk = S.disk /\ [S EXCEPT !.mine = m].mine = m
           /\ [S EXCEPT !.mine = m].revised = S.revised /\ [S EXCEPT !.mine = m].ok = S.ok
           /\ [S EXCEPT !.mine = m].past = S.past
<1>1. \A a, b, c, k, q :
        [[disk |-> a, mine |-> b, revised |-> c, ok |-> k, past |-> q] EXCEPT !.mine = m]
          = [disk |-> a, mine |-> m, revised |-> c, ok |-> k, past |-> q]
  OBVIOUS
<1>2. [S EXCEPT !.mine = m]
        = [disk |-> S.disk, mine |-> m, revised |-> S.revised, ok |-> S.ok, past |-> S.past]
  BY <1>1 DEF Transaction
<1> QED
  BY <1>2 DEF Transaction

(* A transaction is working before its first effect.                       *)
LEMMA OpenWorks ==
    ASSUME Directory(disk), NEW p, Coherent(disk, cache[p])
    PROVE  Working(disk, Open(p)) /\ Open(p).disk = disk /\ Open(p).mine = cache[p] /\ ~Open(p).revised
<1>1. Follows(disk, disk)
  BY DEF Follows, Directory
<1> QED
  BY <1>1 DEF Open, Working, Left, Transaction

(* One more effect: what was before it is now among what a failure may     *)
(* leave.                                                                  *)
LEMMA DidWorks ==
    ASSUME NEW d, NEW S, Working(d, S), NEW e, NEW m, Directory(e), Coherent(e, m), Follows(d, e),
           S.revised => d.revision < e.revision
    PROVE  /\ Working(d, Did(S, e, m)) /\ Did(S, e, m).disk = e /\ Did(S, e, m).mine = m
           /\ (Did(S, e, m).revised <=> S.revised) /\ Did(S, e, m).ok = S.ok
<1> DEFINE T == Did(S, e, m)
           past == S.past \cup {[disk |-> S.disk, mine |-> S.mine]}
<1>1. T = [disk |-> e, mine |-> m, revised |-> S.revised, ok |-> S.ok, past |-> past]
  BY DidIs DEF Working
<1>2. \A x \in past : Left(d, x)
  BY DEF Working, Left
<1> HIDE DEF past, T
<1>3. /\ T.disk = e /\ T.mine = m /\ T.revised = S.revised /\ T.ok = S.ok /\ T.past = past
  BY <1>1
<1>4. Transaction(T)
  BY <1>1, <1>3 DEF Transaction
<1>5. Left(d, T)
  BY <1>3 DEF Left
<1>6. Working(d, T)
  BY <1>2, <1>3, <1>4, <1>5 DEF Working
<1> QED
  BY <1>3, <1>6 DEF T

(* A process's view with other contents.                                   *)
LEMMA MineIs ==
    ASSUME NEW m, CacheRecord(m), NEW f, NEW c
    PROVE  [m EXCEPT !.files = f, !.catalog = c] = [revision |-> m.revision, files |-> f, catalog |-> c]
<1> DEFINE R == [revision |-> m.revision, files |-> m.files, catalog |-> m.catalog]
           A == [revision |-> m.revision, files |-> f, catalog |-> m.catalog]
<1>1. [R EXCEPT !.files = f] = A
  OBVIOUS
<1>2. [A EXCEPT !.catalog = c] = [revision |-> m.revision, files |-> f, catalog |-> c]
  OBVIOUS
<1>3. m = R
  BY DEF CacheRecord
<1> HIDE DEF R, A
<1> QED
  BY <1>1, <1>2, <1>3

(* A process's view under another revision.                                *)
LEMMA MineAt ==
    ASSUME NEW m, CacheRecord(m), NEW r
    PROVE  [m EXCEPT !.revision = r] = [revision |-> r, files |-> m.files, catalog |-> m.catalog]
<1> DEFINE R == [revision |-> m.revision, files |-> m.files, catalog |-> m.catalog]
<1>1. [R EXCEPT !.revision = r] = [revision |-> r, files |-> m.files, catalog |-> m.catalog]
  OBVIOUS
<1>2. m = R
  BY DEF CacheRecord
<1> HIDE DEF R
<1> QED
  BY <1>1, <1>2

(* A directory under another revision.                                     *)
LEMMA RevisionIs ==
    ASSUME NEW d, Directory(d), NEW r, r \in Nat
    PROVE  /\ Directory([d EXCEPT !.revision = r]) /\ [d EXCEPT !.revision = r].revision = r
           /\ [d EXCEPT !.revision = r].records = d.records /\ [d EXCEPT !.revision = r].index = d.index
           /\ [d EXCEPT !.revision = r].catalogs = d.catalogs
           /\ View([d EXCEPT !.revision = r]) = View(d)
<1> DEFINE R == [revision |-> d.revision, records |-> d.records, index |-> d.index, pressure |-> d.pressure,
                 old |-> d.old, swept |-> d.swept, catalogs |-> d.catalogs]
           e == [revision |-> r, records |-> d.records, index |-> d.index, pressure |-> d.pressure,
                 old |-> d.old, swept |-> d.swept, catalogs |-> d.catalogs]
<1>1. [R EXCEPT !.revision = r] = e
  OBVIOUS
<1>2. d = R
  BY DEF Directory
<1>3. Directory(e) /\ e.revision = r /\ e.records = d.records /\ e.index = d.index /\ e.catalogs = d.catalogs
  BY DEF Directory
<1> HIDE DEF R, e
<1>4. [d EXCEPT !.revision = r] = e
  BY <1>1, <1>2
<1>5. View(e) = View(d)
  BY <1>3, SameView
<1> QED
  BY <1>3, <1>4, <1>5

(* A directory with another request for space.                            *)
LEMMA PressureIs ==
    ASSUME NEW d, Directory(d), NEW x
    PROVE  /\ Directory([d EXCEPT !.pressure = x])
           /\ [d EXCEPT !.pressure = x].revision = d.revision
           /\ [d EXCEPT !.pressure = x].records = d.records
           /\ [d EXCEPT !.pressure = x].index = d.index
           /\ [d EXCEPT !.pressure = x].catalogs = d.catalogs
<1> DEFINE R == [revision |-> d.revision, records |-> d.records, index |-> d.index, pressure |-> d.pressure,
                 old |-> d.old, swept |-> d.swept, catalogs |-> d.catalogs]
           e == [revision |-> d.revision, records |-> d.records, index |-> d.index, pressure |-> x,
                 old |-> d.old, swept |-> d.swept, catalogs |-> d.catalogs]
<1>1. [R EXCEPT !.pressure = x] = e
  OBVIOUS
<1>2. d = R
  BY DEF Directory
<1>3. Directory(e) /\ e.revision = d.revision /\ e.records = d.records /\ e.index = d.index /\ e.catalogs = d.catalogs
  BY DEF Directory
<1> HIDE DEF R, e
<1>4. [d EXCEPT !.pressure = x] = e
  BY <1>1, <1>2
<1> QED
  BY <1>3, <1>4

(* A directory that was swept.                                             *)
LEMMA SweptIs ==
    ASSUME NEW d, Directory(d), NEW x
    PROVE  /\ Directory([d EXCEPT !.swept = x])
           /\ [d EXCEPT !.swept = x].revision = d.revision
           /\ [d EXCEPT !.swept = x].records = d.records
           /\ [d EXCEPT !.swept = x].index = d.index
           /\ [d EXCEPT !.swept = x].catalogs = d.catalogs
<1> DEFINE R == [revision |-> d.revision, records |-> d.records, index |-> d.index, pressure |-> d.pressure,
                 old |-> d.old, swept |-> d.swept, catalogs |-> d.catalogs]
           e == [revision |-> d.revision, records |-> d.records, index |-> d.index, pressure |-> d.pressure,
                 old |-> d.old, swept |-> x, catalogs |-> d.catalogs]
<1>1. [R EXCEPT !.swept = x] = e
  OBVIOUS
<1>2. d = R
  BY DEF Directory
<1>3. Directory(e) /\ e.revision = d.revision /\ e.records = d.records /\ e.index = d.index /\ e.catalogs = d.catalogs
  BY DEF Directory
<1> HIDE DEF R, e
<1>4. [d EXCEPT !.swept = x] = e
  BY <1>1, <1>2
<1> QED
  BY <1>3, <1>4

(* A directory whose files were used, or not, for a while.                 *)
LEMMA OldIs ==
    ASSUME NEW d, Directory(d), NEW x
    PROVE  /\ Directory([d EXCEPT !.old = x])
           /\ [d EXCEPT !.old = x].revision = d.revision
           /\ [d EXCEPT !.old = x].records = d.records
           /\ [d EXCEPT !.old = x].index = d.index
           /\ [d EXCEPT !.old = x].catalogs = d.catalogs
<1> DEFINE R == [revision |-> d.revision, records |-> d.records, index |-> d.index, pressure |-> d.pressure,
                 old |-> d.old, swept |-> d.swept, catalogs |-> d.catalogs]
           e == [revision |-> d.revision, records |-> d.records, index |-> d.index, pressure |-> d.pressure,
                 old |-> x, swept |-> d.swept, catalogs |-> d.catalogs]
<1>1. [R EXCEPT !.old = x] = e
  OBVIOUS
<1>2. d = R
  BY DEF Directory
<1>3. Directory(e) /\ e.revision = d.revision /\ e.records = d.records /\ e.index = d.index /\ e.catalogs = d.catalogs
  BY DEF Directory
<1> HIDE DEF R, e
<1>4. [d EXCEPT !.old = x] = e
  BY <1>1, <1>2
<1> QED
  BY <1>3, <1>4

(* A directory with another change index.                                  *)
LEMMA IndexIs ==
    ASSUME NEW d, Directory(d), NEW x
    PROVE  /\ Directory([d EXCEPT !.index = x])
           /\ [d EXCEPT !.index = x].revision = d.revision
           /\ [d EXCEPT !.index = x].records = d.records
           /\ [d EXCEPT !.index = x].index = x
           /\ [d EXCEPT !.index = x].catalogs = d.catalogs
<1> DEFINE R == [revision |-> d.revision, records |-> d.records, index |-> d.index, pressure |-> d.pressure,
                 old |-> d.old, swept |-> d.swept, catalogs |-> d.catalogs]
           e == [revision |-> d.revision, records |-> d.records, index |-> x, pressure |-> d.pressure,
                 old |-> d.old, swept |-> d.swept, catalogs |-> d.catalogs]
<1>1. [R EXCEPT !.index = x] = e
  OBVIOUS
<1>2. d = R
  BY DEF Directory
<1>3. Directory(e) /\ e.revision = d.revision /\ e.records = d.records /\ e.index = x /\ e.catalogs = d.catalogs
  BY DEF Directory
<1> HIDE DEF R, e
<1>4. [d EXCEPT !.index = x] = e
  BY <1>1, <1>2
<1> QED
  BY <1>3, <1>4

(* A directory with other records.                                         *)
LEMMA RecordsIs ==
    ASSUME NEW d, Directory(d), NEW x
    PROVE  /\ Directory([d EXCEPT !.records = x])
           /\ [d EXCEPT !.records = x].revision = d.revision
           /\ [d EXCEPT !.records = x].records = x
           /\ [d EXCEPT !.records = x].index = d.index
           /\ [d EXCEPT !.records = x].catalogs = d.catalogs
<1> DEFINE R == [revision |-> d.revision, records |-> d.records, index |-> d.index, pressure |-> d.pressure,
                 old |-> d.old, swept |-> d.swept, catalogs |-> d.catalogs]
           e == [revision |-> d.revision, records |-> x, index |-> d.index, pressure |-> d.pressure,
                 old |-> d.old, swept |-> d.swept, catalogs |-> d.catalogs]
<1>1. [R EXCEPT !.records = x] = e
  OBVIOUS
<1>2. d = R
  BY DEF Directory
<1>3. Directory(e) /\ e.revision = d.revision /\ e.records = x /\ e.index = d.index /\ e.catalogs = d.catalogs
  BY DEF Directory
<1> HIDE DEF R, e
<1>4. [d EXCEPT !.records = x] = e
  BY <1>1, <1>2
<1> QED
  BY <1>3, <1>4

(* A directory in which a session owns other files.                        *)
Owning(d, t, v, x) == [d EXCEPT !.catalogs[t] = v, !.old = x]

(* What has changed of it, by name.                                        *)
LEMMA OwningIs ==
    ASSUME NEW d, Directory(d), NEW t \in Thread, NEW v, NEW x
    PROVE  /\ Directory(Owning(d, t, v, x)) /\ Owning(d, t, v, x).revision = d.revision
           /\ Owning(d, t, v, x).records = d.records /\ Owning(d, t, v, x).index = d.index
           /\ \A u \in Thread : Owning(d, t, v, x).catalogs[u] = IF u = t THEN v ELSE d.catalogs[u]
<1> DEFINE Of(c, o) == [revision |-> d.revision, records |-> d.records, index |-> d.index,
                        pressure |-> d.pressure, old |-> o, swept |-> d.swept, catalogs |-> c]
           c == [d.catalogs EXCEPT ![t] = v]
           R == Of(d.catalogs, d.old)
           A == Of(c, d.old)
           e == Of(c, x)
<1>1. [R EXCEPT !.catalogs[t] = v] = A
  OBVIOUS
<1>2. [A EXCEPT !.old = x] = e
  OBVIOUS
<1>3. d = R
  BY DEF Directory
<1>4. c = [u \in Thread |-> c[u]] /\ \A u \in Thread : c[u] = IF u = t THEN v ELSE d.catalogs[u]
  BY DEF Directory
<1> HIDE DEF c
<1>5. /\ Directory(e) /\ e.revision = d.revision /\ e.records = d.records /\ e.index = d.index
      /\ e.catalogs = c
  BY <1>4 DEF Directory
<1> HIDE DEF R, A, e
<1>6. [d EXCEPT !.catalogs[t] = v, !.old = x] = e
  BY <1>1, <1>2, <1>3
<1> QED
  BY <1>4, <1>5, <1>6 DEF Owning

(* Nothing is cached: no directory under a later revision contradicts it.  *)
Bare(m) == CacheRecord(m) /\ m.revision \in Nat /\ m.files = {} /\ m.catalog = {}

(* Who caches nothing is coherent with any later directory.               *)
LEMMA BareCoherent ==
    ASSUME NEW d, NEW m, Bare(m), m.revision <= d.revision
    PROVE  Coherent(d, m)
BY DEF Bare, Coherent

(* A transaction that has advanced the revision and dropped its views.     *)
Advanced(d, S, A) ==
    /\ Working(d, A) /\ A.revised /\ Bare(A.mine) /\ A.ok = S.ok
    /\ A.disk.revision \in Nat /\ d.revision < A.disk.revision /\ S.disk.revision <= A.disk.revision
    /\ A.disk = [S.disk EXCEPT !.revision = A.disk.revision]
    /\ (S.mine.revision = S.disk.revision => A.mine.revision = A.disk.revision)

(* The revision advances before any effect, once (invalidate).             *)
LEMMA AdvanceWorks ==
    ASSUME NEW d, Directory(d), NEW S, Working(d, S)
    PROVE  Advanced(d, S, AdvanceRevision(S))
<1> DEFINE bare == [S.mine EXCEPT !.files = {}, !.catalog = {}]
           dropped == Did(S, S.disk, bare)
           next == S.disk.revision + 1
           e == [S.disk EXCEPT !.revision = next]
           m == [dropped.mine EXCEPT !.revision = next]
           moved == Did(dropped, e, m)
           A == [moved EXCEPT !.revised = TRUE]
<1>1. /\ Directory(S.disk) /\ Coherent(S.disk, S.mine) /\ Follows(d, S.disk) /\ S.revised \in BOOLEAN
      /\ CacheRecord(S.mine) /\ S.mine.revision \in Nat /\ S.mine.revision <= S.disk.revision
      /\ S.disk.revision \in Nat /\ d.revision \in Nat /\ d.revision <= S.disk.revision
  BY DEF Working, Left, Coherent, Directory, Follows
<1>2. bare = [revision |-> S.mine.revision, files |-> {}, catalog |-> {}]
  BY <1>1, MineIs
<1> HIDE DEF bare
<1>3. Bare(bare) /\ bare.revision = S.mine.revision
  BY <1>1, <1>2 DEF Bare, CacheRecord
<1>4. /\ Working(d, dropped) /\ dropped.disk = S.disk /\ dropped.mine = bare
      /\ (dropped.revised <=> S.revised) /\ dropped.ok = S.ok
  <2>1. Coherent(S.disk, bare) /\ (S.revised => d.revision < S.disk.revision)
    BY <1>1, <1>3, BareCoherent DEF Working
  <2> QED
    BY <1>1, <2>1, DidWorks
<1> HIDE DEF dropped
<1>5. CASE S.revised
  <2>1. AdvanceRevision(S) = dropped
    BY <1>5 DEF AdvanceRevision, dropped, bare
  <2>2. d.revision < S.disk.revision
    BY <1>5 DEF Working
  <2>3. S.disk = [S.disk EXCEPT !.revision = S.disk.revision] /\ S.disk.revision <= S.disk.revision
    BY <1>1 DEF Directory
  <2> QED
    BY <1>1, <1>3, <1>4, <1>5, <2>1, <2>2, <2>3 DEF Advanced
<1>6. CASE ~S.revised
  <2>1. next \in Nat /\ d.revision < next /\ S.disk.revision <= next
    BY <1>1
  <2> HIDE DEF next
  <2>2. Directory(e) /\ e.revision = next
    BY <1>1, <2>1, RevisionIs
  <2>3. m = [revision |-> next, files |-> {}, catalog |-> {}]
    BY <1>3, <1>4, MineAt DEF Bare
  <2> HIDE DEF e, m
  <2>4. Bare(m) /\ m.revision = next
    BY <2>1, <2>3 DEF Bare, CacheRecord
  <2>5. Coherent(e, m) /\ Follows(d, e)
    BY <1>1, <2>1, <2>2, <2>4, BareCoherent DEF Follows
  <2>6. /\ Working(d, moved) /\ moved.disk = e /\ moved.mine = m /\ moved.ok = S.ok
    BY <1>4, <1>6, <2>2, <2>5, DidWorks
  <2>7. AdvanceRevision(S) = A
    BY <1>6 DEF AdvanceRevision, A, moved, e, m, next, dropped, bare
  <2> HIDE DEF moved
  <2>8. A = [disk |-> e, mine |-> m, revised |-> TRUE, ok |-> S.ok, past |-> moved.past]
    <3>1. \A a, b, c, k, q, v :
            [[disk |-> a, mine |-> b, revised |-> c, ok |-> k, past |-> q] EXCEPT !.revised = v]
              = [disk |-> a, mine |-> b, revised |-> v, ok |-> k, past |-> q]
      OBVIOUS
    <3>2. moved = [disk |-> e, mine |-> m, revised |-> moved.revised, ok |-> S.ok, past |-> moved.past]
      BY <2>6 DEF Working, Transaction
    <3> DEFINE yes == TRUE
    <3> HIDE DEF yes
    <3>3. [moved EXCEPT !.revised = yes]
            = [disk |-> e, mine |-> m, revised |-> yes, ok |-> S.ok, past |-> moved.past]
      BY <3>1, <3>2
    <3> QED
      BY <3>3, Zenon DEF yes
  <2> HIDE DEF A
  <2>9. /\ A.disk = e /\ A.mine = m /\ A.revised = TRUE /\ A.past = moved.past /\ A.ok = S.ok
        /\ Transaction(A)
    BY <2>8 DEF Transaction
  <2>10. Working(d, A)
    BY <2>1, <2>2, <2>4, <2>5, <2>6, <2>9 DEF Working, Left
  <2>11. A.disk = [S.disk EXCEPT !.revision = A.disk.revision]
    BY <2>2, <2>9 DEF e
  <2>12. Advanced(d, S, A)
    BY <1>1, <2>1, <2>2, <2>4, <2>9, <2>10, <2>11 DEF Advanced
  <2> QED
    BY <2>7, <2>12
<1> QED
  BY <1>1, <1>5, <1>6


(* Directories that differ in one file only.                               *)
Apart(d, e, name) ==
    /\ \A n \in Name : n # name => View(e)[n] = View(d)[n]
    /\ \A t \in Thread : t # name => e.catalogs[t] = d.catalogs[t]

(* What is left of a transaction that has made directory e of its own.     *)
Wrote(d, S, e, T) ==
    /\ Working(d, T) /\ T.ok = S.ok /\ (S.revised => T.revised) /\ T.disk.catalogs = e.catalogs
    /\ Bare(S.mine) => Bare(T.mine)

(* The view of sizes that is carried over is the new directory's.          *)
LEMMA CarriedView ==
    ASSUME NEW d, NEW e, NEW name, Apart(d, e, name)
    PROVE  [n \in Name |-> IF n = name THEN View(e)[n] ELSE View(d)[n]] = View(e)
<1>1. View(e) = [n \in Name |-> View(e)[n]]
  BY ViewIs
<1>2. \A n \in Name : (IF n = name THEN View(e)[n] ELSE View(d)[n]) = View(e)[n]
  BY DEF Apart
<1>3. [n \in Name |-> IF n = name THEN View(e)[n] ELSE View(d)[n]] = [n \in Name |-> View(e)[n]]
  BY <1>2
<1> QED
  BY <1>1, <1>3

(* Write keeps the caches coherent: what it carries over of them does not  *)
(* depend on the file it replaces.                                         *)
LEMMA WriteWorks ==
    ASSUME NEW d, Directory(d), NEW S, Working(d, S), NEW name, NEW e, Directory(e), Apart(S.disk, e, name)
    PROVE  Wrote(d, S, e, Write(S, name, e)) /\ Write(S, name, e).revised
<1> DEFINE A == AdvanceRevision(S)
           files == IF S.mine.revision # S.disk.revision THEN {}
                    ELSE {[n \in Name |-> IF n = name THEN View(e)[n] ELSE sizes[n]] : sizes \in S.mine.files}
           kept == {c \in S.mine.catalog : c.thread # name /\ c.revision = S.disk.revision}
           moved == {[c EXCEPT !.revision = A.mine.revision] : c \in kept}
           e1 == [e EXCEPT !.revision = A.disk.revision]
           m == [A.mine EXCEPT !.files = files, !.catalog = moved]
           T == Did(A, e1, m)
<1>1. Write(S, name, e) = T
  BY DEF Write
<1>2. Advanced(d, S, A)
  BY AdvanceWorks
<1> HIDE DEF A
<1>3. /\ Coherent(S.disk, S.mine)
      /\ Working(d, A) /\ A.revised /\ Bare(A.mine) /\ A.ok = S.ok /\ CacheRecord(A.mine)
      /\ A.disk.revision \in Nat /\ d.revision < A.disk.revision
      /\ A.mine.revision \in Nat /\ A.mine.revision <= A.disk.revision
  BY <1>2 DEF Advanced, Working, Left, Coherent
<1>4. /\ Directory(e1) /\ e1.revision = A.disk.revision /\ e1.catalogs = e.catalogs /\ View(e1) = View(e)
  BY <1>3, RevisionIs
<1> HIDE DEF e1
<1>5. files \subseteq {View(e)}
  <2>1. CASE S.mine.revision # S.disk.revision
    BY <2>1
  <2>2. CASE S.mine.revision = S.disk.revision
    <3>1. S.mine.files \subseteq {View(S.disk)}
      BY <1>3, <2>2 DEF Coherent
    <3>2. [n \in Name |-> IF n = name THEN View(e)[n] ELSE View(S.disk)[n]] = View(e)
      BY CarriedView
    <3> QED
      BY <2>2, <3>1, <3>2
  <2> QED
    BY <2>1, <2>2
<1>6. ASSUME NEW c \in moved
      PROVE  /\ CatalogRecord(c) /\ c.thread \in Thread /\ c.revision = A.mine.revision
             /\ c.value = e.catalogs[c.thread]
  <2>1. PICK k \in kept : c = [k EXCEPT !.revision = A.mine.revision]
    OBVIOUS
  <2>2. /\ CatalogRecord(k) /\ k.thread \in Thread /\ k.thread # name
        /\ k.value = S.disk.catalogs[k.thread]
    BY <1>3 DEF Coherent
  <2>3. c = [thread |-> k.thread, revision |-> A.mine.revision, value |-> k.value]
    <3>1. \A a, b, v, r : [[thread |-> a, revision |-> b, value |-> v] EXCEPT !.revision = r]
                            = [thread |-> a, revision |-> r, value |-> v]
      OBVIOUS
    <3> QED
      BY <2>1, <2>2, <3>1 DEF CatalogRecord
  <2>4. k.value = e.catalogs[k.thread]
    BY <2>2 DEF Apart
  <2> QED
    BY <2>2, <2>3, <2>4 DEF CatalogRecord
<1>7. Bare(S.mine) => files = {} /\ moved = {}
  BY DEF Bare
<1> HIDE DEF files, kept, moved
<1>8. m = [revision |-> A.mine.revision, files |-> files, catalog |-> moved]
  BY <1>3, MineIs
<1> HIDE DEF m
<1>9. m.revision = A.mine.revision /\ m.files = files /\ m.catalog = moved /\ CacheRecord(m)
  BY <1>8 DEF CacheRecord
<1>10. Coherent(e1, m)
  BY <1>3, <1>4, <1>5, <1>6, <1>9 DEF Coherent
<1>11. Follows(d, e1)
  BY <1>3, <1>4 DEF Follows, Directory
<1>12. Working(d, T) /\ T.disk = e1 /\ T.mine = m /\ T.revised /\ T.ok = A.ok
  <2>1. Working(d, A) /\ Directory(e1) /\ d.revision < e1.revision /\ A.revised
    BY <1>3, <1>4
  <2> QED
    BY <2>1, <1>10, <1>11, DidWorks
<1>13. Bare(S.mine) => Bare(m)
  BY <1>3, <1>7, <1>9 DEF Bare
<1> HIDE DEF T
<1>14. Wrote(d, S, e, T) /\ T.revised
  BY <1>3, <1>4, <1>12, <1>13 DEF Wrote
<1> QED
  BY <1>1, <1>14

(* Nothing is written where nothing changes.                               *)
LEMMA PutWorks ==
    ASSUME NEW d, Directory(d), NEW S, Working(d, S), NEW name, NEW e, Directory(e), Apart(S.disk, e, name)
    PROVE  Wrote(d, S, e, Put(S, name, e))
BY WriteWorks DEF Put, Wrote


(* Views replaced in place.                                                *)
LEMMA CatalogIs ==
    ASSUME NEW S, Transaction(S), CacheRecord(S.mine), NEW c
    PROVE  [S EXCEPT !.mine.catalog = c]
             = [S EXCEPT !.mine = [revision |-> S.mine.revision, files |-> S.mine.files, catalog |-> c]]
<1>1. \A a, r, f, b, g, k, q :
        [[disk |-> a, mine |-> [revision |-> r, files |-> f, catalog |-> b], revised |-> g, ok |-> k, past |-> q]
            EXCEPT !.mine.catalog = c]
          = [disk |-> a, mine |-> [revision |-> r, files |-> f, catalog |-> c], revised |-> g, ok |-> k, past |-> q]
  OBVIOUS
<1>2. \A a, b, g, k, q, m :
        [[disk |-> a, mine |-> b, revised |-> g, ok |-> k, past |-> q] EXCEPT !.mine = m]
          = [disk |-> a, mine |-> m, revised |-> g, ok |-> k, past |-> q]
  OBVIOUS
<1>3. S = [disk |-> S.disk, mine |-> [revision |-> S.mine.revision, files |-> S.mine.files,
                                       catalog |-> S.mine.catalog],
           revised |-> S.revised, ok |-> S.ok, past |-> S.past]
  BY DEF Transaction, CacheRecord
<1> QED
  BY <1>1, <1>2, <1>3

(* Sizes replaced in place.                                                *)
LEMMA FilesAre ==
    ASSUME NEW S, Transaction(S), CacheRecord(S.mine), NEW r, NEW f
    PROVE  [S EXCEPT !.mine.revision = r, !.mine.files = f]
             = [S EXCEPT !.mine = [revision |-> r, files |-> f, catalog |-> S.mine.catalog]]
<1> DEFINE Of(x, y) == [disk |-> S.disk, mine |-> [revision |-> x, files |-> y, catalog |-> S.mine.catalog],
                        revised |-> S.revised, ok |-> S.ok, past |-> S.past]
           A == Of(S.mine.revision, S.mine.files)
           B == Of(r, S.mine.files)
           C == Of(r, f)
           m == [revision |-> r, files |-> f, catalog |-> S.mine.catalog]
<1>1. [A EXCEPT !.mine.revision = r] = B
  OBVIOUS
<1>2. [B EXCEPT !.mine.files = f] = C
  OBVIOUS
<1>3. [A EXCEPT !.mine = m] = C
  OBVIOUS
<1>4. S = A
  BY DEF Transaction, CacheRecord
<1> HIDE DEF A, B, C, m
<1>5. [S EXCEPT !.mine.revision = r, !.mine.files = f] = C
  BY <1>1, <1>2, <1>4
<1>6. [S EXCEPT !.mine = m] = C
  BY <1>3, <1>4
<1> QED
  BY <1>5, <1>6 DEF m

(* Other views that are of the directory.                                  *)
LEMMA HoldWorks ==
    ASSUME NEW d, NEW S, Working(d, S), NEW m, Coherent(S.disk, m)
    PROVE  Working(d, [S EXCEPT !.mine = m])
<1> DEFINE T == [S EXCEPT !.mine = m]
<1>1. /\ Transaction(T) /\ T.disk = S.disk /\ T.mine = m /\ T.revised = S.revised /\ T.past = S.past
  BY HoldIs DEF Working
<1> HIDE DEF T
<1>2. Working(d, T)
  BY <1>1 DEF Working, Left
<1> QED
  BY <1>2 DEF T

(* A process reads the sizes of the directory as it is (FileSizes).        *)
LEMMA SizesWork ==
    ASSUME NEW d, Directory(d), NEW S, Working(d, S)
    PROVE  /\ Working(d, FileSizes(S)) /\ FileSizes(S).disk = S.disk /\ FileSizes(S).ok = S.ok
<1>1. /\ Transaction(S) /\ Coherent(S.disk, S.mine) /\ CacheRecord(S.mine) /\ S.disk.revision \in Nat
  BY DEF Working, Left, Coherent, Directory
<1> DEFINE m == [revision |-> S.disk.revision, files |-> {View(S.disk)}, catalog |-> S.mine.catalog]
<1>2. m.revision = S.disk.revision /\ m.files = {View(S.disk)} /\ m.catalog = S.mine.catalog /\ CacheRecord(m)
  BY DEF CacheRecord
<1>3. [S EXCEPT !.mine.revision = S.disk.revision, !.mine.files = {View(S.disk)}] = [S EXCEPT !.mine = m]
  BY <1>1, FilesAre
<1> HIDE DEF m
<1>4. Coherent(S.disk, m)
  BY <1>1, <1>2 DEF Coherent
<1>5. Working(d, [S EXCEPT !.mine = m])
  BY <1>4, HoldWorks
<1>6. [S EXCEPT !.mine = m].disk = S.disk /\ [S EXCEPT !.mine = m].ok = S.ok
  BY <1>1, HoldIs
<1> QED
  BY <1>3, <1>5, <1>6 DEF FileSizes

(* A refused transaction has done what it did.                             *)
LEMMA RefusedWorks ==
    ASSUME NEW d, NEW S, Working(d, S)
    PROVE  Working(d, [S EXCEPT !.ok = FALSE]) /\ ~[S EXCEPT !.ok = FALSE].ok
<1> DEFINE no == FALSE
           T == [S EXCEPT !.ok = no]
<1> HIDE DEF no
<1>1. \A a, b, c, k, q, v :
        [[disk |-> a, mine |-> b, revised |-> c, ok |-> k, past |-> q] EXCEPT !.ok = v]
          = [disk |-> a, mine |-> b, revised |-> c, ok |-> v, past |-> q]
  OBVIOUS
<1>2. T = [disk |-> S.disk, mine |-> S.mine, revised |-> S.revised, ok |-> no, past |-> S.past]
  BY <1>1 DEF Working, Transaction
<1> HIDE DEF T
<1>3. /\ T.disk = S.disk /\ T.mine = S.mine /\ T.revised = S.revised /\ T.ok = no /\ T.past = S.past
      /\ Transaction(T)
  BY <1>2 DEF Transaction
<1>4. Working(d, T)
  BY <1>3 DEF Working, Left
<1>5. ~T.ok
  BY <1>3 DEF no
<1> QED
  BY <1>4, <1>5, Zenon DEF T, no

(* Admission leaves at most a request for space.                           *)
LEMMA AdmitWorks ==
    ASSUME NEW d, Directory(d), NEW S, Working(d, S), NEW name, NEW size
    PROVE  Working(d, Admit(S, name, size))
<1> DEFINE L == FileSizes(S)
           sizes == CHOOSE v \in L.mine.files : TRUE
           growth == IF size > sizes[name] THEN size - sizes[name] ELSE 0
           e == [L.disk EXCEPT !.pressure = {growth}]
           full == IF size > Capacity THEN L ELSE Put(L, "pressure", e)
<1>1. Admit(S, name, size)
        = IF Usage(sizes) - sizes[name] + size <= Capacity THEN L ELSE [full EXCEPT !.ok = FALSE]
  BY DEF Admit
<1>2. Working(d, L) /\ Directory(L.disk)
  BY SizesWork DEF Working, Left
<1> HIDE DEF L, sizes, growth
<1>3. Directory(e) /\ e.records = L.disk.records /\ e.index = L.disk.index /\ e.catalogs = L.disk.catalogs
  BY <1>2, PressureIs
<1> HIDE DEF e
<1>4. Apart(L.disk, e, "pressure")
  BY <1>3, SameView DEF Apart
<1>5. Working(d, full)
  BY <1>2, <1>3, <1>4, PutWorks DEF Wrote
<1> HIDE DEF full
<1> QED
  BY <1>1, <1>2, <1>5, RefusedWorks


(* A session's catalog is cached as the directory holds it.                *)
LEMMA CachedWorks ==
    ASSUME NEW d, NEW T, Working(d, T), NEW t \in Thread, NEW v, v = T.disk.catalogs[t]
    PROVE  LET U == [T EXCEPT !.mine.catalog = {[thread |-> t, revision |-> T.disk.revision, value |-> v]}]
           IN  Working(d, U) /\ U.disk = T.disk /\ U.ok = T.ok
<1> DEFINE c == [thread |-> t, revision |-> T.disk.revision, value |-> v]
           m == [revision |-> T.mine.revision, files |-> T.mine.files, catalog |-> {c}]
<1>1. /\ Transaction(T) /\ Coherent(T.disk, T.mine) /\ CacheRecord(T.mine) /\ T.disk.revision \in Nat
  BY DEF Working, Left, Coherent, Directory
<1>2. CatalogRecord(c) /\ c.thread = t /\ c.revision = T.disk.revision /\ c.value = v
  BY DEF CatalogRecord
<1> HIDE DEF c
<1>3. /\ CacheRecord(m) /\ m.revision = T.mine.revision /\ m.files = T.mine.files /\ m.catalog = {c}
  BY DEF CacheRecord
<1>4. [T EXCEPT !.mine.catalog = {c}] = [T EXCEPT !.mine = m]
  BY <1>1, CatalogIs
<1> HIDE DEF m
<1>5. Coherent(T.disk, m)
  BY <1>1, <1>2, <1>3 DEF Coherent
<1>6. /\ Working(d, [T EXCEPT !.mine = m]) /\ [T EXCEPT !.mine = m].disk = T.disk
      /\ [T EXCEPT !.mine = m].ok = T.ok
  BY <1>1, <1>5, HoldWorks, HoldIs
<1> QED
  BY <1>4, <1>6 DEF c

(* Nothing is cached of catalogs.                                          *)
LEMMA UncachedWorks ==
    ASSUME NEW d, NEW T, Working(d, T)
    PROVE  LET U == [T EXCEPT !.mine.catalog = {}]
           IN  Working(d, U) /\ U.disk = T.disk /\ U.ok = T.ok
<1> DEFINE m == [revision |-> T.mine.revision, files |-> T.mine.files, catalog |-> {}]
<1>1. /\ Transaction(T) /\ Coherent(T.disk, T.mine) /\ CacheRecord(T.mine)
  BY DEF Working, Left, Coherent
<1>2. /\ CacheRecord(m) /\ m.revision = T.mine.revision /\ m.files = T.mine.files /\ m.catalog = {}
  BY DEF CacheRecord
<1>3. [T EXCEPT !.mine.catalog = {}] = [T EXCEPT !.mine = m]
  BY <1>1, CatalogIs
<1> HIDE DEF m
<1>4. Coherent(T.disk, m)
  BY <1>1, <1>2 DEF Coherent
<1>5. /\ Working(d, [T EXCEPT !.mine = m]) /\ [T EXCEPT !.mine = m].disk = T.disk
      /\ [T EXCEPT !.mine = m].ok = T.ok
  BY <1>1, <1>4, HoldWorks, HoldIs
<1> QED
  BY <1>3, <1>5

(* A catalog that is rewritten is one file.                                *)
LEMMA CatalogApart ==
    ASSUME NEW d, Directory(d), NEW t \in Thread, NEW v, NEW x
    PROVE  Apart(d, Owning(d, t, v, x), t)
<1> DEFINE e == Owning(d, t, v, x)
<1>1. /\ e.records = d.records /\ e.index = d.index
      /\ \A u \in Thread : u # t => e.catalogs[u] = d.catalogs[u]
  BY OwningIs
<1> HIDE DEF e
<1>2. \A n \in Name : n # t => View(e)[n] = View(d)[n]
  BY <1>1, ViewIs
<1>3. Apart(d, e, t)
  BY <1>1, <1>2 DEF Apart
<1> QED
  BY <1>3 DEF e

(* So is a record that is stored.                                          *)
LEMMA RecordApart ==
    ASSUME NEW d, Directory(d), NEW r \in Record, NEW x
    PROVE  LET e == [d EXCEPT !.records = @ \cup {r}, !.old = x]
           IN  Directory(e) /\ Apart(d, e, r)
<1> DEFINE y == d.records \cup {r}
           a == [d EXCEPT !.records = y]
           e == [a EXCEPT !.old = x]
<1> HIDE DEF y
<1>1. Directory(a) /\ a.records = y /\ a.index = d.index /\ a.catalogs = d.catalogs
  BY RecordsIs
<1> HIDE DEF a
<1>2. Directory(e) /\ e.records = y /\ e.index = d.index /\ e.catalogs = d.catalogs
  BY <1>1, OldIs
<1> HIDE DEF e
<1>3. \A n \in Name : n # r => View(e)[n] = View(d)[n]
  BY <1>2, ViewIs DEF y
<1>4. Directory(e) /\ Apart(d, e, r)
  BY <1>2, <1>3 DEF Apart
<1> QED
  BY <1>4 DEF e, a, y

(* What a session owns is rewritten from the cached catalog, which is the  *)
(* directory's.                                                            *)
LEMMA RetainWorks ==
    ASSUME NEW d, Directory(d), NEW S, Working(d, S), NEW t \in Thread, NEW names, NEW noted
    PROVE  Working(d, Retain(S, t, names, noted))
<1> DEFINE cached == {c \in S.mine.catalog : c.thread = t /\ c.revision = S.disk.revision}
           value == IF cached = {} THEN S.disk.catalogs[t] ELSE (CHOOSE c \in cached : TRUE).value
           wanted == names \cup UNION {Deps[r] : r \in names \cap S.disk.records}
           next == [exists |-> TRUE, files |-> value.files \cup wanted]
           Cached(T, v) == [T EXCEPT !.mine.catalog =
                              {[thread |-> t, revision |-> T.disk.revision, value |-> v]}]
           L == IF value.exists THEN Cached(S, value) ELSE [S EXCEPT !.mine.catalog = {}]
           A == IF names = {} THEN L ELSE Admit(L, t, CatalogSize(next))
           W == Write(A, t, [A.disk EXCEPT !.catalogs[t] = next, !.old = @ \ {t}])
<1>1. Retain(S, t, names, noted)
        = IF next = value /\ t \notin S.disk.old /\ ~noted THEN L
          ELSE IF ~A.ok THEN A ELSE Cached(W, next)
  BY DEF Retain
<1>2. value = S.disk.catalogs[t]
  <2>1. \A c \in cached : c.value = S.disk.catalogs[t]
    BY DEF Working, Left, Coherent
  <2> HIDE DEF cached
  <2> QED
    BY <2>1
<1> HIDE DEF value, next
<1>3. Working(d, L)
  <2>1. Working(d, Cached(S, value))
    BY <1>2, CachedWorks
  <2>2. Working(d, [S EXCEPT !.mine.catalog = {}])
    BY UncachedWorks
  <2> QED
    BY <2>1, <2>2
<1> HIDE DEF L
<1>4. Working(d, A) /\ Directory(A.disk)
  <2>1. Working(d, A)
    BY <1>3, AdmitWorks
  <2> QED
    BY <2>1 DEF Working, Left
<1> HIDE DEF A
<1> DEFINE e == Owning(A.disk, t, next, A.disk.old \ {t})
<1>5. Directory(e) /\ Apart(A.disk, e, t) /\ e.catalogs[t] = next
  BY <1>4, CatalogApart, OwningIs
<1>6. W = Write(A, t, e)
  BY Zenon DEF Owning
<1> HIDE DEF e, W
<1>7. Working(d, W) /\ W.disk.catalogs[t] = next
  BY <1>4, <1>5, <1>6, WriteWorks DEF Wrote
<1>8. Working(d, Cached(W, next))
  BY <1>7, CachedWorks
<1> HIDE DEF Cached
<1> QED
  BY <1>1, <1>3, <1>4, <1>8

(* A record goes out behind its ownership.                                 *)
LEMMA PublishRecordWorks ==
    ASSUME NEW d, Directory(d), NEW S, Working(d, S), NEW t \in Thread, NEW r \in Record, NEW noted
    PROVE  Working(d, PublishRecord(S, t, r, noted))
<1> DEFINE R == Retain(S, t, {r}, noted)
           A == Admit(R, r, 1)
           e == [A.disk EXCEPT !.records = @ \cup {r}, !.old = A.disk.old \ {r}]
           W == Write(A, r, [A.disk EXCEPT !.records = @ \cup {r}, !.old = @ \ {r}])
<1>1. Working(d, R)
  BY RetainWorks
<1>2. PublishRecord(S, t, r, noted)
        = IF ~R.ok THEN R ELSE IF ~A.ok THEN A ELSE W
  BY DEF PublishRecord
<1> HIDE DEF R
<1>3. Working(d, A)
  BY <1>1, AdmitWorks
<1>4. Directory(A.disk)
  BY <1>3 DEF Working, Left
<1> HIDE DEF A
<1>5. W = Write(A, r, e)
  BY Zenon
<1>6. Directory(e) /\ Apart(A.disk, e, r)
  BY <1>4, RecordApart
<1> HIDE DEF e, W
<1>7. Working(d, W)
  BY <1>3, <1>5, <1>6, WriteWorks DEF Wrote
<1> QED
  BY <1>1, <1>2, <1>3, <1>7

(* A change index that is rewritten is one file.                           *)
LEMMA IndexApart ==
    ASSUME NEW d, Directory(d), NEW x
    PROVE  Directory([d EXCEPT !.index = x]) /\ Apart(d, [d EXCEPT !.index = x], Index)
<1> DEFINE e == [d EXCEPT !.index = x]
<1>1. Directory(e) /\ e.records = d.records /\ e.catalogs = d.catalogs
  BY IndexIs
<1> HIDE DEF e
<1>2. \A n \in Name : n # Index => View(e)[n] = View(d)[n]
  BY <1>1, ViewIs DEF Name
<1>3. Directory(e) /\ Apart(d, e, Index)
  BY <1>1, <1>2 DEF Apart
<1> QED
  BY <1>3 DEF e

(* The change index goes out behind the record.                            *)
LEMMA PublishIndexWorks ==
    ASSUME NEW d, Directory(d), NEW S, Working(d, S), NEW r
    PROVE  Working(d, PublishIndex(S, r))
<1> DEFINE A == Admit(S, Index, Cardinality(S.disk.index \cup {r}))
           x == A.disk.index \cup {r}
           W == Put(A, Index, [A.disk EXCEPT !.index = @ \cup {r}])
<1>1. PublishIndex(S, r) = IF ~S.ok \/ r \notin Indexed THEN S ELSE IF ~A.ok THEN A ELSE W
  BY DEF PublishIndex
<1>2. Working(d, A)
  BY AdmitWorks
<1>3. Directory(A.disk)
  BY <1>2 DEF Working, Left
<1> HIDE DEF A
<1>4. W = Put(A, Index, [A.disk EXCEPT !.index = x])
  BY Zenon
<1> HIDE DEF x, W
<1>5. Working(d, W)
  BY <1>2, <1>3, <1>4, IndexApart, PutWorks DEF Wrote
<1> QED
  BY <1>1, <1>2, <1>5


-----------------------------------------------------------------------------
(* Prunes.                                                                 *)

(* A transaction that caches nothing, under a revision of its own: what it *)
(* does to the files contradicts no cache.                                 *)
Late(d, S) == Working(d, S) /\ S.revised /\ Bare(S.mine)

(* It may leave any files, as long as the revision is its own.             *)
LEMMA LateLeaves ==
    ASSUME NEW d, Directory(d), NEW S, Late(d, S), NEW e, Directory(e), e.revision = S.disk.revision
    PROVE  Coherent(e, S.mine) /\ Follows(d, e) /\ d.revision < e.revision
<1>1. /\ d.revision \in Nat /\ e.revision \in Nat /\ d.revision < e.revision
      /\ Bare(S.mine) /\ S.mine.revision <= e.revision
  BY DEF Late, Working, Left, Coherent, Directory
<1> QED
  BY <1>1, BareCoherent DEF Follows

(* Records go one after the other.                                         *)
LEMMA RemoveWorks ==
    ASSUME NEW d, Directory(d), NEW S, Late(d, S), NEW deleted, NEW present
    PROVE  Late(d, RemoveRecords(S, deleted, present))
<1> DEFINE Bereft(D) == [S.disk EXCEPT !.records = S.disk.records \ D]
           Without(D) == [disk |-> [S.disk EXCEPT !.records = @ \ D], mine |-> S.mine]
           new == {Without(D) : D \in Removable(deleted, present)}
           past == S.past \cup new
           e == Bereft(deleted)
           T == [S EXCEPT !.disk = e, !.past = past]
<1>1. ASSUME NEW D
      PROVE  Left(d, Without(D)) /\ Left(d, [disk |-> Bereft(D), mine |-> S.mine])
             /\ d.revision < Bereft(D).revision
  <2>1. Directory(Bereft(D)) /\ Bereft(D).revision = S.disk.revision
    BY RecordsIs DEF Late, Working, Left
  <2>2. Without(D) = [disk |-> Bereft(D), mine |-> S.mine]
    BY Zenon
  <2> HIDE DEF Bereft, Without
  <2>3. Coherent(Bereft(D), S.mine) /\ Follows(d, Bereft(D)) /\ d.revision < Bereft(D).revision
    BY <2>1, LateLeaves
  <2>4. Left(d, [disk |-> Bereft(D), mine |-> S.mine])
    BY <2>1, <2>3 DEF Left
  <2> QED
    BY <2>2, <2>3, <2>4
<1>2. \A x \in new : Left(d, x)
  BY <1>1
<1>3. RemoveRecords(S, deleted, present) = T
  BY Zenon DEF RemoveRecords
<1>4. \A x \in past : Left(d, x)
  BY <1>2 DEF Late, Working
<1>5. Left(d, [disk |-> e, mine |-> S.mine]) /\ d.revision < e.revision
  BY <1>1
<1> HIDE DEF Bereft, Without, new, past, e
<1>6. Directory(e) /\ Coherent(e, S.mine) /\ Follows(d, e)
  BY <1>5 DEF Left
<1>7. T = [disk |-> e, mine |-> S.mine, revised |-> S.revised, ok |-> S.ok, past |-> past]
  <2> DEFINE Of(x, y) == [disk |-> x, mine |-> S.mine, revised |-> S.revised, ok |-> S.ok, past |-> y]
             A == Of(S.disk, S.past)
             B == Of(e, S.past)
             C == Of(e, past)
  <2>1. [A EXCEPT !.disk = e] = B
    <3>1. \A a, b, c, k, q :
            [[disk |-> a, mine |-> b, revised |-> c, ok |-> k, past |-> q] EXCEPT !.disk = e]
              = [disk |-> e, mine |-> b, revised |-> c, ok |-> k, past |-> q]
      OBVIOUS
    <3> QED
      BY <3>1
  <2>2. [B EXCEPT !.past = past] = C
    <3>1. \A a, b, c, k, q :
            [[disk |-> a, mine |-> b, revised |-> c, ok |-> k, past |-> q] EXCEPT !.past = past]
              = [disk |-> a, mine |-> b, revised |-> c, ok |-> k, past |-> past]
      OBVIOUS
    <3> QED
      BY <3>1
  <2>3. S = A
    BY DEF Late, Working, Transaction
  <2> HIDE DEF A, B, C
  <2>4. T = C
    BY <2>1, <2>2, <2>3
  <2> QED
    BY <2>4 DEF C
<1> HIDE DEF T
<1>8. /\ T.disk = e /\ T.mine = S.mine /\ T.revised = S.revised /\ T.past = past /\ Transaction(T)
  BY <1>7 DEF Transaction
<1>9. Late(d, T)
  BY <1>4, <1>5, <1>6, <1>8 DEF Late, Working, Left
<1> QED
  BY <1>3, <1>9

(* Then the change index, and the notes of use.                            *)
LEMMA RetireWorks ==
    ASSUME NEW d, Directory(d), NEW S, Late(d, S), NEW index, NEW deleted
    PROVE  Late(d, RetireIndex(S, index, deleted))
<1> DEFINE x == index \ deleted
<1>1. RetireIndex(S, index, deleted) = Put(S, Index, [S.disk EXCEPT !.index = x])
  BY DEF RetireIndex
<1> HIDE DEF x
<1>2. Directory(S.disk)
  BY DEF Late, Working, Left
<1>3. Wrote(d, S, [S.disk EXCEPT !.index = x], Put(S, Index, [S.disk EXCEPT !.index = x]))
  BY <1>2, IndexApart, PutWorks DEF Late
<1> QED
  BY <1>1, <1>3 DEF Wrote, Late

(* Notes of use go without any effect on what is cached.                   *)
LEMMA ClearWorks ==
    ASSUME NEW d, Directory(d), NEW S, Late(d, S), NEW x
    PROVE  Late(d, [S EXCEPT !.disk.old = x])
<1> DEFINE T == [S EXCEPT !.disk.old = x]
           e == [S.disk EXCEPT !.old = x]
<1>1. Directory(S.disk)
  BY DEF Late, Working, Left
<1>2. Directory(e) /\ e.revision = S.disk.revision
  BY <1>1, OldIs
<1>3. T = [disk |-> e, mine |-> S.mine, revised |-> S.revised, ok |-> S.ok, past |-> S.past]
  <2>1. \A a, b, c, k, q :
          [[disk |-> a, mine |-> b, revised |-> c, ok |-> k, past |-> q] EXCEPT !.disk.old = x]
            = [disk |-> [a EXCEPT !.old = x], mine |-> b, revised |-> c, ok |-> k, past |-> q]
    OBVIOUS
  <2>2. S = [disk |-> S.disk, mine |-> S.mine, revised |-> S.revised, ok |-> S.ok, past |-> S.past]
    BY DEF Late, Working, Transaction
  <2>3. [[disk |-> S.disk, mine |-> S.mine, revised |-> S.revised, ok |-> S.ok, past |-> S.past]
            EXCEPT !.disk.old = x]
          = [disk |-> e, mine |-> S.mine, revised |-> S.revised, ok |-> S.ok, past |-> S.past]
    BY <2>1
  <2> HIDE DEF e
  <2> QED
    BY <2>2, <2>3, Zenon
<1> HIDE DEF T, e
<1>4. /\ T.disk = e /\ T.mine = S.mine /\ T.revised = S.revised /\ T.past = S.past /\ Transaction(T)
  BY <1>3 DEF Transaction
<1>5. Coherent(e, S.mine) /\ Follows(d, e) /\ d.revision < e.revision
  BY <1>2, LateLeaves
<1>6. Late(d, T)
  BY <1>2, <1>4, <1>5 DEF Late, Working, Left
<1> QED
  BY <1>6 DEF T

(* The catalog goes last.                                                  *)
LEMMA ForgetWorks ==
    ASSUME NEW d, Directory(d), NEW S, Late(d, S), NEW c
    PROVE  Late(d, RemoveCatalog(S, c))
<1>1. CASE c \notin Thread
  BY <1>1 DEF RemoveCatalog
<1>2. CASE c \in Thread
  <2> DEFINE e == Owning(S.disk, c, NoCatalog, S.disk.old \ {c})
             T == Did(S, e, S.mine)
  <2>1. Directory(S.disk) /\ Working(d, S) /\ S.revised
    BY DEF Late, Working, Left
  <2>2. Directory(e) /\ e.revision = S.disk.revision
    BY <1>2, <2>1, OwningIs
  <2>3. RemoveCatalog(S, c) = T
    BY <1>2, Zenon DEF RemoveCatalog, Owning
  <2> HIDE DEF e
  <2>4. Coherent(e, S.mine) /\ Follows(d, e) /\ d.revision < e.revision
    BY <2>2, LateLeaves
  <2>5. Working(d, T) /\ T.mine = S.mine /\ T.revised
    BY <2>1, <2>2, <2>4, DidWorks
  <2> HIDE DEF T
  <2> QED
    BY <2>3, <2>5 DEF Late
<1> QED
  BY <1>1, <1>2

(* A batch: the revision, the records, the index, and with the last batch  *)
(* of a session its catalog.                                               *)
LEMMA PruneWorks ==
    ASSUME NEW d, Directory(d), NEW S, Working(d, S), NEW pl, NEW c, NEW B
    PROVE  Working(d, Prune(S, pl, c, B))
<1> DEFINE deleted == Removals(pl, B, c)
           bared == AdvanceRevision(S)
           removed == RemoveRecords(bared, deleted, pl.present)
           retired == RetireIndex(removed, pl.index, deleted)
           x == retired.disk.old \ deleted
           cleared == [retired EXCEPT !.disk.old = x]
<1>1. Prune(S, pl, c, B) = IF B = pl.rest[c] THEN RemoveCatalog(cleared, c) ELSE cleared
  BY Zenon DEF Prune
<1>2. Late(d, bared)
  BY AdvanceWorks DEF Advanced, Late
<1> HIDE DEF deleted, bared
<1>3. Late(d, removed)
  BY <1>2, RemoveWorks
<1> HIDE DEF removed
<1>4. Late(d, retired)
  BY <1>3, RetireWorks
<1> HIDE DEF retired, x
<1>5. Late(d, cleared)
  BY <1>4, ClearWorks
<1> HIDE DEF cleared
<1> QED
  BY <1>1, <1>5, ForgetWorks DEF Late


(* A plan that nothing overtook answers the request and marks the sweep.   *)
LEMMA FinishWorks ==
    ASSUME NEW d, Directory(d), NEW S, Working(d, S)
    PROVE  Working(d, Put(S, "retention-sweep", [S.disk EXCEPT !.swept = TRUE]))
<1> DEFINE yes == TRUE
           e == [S.disk EXCEPT !.swept = yes]
<1> HIDE DEF yes
<1>1. Directory(S.disk)
  BY DEF Working, Left
<1>2. Directory(e) /\ e.records = S.disk.records /\ e.index = S.disk.index /\ e.catalogs = S.disk.catalogs
  BY <1>1, SweptIs
<1> HIDE DEF e
<1>3. Apart(S.disk, e, "retention-sweep")
  BY <1>2, SameView DEF Apart
<1>4. Working(d, Put(S, "retention-sweep", e))
  BY <1>2, <1>3, PutWorks DEF Wrote
<1> QED
  BY <1>4, Zenon DEF e, yes

(* The request for space is taken back under a new revision.              *)
LEMMA AnswerWorks ==
    ASSUME NEW d, Directory(d), NEW S, Working(d, S)
    PROVE  LET R == AdvanceRevision(S) IN Working(d, Did(R, [R.disk EXCEPT !.pressure = {}], R.mine))
<1> DEFINE R == AdvanceRevision(S)
           e == [R.disk EXCEPT !.pressure = {}]
<1>1. Late(d, R)
  BY AdvanceWorks DEF Advanced, Late
<1> HIDE DEF R
<1>2. Directory(R.disk) /\ Working(d, R) /\ R.revised
  BY <1>1 DEF Late, Working, Left
<1>3. Directory(e) /\ e.revision = R.disk.revision
  BY <1>2, PressureIs
<1> HIDE DEF e
<1>4. Coherent(e, R.mine) /\ Follows(d, e) /\ d.revision < e.revision
  BY <1>1, <1>3, LateLeaves
<1>5. Working(d, Did(R, e, R.mine))
  BY <1>2, <1>3, <1>4, DidWorks
<1> QED
  BY <1>5 DEF e, R

-----------------------------------------------------------------------------
(* Steps.                                                                  *)

(* Whatever a transaction leaves, done or failed, every cache is coherent  *)
(* with it: the process's own by the transaction, the others' because they *)
(* are of an earlier revision, or nothing they hold has changed.           *)
LEMMA SettleKept ==
    ASSUME Caches, NEW p \in Process, NEW x, Left(disk, x),
           disk' = x.disk, cache' = [cache EXCEPT ![p] = x.mine]
    PROVE  Caches'
<1>1. Directory(disk) /\ Directory(x.disk) /\ Follows(disk, x.disk) /\ Coherent(x.disk, x.mine)
  BY DEF Caches, Left
<1>2. cache' = [q \in Process |-> cache'[q]]
  BY DEF Caches
<1>3. ASSUME NEW q \in Process PROVE Coherent(x.disk, cache'[q])
  <2>1. CASE q = p
    BY <1>1, <2>1 DEF Caches
  <2>2. CASE q # p
    <3>1. cache'[q] = cache[q] /\ Coherent(disk, cache[q])
      BY <2>2 DEF Caches
    <3>2. Coherent(x.disk, cache[q])
      BY <1>1, <3>1, FollowedCoherent
    <3> QED
      BY <3>1, <3>2
  <2> QED
    BY <2>1, <2>2
<1> QED
  BY <1>1, <1>2, <1>3 DEF Caches

(* A transaction that is done.                                             *)
LEMMA CommitKept ==
    ASSUME Caches, NEW p \in Process, NEW S, Working(disk, S), Commit(p, S)
    PROVE  Caches'
<1>1. Left(disk, S) /\ disk' = S.disk /\ cache' = [cache EXCEPT ![p] = S.mine]
  BY DEF Working, Commit
<1> QED
  BY <1>1, SettleKept

(* A transaction that failed at any of its effects.                        *)
LEMMA FailKept ==
    ASSUME Caches, NEW p \in Process, NEW S, Working(disk, S), Fail(p, S)
    PROVE  Caches'
<1>1. PICK left \in S.past : disk' = left.disk /\ cache' = [cache EXCEPT ![p] = left.mine]
  BY DEF Fail
<1>2. Left(disk, left)
  BY DEF Working
<1> QED
  BY <1>1, <1>2, SettleKept

(* A transaction that is done or failed.                                   *)
LEMMA TransactKept ==
    ASSUME Caches, NEW p \in Process, NEW S, Working(disk, S), NEW after, Transact(p, S, after)
    PROVE  Caches'
BY CommitKept, FailKept DEF Transact

(* Every process begins its transactions with coherent views.              *)
LEMMA OpenKept ==
    ASSUME Caches, NEW p \in Process
    PROVE  Directory(disk) /\ Working(disk, Open(p)) /\ Open(p).disk = disk
BY OpenWorks DEF Caches

(* Nothing is cached at first.                                             *)
LEMMA CachesBegin == Init => CacheInv
<1> SUFFICES ASSUME Init PROVE CacheInv
  OBVIOUS
<1>1. Directory(disk)
  BY DEF Init, Directory
<1>2. ASSUME NEW p \in Process PROVE Coherent(disk, cache[p])
  <2>1. Bare(NoCache) /\ NoCache.revision = 0 /\ cache[p] = NoCache /\ disk.revision = 0
    BY DEF Init, Bare, NoCache, CacheRecord
  <2> QED
    BY <2>1, BareCoherent
<1>3. cache = [p \in Process |-> cache[p]]
  BY DEF Init
<1>4. Planned
  BY DEF Init, Planned, NoPlan
<1>5. Clients
  BY DEF Init, Clients, NoClient
<1> QED
  BY <1>1, <1>2, <1>3, <1>4, <1>5 DEF CacheInv, Caches

(* Sessions begin, publish and adopt.                                      *)
LEMMA BeginKept ==
    ASSUME CacheInv, NEW p \in Process, NEW t \in Thread, NEW noted, BeginSession(p, t, noted)
    PROVE  CacheInv'
<1> DEFINE S == Retain(Open(p), t, {}, noted)
           after == [client[p] EXCEPT !.session = t]
<1>1. Caches /\ Planned /\ Clients /\ Directory(disk) /\ Working(disk, Open(p))
  BY OpenKept DEF CacheInv
<1>2. Working(disk, S)
  BY <1>1, RetainWorks
<1>3. Transact(p, S, after) /\ UNCHANGED plan /\ client[p].session = Idle
  BY DEF BeginSession
<1>4. client' = client \/ client' = [client EXCEPT ![p] = after] \/ client' = [client EXCEPT ![p] = @]
  BY <1>3 DEF Transact
<1> HIDE DEF S
<1>5. Caches'
  BY <1>1, <1>2, <1>3, TransactKept
<1>6. Planned'
  BY <1>1, <1>3 DEF Planned
<1>7. Clients'
  <2> DEFINE K == [session : Thread \cup {Idle}, held : SUBSET Record, reading : BOOLEAN, seen : SUBSET Record]
  <2>1. client[p] \in K /\ client \in [Process -> K]
    BY <1>1 DEF Clients
  <2>2. after \in K /\ after.session # Idle
    BY <2>1, Storage DEF Candidate
  <2> HIDE DEF after
  <2> QED
    BY <1>1, <1>4, <2>1, <2>2 DEF Clients
<1> QED
  BY <1>5, <1>6, <1>7 DEF CacheInv

(* A call is published, record and index.                                  *)
LEMMA PublishKept ==
    ASSUME CacheInv, NEW p \in Process, NEW r \in Record, NEW noted, Publish(p, r, noted)
    PROVE  CacheInv'
<1> DEFINE S == PublishRecord(Open(p), client[p].session, r, noted)
           after == [client[p] EXCEPT !.held = @ \cup {r}]
<1>1. /\ Caches /\ Planned /\ Clients /\ Directory(disk) /\ Working(disk, Open(p))
      /\ client[p].session \in Thread
  BY OpenKept DEF CacheInv, Clients, Publish
<1>2. Working(disk, S)
  BY <1>1, PublishRecordWorks
<1>3. Transact(p, PublishIndex(S, r), after) /\ UNCHANGED plan
  BY DEF Publish
<1>4. client' = client \/ client' = [client EXCEPT ![p] = after] \/ client' = [client EXCEPT ![p] = @]
  BY <1>3 DEF Transact
<1> HIDE DEF S
<1>5. Working(disk, PublishIndex(S, r))
  BY <1>1, <1>2, PublishIndexWorks
<1>6. Caches'
  BY <1>1, <1>3, <1>5, TransactKept
<1>7. Planned'
  BY <1>1, <1>3 DEF Planned
<1>8. Clients'
  BY <1>1, <1>4 DEF Clients
<1> QED
  BY <1>6, <1>7, <1>8 DEF CacheInv

(* An equal record is published again: the index alone.                    *)
LEMMA RepublishKept ==
    ASSUME CacheInv, NEW p \in Process, NEW r \in Record, Republish(p, r)
    PROVE  CacheInv'
<1> DEFINE S == Open(p)
           again == [client[p] EXCEPT !.held = @ \cup {r}]
           after == IF Owns(disk, client[p].session, r) THEN again ELSE client[p]
<1>1. /\ Caches /\ Planned /\ Clients /\ Directory(disk) /\ Working(disk, S)
      /\ client[p].session # Idle
  BY OpenKept DEF CacheInv, Republish
<1>2. Transact(p, PublishIndex(S, r), after) /\ UNCHANGED plan
  BY DEF Republish
<1>3. client' = client \/ client' = [client EXCEPT ![p] = again]
  BY <1>1, <1>2 DEF Transact, Clients
<1> HIDE DEF S
<1>4. Working(disk, PublishIndex(S, r))
  BY <1>1, PublishIndexWorks
<1>5. Caches'
  BY <1>1, <1>2, <1>4, TransactKept
<1>6. Planned'
  BY <1>1, <1>2 DEF Planned
<1>7. Clients'
  BY <1>1, <1>3 DEF Clients
<1> QED
  BY <1>5, <1>6, <1>7 DEF CacheInv

(* Visible history is adopted.                                             *)
LEMMA AdoptKept ==
    ASSUME CacheInv, NEW p \in Process, NEW noted, RetainInput(p, noted)
    PROVE  CacheInv'
<1> DEFINE c == client[p]
           after == [c EXCEPT !.reading = FALSE, !.seen = {}]
           S == Retain(Open(p), c.session, c.seen, noted)
           adopted == IF S.ok THEN [after EXCEPT !.held = @ \cup c.seen] ELSE after
<1>1. /\ Caches /\ Planned /\ Clients /\ Directory(disk) /\ Working(disk, Open(p))
      /\ c.session \in Thread
  BY OpenKept DEF CacheInv, Clients, RetainInput
<1>2. Working(disk, S)
  BY <1>1, RetainWorks
<1>3. /\ Commit(p, S) \/ Fail(p, S)
      /\ client' = [client EXCEPT ![p] = adopted] \/ client' = [client EXCEPT ![p] = after]
      /\ UNCHANGED plan
  BY DEF RetainInput
<1> HIDE DEF S
<1>4. Caches'
  BY <1>1, <1>2, <1>3, CommitKept, FailKept
<1>5. Planned'
  BY <1>1, <1>3 DEF Planned
<1>6. Clients'
  <2> DEFINE K == [session : Thread \cup {Idle}, held : SUBSET Record, reading : BOOLEAN, seen : SUBSET Record]
  <2>1. c \in K /\ client \in [Process -> K]
    BY <1>1 DEF Clients
  <2>2. after \in K /\ ~after.reading
    BY <2>1
  <2>3. adopted \in K /\ ~adopted.reading
    BY <2>1, <2>2
  <2> HIDE DEF adopted, after, c
  <2> QED
    BY <1>1, <1>3, <2>1, <2>2, <2>3 DEF Clients
<1> QED
  BY <1>4, <1>5, <1>6 DEF CacheInv

(* Reading, ending, and the end of a process.                              *)
LEMMA ReadKept ==
    ASSUME CacheInv, NEW p \in Process, NEW r \in Record, ReadVisible(p, r)
    PROVE  CacheInv'
<1>1. Caches' /\ Planned'
  BY DEF CacheInv, ReadVisible, Caches, Planned
<1>2. Clients'
  <2> DEFINE K == [session : Thread \cup {Idle}, held : SUBSET Record, reading : BOOLEAN, seen : SUBSET Record]
             c == client[p]
             after == [c EXCEPT !.reading = TRUE, !.seen = {r} \cup Deps[r]]
  <2>1. Clients /\ c \in K /\ client \in [Process -> K] /\ c.session # Idle
    BY DEF CacheInv, Clients, ReadVisible
  <2>2. {r} \cup Deps[r] \in SUBSET Record
    BY Storage
  <2>3. after \in K /\ after.session # Idle
    BY <2>1, <2>2
  <2>4. client' = [client EXCEPT ![p] = after]
    BY DEF ReadVisible
  <2> HIDE DEF after, c
  <2> QED
    BY <2>1, <2>3, <2>4 DEF Clients
<1> QED
  BY <1>1, <1>2 DEF CacheInv

(* A session ends.                                                         *)
LEMMA EndKept ==
    ASSUME CacheInv, NEW p \in Process, EndSession(p)
    PROVE  CacheInv'
<1>1. Caches' /\ Planned'
  BY DEF CacheInv, EndSession, Caches, Planned
<1>2. Clients'
  BY DEF CacheInv, Clients, EndSession, NoClient
<1> QED
  BY <1>1, <1>2 DEF CacheInv

(* A crashed process begins with nothing cached.                           *)
LEMMA CrashKept ==
    ASSUME CacheInv, NEW p \in Process, Crash(p)
    PROVE  CacheInv'
<1>1. Caches'
  <2>1. Directory(disk) /\ disk' = disk /\ cache' = [cache EXCEPT ![p] = NoCache]
    BY DEF CacheInv, Caches, Crash
  <2>2. Coherent(disk, NoCache)
    <3>1. Bare(NoCache) /\ NoCache.revision = 0 /\ 0 <= disk.revision
      BY <2>1 DEF Bare, NoCache, CacheRecord, Directory
    <3> QED
      BY <3>1, BareCoherent
  <2> QED
    BY <2>1, <2>2 DEF CacheInv, Caches
<1>2. Planned'
  BY DEF CacheInv, Planned, Crash, NoPlan
<1>3. Clients'
  BY DEF CacheInv, Clients, Crash, NoClient
<1> QED
  BY <1>1, <1>2, <1>3 DEF CacheInv

(* Time passes for files nobody uses, which no cache is about.             *)
LEMMA ExpireKept ==
    ASSUME CacheInv, NEW n, Expire(n)
    PROVE  CacheInv'
<1> DEFINE x == disk.old \cup {n}
           e == [disk EXCEPT !.old = x]
<1>1. disk' = e /\ cache' = cache /\ plan' = plan /\ client' = client
  BY DEF Expire
<1>2. /\ Directory(disk) /\ Directory(e) /\ e.revision = disk.revision
      /\ e.records = disk.records /\ e.index = disk.index /\ e.catalogs = disk.catalogs
  BY OldIs DEF CacheInv, Caches
<1> HIDE DEF e
<1>3. Follows(disk, e)
  BY <1>2, SameView DEF Follows, Directory
<1>4. \A p \in Process : Coherent(e, cache[p])
  BY <1>2, <1>3, FollowedCoherent DEF CacheInv, Caches
<1> QED
  BY <1>1, <1>2, <1>4 DEF CacheInv, Caches, Planned, Clients

(* Plans are read outside the lock, and committed under it.                *)
LEMMA PlanKept ==
    ASSUME CacheInv, \/ \E p \in Process, expire \in BOOLEAN : PlanStart(p, expire)
                     \/ PlanList \/ PlanFinish
    PROVE  CacheInv'
<1>1. UNCHANGED <<disk, cache, client>>
  BY DEF PlanStart, PlanList, PlanFinish
<1>2. Planned'
  <2>1. Planned
    BY DEF CacheInv
  <2>2. ASSUME NEW p \in Process, NEW expire, PlanStart(p, expire) PROVE Planned'
    <3>1. "by" \in DOMAIN NoPlan
      BY DEF NoPlan
    <3>2. \A f : "by" \in DOMAIN f /\ DOMAIN f = DOMAIN NoPlan =>
            \A a, b, c, e :
              LET g == [f EXCEPT !.by = p, !.stage = a, !.revision = b, !.expire = c, !.pressure = e]
              IN  g.by = p /\ DOMAIN g = DOMAIN NoPlan
      OBVIOUS
    <3> QED
      BY <2>2, <3>1, <3>2 DEF PlanStart, Planned
  <2>3. CASE PlanList
    <3>1. "by" \in DOMAIN plan /\ plan.by \in Process /\ DOMAIN plan = DOMAIN NoPlan
      BY <2>1, <2>3 DEF Planned, NoPlan, PlanList
    <3>2. \A f : "by" \in DOMAIN f =>
            \A a, b, c, e : LET g == [f EXCEPT !.stage = a, !.old = b, !.catalogs = c, !.sizes = e]
                           IN  g.by = f.by /\ DOMAIN g = DOMAIN f
      OBVIOUS
    <3> QED
      BY <2>3, <3>1, <3>2 DEF PlanList, Planned
  <2>4. CASE PlanFinish
    <3>1. "by" \in DOMAIN plan /\ plan.by \in Process /\ DOMAIN plan = DOMAIN NoPlan
      BY <2>1, <2>4 DEF Planned, NoPlan, PlanFinish
    <3>2. \A f : "by" \in DOMAIN f =>
            \A a, b, c, e, h, k :
              LET g == [f EXCEPT !.stage = a, !.present = b, !.index = c, !.todo = e, !.rest = h, !.owner = k]
              IN  g.by = f.by /\ DOMAIN g = DOMAIN f
      OBVIOUS
    <3> DEFINE present == disk.records
               sessions == {t \in Thread : plan.catalogs[t].exists}
               reached == [t \in Thread |-> IF t \in sessions THEN Closure(plan.catalogs[t].files, present) ELSE {}]
               unowned == {r \in Record : plan.sizes[r] > 0} \ UNION Range(reached)
               legacy == {r \in unowned : \A s \in unowned : r \notin Deps[s]}
               rest == [c \in Candidate |-> CASE c \in Thread -> reached[c]
                                               [] c \in legacy -> Closure({c}, present)
                                               [] OTHER -> {}]
               todo == sessions \cup legacy
               owner == [r \in Record |-> {c \in Candidate : r \in rest[c]}]
    <3>3. \/ Drop
          \/ plan' = [plan EXCEPT !.stage = "planned", !.present = present, !.index = disk.index,
                                 !.todo = todo, !.rest = rest, !.owner = owner]
      BY <2>4, Zenon DEF PlanFinish
    <3> HIDE DEF present, todo, rest, owner
    <3>4. CASE Drop
      BY <3>4 DEF Drop, Planned, NoPlan
    <3> QED
      BY <3>1, <3>2, <3>3, <3>4 DEF Planned
  <2> QED
    BY <2>2, <2>3, <2>4
<1> QED
  BY <1>1, <1>2 DEF CacheInv, Caches, Clients

(* A batch is pruned, or its plan dropped.                                 *)
LEMMA BatchKept ==
    ASSUME CacheInv, CommitBatch
    PROVE  CacheInv'
<1>1. /\ plan.by \in Process /\ UNCHANGED client /\ Caches /\ Clients
      /\ Directory(disk) /\ Working(disk, Open(plan.by))
  BY OpenKept DEF CacheInv, CommitBatch, Planned
<1>2. /\ \/ disk' = disk /\ cache' = cache
         \/ \E c, B : LET S == Prune(Open(plan.by), plan, c, B) IN Commit(plan.by, S) \/ Fail(plan.by, S)
      /\ \/ Drop
         \/ \E c : plan' = [plan EXCEPT !.todo = @ \ {c}, !.current = Idle]
         \/ \E S, c, B : plan' = Pruned(plan, S, c, B)
  BY DEF CommitBatch
<1>3. Caches'
  BY <1>1, <1>2, PruneWorks, CommitKept, FailKept DEF Caches
<1>4. Planned'
  <2>1. "by" \in DOMAIN plan /\ DOMAIN plan = DOMAIN NoPlan
    BY DEF CacheInv, Planned, NoPlan
  <2>2. CASE Drop
    BY <2>2 DEF Drop, Planned, NoPlan
  <2>3. ASSUME NEW c, plan' = [plan EXCEPT !.todo = @ \ {c}, !.current = Idle] PROVE Planned'
    <3>1. plan'.by = plan.by /\ DOMAIN plan' = DOMAIN plan
      BY <2>1, <2>3
    <3> QED
      BY <1>1, <2>1, <3>1 DEF Planned
  <2>4. ASSUME NEW S, NEW c, NEW B, plan' = Pruned(plan, S, c, B) PROVE Planned'
    <3>1. plan'.by = plan.by /\ DOMAIN plan' = DOMAIN plan
      BY <2>1, <2>4 DEF Pruned
    <3> QED
      BY <1>1, <2>1, <3>1 DEF Planned
  <2> QED
    BY <1>2, <2>2, <2>3, <2>4
<1> QED
  BY <1>1, <1>3, <1>4 DEF CacheInv, Clients

(* A plan ends.                                                            *)
LEMMA FinishKept ==
    ASSUME CacheInv, FinishPlan
    PROVE  CacheInv'
<1> DEFINE p == plan.by
           R == AdvanceRevision(Open(p))
           A == IF plan.pressure = {} THEN Open(p) ELSE Did(R, [R.disk EXCEPT !.pressure = {}], R.mine)
           S == Put(A, "retention-sweep", [A.disk EXCEPT !.swept = TRUE])
<1>1. /\ p \in Process /\ UNCHANGED client /\ Caches /\ Clients /\ Drop
      /\ Directory(disk) /\ Working(disk, Open(p))
  BY OpenKept DEF CacheInv, FinishPlan, Planned
<1>2. (disk' = disk /\ cache' = cache) \/ Commit(p, S) \/ Fail(p, S)
  BY DEF FinishPlan
<1>3. Working(disk, A)
  BY <1>1, AnswerWorks
<1> HIDE DEF A
<1>4. Working(disk, S)
  BY <1>1, <1>3, FinishWorks
<1> HIDE DEF S
<1>5. Caches'
  BY <1>1, <1>2, <1>4, CommitKept, FailKept DEF Caches
<1>6. Planned'
  BY <1>1 DEF Planned, Drop, NoPlan
<1> QED
  BY <1>1, <1>5, <1>6 DEF CacheInv, Clients

(* Every step keeps the caches coherent.                                   *)
LEMMA CacheStep == CacheInv /\ [Next]_vars => CacheInv'
<1> SUFFICES ASSUME CacheInv, [Next]_vars PROVE CacheInv'
  OBVIOUS
<1>1. CASE UNCHANGED vars
  BY <1>1 DEF vars, CacheInv, Caches, Planned, Clients
<1>2. CASE Next
  BY <1>2, BeginKept, PublishKept, RepublishKept, AdoptKept, ReadKept, EndKept, CrashKept, ExpireKept, PlanKept,
     BatchKept, FinishKept DEF Next
<1> QED
  BY <1>1, <1>2

(* What a process has cached under the current revision is what the        *)
(* directory holds, whatever transactions of others failed halfway (Write, *)
(* FileSizes, Retain).                                                     *)
THEOREM CachesCoherent == Spec => []CacheCoherent
<1>1. CacheInv => CacheCoherent
  BY DEF CacheInv, Caches, Coherent, CacheCoherent
<1> QED
  BY CachesBegin, CacheStep, <1>1, PTL DEF Spec

-----------------------------------------------------------------------------
(* Records and catalogs.                                                   *)

(* What a directory stores, and the contents in G that a transaction goes  *)
(* through, however it ends.                                               *)
Contents(d) == <<d.records, d.catalogs, d.index>>
Within(S, G) == Contents(S.disk) \in G /\ \A x \in S.past : Contents(x.disk) \in G

(* One more effect.                                                        *)
LEMMA DidWithin ==
    ASSUME NEW G, NEW S, Transaction(S), Within(S, G), NEW e, NEW m, Contents(e) \in G
    PROVE  Within(Did(S, e, m), G) /\ Did(S, e, m).disk = e
<1> DEFINE T == Did(S, e, m)
           x == [disk |-> S.disk, mine |-> S.mine]
<1>1. T = [disk |-> e, mine |-> m, revised |-> S.revised, ok |-> S.ok, past |-> S.past \cup {x}]
  BY DidIs
<1>2. x.disk = S.disk
  OBVIOUS
<1> HIDE DEF x, T
<1>3. T.disk = e /\ T.past = S.past \cup {x}
  BY <1>1
<1>4. Within(T, G)
  BY <1>2, <1>3 DEF Within
<1> QED
  BY <1>3, <1>4 DEF T

(* Other views leave the directory as it is.                               *)
LEMMA HoldWithin ==
    ASSUME NEW G, NEW S, Transaction(S), Within(S, G), NEW m
    PROVE  /\ Within([S EXCEPT !.mine = m], G) /\ [S EXCEPT !.mine = m].disk = S.disk
           /\ [S EXCEPT !.mine = m].ok = S.ok
BY HoldIs DEF Within

(* A refusal changes no file.                                              *)
LEMMA RefusedWithin ==
    ASSUME NEW G, NEW S, Transaction(S), Within(S, G)
    PROVE  /\ Within([S EXCEPT !.ok = FALSE], G) /\ [S EXCEPT !.ok = FALSE].disk = S.disk
           /\ ~[S EXCEPT !.ok = FALSE].ok
<1> DEFINE no == FALSE
           T == [S EXCEPT !.ok = no]
<1> HIDE DEF no
<1>1. \A a, b, c, k, q, v :
        [[disk |-> a, mine |-> b, revised |-> c, ok |-> k, past |-> q] EXCEPT !.ok = v]
          = [disk |-> a, mine |-> b, revised |-> c, ok |-> v, past |-> q]
  OBVIOUS
<1>2. T = [disk |-> S.disk, mine |-> S.mine, revised |-> S.revised, ok |-> no, past |-> S.past]
  BY <1>1 DEF Transaction
<1> HIDE DEF T
<1>3. T.disk = S.disk /\ T.past = S.past /\ T.ok = no
  BY <1>2
<1>4. Within(T, G)
  BY <1>3 DEF Within
<1>5. ~T.ok
  BY <1>3 DEF no
<1> QED
  BY <1>3, <1>4, <1>5, Zenon DEF T, no

(* The revision advances, and nothing else of the directory changes.       *)
LEMMA AdvanceWithin ==
    ASSUME NEW G, NEW d, Directory(d), NEW S, Working(d, S), Within(S, G)
    PROVE  Within(AdvanceRevision(S), G) /\ Contents(AdvanceRevision(S).disk) = Contents(S.disk)
<1> DEFINE bare == [S.mine EXCEPT !.files = {}, !.catalog = {}]
           dropped == Did(S, S.disk, bare)
           next == S.disk.revision + 1
           e == [S.disk EXCEPT !.revision = next]
           m == [dropped.mine EXCEPT !.revision = next]
           moved == Did(dropped, e, m)
           A == [moved EXCEPT !.revised = TRUE]
<1>1. /\ Transaction(S) /\ Directory(S.disk) /\ S.disk.revision \in Nat
      /\ Contents(S.disk) \in G
  BY DEF Working, Left, Directory, Within
<1>2. AdvanceRevision(S) = IF S.revised THEN dropped ELSE A
  BY DEF AdvanceRevision
<1> HIDE DEF bare
<1>3. Within(dropped, G) /\ dropped.disk = S.disk
  BY <1>1, DidWithin
<1>4. Transaction(dropped)
  <2>1. dropped = [disk |-> S.disk, mine |-> bare, revised |-> S.revised, ok |-> S.ok,
                   past |-> S.past \cup {[disk |-> S.disk, mine |-> S.mine]}]
    BY <1>1, DidIs
  <2> HIDE DEF dropped
  <2> QED BY <2>1 DEF Transaction
<1> HIDE DEF dropped
<1>5. next \in Nat
  BY <1>1
<1> HIDE DEF next
<1>6. Contents(e) = Contents(S.disk)
  BY <1>1, <1>5, RevisionIs DEF Contents
<1> HIDE DEF e, m
<1>7. Within(moved, G) /\ moved.disk = e
  BY <1>1, <1>3, <1>4, <1>6, DidWithin
<1>8. moved = [disk |-> moved.disk, mine |-> moved.mine, revised |-> moved.revised, ok |-> moved.ok,
               past |-> moved.past]
  <2>1. moved = [disk |-> e, mine |-> m, revised |-> dropped.revised, ok |-> dropped.ok,
                 past |-> dropped.past \cup {[disk |-> dropped.disk, mine |-> dropped.mine]}]
    BY <1>4, DidIs
  <2> HIDE DEF moved
  <2> QED BY <2>1
<1> HIDE DEF moved
<1>9. A.disk = e /\ A.past = moved.past
  <2>1. \A a, b, c, k, q, v :
          LET x == [[disk |-> a, mine |-> b, revised |-> c, ok |-> k, past |-> q] EXCEPT !.revised = v]
          IN  x.disk = a /\ x.past = q
    OBVIOUS
  <2> QED BY <1>7, <1>8, <2>1
<1> HIDE DEF A
<1>10. Within(A, G) /\ Contents(A.disk) = Contents(S.disk)
  BY <1>6, <1>7, <1>9 DEF Within
<1> QED
  BY <1>2, <1>3, <1>10

(* A file is written.                                                      *)
LEMMA WriteWithin ==
    ASSUME NEW G, NEW d, Directory(d), NEW S, Working(d, S), Within(S, G),
           NEW name, NEW e, Directory(e), Contents(e) \in G
    PROVE  Within(Write(S, name, e), G) /\ Contents(Write(S, name, e).disk) = Contents(e)
<1> DEFINE A == AdvanceRevision(S)
           files == IF S.mine.revision # S.disk.revision THEN {}
                    ELSE {[n \in Name |-> IF n = name THEN View(e)[n] ELSE sizes[n]] : sizes \in S.mine.files}
           kept == {c \in S.mine.catalog : c.thread # name /\ c.revision = S.disk.revision}
           moved == {[c EXCEPT !.revision = A.mine.revision] : c \in kept}
           e1 == [e EXCEPT !.revision = A.disk.revision]
           m == [A.mine EXCEPT !.files = files, !.catalog = moved]
<1>1. Write(S, name, e) = Did(A, e1, m)
  BY DEF Write
<1>2. Advanced(d, S, A) /\ Within(A, G)
  BY AdvanceWorks, AdvanceWithin
<1> HIDE DEF A, files, moved
<1>3. A.disk.revision \in Nat /\ Transaction(A)
  BY <1>2 DEF Advanced, Working
<1>4. Contents(e1) = Contents(e)
  BY <1>3, RevisionIs DEF Contents
<1> HIDE DEF e1, m
<1> QED
  BY <1>1, <1>2, <1>3, <1>4, DidWithin

(* Or not, where nothing changes.                                          *)
LEMMA PutWithin ==
    ASSUME NEW G, NEW d, Directory(d), NEW S, Working(d, S), Within(S, G),
           NEW name, NEW e, Directory(e), Contents(e) \in G
    PROVE  Within(Put(S, name, e), G) /\ Contents(Put(S, name, e).disk) = Contents(e)
BY WriteWithin DEF Put

(* Reading sizes and admitting growth.                                     *)
LEMMA SizesWithin ==
    ASSUME NEW G, NEW d, Directory(d), NEW S, Working(d, S), Within(S, G)
    PROVE  Within(FileSizes(S), G)
<1>1. Transaction(S) /\ CacheRecord(S.mine)
  BY DEF Working, Left, Coherent
<1>2. \E m : [S EXCEPT !.mine.revision = S.disk.revision, !.mine.files = {View(S.disk)}]
               = [S EXCEPT !.mine = m]
  BY <1>1, FilesAre
<1> QED
  BY <1>1, <1>2, HoldWithin DEF FileSizes

(* So does admission: a request for space is no content.                   *)
LEMMA AdmitWithin ==
    ASSUME NEW G, NEW d, Directory(d), NEW S, Working(d, S), Within(S, G), NEW name, NEW size
    PROVE  /\ Within(Admit(S, name, size), G)
           /\ Contents(Admit(S, name, size).disk) = Contents(S.disk)
           /\ Admit(S, name, size).ok => Admit(S, name, size).disk = S.disk
<1> DEFINE L == FileSizes(S)
           sizes == CHOOSE v \in L.mine.files : TRUE
           growth == IF size > sizes[name] THEN size - sizes[name] ELSE 0
           e == [L.disk EXCEPT !.pressure = {growth}]
           full == IF size > Capacity THEN L ELSE Put(L, "pressure", e)
<1>1. Admit(S, name, size)
        = IF Usage(sizes) - sizes[name] + size <= Capacity THEN L ELSE [full EXCEPT !.ok = FALSE]
  BY DEF Admit
<1>2. Working(d, L) /\ Directory(L.disk) /\ L.disk = S.disk /\ Within(L, G)
  BY SizesWork, SizesWithin DEF Working, Left
<1> HIDE DEF L, sizes, growth
<1>3. /\ Directory(e) /\ e.records = L.disk.records /\ e.index = L.disk.index
      /\ e.catalogs = L.disk.catalogs
  BY <1>2, PressureIs
<1> HIDE DEF e
<1>4. Apart(L.disk, e, "pressure") /\ Contents(e) = Contents(S.disk) /\ Contents(e) \in G
  BY <1>2, <1>3, SameView DEF Apart, Contents, Within
<1>5. Working(d, full) /\ Within(full, G) /\ Contents(full.disk) = Contents(S.disk)
  BY <1>2, <1>3, <1>4, PutWorks, PutWithin DEF Wrote
<1> HIDE DEF full
<1>6. Transaction(full)
  BY <1>5 DEF Working
<1> QED
  BY <1>1, <1>2, <1>5, <1>6, RefusedWithin

(* What a session's catalog becomes when it adopts names, and what the     *)
(* directory then stores.                                                  *)
Adopted(d, t, names) ==
    [exists |-> TRUE,
     files |-> d.catalogs[t].files \cup (names \cup UNION {Deps[r] : r \in names \cap d.records})]
Adopting(d, t, names) == <<d.records, [d.catalogs EXCEPT ![t] = Adopted(d, t, names)], d.index>>

(* A transaction that adopts changes the one catalog, and has done so when *)
(* it is not refused.                                                      *)
LEMMA RetainWithin ==
    ASSUME NEW G, NEW d, Directory(d), NEW S, Working(d, S), Within(S, G), NEW t \in Thread,
           NEW names, NEW noted, Adopting(S.disk, t, names) \in G
    PROVE  LET R == Retain(S, t, names, noted)
           IN  Within(R, G) /\ (R.ok => Contents(R.disk) = Adopting(S.disk, t, names))
<1> DEFINE cached == {c \in S.mine.catalog : c.thread = t /\ c.revision = S.disk.revision}
           value == IF cached = {} THEN S.disk.catalogs[t] ELSE (CHOOSE c \in cached : TRUE).value
           wanted == names \cup UNION {Deps[r] : r \in names \cap S.disk.records}
           next == [exists |-> TRUE, files |-> value.files \cup wanted]
           Cached(T, v) == [T EXCEPT !.mine.catalog =
                              {[thread |-> t, revision |-> T.disk.revision, value |-> v]}]
           L == IF value.exists THEN Cached(S, value) ELSE [S EXCEPT !.mine.catalog = {}]
           A == IF names = {} THEN L ELSE Admit(L, t, CatalogSize(next))
           W == Write(A, t, [A.disk EXCEPT !.catalogs[t] = next, !.old = @ \ {t}])
<1>1. Retain(S, t, names, noted)
        = IF next = value /\ t \notin S.disk.old /\ ~noted THEN L
          ELSE IF ~A.ok THEN A ELSE Cached(W, next)
  BY DEF Retain
<1>2. value = S.disk.catalogs[t]
  <2>1. \A c \in cached : c.value = S.disk.catalogs[t]
    BY DEF Working, Left, Coherent
  <2> HIDE DEF cached
  <2> QED
    BY <2>1
<1> HIDE DEF value
<1>3. next = Adopted(S.disk, t, names)
  BY <1>2 DEF Adopted
<1> HIDE DEF next
<1>4. ASSUME NEW T, Transaction(T), CacheRecord(T.mine), Within(T, G), NEW c
      PROVE  /\ Within([T EXCEPT !.mine.catalog = c], G)
             /\ [T EXCEPT !.mine.catalog = c].disk = T.disk /\ [T EXCEPT !.mine.catalog = c].ok = T.ok
  <2>1. \E m : [T EXCEPT !.mine.catalog = c] = [T EXCEPT !.mine = m]
    BY <1>4, CatalogIs
  <2> QED BY <1>4, <2>1, HoldWithin
<1>5. Transaction(S) /\ CacheRecord(S.mine) /\ Directory(S.disk)
  BY DEF Working, Left, Coherent
<1>6. Working(d, L) /\ Within(L, G) /\ L.disk = S.disk
  <2>1. Working(d, Cached(S, value))
    BY <1>2, CachedWorks
  <2>2. Working(d, [S EXCEPT !.mine.catalog = {}])
    BY UncachedWorks
  <2>3. Within(Cached(S, value), G) /\ Cached(S, value).disk = S.disk
    BY <1>4, <1>5
  <2>4. Within([S EXCEPT !.mine.catalog = {}], G) /\ [S EXCEPT !.mine.catalog = {}].disk = S.disk
    BY <1>4, <1>5
  <2> HIDE DEF Cached
  <2> QED
    BY <2>1, <2>2, <2>3, <2>4
<1> HIDE DEF L
<1>7. Working(d, A) /\ Directory(A.disk) /\ Within(A, G) /\ Contents(A.disk) = Contents(S.disk)
  <2>1. Working(d, A) /\ Within(A, G) /\ Contents(A.disk) = Contents(S.disk)
    BY <1>6, AdmitWorks, AdmitWithin
  <2> QED
    BY <2>1 DEF Working, Left
<1> HIDE DEF A
<1> DEFINE e == Owning(A.disk, t, next, A.disk.old \ {t})
<1>8. Directory(e) /\ Apart(A.disk, e, t)
  BY <1>7, CatalogApart, OwningIs
<1>9. Contents(e) = Adopting(S.disk, t, names)
  <2>1. e.records = S.disk.records /\ e.index = S.disk.index /\ \A u \in Thread : e.catalogs[u] = IF u = t THEN next ELSE S.disk.catalogs[u]
    BY <1>7, OwningIs DEF Contents
  <2>2. e.catalogs = [u \in Thread |-> e.catalogs[u]] /\ S.disk.catalogs = [u \in Thread |-> S.disk.catalogs[u]]
    BY <1>5, <1>8 DEF Directory
  <2> HIDE DEF e
  <2>3. e.catalogs = [S.disk.catalogs EXCEPT ![t] = next]
    BY <2>1, <2>2
  <2> QED BY <1>3, <2>1, <2>3 DEF Contents, Adopting
<1>10. W = Write(A, t, e)
  BY Zenon DEF Owning
<1> HIDE DEF e, W
<1>11. /\ Working(d, W) /\ Within(W, G) /\ Contents(W.disk) = Adopting(S.disk, t, names)
  BY <1>7, <1>8, <1>9, <1>10, WriteWorks, WriteWithin DEF Wrote
<1>12. Within(Cached(W, next), G) /\ Cached(W, next).disk = W.disk
  <2>1. Transaction(W) /\ CacheRecord(W.mine)
    BY <1>11 DEF Working, Left, Coherent
  <2> QED BY <1>4, <1>11, <2>1
<1>13. next = value => Contents(S.disk) = Adopting(S.disk, t, names)
  <2>1. S.disk.catalogs = [u \in Thread |-> S.disk.catalogs[u]]
    BY <1>5 DEF Directory
  <2>2. ASSUME next = value PROVE [S.disk.catalogs EXCEPT ![t] = next] = S.disk.catalogs
    BY <1>2, <2>1, <2>2
  <2> QED BY <1>3, <2>2 DEF Contents, Adopting
<1> HIDE DEF Cached
<1> QED
  BY <1>1, <1>6, <1>7, <1>11, <1>12, <1>13

(* What the directory stores once a record has gone out.                   *)
Issuing(d, t, r) == <<d.records \cup {r}, Adopting(d, t, {r})[2], d.index>>
Issued(P, d, t, r, G) ==
    /\ Within(P, G)
    /\ P.ok => Contents(P.disk) = Issuing(d, t, r)

(* A record goes out behind its ownership, and has when it is not refused. *)
LEMMA PublishWithin ==
    ASSUME NEW G, NEW d, Directory(d), NEW S, Working(d, S), Within(S, G), NEW t \in Thread,
           NEW r \in Record, NEW noted, Adopting(S.disk, t, {r}) \in G, Issuing(S.disk, t, r) \in G
    PROVE  Issued(PublishRecord(S, t, r, noted), S.disk, t, r, G)
<1> DEFINE R == Retain(S, t, {r}, noted)
           A == Admit(R, r, 1)
           x == A.disk.old \ {r}
           y == A.disk.records \cup {r}
           e == [A.disk EXCEPT !.records = @ \cup {r}, !.old = x]
           W == Write(A, r, [A.disk EXCEPT !.records = @ \cup {r}, !.old = @ \ {r}])
           C == Adopting(S.disk, t, {r})
           I == Issuing(S.disk, t, r)
<1>1. PublishRecord(S, t, r, noted)
        = IF ~R.ok THEN R ELSE IF ~A.ok THEN A ELSE W
  BY DEF PublishRecord
<1>2. Working(d, R) /\ Within(R, G) /\ (R.ok => Contents(R.disk) = C)
  BY RetainWorks, RetainWithin
<1>3. C = <<S.disk.records, C[2], S.disk.index>> /\ I = <<S.disk.records \cup {r}, C[2], S.disk.index>>
  BY DEF Adopting, Issuing
<1> HIDE DEF R, C, I
<1>4. /\ Working(d, A) /\ Directory(A.disk) /\ Within(A, G) /\ Contents(A.disk) = Contents(R.disk)
      /\ A.ok => A.disk = R.disk
  <2>1. Working(d, A) /\ Within(A, G) /\ Contents(A.disk) = Contents(R.disk) /\ (A.ok => A.disk = R.disk)
    BY <1>2, AdmitWorks, AdmitWithin
  <2> QED
    BY <2>1 DEF Working, Left
<1> HIDE DEF A
<1>5. W = Write(A, r, e)
  BY Zenon
<1> HIDE DEF W
<1>6. ASSUME R.ok
      PROVE  A.disk.records = S.disk.records /\ A.disk.catalogs = C[2] /\ A.disk.index = S.disk.index
  BY <1>2, <1>3, <1>4, <1>6 DEF Contents
<1>7. Directory(e) /\ e.records = y /\ e.catalogs = A.disk.catalogs /\ e.index = A.disk.index
  <2> DEFINE a == [A.disk EXCEPT !.records = y]
             e2 == [a EXCEPT !.old = x]
  <2> HIDE DEF x, y
  <2>1. Directory(a) /\ a.records = y /\ a.catalogs = A.disk.catalogs /\ a.index = A.disk.index
    BY <1>4, RecordsIs
  <2> HIDE DEF a
  <2>2. Directory(e2) /\ e2.records = y /\ e2.catalogs = A.disk.catalogs /\ e2.index = A.disk.index
    BY <2>1, OldIs
  <2> QED
    BY <2>2 DEF a, y
<1> HIDE DEF e, x
<1>8. CASE R.ok
  <2>1. Contents(e) = I
    BY <1>3, <1>6, <1>7, <1>8 DEF Contents
  <2>2. Within(W, G) /\ Contents(W.disk) = Contents(e)
    <3>1. Contents(e) \in G
      BY <2>1 DEF I
    <3> QED
      BY <1>4, <1>5, <1>7, <3>1, WriteWithin
  <2> QED
    BY <1>1, <1>4, <1>8, <2>1, <2>2 DEF I, Issued
<1>9. CASE ~R.ok
  BY <1>1, <1>2, <1>9 DEF Issued
<1> QED
  BY <1>8, <1>9

(* The index follows, where the record is one it refers to, and stores no  *)
(* record.                                                                 *)
Indexing(d, r) == <<d.records, d.catalogs, IF r \in Indexed THEN d.index \cup {r} ELSE d.index>>
(* So does the index after a publication.                                  *)
LEMMA IndexWithin ==
    ASSUME NEW G, NEW d, Directory(d), NEW S, Working(d, S), Within(S, G), NEW r,
           S.ok => Indexing(S.disk, r) \in G
    PROVE  LET P == PublishIndex(S, r)
           IN  Within(P, G) /\ (P.ok => S.ok /\ Contents(P.disk) = Indexing(S.disk, r))
<1> DEFINE A == Admit(S, Index, Cardinality(S.disk.index \cup {r}))
           x == A.disk.index \cup {r}
           e == [A.disk EXCEPT !.index = x]
           P == Put(A, Index, e)
<1>1. PublishIndex(S, r) = IF ~S.ok \/ r \notin Indexed THEN S ELSE IF ~A.ok THEN A ELSE P
  BY DEF PublishIndex
<1>2. Working(d, A) /\ Within(A, G) /\ Contents(A.disk) = Contents(S.disk)
  BY AdmitWorks, AdmitWithin
<1> HIDE DEF A
<1>3. Directory(A.disk)
  BY <1>2 DEF Working, Left
<1>4. x = S.disk.index \cup {r}
  BY <1>2 DEF Contents
<1> HIDE DEF x
<1>5. Directory(e) /\ Contents(e) = <<S.disk.records, S.disk.catalogs, x>>
  BY <1>2, <1>3, IndexIs DEF Contents
<1> HIDE DEF e
<1>6. CASE S.ok /\ r \in Indexed
  <2>1. Contents(e) = Indexing(S.disk, r)
    BY <1>4, <1>5, <1>6 DEF Indexing
  <2>2. Contents(e) \in G
    BY <1>6, <2>1
  <2>3. Within(P, G) /\ Contents(P.disk) = Indexing(S.disk, r)
    BY <1>2, <1>5, <2>1, <2>2, PutWithin
  <2> HIDE DEF P
  <2> QED
    BY <1>1, <1>2, <1>6, <2>3
<1>7. CASE ~(S.ok /\ r \in Indexed)
  BY <1>1, <1>7 DEF Indexing, Contents
<1> QED
  BY <1>6, <1>7

-----------------------------------------------------------------------------
(* Prunes.                                                                 *)

(* What is left of a directory's contents in G without any removable set.  *)
Thinned(d, D) == <<d.records \ D, d.catalogs, d.index>>
Thinning(G, d, deleted, present) == \A D \in Removable(deleted, present) : Thinned(d, D) \in G

(* Records go referrers first: what is left of them is what some removable *)
(* set leaves.                                                             *)
LEMMA RemoveWithin ==
    ASSUME NEW G, NEW d, Directory(d), NEW S, Late(d, S), Within(S, G), NEW deleted, NEW present,
           Thinning(G, S.disk, deleted, present)
    PROVE  LET R == RemoveRecords(S, deleted, present)
           IN  Within(R, G) /\ Contents(R.disk) = Thinned(S.disk, deleted)
<1> DEFINE Bereft(D) == [S.disk EXCEPT !.records = S.disk.records \ D]
           Without(D) == [disk |-> [S.disk EXCEPT !.records = @ \ D], mine |-> S.mine]
           new == {Without(D) : D \in Removable(deleted, present)}
           past == S.past \cup new
           e == Bereft(deleted)
           T == [S EXCEPT !.disk = e, !.past = past]
           C(D) == Thinned(S.disk, D)
<1>1. ASSUME NEW D
      PROVE  Contents(Without(D).disk) = C(D) /\ Contents(Bereft(D)) = C(D)
  <2> DEFINE x == S.disk.records \ D
             f == [S.disk EXCEPT !.records = x]
  <2>1. Directory(S.disk)
    BY DEF Late, Working, Left
  <2>2. f.records = x /\ f.catalogs = S.disk.catalogs /\ f.index = S.disk.index
    BY <2>1, RecordsIs
  <2>3. Without(D) = [disk |-> f, mine |-> S.mine] /\ Bereft(D) = f
    BY Zenon
  <2> HIDE DEF f, Without, Bereft
  <2> QED
    BY <2>2, <2>3 DEF Contents, Thinned
<1>2. \A x \in new : Contents(x.disk) \in G
  BY <1>1 DEF Thinning
<1>3. RemoveRecords(S, deleted, present) = T
  BY Zenon DEF RemoveRecords
<1>4. \A x \in past : Contents(x.disk) \in G
  BY <1>2 DEF Within
<1>5. Contents(e) = C(deleted) /\ C(deleted) \in G
  <2>1. deleted \in Removable(deleted, present)
    BY DEF Removable
  <2> QED
    BY <1>1, <2>1 DEF Thinning
<1> HIDE DEF Bereft, Without, new, past, e, C
<1>6. T.disk = e /\ T.past = past
  <2> DEFINE Of(x, y) == [disk |-> x, mine |-> S.mine, revised |-> S.revised, ok |-> S.ok, past |-> y]
             A == Of(S.disk, S.past)
             B == Of(e, S.past)
             K == Of(e, past)
  <2>1. [A EXCEPT !.disk = e] = B
    <3>1. \A a, b, c, k, q :
            [[disk |-> a, mine |-> b, revised |-> c, ok |-> k, past |-> q] EXCEPT !.disk = e]
              = [disk |-> e, mine |-> b, revised |-> c, ok |-> k, past |-> q]
      OBVIOUS
    <3> QED
      BY <3>1
  <2>2. [B EXCEPT !.past = past] = K
    <3>1. \A a, b, c, k, q :
            [[disk |-> a, mine |-> b, revised |-> c, ok |-> k, past |-> q] EXCEPT !.past = past]
              = [disk |-> a, mine |-> b, revised |-> c, ok |-> k, past |-> past]
      OBVIOUS
    <3> QED
      BY <3>1
  <2>3. S = A
    BY DEF Late, Working, Transaction
  <2> HIDE DEF A, B, K
  <2>4. T = K
    BY <2>1, <2>2, <2>3
  <2> HIDE DEF T
  <2> QED
    BY <2>4 DEF K
<1> HIDE DEF T
<1>7. Within(T, G) /\ Contents(T.disk) = C(deleted)
  BY <1>4, <1>5, <1>6 DEF Within
<1> QED
  BY <1>3, <1>7 DEF C

(* The index follows what was removed.                                     *)
Reindexed(d, i) == <<d.records, d.catalogs, i>>
(* So does the index after a removal.                                      *)
LEMMA RetireWithin ==
    ASSUME NEW G, NEW d, Directory(d), NEW S, Late(d, S), Within(S, G), NEW index, NEW deleted,
           NEW i, i = index \ deleted, Reindexed(S.disk, i) \in G
    PROVE  LET R == RetireIndex(S, index, deleted)
           IN  Within(R, G) /\ Contents(R.disk) = Reindexed(S.disk, i)
<1> DEFINE e == [S.disk EXCEPT !.index = i]
<1>1. RetireIndex(S, index, deleted) = Put(S, Index, e)
  BY DEF RetireIndex
<1>2. Directory(S.disk) /\ Working(d, S)
  BY DEF Late, Working, Left
<1>3. Directory(e) /\ Contents(e) = Reindexed(S.disk, i) /\ Contents(e) \in G
  BY <1>2, IndexIs DEF Contents, Reindexed
<1> HIDE DEF e
<1>4. Within(Put(S, Index, e), G) /\ Contents(Put(S, Index, e).disk) = Reindexed(S.disk, i)
  BY <1>2, <1>3, PutWithin
<1> QED
  BY <1>1, <1>4

(* Notes of use are cleared.                                               *)
LEMMA ClearWithin ==
    ASSUME NEW G, NEW d, Directory(d), NEW S, Late(d, S), Within(S, G), NEW x
    PROVE  LET R == [S EXCEPT !.disk.old = x] IN Within(R, G) /\ Contents(R.disk) = Contents(S.disk)
<1> DEFINE T == [S EXCEPT !.disk.old = x]
           e == [S.disk EXCEPT !.old = x]
<1>1. Directory(S.disk)
  BY DEF Late, Working, Left
<1>2. Contents(e) = Contents(S.disk)
  BY <1>1, OldIs DEF Contents
<1>3. T = [disk |-> e, mine |-> S.mine, revised |-> S.revised, ok |-> S.ok, past |-> S.past]
  <2>1. \A a, b, c, k, q :
          [[disk |-> a, mine |-> b, revised |-> c, ok |-> k, past |-> q] EXCEPT !.disk.old = x]
            = [disk |-> [a EXCEPT !.old = x], mine |-> b, revised |-> c, ok |-> k, past |-> q]
    OBVIOUS
  <2>2. S = [disk |-> S.disk, mine |-> S.mine, revised |-> S.revised, ok |-> S.ok, past |-> S.past]
    BY DEF Late, Working, Transaction
  <2>3. [[disk |-> S.disk, mine |-> S.mine, revised |-> S.revised, ok |-> S.ok, past |-> S.past]
            EXCEPT !.disk.old = x]
          = [disk |-> e, mine |-> S.mine, revised |-> S.revised, ok |-> S.ok, past |-> S.past]
    BY <2>1
  <2> HIDE DEF e
  <2> QED
    BY <2>2, <2>3, Zenon
<1> HIDE DEF T, e
<1>4. T.disk = e /\ T.past = S.past
  BY <1>3
<1>5. Within(T, G) /\ Contents(T.disk) = Contents(S.disk)
  BY <1>2, <1>4 DEF Within
<1> QED
  BY <1>5 DEF T

(* What a directory stores once a session's catalog is gone.               *)
Forgetting(d, c) == <<d.records, [d.catalogs EXCEPT ![c] = NoCatalog], d.index>>

(* The catalog goes.                                                       *)
LEMMA ForgetWithin ==
    ASSUME NEW G, NEW d, Directory(d), NEW S, Late(d, S), Within(S, G), NEW c,
           c \in Thread => Forgetting(S.disk, c) \in G
    PROVE  LET R == RemoveCatalog(S, c)
           IN  Within(R, G)
               /\ Contents(R.disk) = IF c \in Thread THEN Forgetting(S.disk, c) ELSE Contents(S.disk)
<1>1. CASE c \notin Thread
  BY <1>1 DEF RemoveCatalog
<1>2. CASE c \in Thread
  <2> DEFINE e == Owning(S.disk, c, NoCatalog, S.disk.old \ {c})
             T == Did(S, e, S.mine)
  <2>1. Directory(S.disk) /\ Transaction(S)
    BY DEF Late, Working, Left
  <2>2. Contents(e) = Forgetting(S.disk, c)
    <3>1. /\ Directory(e) /\ e.records = S.disk.records /\ e.index = S.disk.index
          /\ \A u \in Thread : e.catalogs[u] = IF u = c THEN NoCatalog ELSE S.disk.catalogs[u]
      BY <1>2, <2>1, OwningIs
    <3>2. e.catalogs = [u \in Thread |-> e.catalogs[u]] /\ S.disk.catalogs = [u \in Thread |-> S.disk.catalogs[u]]
      BY <2>1, <3>1 DEF Directory
    <3> HIDE DEF e
    <3>3. e.catalogs = [S.disk.catalogs EXCEPT ![c] = NoCatalog]
      BY <3>1, <3>2
    <3> QED
      BY <3>1, <3>3 DEF Contents, Forgetting
  <2>3. RemoveCatalog(S, c) = T
    BY <1>2, Zenon DEF RemoveCatalog, Owning
  <2> HIDE DEF e
  <2>4. Within(T, G) /\ T.disk = e
    BY <1>2, <2>1, <2>2, DidWithin
  <2> HIDE DEF T
  <2> QED
    BY <1>2, <2>2, <2>3, <2>4
<1> QED
  BY <1>1, <1>2

(* What a batch leaves: only removable records are gone; then of the index *)
(* what it no longer should name; then, with its last batch, the           *)
(* candidate's catalog.                                                    *)
Retiring(d, pl, c, B) ==
    LET deleted == Removals(pl, B, c) IN <<d.records \ deleted, d.catalogs, pl.index \ deleted>>
Pruning(d, pl, c, B) ==
    LET left == Retiring(d, pl, c, B) IN
    IF c \in Thread /\ B = pl.rest[c] THEN <<left[1], [left[2] EXCEPT ![c] = NoCatalog], left[3]>> ELSE left
Prunings(d, pl, c, B) ==
    {Thinned(d, D) : D \in Removable(Removals(pl, B, c), pl.present)}
      \cup {Retiring(d, pl, c, B), Pruning(d, pl, c, B)}

(* So a batch does, however it ends.                                       *)
LEMMA PruneWithin ==
    ASSUME NEW d, Directory(d), NEW S, Working(d, S), S.disk = d, S.past = {}, NEW pl, NEW c, NEW B
    PROVE  LET R == Prune(S, pl, c, B)
           IN  Within(R, Prunings(d, pl, c, B)) /\ Contents(R.disk) = Pruning(d, pl, c, B)
<1> DEFINE G == Prunings(d, pl, c, B)
           deleted == Removals(pl, B, c)
           bared == AdvanceRevision(S)
           removed == RemoveRecords(bared, deleted, pl.present)
           retired == RetireIndex(removed, pl.index, deleted)
           x == retired.disk.old \ deleted
           cleared == [retired EXCEPT !.disk.old = x]
           i == pl.index \ deleted
           left == <<d.records \ deleted, d.catalogs, i>>
<1>1. Prune(S, pl, c, B) = IF B = pl.rest[c] THEN RemoveCatalog(cleared, c) ELSE cleared
  BY Zenon DEF Prune
<1>2. Thinning(G, d, deleted, pl.present)
  BY DEF Prunings, Thinning
<1>3. Pruning(d, pl, c, B) \in G /\ Retiring(d, pl, c, B) \in G /\ Retiring(d, pl, c, B) = left
  BY DEF Prunings, Retiring
<1>4. Contents(d) \in G
  <2>1. {} \in Removable(deleted, pl.present)
    BY DEF Removable
  <2>2. d.records \ {} = d.records
    OBVIOUS
  <2> HIDE DEF deleted, G
  <2> QED
    BY <1>2, <2>1, <2>2 DEF Contents, Thinning, Thinned
<1>5. Pruning(d, pl, c, B) = IF c \in Thread /\ B = pl.rest[c]
                             THEN <<left[1], [left[2] EXCEPT ![c] = NoCatalog], left[3]>> ELSE left
  BY <1>3 DEF Pruning
<1>6. left[1] = d.records \ deleted /\ left[2] = d.catalogs /\ left[3] = i /\ left = <<left[1], left[2], left[3]>>
  OBVIOUS
<1>7. Within(S, G)
  BY <1>4 DEF Within
<1> HIDE DEF G
<1>8. Late(d, bared) /\ Within(bared, G) /\ Contents(bared.disk) = Contents(d)
  BY <1>7, AdvanceWorks, AdvanceWithin DEF Advanced, Late
<1> HIDE DEF bared
<1>9. bared.disk.records = d.records /\ bared.disk.catalogs = d.catalogs /\ bared.disk.index = d.index
  BY <1>8 DEF Contents
<1> HIDE DEF deleted
<1>10. /\ Late(d, removed) /\ Within(removed, G)
       /\ removed.disk.records = d.records \ deleted /\ removed.disk.catalogs = d.catalogs
  <2>1. Thinning(G, bared.disk, deleted, pl.present)
    BY <1>2, <1>9 DEF Thinning, Thinned
  <2>2. Late(d, removed) /\ Within(removed, G) /\ Contents(removed.disk) = Thinned(bared.disk, deleted)
    BY <1>8, <2>1, RemoveWorks, RemoveWithin
  <2> HIDE DEF removed
  <2> QED
    BY <1>9, <2>2 DEF Thinned, Contents
<1> HIDE DEF removed, i
<1>11. Late(d, retired) /\ Within(retired, G) /\ Contents(retired.disk) = left
  <2> DEFINE index == pl.index
  <2>1. Reindexed(removed.disk, i) = left /\ i = index \ deleted
    BY <1>10 DEF i, Reindexed
  <2>2. left \in G
    BY <1>3
  <2> HIDE DEF left, index
  <2> DEFINE after == RetireIndex(removed, index, deleted)
  <2>5. Late(d, removed) /\ Within(removed, G) /\ Reindexed(removed.disk, i) \in G /\ i = index \ deleted
    BY <1>10, <2>1, <2>2
  <2>6. Within(after, G) /\ Contents(after.disk) = Reindexed(removed.disk, i)
    BY <2>5, RetireWithin
  <2>3. Within(after, G) /\ Contents(after.disk) = left
    BY <2>1, <2>6
  <2>4. Late(d, retired)
    BY <1>10, RetireWorks
  <2> QED
    BY <2>3, <2>4 DEF index
<1> HIDE DEF left, retired, x
<1>12. Late(d, cleared) /\ Within(cleared, G) /\ Contents(cleared.disk) = left
  BY <1>11, ClearWorks, ClearWithin
<1> HIDE DEF cleared
<1>13. Forgetting(cleared.disk, c) = <<left[1], [left[2] EXCEPT ![c] = NoCatalog], left[3]>>
  BY <1>6, <1>12 DEF Contents, Forgetting
<1>14. CASE B = pl.rest[c]
  <2>1. /\ Within(RemoveCatalog(cleared, c), G)
        /\ Contents(RemoveCatalog(cleared, c).disk)
             = IF c \in Thread THEN Forgetting(cleared.disk, c) ELSE Contents(cleared.disk)
    <3>1. c \in Thread => Forgetting(cleared.disk, c) \in G
      BY <1>3, <1>5, <1>13, <1>14
    <3> QED
      BY <1>12, <3>1, ForgetWithin
  <2> QED
    BY <1>1, <1>5, <1>12, <1>13, <1>14, <2>1 DEF G
<1>15. CASE B # pl.rest[c]
  BY <1>1, <1>5, <1>12, <1>15 DEF G
<1> QED
  BY <1>14, <1>15

(* Field by field: what is left by a batch, with or without the catalog.   *)
Retired(d, pl, c, B, e) ==
    e.records = d.records \ Removals(pl, B, c) /\ e.index = pl.index \ Removals(pl, B, c)
Disowned(d, pl, c, B, e) ==
    \A t \in Thread : e.catalogs[t] = IF t = c /\ B = pl.rest[c] THEN NoCatalog ELSE d.catalogs[t]
(* The contents say so.                                                    *)
LEMMA PruningIs ==
    ASSUME NEW d, Directory(d), NEW pl, NEW c, NEW B, NEW e
    PROVE  /\ Contents(e) = Retiring(d, pl, c, B) => Retired(d, pl, c, B, e) /\ e.catalogs = d.catalogs
           /\ Contents(e) = Pruning(d, pl, c, B) => Retired(d, pl, c, B, e) /\ Disowned(d, pl, c, B, e)
<1> DEFINE deleted == Removals(pl, B, c)
           records == d.records \ deleted
           index == pl.index \ deleted
           bare == [d.catalogs EXCEPT ![c] = NoCatalog]
<1>1. Retiring(d, pl, c, B) = <<records, d.catalogs, index>>
  BY DEF Retiring
<1>2. Pruning(d, pl, c, B) = IF c \in Thread /\ B = pl.rest[c] THEN <<records, bare, index>>
                             ELSE <<records, d.catalogs, index>>
  BY <1>1 DEF Pruning
<1>3. Contents(e) = <<e.records, e.catalogs, e.index>>
  BY DEF Contents
<1>4. \A t \in Thread : c \in Thread => bare[t] = IF t = c THEN NoCatalog ELSE d.catalogs[t]
  BY DEF Directory
<1> HIDE DEF records, index, bare
<1>5. Contents(e) = Retiring(d, pl, c, B) => e.records = records /\ e.index = index /\ e.catalogs = d.catalogs
  BY <1>1, <1>3
<1>6. ASSUME Contents(e) = Pruning(d, pl, c, B)
      PROVE  /\ e.records = records /\ e.index = index
             /\ \A t \in Thread : e.catalogs[t] = IF t = c /\ B = pl.rest[c] THEN NoCatalog ELSE d.catalogs[t]
  <2>1. CASE c \in Thread /\ B = pl.rest[c]
    BY <1>2, <1>3, <1>4, <1>6, <2>1
  <2>2. CASE ~(c \in Thread /\ B = pl.rest[c])
    BY <1>2, <1>3, <1>6, <2>2
  <2> QED
    BY <2>1, <2>2
<1> QED
  BY <1>5, <1>6 DEF records, index, deleted, Retired, Disowned

-----------------------------------------------------------------------------
(* What stays.                                                             *)

(* Nothing stored refers to what is gone.                                  *)
Whole(d) == \A r \in d.records : Deps[r] \subseteq d.records

(* What a client holds is stored, and owned by its session; what it reads  *)
(* is stored.                                                              *)
Holding == \A p \in Process :
    /\ client[p].session = Idle => client[p].held = {} /\ ~client[p].reading
    /\ ~client[p].reading => client[p].seen = {}
    /\ client[p].held \cup client[p].seen \subseteq disk.records
    /\ \A r \in client[p].held : Owns(disk, client[p].session, r)

(* A plan that nothing overtook: the view it listed is that of the         *)
(* directory; its owners are counted through dependencies, so that whatever *)
(* keeps a referrer keeps what it refers to; and every session but the one *)
(* being retired is counted an owner of all its catalog lists.             *)
Listed(d, pl) == pl.catalogs = d.catalogs /\ pl.sizes = View(d)
Counted(d, pl) ==
    /\ d.records \subseteq pl.present
    /\ \A r \in Record : pl.owner[r] = {c \in Candidate : r \in pl.rest[c]}
    /\ \A s \in d.records :
         pl.owner[s] # {} /\ \A r \in Deps[s] : pl.owner[s] \subseteq pl.owner[r]
Guarded(d, pl) ==
    \A t \in Thread \ {pl.current} : \A r \in Record : Owns(d, t, r) => r \in pl.rest[t]
Drafted(d, pl) ==
    /\ pl.revision \in Nat /\ pl.revision <= d.revision /\ pl.current \in Candidate \cup {Idle}
    /\ pl.rest \in [Candidate -> SUBSET Record] /\ pl.owner \in [Record -> SUBSET Candidate]
    /\ pl.revision = d.revision =>
         /\ pl.stage = "listed" => Listed(d, pl)
         /\ pl.stage = "planned" => Counted(d, pl) /\ Guarded(d, pl)

KeepInv ==
    CacheInv /\ disk.records \subseteq Record /\ Whole(disk) /\ Holding /\ Drafted(disk, plan)

-----------------------------------------------------------------------------
(* Closures.                                                               *)

(* A closure has what it closes over.                                      *)
LEMMA ClosureHolds ==
    ASSUME NEW files, NEW present, NEW r \in Record, r \in files
    PROVE  r \in Closure(files, present)
BY DEF Closure

(* Whatever is read refers to more of it.                                  *)
LEMMA ClosureClosed ==
    ASSUME NEW files, NEW present, NEW s \in Closure(files, present), s \in present
    PROVE  Deps[s] \subseteq Closure(files, present)
<1>1. s \in Record /\ Deps[s] \subseteq Record
  BY Storage DEF Closure
<1> SUFFICES ASSUME NEW r \in Deps[s], NEW F \in SUBSET Record, files \subseteq F,
                    \A u \in F \cap present : Deps[u] \subseteq F
             PROVE  r \in F
  BY <1>1 DEF Closure
<1>2. s \in F
  BY DEF Closure
<1> QED
  BY <1>2

(* And nothing else does.                                                  *)
LEMMA ClosureLeast ==
    ASSUME NEW files, NEW present, NEW r \in Closure(files, present)
    PROVE  Closure({r}, present) \subseteq Closure(files, present)
<1> SUFFICES ASSUME NEW s \in Closure({r}, present), NEW F \in SUBSET Record, files \subseteq F,
                    \A u \in F \cap present : Deps[u] \subseteq F
             PROVE  s \in F
  BY DEF Closure
<1>1. r \in F
  BY DEF Closure
<1> QED
  BY <1>1 DEF Closure

-----------------------------------------------------------------------------
(* Plans.                                                                  *)

(* The candidates of a view and what each reaches.                         *)
Sessions(pl) == {t \in Thread : pl.catalogs[t].exists}
Reached(pl, present) ==
    [t \in Thread |-> IF t \in Sessions(pl) THEN Closure(pl.catalogs[t].files, present) ELSE {}]
Unowned(pl, present) == {r \in Record : pl.sizes[r] > 0} \ UNION Range(Reached(pl, present))
Roots(pl, present) ==
    {r \in Unowned(pl, present) : \A s \in Unowned(pl, present) : r \notin Deps[s]}
Rest(pl, present) ==
    [c \in Candidate |-> CASE c \in Thread -> Reached(pl, present)[c]
                           [] c \in Roots(pl, present) -> Closure({c}, present)
                           [] OTHER -> {}]

(* By candidate.                                                           *)
LEMMA RestIs ==
    ASSUME NEW pl, NEW present, NEW c \in Candidate
    PROVE  /\ Rest(pl, present)[c]
                = IF c \in Thread THEN Reached(pl, present)[c]
                  ELSE IF c \in Roots(pl, present) THEN Closure({c}, present) ELSE {}
           /\ c \in Thread => c \notin Roots(pl, present)
<1>1. c \in Thread => c \notin Roots(pl, present)
  BY Storage DEF Roots, Unowned
<1> DEFINE a == Reached(pl, present)[c]
           b == Closure({c}, present)
<1>2. Rest(pl, present)[c] = CASE c \in Thread -> a [] c \in Roots(pl, present) -> b [] OTHER -> {}
  BY DEF Rest
<1> HIDE DEF a, b
<1> QED
  BY <1>1, <1>2 DEF a, b

(* Whatever a candidate reaches is closed under the dependencies of what   *)
(* is there.                                                               *)
LEMMA RestClosed ==
    ASSUME NEW pl, NEW present, NEW c \in Candidate, NEW s \in Rest(pl, present)[c], s \in present
    PROVE  Deps[s] \subseteq Rest(pl, present)[c] /\ s \in Record
<1>1. \E files : Rest(pl, present)[c] = Closure(files, present)
  <2>1. CASE c \in Thread
    <3>1. Rest(pl, present)[c] = IF c \in Sessions(pl) THEN Closure(pl.catalogs[c].files, present) ELSE {}
      BY <2>1, RestIs DEF Reached
    <3> QED
      BY <3>1
  <2>2. CASE c \notin Thread
    BY <2>2, RestIs
  <2> QED
    BY <2>1, <2>2
<1>2. PICK files : Rest(pl, present)[c] = Closure(files, present)
  BY <1>1
<1>3. s \in Closure(files, present)
  BY <1>2
<1>4. Deps[s] \subseteq Closure(files, present)
  BY <1>3, ClosureClosed
<1> QED
  BY <1>2, <1>3, <1>4 DEF Closure

(* Every stored record is somebody's: a session's, or it is reached from a *)
(* record that nothing refers to, for no circle is planned.                *)
LEMMA RestCovers ==
    ASSUME NEW d, d.records \subseteq Record, NEW pl, pl.sizes = View(d), Ordered(d.records),
           NEW s \in d.records
    PROVE  \E c \in Candidate : s \in Rest(pl, d.records)[c]
<1> DEFINE present == d.records
           un == Unowned(pl, present)
           F == {u \in un : s \in Closure({u}, present)}
<1>1. un \subseteq present
  <2>1. \A r \in Record : pl.sizes[r] = IF r \in d.records THEN 1 ELSE 0
    BY ViewIs DEF Name
  <2> QED
    BY <2>1 DEF Unowned
<1>2. pl.sizes[s] = 1 /\ s \in Record
  BY ViewIs DEF Name
<1>3. CASE s \in UNION Range(Reached(pl, present))
  <2>1. PICK t \in Thread : s \in Reached(pl, present)[t]
    BY <1>3 DEF Range, Reached
  <2>2. Rest(pl, present)[t] = Reached(pl, present)[t] /\ t \in Candidate
    BY RestIs DEF Candidate
  <2> QED
    BY <2>1, <2>2
<1>4. CASE s \notin UNION Range(Reached(pl, present))
  <2>1. s \in un
    BY <1>2, <1>4 DEF Unowned
  <2>2. s \in F
    BY <1>2, <2>1, ClosureHolds
  <2>3. PICK u \in F : \A v \in F : u \notin Deps[v]
    BY <1>1, <2>2 DEF Ordered
  <2>4. ASSUME NEW v \in un, u \in Deps[v] PROVE FALSE
    <3>1. v \in present /\ v \in Record
      BY <1>1, <2>4
    <3>2. v \in Closure({v}, present)
      BY <3>1, ClosureHolds
    <3>3. u \in Closure({v}, present)
      BY <2>4, <3>1, <3>2, ClosureClosed
    <3>4. s \in Closure({v}, present)
      BY <3>3, ClosureLeast
    <3>5. v \in F
      BY <3>4
    <3> QED
      BY <2>3, <2>4, <3>5
  <2>5. u \in Roots(pl, present)
    BY <2>3, <2>4 DEF Roots
  <2>6. u \in Candidate /\ u \notin Thread
    BY <1>1, <2>3, Storage DEF Candidate
  <2>7. Rest(pl, present)[u] = Closure({u}, present)
    BY <2>5, <2>6, RestIs
  <2> QED
    BY <2>3, <2>6, <2>7
<1> QED
  BY <1>3, <1>4

(* These are sets of records.                                              *)
LEMMA RestTyped ==
    ASSUME NEW pl, NEW present
    PROVE  Rest(pl, present) \in [Candidate -> SUBSET Record]
<1> DEFINE rest == Rest(pl, present)
<1>1. ASSUME NEW c \in Candidate PROVE rest[c] \subseteq Record
  <2>1. \A f : Closure(f, present) \subseteq Record
    BY DEF Closure
  <2>2. c \in Thread => Reached(pl, present)[c] \subseteq Record
    BY <2>1 DEF Reached
  <2>3. \/ c \in Thread /\ rest[c] = Reached(pl, present)[c]
        \/ rest[c] = Closure({c}, present)
        \/ rest[c] = {}
    BY RestIs
  <2> HIDE DEF rest
  <2> QED
    BY <2>1, <2>2, <2>3
<1>2. rest = [c \in Candidate |-> rest[c]]
  BY DEF Rest
<1> HIDE DEF rest
<1>3. rest \in [Candidate -> SUBSET Record]
  BY <1>1, <1>2
<1> QED
  BY <1>3 DEF rest

(* A plan made from a view nothing overtook counts and guards.             *)
LEMMA RestDrafts ==
    ASSUME NEW d, d.records \subseteq Record, NEW pl, Drafted(d, pl), Listed(d, pl),
           pl.revision = d.revision, Ordered(d.records), NEW new,
           new.stage = "planned", new.revision = pl.revision, new.current = pl.current, new.present = d.records,
           new.rest = Rest(pl, d.records),
           new.owner = [r \in Record |-> {c \in Candidate : r \in Rest(pl, d.records)[c]}]
    PROVE  Drafted(d, new)
<1> DEFINE rest == Rest(pl, d.records)
<1>1. rest \in [Candidate -> SUBSET Record]
  BY RestTyped
<1>2. Counted(d, new)
  <2>1. ASSUME NEW s \in d.records PROVE new.owner[s] # {}
    <3>1. PICK c \in Candidate : s \in rest[c]
      BY RestCovers DEF Listed
    <3> HIDE DEF rest
    <3> QED
      BY <3>1 DEF rest
  <2>2. ASSUME NEW s \in d.records, NEW r \in Deps[s], NEW c \in new.owner[s] PROVE c \in new.owner[r]
    <3>1. c \in Candidate /\ s \in rest[c] /\ s \in Record
      BY <2>2
    <3>2. r \in rest[c]
      BY <3>1, RestClosed
    <3>3. r \in Record
      BY <3>1, Storage
    <3> HIDE DEF rest
    <3> QED
      BY <3>1, <3>2, <3>3 DEF rest
  <2>3. \A r \in Record : new.owner[r] = {c \in Candidate : r \in new.rest[c]}
    OBVIOUS
  <2> QED
    BY <2>1, <2>2, <2>3 DEF Counted
<1>3. Guarded(d, new)
  <2> SUFFICES ASSUME NEW t \in Thread, NEW r \in Record, Owns(d, t, r) PROVE r \in rest[t]
    BY DEF Guarded
  <2>1. t \in Sessions(pl) /\ r \in pl.catalogs[t].files
    BY DEF Owns, Listed, Sessions
  <2>2. rest[t] = Closure(pl.catalogs[t].files, d.records)
    <3>1. rest[t] = Reached(pl, d.records)[t]
      BY RestIs DEF Candidate
    <3> QED
      BY <2>1, <3>1 DEF Reached
  <2> QED
    BY <2>1, <2>2, ClosureHolds
<1>4. new.owner \in [Record -> SUBSET Candidate]
  OBVIOUS
<1> HIDE DEF rest
<1> QED
  BY <1>1, <1>2, <1>3, <1>4 DEF Drafted, rest

-----------------------------------------------------------------------------
(* Batches.                                                                *)

(* What follows a directory under the same revision stores and lists the   *)
(* same.                                                                   *)
LEMMA FollowsSame ==
    ASSUME NEW d, NEW e, d.records \subseteq Record, e.records \subseteq Record, Follows(d, e),
           e.revision = d.revision
    PROVE  View(e) = View(d) /\ e.catalogs = d.catalogs /\ e.records = d.records
<1>1. View(e) = View(d) /\ e.catalogs = d.catalogs
  BY DEF Follows
<1>2. \A r \in Record : View(d)[r] = (IF r \in d.records THEN 1 ELSE 0)
                        /\ View(e)[r] = (IF r \in e.records THEN 1 ELSE 0)
  BY ViewIs DEF Name
<1>3. ASSUME NEW r \in Record PROVE r \in d.records <=> r \in e.records
  <2>1. View(d)[r] = View(e)[r]
    BY <1>1
  <2> QED
    BY <1>2, <2>1
<1> QED
  BY <1>1, <1>3

(* A plan holds for what follows its directory: it is overtaken, or the    *)
(* view it was made from is unchanged.                                     *)
LEMMA FollowedDrafts ==
    ASSUME NEW d, NEW e, Directory(d), Directory(e), d.records \subseteq Record,
           e.records \subseteq Record, Follows(d, e), NEW pl, Drafted(d, pl)
    PROVE  Drafted(e, pl)
<1>1. /\ d.revision \in Nat /\ e.revision \in Nat /\ d.revision <= e.revision
      /\ pl.revision \in Nat /\ pl.revision <= d.revision
  BY DEF Directory, Follows, Drafted
<1>2. ASSUME pl.revision = e.revision
      PROVE  /\ pl.revision = d.revision /\ View(e) = View(d) /\ e.catalogs = d.catalogs
             /\ e.records = d.records
  <2>1. e.revision = d.revision
    BY <1>1, <1>2
  <2> QED
    BY <1>2, <2>1, FollowsSame
<1>3. ASSUME pl.revision = e.revision, pl.stage = "listed" PROVE Listed(e, pl)
  BY <1>2, <1>3 DEF Drafted, Listed
<1>4. ASSUME pl.revision = e.revision, pl.stage = "planned" PROVE Counted(e, pl) /\ Guarded(e, pl)
  <2>1. e.records = d.records /\ e.catalogs = d.catalogs /\ Counted(d, pl) /\ Guarded(d, pl)
    BY <1>2, <1>4 DEF Drafted
  <2> QED
    BY <2>1 DEF Counted, Guarded, Owns
<1> QED
  BY <1>1, <1>3, <1>4 DEF Drafted

(* What is about to be removed has one owner, the candidate; so has all    *)
(* that refers to it, and that goes before it.                             *)
LEMMA ReferrersGo ==
    ASSUME NEW d, d.records \subseteq Record, NEW pl, Drafted(d, pl), Counted(d, pl),
           NEW c \in Candidate, NEW B \in Removable(pl.rest[c], pl.present),
           NEW s \in d.records, NEW r \in Deps[s], r \in Removals(pl, B, c)
    PROVE  s \in Removals(pl, B, c) /\ s \in pl.present
<1>1. r \in B /\ pl.owner[r] \subseteq {c} /\ B \subseteq pl.rest[c]
  BY DEF Removals, Removable
<1>2. pl.owner[s] # {} /\ pl.owner[s] \subseteq pl.owner[r] /\ s \in pl.present /\ s \in Record
  BY DEF Counted
<1>3. c \in pl.owner[s] /\ pl.owner[s] \subseteq {c}
  BY <1>1, <1>2
<1>4. s \in pl.rest[c]
  BY <1>2, <1>3 DEF Counted
<1>5. s \in B
  BY <1>1, <1>2, <1>4 DEF Removable
<1> QED
  BY <1>2, <1>3, <1>5 DEF Removals

(* So whatever part of it goes, nothing is left dangling.                  *)
LEMMA ThinnedWhole ==
    ASSUME NEW d, d.records \subseteq Record, Whole(d), NEW pl, Drafted(d, pl), Counted(d, pl),
           NEW c \in Candidate, NEW B \in Removable(pl.rest[c], pl.present),
           NEW D \in Removable(Removals(pl, B, c), pl.present),
           NEW e, e.records = d.records \ D
    PROVE  Whole(e)
<1> SUFFICES ASSUME NEW s \in e.records, NEW r \in Deps[s], r \notin e.records PROVE FALSE
  BY DEF Whole
<1>1. s \in d.records /\ s \notin D /\ r \in d.records
  BY DEF Whole
<1>2. r \in D /\ D \subseteq Removals(pl, B, c)
  BY <1>1 DEF Removable
<1>3. s \in Removals(pl, B, c) /\ s \in pl.present
  BY <1>1, <1>2, ReferrersGo
<1> HIDE DEF Removals
<1> QED
  BY <1>1, <1>2, <1>3 DEF Removable

(* A record another session lists, under a plan nothing overtook, is not   *)
(* among what is removed.                                                  *)
LEMMA OwnedStay ==
    ASSUME NEW d, NEW pl, Drafted(d, pl), Counted(d, pl), Guarded(d, pl), NEW c \in Candidate, NEW B,
           NEW t \in Thread, t # c, t # pl.current, NEW r \in Record, Owns(d, t, r)
    PROVE  r \notin Removals(pl, B, c)
<1>1. r \in pl.rest[t] /\ t \in Candidate
  BY DEF Guarded, Candidate
<1>2. t \in pl.owner[r]
  BY <1>1 DEF Counted
<1> QED
  BY <1>2 DEF Removals

(* A plan after a batch, field by field.                                   *)
Batched(pl, S, c, B, new) ==
    /\ new.stage = pl.stage /\ new.revision = S.disk.revision /\ new.present = pl.present
    /\ new.index = pl.index \ Removals(pl, B, c)
    /\ \A x \in Candidate : new.rest[x] = IF x = c THEN pl.rest[c] \ B ELSE pl.rest[x]
    /\ new.rest = [x \in Candidate |-> new.rest[x]]
    /\ new.owner = [r \in Record |-> IF r \in B THEN pl.owner[r] \ {c} ELSE pl.owner[r]]
    /\ new.current = IF B = pl.rest[c] THEN Idle ELSE c
(* So a batch leaves its plan.                                             *)
LEMMA PrunedIs ==
    ASSUME NEW pl, DOMAIN pl = DOMAIN NoPlan, NEW S, NEW c \in Candidate, NEW B,
           pl.rest \in [Candidate -> SUBSET Record]
    PROVE  Batched(pl, S, c, B, Pruned(pl, S, c, B))
<1> DEFINE deleted == Removals(pl, B, c)
           done == B = pl.rest[c]
           rev == S.disk.revision
           index == pl.index \ deleted
           sizes == [n \in Name |-> CASE n \in deleted \/ (done /\ n = c) -> 0
                                      [] n = Index -> Cardinality(pl.index \ deleted)
                                      [] OTHER -> pl.sizes[n]]
           rest == pl.rest[c] \ B
           owner == [r \in Record |-> IF r \in B THEN pl.owner[r] \ {c} ELSE pl.owner[r]]
           current == IF done THEN Idle ELSE c
           todo == IF done THEN pl.todo \ {c} ELSE pl.todo
           new == [pl EXCEPT !.revision = rev, !.index = index, !.sizes = sizes, !.rest[c] = rest,
                             !.owner = owner, !.current = current, !.todo = todo]
<1>1. Pruned(pl, S, c, B) = new
  BY Zenon DEF Pruned
<1>2. "revision" \in DOMAIN pl /\ "rest" \in DOMAIN pl /\ "owner" \in DOMAIN pl /\ "current" \in DOMAIN pl
  BY DEF NoPlan
<1> HIDE DEF rev, index, sizes, rest, owner, current, todo
<1>3. /\ new.stage = pl.stage /\ new.revision = rev /\ new.present = pl.present /\ new.index = index
      /\ new.rest = [pl.rest EXCEPT ![c] = rest] /\ new.owner = owner /\ new.current = current
  <2> DEFINE f1 == [pl EXCEPT !.revision = rev]
             f2 == [f1 EXCEPT !.index = index]
             f3 == [f2 EXCEPT !.sizes = sizes]
             f4 == [f3 EXCEPT !.rest[c] = rest]
             f5 == [f4 EXCEPT !.owner = owner]
             f6 == [f5 EXCEPT !.current = current]
             f7 == [f6 EXCEPT !.todo = todo]
  <2>1. DOMAIN pl = {"by", "stage", "revision", "expire", "pressure", "old", "catalogs", "sizes", "present",
                     "index", "current", "todo", "rest", "owner"}
    BY DEF NoPlan
  <2>2. /\ DOMAIN f4 = DOMAIN pl /\ f4.stage = pl.stage /\ f4.revision = rev /\ f4.present = pl.present
        /\ f4.index = index /\ f4.rest = [pl.rest EXCEPT ![c] = rest]
    BY <2>1
  <2>3. new = f7
    BY Zenon
  <2> HIDE DEF f4
  <2>4. /\ f7.stage = f4.stage /\ f7.revision = f4.revision /\ f7.present = f4.present
        /\ f7.index = f4.index /\ f7.rest = f4.rest /\ f7.owner = owner /\ f7.current = current
    BY <2>1, <2>2
  <2> HIDE DEF f7, new
  <2> QED
    BY <2>2, <2>3, <2>4
<1> HIDE DEF new
<1>4. /\ \A x \in Candidate : new.rest[x] = IF x = c THEN rest ELSE pl.rest[x]
      /\ new.rest = [x \in Candidate |-> new.rest[x]]
  BY <1>3
<1> QED
  BY <1>1, <1>3, <1>4 DEF rev, index, rest, owner, current, Batched

(* After a batch of a plan nothing overtook, the plan counts and guards    *)
(* what the batch left.                                                    *)
LEMMA PrunedDrafts ==
    ASSUME NEW d, d.records \subseteq Record, NEW pl, DOMAIN pl = DOMAIN NoPlan, Drafted(d, pl),
           Counted(d, pl), Guarded(d, pl), NEW c \in Candidate, pl.current \in {Idle, c},
           pl.stage = "planned",
           NEW B \in Removable(pl.rest[c], pl.present), NEW S, S.disk.revision \in Nat,
           Directory(d), Contents(S.disk) = Pruning(d, pl, c, B)
    PROVE  Drafted(S.disk, Pruned(pl, S, c, B))
<1> DEFINE new == Pruned(pl, S, c, B)
           e == S.disk
           deleted == Removals(pl, B, c)
<1>1. /\ new.stage = pl.stage /\ new.revision = S.disk.revision /\ new.present = pl.present
      /\ \A x \in Candidate : new.rest[x] = IF x = c THEN pl.rest[c] \ B ELSE pl.rest[x]
      /\ new.rest = [x \in Candidate |-> new.rest[x]]
      /\ new.owner = [r \in Record |-> IF r \in B THEN pl.owner[r] \ {c} ELSE pl.owner[r]]
      /\ new.current = IF B = pl.rest[c] THEN Idle ELSE c
  <2>1. pl.rest \in [Candidate -> SUBSET Record]
    BY DEF Drafted
  <2>2. Batched(pl, S, c, B, new)
    BY <2>1, PrunedIs
  <2> HIDE DEF new
  <2> QED
    BY <2>2 DEF Batched
<1>2. /\ pl.rest \in [Candidate -> SUBSET Record] /\ pl.owner \in [Record -> SUBSET Candidate]
      /\ B \subseteq pl.rest[c]
  BY DEF Drafted, Removable
<1>3. /\ e.records = d.records \ deleted
      /\ \A t \in Thread : e.catalogs[t] = IF t = c /\ B = pl.rest[c] THEN NoCatalog ELSE d.catalogs[t]
  <2>1. Contents(e) = Pruning(d, pl, c, B)
    OBVIOUS
  <2> HIDE DEF e
  <2>2. Retired(d, pl, c, B, e) /\ Disowned(d, pl, c, B, e)
    BY <2>1, PruningIs
  <2> QED
    BY <2>2 DEF Retired, Disowned
<1> HIDE DEF new, e
<1>4. Counted(e, new)
  <2>1. e.records \subseteq new.present
    BY <1>1, <1>3 DEF Counted
  <2>2. ASSUME NEW r \in Record, NEW x \in Candidate
        PROVE  x \in new.owner[r] <=> r \in new.rest[x]
    <3>1. x \in pl.owner[r] <=> r \in pl.rest[x]
      BY <2>2 DEF Counted
    <3> QED
      BY <1>1, <3>1
  <2>3. \A r \in Record : new.owner[r] \subseteq Candidate
    BY <1>1, <1>2
  <2>4. ASSUME NEW r \in Record PROVE new.owner[r] = {x \in Candidate : r \in new.rest[x]}
    BY <2>2, <2>3
  <2>5. ASSUME NEW s \in e.records PROVE new.owner[s] # {}
    <3>1. s \in d.records /\ s \notin deleted /\ s \in Record /\ pl.owner[s] # {}
      BY <1>3 DEF Counted
    <3>2. s \in B => ~(pl.owner[s] \subseteq {c})
      BY <3>1 DEF Removals
    <3> QED
      BY <1>1, <3>1, <3>2
  <2>6. ASSUME NEW s \in e.records, NEW r \in Deps[s], NEW x \in new.owner[s] PROVE x \in new.owner[r]
    <3>1. s \in d.records /\ s \in Record /\ r \in Record /\ s \in pl.present
      BY <1>3, Storage DEF Counted
    <3>2. x \in pl.owner[s] /\ pl.owner[s] \subseteq pl.owner[r]
      BY <1>1, <2>6, <3>1 DEF Counted
    <3>3. ASSUME r \in B PROVE x # c
      <4> SUFFICES ASSUME x = c PROVE FALSE
        OBVIOUS
      <4>1. s \notin B
        BY <1>1, <2>6, <3>1
      <4>2. s \in pl.rest[c]
        BY <3>1, <3>2 DEF Counted
      <4> QED
        BY <3>1, <3>3, <4>1, <4>2 DEF Removable
    <3> QED
      BY <1>1, <3>1, <3>2, <3>3
  <2> QED
    BY <2>1, <2>4, <2>5, <2>6 DEF Counted
<1>5. Guarded(e, new)
  <2> SUFFICES ASSUME NEW t \in Thread, t # new.current, NEW r \in Record, Owns(e, t, r)
               PROVE  r \in new.rest[t]
    BY DEF Guarded
  <2>1. t # c
    <3> SUFFICES ASSUME t = c PROVE FALSE
      OBVIOUS
    <3>1. B = pl.rest[c]
      BY <1>1
    <3>2. e.catalogs[t] = NoCatalog
      BY <1>3, <3>1
    <3> QED
      BY <3>2 DEF Owns, NoCatalog
  <2>2. t # pl.current /\ t \in Candidate
    BY <2>1, Storage DEF Candidate
  <2>3. Owns(d, t, r)
    BY <1>3, <2>1 DEF Owns
  <2>4. r \in pl.rest[t]
    BY <2>2, <2>3 DEF Guarded
  <2> QED
    BY <1>1, <2>1, <2>2, <2>4
<1>6. new.rest \in [Candidate -> SUBSET Record]
  <2>1. \A x \in Candidate : new.rest[x] \subseteq Record
    BY <1>1, <1>2
  <2> QED
    BY <1>1, <2>1
<1>7. new.owner \in [Record -> SUBSET Candidate]
  BY <1>1, <1>2
<1>8. new.current \in Candidate \cup {Idle}
  BY <1>1
<1>9. new.revision \in Nat /\ new.revision <= e.revision
  BY <1>1 DEF e
<1>10. new.stage # "listed"
  BY <1>1
<1> QED
  BY <1>4, <1>5, <1>6, <1>7, <1>8, <1>9, <1>10 DEF Drafted, new, e

-----------------------------------------------------------------------------
(* What transactions leave.                                                *)

(* Whatever a transaction leaves, done or failed, is among the contents it *)
(* went through, and follows the directory it began on.                    *)
LEMMA Settled ==
    ASSUME NEW p, NEW S, Working(disk, S), NEW G, Within(S, G), Commit(p, S) \/ Fail(p, S)
    PROVE  Directory(disk') /\ Follows(disk, disk') /\ Contents(disk') \in G
<1>1. CASE Commit(p, S)
  <2>1. disk' = S.disk /\ Left(disk, S) /\ Contents(S.disk) \in G
    BY <1>1 DEF Commit, Working, Within
  <2> QED
    BY <2>1 DEF Left
<1>2. CASE Fail(p, S)
  <2>1. PICK left \in S.past : disk' = left.disk
    BY <1>2 DEF Fail
  <2>2. Left(disk, left) /\ Contents(left.disk) \in G
    BY DEF Working, Within
  <2> QED
    BY <2>1, <2>2 DEF Left
<1> QED
  BY <1>1, <1>2

(* A directory that stores and lists all another did, and dangles nothing. *)
Grown(d, e) ==
    /\ d.records \subseteq e.records /\ e.records \subseteq Record /\ Whole(e)
    /\ \A t \in Thread : \A r : Owns(d, t, r) => Owns(e, t, r)

(* A session that adopts names lists what it listed, and them; a record    *)
(* that goes out after what it refers to dangles nothing.                  *)
LEMMA AdoptingGrown ==
    ASSUME NEW d, Directory(d), d.records \subseteq Record, Whole(d), NEW t \in Thread, NEW names,
           NEW e, \/ e.records = d.records
                  \/ \E r \in Record : Deps[r] \subseteq d.records /\ e.records = d.records \cup {r},
           e.catalogs = d.catalogs \/ e.catalogs = Adopting(d, t, names)[2]
    PROVE  /\ Grown(d, e)
           /\ e.catalogs = Adopting(d, t, names)[2] => \A s \in names : Owns(e, t, s)
<1> DEFINE v == Adopted(d, t, names)
           c == [d.catalogs EXCEPT ![t] = v]
<1>1. Adopting(d, t, names)[2] = c
  BY DEF Adopting
<1>2. v.exists /\ d.catalogs[t].files \subseteq v.files /\ names \subseteq v.files
  BY DEF Adopted
<1> HIDE DEF v
<1>3. \A u \in Thread : c[u] = IF u = t THEN v ELSE d.catalogs[u]
  BY DEF Directory
<1> HIDE DEF c
<1>4. ASSUME NEW u \in Thread, NEW s, Owns(d, u, s) PROVE Owns(e, u, s)
  BY <1>1, <1>2, <1>3, <1>4 DEF Owns
<1>5. Whole(e)
  BY DEF Whole
<1>6. e.catalogs = c => \A s \in names : Owns(e, t, s)
  BY <1>2, <1>3 DEF Owns
<1> QED
  BY <1>1, <1>4, <1>5, <1>6 DEF Grown

(* What clients hold stays held as the directory grows, and so does what a *)
(* client takes hold of that is stored and owned.                          *)
LEMMA HoldingGrown ==
    ASSUME Clients, Holding, Grown(disk, disk'), NEW p \in Process, NEW after,
           client' = [client EXCEPT ![p] = after],
           after.session = Idle => after.held = {} /\ ~after.reading,
           ~after.reading => after.seen = {},
           after.held \cup after.seen \subseteq disk'.records,
           \A r \in after.held : Owns(disk', after.session, r)
    PROVE  Holding'
<1>1. \A q \in Process : client'[q] = IF q = p THEN after ELSE client[q]
  BY DEF Clients
<1>2. ASSUME NEW q \in Process, q # p
      PROVE  /\ client[q].session = Idle => client[q].held = {} /\ ~client[q].reading
             /\ ~client[q].reading => client[q].seen = {}
             /\ client[q].held \cup client[q].seen \subseteq disk'.records
             /\ \A r \in client[q].held : Owns(disk', client[q].session, r)
  <2>1. client[q].session \in Thread \cup {Idle}
    BY DEF Clients
  <2> QED
    BY <2>1 DEF Holding, Grown
<1> QED
  BY <1>1, <1>2 DEF Holding

(* Clients that change nothing hold what they held.                        *)
LEMMA HoldingStays ==
    ASSUME Clients, Holding, Grown(disk, disk'), UNCHANGED client
    PROVE  Holding'
<1>1. ASSUME NEW q \in Process PROVE client[q].session \in Thread \cup {Idle}
  BY DEF Clients
<1> QED
  BY <1>1 DEF Holding, Grown

(* The invariant at a transaction of a client.                             *)
LEMMA GrownKept ==
    ASSUME KeepInv, CacheInv', Grown(disk, disk'), Follows(disk, disk'), Holding', UNCHANGED plan
    PROVE  KeepInv'
<1>1. Directory(disk) /\ Directory(disk')
  BY DEF KeepInv, CacheInv, Caches
<1>2. disk.records \subseteq Record /\ disk'.records \subseteq Record /\ Drafted(disk, plan)
  BY DEF KeepInv, Grown
<1>3. Drafted(disk', plan)
  BY <1>1, <1>2, FollowedDrafts
<1> QED
  BY <1>2, <1>3 DEF KeepInv, Grown

-----------------------------------------------------------------------------
(* Clients.                                                                *)

(* Adoption leaves the directory as it was, or the one catalog with the    *)
(* names adopted.                                                          *)
LEMMA RetainSettles ==
    ASSUME CacheInv, NEW p \in Process, NEW t \in Thread, NEW names, NEW noted,
           Commit(p, Retain(Open(p), t, names, noted)) \/ Fail(p, Retain(Open(p), t, names, noted))
    PROVE  /\ Follows(disk, disk') /\ Directory(disk)
           /\ disk'.records = disk.records /\ disk'.index = disk.index
           /\ disk'.catalogs = disk.catalogs \/ disk'.catalogs = Adopting(disk, t, names)[2]
           /\ Retain(Open(p), t, names, noted).ok /\ Commit(p, Retain(Open(p), t, names, noted))
                => disk'.catalogs = Adopting(disk, t, names)[2]
<1> DEFINE S == Retain(Open(p), t, names, noted)
           G == {Contents(disk), Adopting(disk, t, names)}
<1>1. /\ Caches /\ Directory(disk)
      /\ Working(disk, Open(p)) /\ Open(p).disk = disk /\ Open(p).past = {}
  BY OpenKept DEF CacheInv, Caches, Open
<1>2. Within(Open(p), G)
  BY <1>1 DEF Within
<1>3. Adopting(Open(p).disk, t, names) \in G /\ Adopting(Open(p).disk, t, names) = Adopting(disk, t, names)
  BY <1>1
<1> DEFINE O == Open(p)
<1> HIDE DEF G, O
<1>4. Working(disk, S) /\ Within(S, G) /\ (S.ok => Contents(S.disk) = Adopting(disk, t, names))
  BY <1>1, <1>2, <1>3, RetainWorks, RetainWithin
<1> HIDE DEF S
<1>5. Follows(disk, disk') /\ Contents(disk') \in G
  BY <1>4, Settled DEF S
<1>6. /\ disk'.records = disk.records /\ disk'.index = disk.index
      /\ disk'.catalogs = disk.catalogs \/ disk'.catalogs = Adopting(disk, t, names)[2]
  BY <1>5 DEF G, Contents, Adopting
<1>7. S.ok /\ Commit(p, S) => disk'.catalogs = Adopting(disk, t, names)[2]
  BY <1>4 DEF Commit, Contents, Adopting
<1> QED
  BY <1>1, <1>5, <1>6, <1>7 DEF S

(* So it stores and lists what it did, and the names when it is done.      *)
LEMMA RetainGrows ==
    ASSUME KeepInv, NEW p \in Process, NEW t \in Thread, NEW names, NEW noted,
           Commit(p, Retain(Open(p), t, names, noted)) \/ Fail(p, Retain(Open(p), t, names, noted))
    PROVE  /\ Grown(disk, disk') /\ Follows(disk, disk') /\ disk'.records = disk.records
           /\ Retain(Open(p), t, names, noted).ok /\ Commit(p, Retain(Open(p), t, names, noted))
                => \A r \in names : Owns(disk', t, r)
<1> DEFINE S == Retain(Open(p), t, names, noted)
<1>1. /\ Follows(disk, disk') /\ Directory(disk) /\ disk'.records = disk.records
      /\ disk'.catalogs = disk.catalogs \/ disk'.catalogs = Adopting(disk, t, names)[2]
      /\ S.ok /\ Commit(p, S) => disk'.catalogs = Adopting(disk, t, names)[2]
  BY RetainSettles DEF KeepInv
<1> HIDE DEF S
<1>2. disk.records \subseteq Record /\ Whole(disk)
  BY DEF KeepInv
<1>3. /\ Grown(disk, disk')
      /\ disk'.catalogs = Adopting(disk, t, names)[2] => \A r \in names : Owns(disk', t, r)
  BY <1>1, <1>2, AdoptingGrown
<1> QED
  BY <1>1, <1>3 DEF S

(* A record that goes out leaves the directory as it was, or first the one *)
(* catalog with its name, then it, then the index with its name.           *)
Issues(d, c, r, e) ==
    \/ e.records = d.records /\ e.catalogs = d.catalogs /\ e.index = d.index
    \/ /\ e.catalogs = c
       /\ e.records = d.records \/ e.records = d.records \cup {r}
       /\ e.index = d.index \/ (r \in Indexed /\ e.index = d.index \cup {r})
(* So a publication settles, done or failed.                               *)
LEMMA PublishSettles ==
    ASSUME CacheInv, NEW p \in Process, NEW r \in Record, NEW noted, client[p].session \in Thread,
           LET S == PublishIndex(PublishRecord(Open(p), client[p].session, r, noted), r)
           IN  Commit(p, S) \/ Fail(p, S)
    PROVE  LET t == client[p].session
               S == PublishIndex(PublishRecord(Open(p), t, r, noted), r)
               c == Adopting(disk, t, {r})[2]
           IN  /\ Follows(disk, disk') /\ Directory(disk) /\ Issues(disk, c, r, disk')
               /\ S.ok /\ disk' = S.disk => disk'.records = disk.records \cup {r} /\ disk'.catalogs = c
<1> DEFINE t == client[p].session
           R == PublishRecord(Open(p), t, r, noted)
           S == PublishIndex(R, r)
           c == Adopting(disk, t, {r})[2]
           all == disk.records \cup {r}
           names == IF r \in Indexed THEN disk.index \cup {r} ELSE disk.index
           last == <<all, c, names>>
           G == {Contents(disk), Adopting(disk, t, {r}), Issuing(disk, t, r), last}
<1>1. /\ Caches /\ Directory(disk) /\ t \in Thread
      /\ Working(disk, Open(p)) /\ Open(p).disk = disk /\ Open(p).past = {}
  BY OpenKept DEF CacheInv, Caches, Open
<1>2. /\ Within(Open(p), G) /\ Adopting(Open(p).disk, t, {r}) \in G
      /\ Issuing(Open(p).disk, t, r) \in G /\ last \in G
  BY <1>1 DEF Within
<1>3. Issuing(disk, t, r) = <<all, c, disk.index>> /\ Adopting(disk, t, {r}) = <<disk.records, c, disk.index>>
  BY DEF Issuing, Adopting
<1>4. \A g \in G : g = Contents(disk) \/ g = Adopting(disk, t, {r}) \/ g = Issuing(disk, t, r) \/ g = last
  OBVIOUS
<1> HIDE DEF G
<1>5. /\ Working(disk, R) /\ Within(R, G)
      /\ R.ok => Contents(R.disk) = Issuing(disk, t, r)
  <2> DEFINE O == Open(p)
  <2> HIDE DEF O
  <2>1. Working(disk, R)
    BY <1>1, PublishRecordWorks
  <2>2. Within(R, G) /\ (R.ok => Contents(R.disk) = Issuing(O.disk, t, r))
    <3>1. /\ Working(disk, O) /\ Within(O, G) /\ Adopting(O.disk, t, {r}) \in G
          /\ Issuing(O.disk, t, r) \in G
      BY <1>1, <1>2 DEF O
    <3>2. R = PublishRecord(O, t, r, noted) /\ t \in Thread
      BY <1>1 DEF O
    <3> HIDE DEF R, t
    <3>3. Issued(PublishRecord(O, t, r, noted), O.disk, t, r, G)
      BY <1>1, <3>1, <3>2, PublishWithin
    <3> QED
      BY <3>2, <3>3 DEF Issued
  <2>3. O.disk = disk
    BY <1>1 DEF O
  <2> HIDE DEF R
  <2> QED
    BY <2>1, <2>2, <2>3
<1> HIDE DEF R, c, all
<1>6. R.ok => Indexing(R.disk, r) = last
  <2>1. ASSUME R.ok PROVE R.disk.records = all /\ R.disk.catalogs = c /\ R.disk.index = disk.index
    BY <1>3, <1>5, <2>1 DEF Contents
  <2> QED
    BY <2>1 DEF Indexing
<1> HIDE DEF last
<1>7. Working(disk, S) /\ Within(S, G) /\ (S.ok => Contents(S.disk) = last)
  <2>1. R.ok => Indexing(R.disk, r) \in G
    BY <1>2, <1>6
  <2>2. Within(S, G) /\ (S.ok => R.ok /\ Contents(S.disk) = Indexing(R.disk, r))
    BY <1>1, <1>5, <2>1, IndexWithin
  <2>3. Working(disk, S)
    BY <1>1, <1>5, PublishIndexWorks
  <2> HIDE DEF S
  <2> QED
    BY <1>6, <2>2, <2>3
<1>8. Commit(p, S) \/ Fail(p, S)
  BY DEF R
<1> HIDE DEF S
<1>9. Follows(disk, disk') /\ Contents(disk') \in G
  BY <1>7, <1>8, Settled
<1>10. Issues(disk, c, r, disk')
  <2>1. Contents(disk') = <<disk'.records, disk'.catalogs, disk'.index>>
        /\ Contents(disk) = <<disk.records, disk.catalogs, disk.index>>
    BY DEF Contents
  <2>2. CASE Contents(disk') = Contents(disk)
    BY <2>1, <2>2 DEF Issues
  <2>3. CASE Contents(disk') = Adopting(disk, t, {r})
    <3>1. disk'.records = disk.records /\ disk'.catalogs = c /\ disk'.index = disk.index
      BY <1>3, <2>1, <2>3
    <3> QED
      BY <3>1 DEF Issues
  <2>4. CASE Contents(disk') = Issuing(disk, t, r)
    <3>1. disk'.records = all /\ disk'.catalogs = c /\ disk'.index = disk.index
      BY <1>3, <2>1, <2>4
    <3> QED
      BY <3>1 DEF Issues, all
  <2>5. CASE Contents(disk') = last
    <3>1. disk'.records = all /\ disk'.catalogs = c /\ disk'.index = names
      BY <2>1, <2>5 DEF last
    <3> QED
      BY <3>1 DEF Issues, all
  <2> QED
    BY <1>4, <1>9, <2>2, <2>3, <2>4, <2>5
<1>11. ASSUME S.ok, disk' = S.disk PROVE disk'.records = all /\ disk'.catalogs = c
  BY <1>7, <1>11 DEF Contents, last
<1> QED
  BY <1>1, <1>9, <1>10, <1>11 DEF S, R, all, c

(* A record published again leaves the directory as it was, but for its    *)
(* name in the index.                                                      *)
Renamed(d, r, e) ==
    /\ e.records = d.records /\ e.catalogs = d.catalogs
    /\ e.index = d.index \/ (r \in Indexed /\ e.index = d.index \cup {r})
(* So it settles, done or failed.                                          *)
LEMMA RepublishSettles ==
    ASSUME CacheInv, NEW p \in Process, NEW r \in Record, Republish(p, r)
    PROVE  Follows(disk, disk') /\ Directory(disk) /\ Renamed(disk, r, disk')
<1> DEFINE O == Open(p)
           S == PublishIndex(O, r)
           G == {Contents(disk), Indexing(disk, r)}
<1>1. /\ Caches /\ Directory(disk) /\ Working(disk, O) /\ O.disk = disk /\ O.past = {}
  BY OpenKept DEF CacheInv, Caches, Open
<1>2. Commit(p, S) \/ Fail(p, S)
  BY DEF Republish, Transact
<1> HIDE DEF O
<1>3. Within(O, G) /\ Indexing(O.disk, r) \in G
  BY <1>1 DEF Within
<1>4. \A g \in G : g = Contents(disk) \/ g = Indexing(disk, r)
  OBVIOUS
<1> HIDE DEF G
<1>5. Working(disk, S) /\ Within(S, G)
  BY <1>1, <1>3, PublishIndexWorks, IndexWithin
<1> HIDE DEF S
<1>6. Follows(disk, disk') /\ Contents(disk') \in G
  BY <1>1, <1>2, <1>5, Settled
<1>7. Renamed(disk, r, disk')
  <2>1. CASE Contents(disk') = Contents(disk)
    BY <2>1 DEF Contents, Renamed
  <2>2. CASE Contents(disk') = Indexing(disk, r)
    BY <2>2 DEF Contents, Indexing, Renamed
  <2> QED
    BY <1>4, <1>6, <2>1, <2>2
<1> QED
  BY <1>1, <1>6, <1>7

(* A session begins: it holds nothing yet.                                 *)
LEMMA BeginKeeps ==
    ASSUME KeepInv, NEW p \in Process, NEW t \in Thread, NEW noted, BeginSession(p, t, noted)
    PROVE  KeepInv'
<1> DEFINE S == Retain(Open(p), t, {}, noted)
           after == [client[p] EXCEPT !.session = t]
<1>1. Clients /\ Holding /\ CacheInv'
  BY BeginKept DEF KeepInv, CacheInv
<1>2. Transact(p, S, after) /\ UNCHANGED plan /\ client[p].session = Idle
  BY DEF BeginSession
<1>3. Commit(p, S) \/ Fail(p, S)
  BY <1>2 DEF Transact
<1>4. Grown(disk, disk') /\ Follows(disk, disk')
  BY <1>3, RetainGrows
<1>5. client' = client \/ client' = [client EXCEPT ![p] = after]
  BY <1>1, <1>2 DEF Transact, Clients
<1>6. Holding'
  <2>1. CASE client' = client
    BY <1>1, <1>4, <2>1, HoldingStays
  <2>2. CASE client' = [client EXCEPT ![p] = after]
    <3>1. client[p].held = {} /\ ~client[p].reading /\ client[p].seen = {}
      BY <1>1, <1>2 DEF Holding
    <3>2. after.held = client[p].held /\ after.reading = client[p].reading /\ after.seen = client[p].seen
      BY <1>1 DEF Clients
    <3> HIDE DEF after
    <3> QED
      BY <1>1, <1>4, <2>2, <3>1, <3>2, HoldingGrown
  <2> QED
    BY <1>5, <2>1, <2>2
<1> QED
  BY <1>1, <1>2, <1>4, <1>6, GrownKept

(* A record goes out behind what it refers to, which its session holds.    *)
LEMMA PublishKeeps ==
    ASSUME KeepInv, NEW p \in Process, NEW r \in Record, NEW noted, Publish(p, r, noted)
    PROVE  KeepInv'
<1> DEFINE t == client[p].session
           S == PublishIndex(PublishRecord(Open(p), t, r, noted), r)
           after == [client[p] EXCEPT !.held = @ \cup {r}]
           c == Adopting(disk, t, {r})[2]
           all == disk.records \cup {r}
<1>1. /\ Clients /\ Holding /\ CacheInv' /\ disk.records \subseteq Record
      /\ Whole(disk) /\ t \in Thread /\ t # Idle
  BY PublishKept DEF KeepInv, CacheInv, Clients, Publish
<1>2. /\ Transact(p, S, after) /\ UNCHANGED plan /\ ~client[p].reading
      /\ Deps[r] \subseteq client[p].held
  BY DEF Publish
<1>3. Deps[r] \subseteq disk.records
  BY <1>1, <1>2 DEF Holding
<1>6. Commit(p, S) \/ Fail(p, S)
  BY <1>2 DEF Transact
<1>7. /\ Follows(disk, disk') /\ Directory(disk) /\ Issues(disk, c, r, disk')
      /\ S.ok /\ disk' = S.disk => disk'.records = all /\ disk'.catalogs = c
  BY <1>1, <1>6, PublishSettles DEF KeepInv
<1> HIDE DEF S, c
<1>9. /\ disk'.records = disk.records \/ disk'.records = all
      /\ disk'.catalogs = disk.catalogs \/ disk'.catalogs = c
  BY <1>7 DEF Issues
<1>10. /\ Grown(disk, disk')
       /\ disk'.catalogs = c => \A s \in {r} : Owns(disk', t, s)
  BY <1>1, <1>3, <1>7, <1>9, AdoptingGrown DEF c
<1>11. \/ client' = client
       \/ client' = [client EXCEPT ![p] = after] /\ S.ok /\ disk' = S.disk
  BY <1>1, <1>2 DEF Transact, Clients, Commit
<1>12. Holding'
  <2>1. CASE client' = client
    BY <1>1, <1>10, <2>1, HoldingStays
  <2>2. CASE client' = [client EXCEPT ![p] = after] /\ S.ok /\ disk' = S.disk
    <3>1. disk'.records = all /\ Owns(disk', t, r)
      BY <1>7, <1>10, <2>2
    <3>2. /\ after.session = t /\ after.held = client[p].held \cup {r}
          /\ after.reading = client[p].reading /\ after.seen = client[p].seen
      BY <1>1 DEF Clients
    <3> HIDE DEF after
    <3>3. /\ client[p].held \cup client[p].seen \subseteq disk.records
          /\ \A s \in client[p].held : Owns(disk, t, s)
          /\ ~client[p].reading => client[p].seen = {}
      BY <1>1 DEF Holding
    <3>4. \A s \in after.held : Owns(disk', t, s)
      BY <1>1, <1>10, <3>1, <3>2, <3>3 DEF Grown
    <3>5. after.held \cup after.seen \subseteq disk'.records
      BY <3>1, <3>2, <3>3
    <3> HIDE DEF t
    <3> QED
      BY <1>1, <1>10, <2>2, <3>2, <3>3, <3>4, <3>5, HoldingGrown
  <2> QED
    BY <1>11, <2>1, <2>2
<1> QED
  BY <1>1, <1>2, <1>7, <1>10, <1>12, GrownKept

(* A record published again is held where its session owned it.            *)
LEMMA RepublishKeeps ==
    ASSUME KeepInv, NEW p \in Process, NEW r \in Record, Republish(p, r)
    PROVE  KeepInv'
<1> DEFINE t == client[p].session
           again == [client[p] EXCEPT !.held = @ \cup {r}]
<1>1. /\ Clients /\ Holding /\ CacheInv' /\ CacheInv /\ t \in Thread /\ t # Idle
      /\ r \in disk.records /\ ~client[p].reading
  BY RepublishKept DEF KeepInv, CacheInv, Clients, Republish
<1>2. /\ UNCHANGED plan
      /\ client' = client \/ (client' = [client EXCEPT ![p] = again] /\ Owns(disk, t, r))
  BY <1>1 DEF Republish, Transact, Clients
<1>3. Follows(disk, disk') /\ Directory(disk) /\ Renamed(disk, r, disk')
  BY <1>1, RepublishSettles
<1>4. Grown(disk, disk')
  <2>1. disk.records \subseteq Record /\ Whole(disk)
    BY DEF KeepInv
  <2> QED
    BY <1>3, <2>1 DEF Renamed, Grown, Owns, Whole
<1>5. Holding'
  <2>1. CASE client' = client
    BY <1>1, <1>4, <2>1, HoldingStays
  <2>2. CASE client' = [client EXCEPT ![p] = again] /\ Owns(disk, t, r)
    <3>1. /\ again.session = t /\ again.held = client[p].held \cup {r}
          /\ again.reading = client[p].reading /\ again.seen = client[p].seen
      BY <1>1 DEF Clients
    <3> HIDE DEF again
    <3>2. /\ client[p].held \cup client[p].seen \subseteq disk.records
          /\ \A s \in client[p].held : Owns(disk, t, s)
          /\ client[p].seen = {}
      BY <1>1 DEF Holding
    <3>3. \A s \in again.held : Owns(disk', t, s)
      BY <1>1, <1>4, <2>2, <3>1, <3>2 DEF Grown
    <3>4. again.held \cup again.seen \subseteq disk'.records
      BY <1>1, <1>4, <3>1, <3>2 DEF Grown
    <3> HIDE DEF t
    <3> QED
      BY <1>1, <1>4, <2>2, <3>1, <3>2, <3>3, <3>4, HoldingGrown
  <2> QED
    BY <1>2, <2>1, <2>2
<1> QED
  BY <1>1, <1>2, <1>3, <1>4, <1>5, GrownKept

(* What was read is adopted while no prune can take it, or given up.       *)
LEMMA AdoptKeeps ==
    ASSUME KeepInv, NEW p \in Process, NEW noted, RetainInput(p, noted)
    PROVE  KeepInv'
<1> DEFINE c == client[p]
           t == c.session
           S == Retain(Open(p), t, c.seen, noted)
           after == [c EXCEPT !.reading = FALSE, !.seen = {}]
           more == [after EXCEPT !.held = @ \cup c.seen]
           adopted == IF S.ok THEN more ELSE after
<1>1. Clients /\ Holding /\ CacheInv' /\ t \in Thread /\ t # Idle
  BY AdoptKept DEF KeepInv, CacheInv, Clients, RetainInput
<1>2. /\ UNCHANGED plan
      /\ \/ Commit(p, S) /\ client' = [client EXCEPT ![p] = adopted]
         \/ Fail(p, S) /\ client' = [client EXCEPT ![p] = after]
  BY DEF RetainInput
<1>3. /\ Grown(disk, disk') /\ Follows(disk, disk') /\ disk'.records = disk.records
      /\ S.ok /\ Commit(p, S) => \A r \in c.seen : Owns(disk', t, r)
  BY <1>1, <1>2, RetainGrows
<1> HIDE DEF S
<1>4. /\ after.session = t /\ after.held = c.held /\ ~after.reading /\ after.seen = {}
      /\ more.session = t /\ more.held = c.held \cup c.seen /\ ~more.reading /\ more.seen = {}
  BY <1>1 DEF Clients
<1>5. /\ c.held \cup c.seen \subseteq disk.records /\ \A r \in c.held : Owns(disk, t, r)
  BY <1>1 DEF Holding
<1> HIDE DEF after, more, c, t
<1>6. \A r \in c.held : Owns(disk', t, r)
  BY <1>1, <1>3, <1>5 DEF Grown
<1>7. CASE client' = [client EXCEPT ![p] = after]
  <2>1. Holding'
    BY <1>1, <1>3, <1>4, <1>5, <1>6, <1>7, HoldingGrown
  <2> QED
    BY <1>1, <1>2, <1>3, <2>1, GrownKept
<1>8. CASE client' = [client EXCEPT ![p] = more] /\ S.ok /\ Commit(p, S)
  <2>1. \A r \in more.held : Owns(disk', t, r)
    BY <1>3, <1>4, <1>6, <1>8
  <2>2. Holding'
    BY <1>1, <1>3, <1>4, <1>5, <1>8, <2>1, HoldingGrown
  <2> QED
    BY <1>1, <1>2, <1>3, <2>2, GrownKept
<1> QED
  BY <1>2, <1>7, <1>8

(* A directory that stays as it is.                                        *)
LEMMA SameGrown ==
    ASSUME KeepInv
    PROVE  Grown(disk, disk) /\ Follows(disk, disk)
BY DEF KeepInv, CacheInv, Caches, Directory, Grown, Follows

(* What is read is stored, with what it refers to.                         *)
LEMMA ReadKeeps ==
    ASSUME KeepInv, NEW p \in Process, NEW r \in Record, ReadVisible(p, r)
    PROVE  KeepInv'
<1> DEFINE c == client[p]
           after == [c EXCEPT !.reading = TRUE, !.seen = {r} \cup Deps[r]]
<1>1. Clients /\ Holding /\ CacheInv' /\ Whole(disk)
  BY ReadKept DEF KeepInv, CacheInv
<1>2. /\ UNCHANGED <<disk, plan>> /\ client' = [client EXCEPT ![p] = after]
      /\ c.session # Idle /\ r \in disk.records
  BY DEF ReadVisible
<1>3. after.session = c.session /\ after.held = c.held /\ after.reading /\ after.seen = {r} \cup Deps[r]
  BY <1>1 DEF Clients
<1>4. c.held \subseteq disk.records /\ \A s \in c.held : Owns(disk, c.session, s)
  BY <1>1 DEF Holding
<1>5. Deps[r] \subseteq disk.records
  BY <1>1, <1>2 DEF Whole
<1> HIDE DEF after, c
<1>6. Grown(disk, disk') /\ Follows(disk, disk')
  BY <1>2, SameGrown
<1>7. Holding'
  BY <1>1, <1>2, <1>3, <1>4, <1>5, <1>6, HoldingGrown
<1> QED
  BY <1>1, <1>2, <1>6, <1>7, GrownKept

(* Who is gone holds nothing.                                              *)
LEMMA NobodyHolds ==
    ASSUME KeepInv, NEW p \in Process, disk' = disk, client' = [client EXCEPT ![p] = NoClient]
    PROVE  Holding'
<1>1. /\ NoClient.session = Idle /\ NoClient.held = {} /\ ~NoClient.reading /\ NoClient.seen = {}
  BY DEF NoClient
<1>2. Clients /\ Holding /\ Grown(disk, disk')
  BY SameGrown DEF KeepInv, CacheInv
<1> QED
  BY <1>1, <1>2, HoldingGrown

(* A session ends.                                                         *)
LEMMA EndKeeps ==
    ASSUME KeepInv, NEW p \in Process, EndSession(p)
    PROVE  KeepInv'
<1>1. CacheInv' /\ UNCHANGED <<disk, plan>> /\ client' = [client EXCEPT ![p] = NoClient]
  BY EndKept DEF KeepInv, EndSession
<1>2. Holding'
  BY <1>1, NobodyHolds
<1>3. Grown(disk, disk') /\ Follows(disk, disk')
  BY <1>1, SameGrown
<1> QED
  BY <1>1, <1>2, <1>3, GrownKept

(* A plan that is dropped says nothing.                                    *)
LEMMA NoPlanDrafts ==
    ASSUME NEW d, d.revision \in Nat
    PROVE  Drafted(d, NoPlan)
<1>1. /\ NoPlan.revision = 0 /\ NoPlan.current = Idle /\ NoPlan.stage = "none"
      /\ NoPlan.rest \in [Candidate -> SUBSET Record] /\ NoPlan.owner \in [Record -> SUBSET Candidate]
  BY DEF NoPlan
<1> QED
  BY <1>1 DEF Drafted

(* A process ends, and with it the plan it was at work on.                 *)
LEMMA CrashKeeps ==
    ASSUME KeepInv, NEW p \in Process, Crash(p)
    PROVE  KeepInv'
<1>1. /\ CacheInv' /\ UNCHANGED disk /\ client' = [client EXCEPT ![p] = NoClient]
      /\ plan' = NoPlan \/ plan' = plan
  BY CrashKept DEF KeepInv, Crash
<1>2. Holding'
  BY <1>1, NobodyHolds
<1>3. disk.revision \in Nat
  BY DEF KeepInv, CacheInv, Caches, Directory
<1>4. Drafted(disk', plan')
  BY <1>1, <1>3, NoPlanDrafts DEF KeepInv
<1> QED
  BY <1>1, <1>2, <1>4 DEF KeepInv

(* Time passes.                                                            *)
LEMMA ExpireKeeps ==
    ASSUME KeepInv, NEW n, Expire(n)
    PROVE  KeepInv'
<1> DEFINE x == disk.old \cup {n}
           e == [disk EXCEPT !.old = x]
<1>1. disk' = e /\ plan' = plan /\ client' = client /\ CacheInv'
  BY ExpireKept DEF Expire, KeepInv
<1>2. /\ Directory(disk) /\ e.revision = disk.revision
      /\ e.records = disk.records /\ e.index = disk.index /\ e.catalogs = disk.catalogs
  BY OldIs DEF KeepInv, CacheInv, Caches
<1> HIDE DEF e
<1>3. Follows(disk, e)
  BY <1>2, SameView DEF Follows, Directory
<1>4. Grown(disk, e)
  BY <1>2 DEF KeepInv, Grown, Whole, Owns
<1>5. Holding'
  BY <1>1, <1>4, HoldingStays DEF KeepInv, CacheInv
<1> QED
  BY <1>1, <1>3, <1>4, <1>5, GrownKept

-----------------------------------------------------------------------------
(* Maintenance.                                                            *)

(* A plan as it is begun, lists, and is made from the view it listed.      *)
Begun(new) ==
    /\ new.stage = "started" /\ new.revision = disk.revision /\ new.current = NoPlan.current
    /\ new.rest = NoPlan.rest /\ new.owner = NoPlan.owner
Viewed(pl, new) ==
    /\ new.stage = "listed" /\ new.catalogs = disk.catalogs /\ new.sizes = View(disk)
    /\ new.revision = pl.revision /\ new.current = pl.current /\ new.rest = pl.rest /\ new.owner = pl.owner
Made(pl, new) ==
    /\ pl.stage = "listed" /\ pl.revision = disk.revision /\ Ordered(disk.records)
    /\ new.stage = "planned" /\ new.revision = pl.revision /\ new.current = pl.current
    /\ new.present = disk.records /\ new.index = disk.index /\ new.rest = Rest(pl, disk.records)
    /\ new.owner = [r \in Record |-> {c \in Candidate : r \in Rest(pl, disk.records)[c]}]

(* Each step is one of these, or the plan is dropped.                      *)
LEMMA DraftSettles ==
    ASSUME Planned, \/ \E p \in Process, expire \in BOOLEAN : PlanStart(p, expire)
                    \/ PlanList \/ PlanFinish
    PROVE  /\ UNCHANGED <<disk, client>>
           /\ plan' = NoPlan \/ Begun(plan') \/ Viewed(plan, plan') \/ Made(plan, plan')
<1>1. UNCHANGED <<disk, client>> /\ DOMAIN plan = DOMAIN NoPlan
  BY DEF PlanStart, PlanList, PlanFinish, Planned
<1>2. DOMAIN NoPlan = {"by", "stage", "revision", "expire", "pressure", "old", "catalogs", "sizes", "present",
                       "index", "current", "todo", "rest", "owner"}
  BY DEF NoPlan
<1>3. ASSUME NEW p \in Process, NEW expire, PlanStart(p, expire) PROVE Begun(plan')
  <2>1. plan' = [NoPlan EXCEPT !.by = p, !.stage = "started", !.revision = disk.revision,
                               !.expire = expire, !.pressure = disk.pressure]
    BY <1>3 DEF PlanStart
  <2>2. \A f : DOMAIN f = DOMAIN NoPlan => \A a, b, c, e :
          LET g == [f EXCEPT !.by = p, !.stage = a, !.revision = b, !.expire = c, !.pressure = e]
          IN  /\ g.stage = a /\ g.revision = b /\ g.current = f.current
              /\ g.rest = f.rest /\ g.owner = f.owner
    BY <1>2
  <2> QED
    BY <2>1, <2>2 DEF Begun
<1>4. ASSUME PlanList PROVE Viewed(plan, plan')
  <2>1. plan' = [plan EXCEPT !.stage = "listed", !.old = disk.old,
                             !.catalogs = disk.catalogs, !.sizes = View(disk)]
    BY <1>4 DEF PlanList
  <2>2. \A f : DOMAIN f = DOMAIN NoPlan => \A a, b, c, e :
          LET g == [f EXCEPT !.stage = a, !.old = b, !.catalogs = c, !.sizes = e]
          IN  /\ g.stage = a /\ g.catalogs = c /\ g.sizes = e /\ g.revision = f.revision
              /\ g.current = f.current /\ g.rest = f.rest /\ g.owner = f.owner
    BY <1>2
  <2> QED
    BY <1>1, <2>1, <2>2 DEF Viewed
<1>5. ASSUME PlanFinish PROVE plan' = NoPlan \/ Made(plan, plan')
  <2> DEFINE present == disk.records
             index == disk.index
             todo == Sessions(plan) \cup Roots(plan, present)
             rest == Rest(plan, present)
             owner == [r \in Record |-> {c \in Candidate : r \in rest[c]}]
  <2>1. /\ plan.stage = "listed"
        /\ \/ Drop
           \/ /\ disk.revision = plan.revision /\ Ordered(present)
              /\ plan' = [plan EXCEPT !.stage = "planned", !.present = present, !.index = index,
                                      !.todo = todo, !.rest = rest, !.owner = owner]
    BY <1>5 DEF PlanFinish, Sessions, Reached, Unowned, Roots, Rest
  <2>2. ASSUME disk.revision = plan.revision, Ordered(present),
               plan' = [plan EXCEPT !.stage = "planned", !.present = present, !.index = index,
                                    !.todo = todo, !.rest = rest, !.owner = owner]
        PROVE  Made(plan, plan')
    <3> HIDE DEF todo, rest, owner
    <3>1. \A f : DOMAIN f = DOMAIN NoPlan => \A a, b, c, e, h, k :
            LET g == [f EXCEPT !.stage = a, !.present = b, !.index = c, !.todo = e, !.rest = h, !.owner = k]
            IN  /\ g.stage = a /\ g.present = b /\ g.index = c /\ g.rest = h /\ g.owner = k
                /\ g.revision = f.revision /\ g.current = f.current
      BY <1>2
    <3>2. /\ plan'.stage = "planned" /\ plan'.present = present /\ plan'.index = index /\ plan'.rest = rest
          /\ plan'.owner = owner /\ plan'.revision = plan.revision /\ plan'.current = plan.current
      BY <1>1, <2>2, <3>1
    <3> DEFINE new == plan'
    <3>3. /\ new.stage = "planned" /\ new.revision = plan.revision /\ new.current = plan.current
          /\ new.present = disk.records /\ new.index = disk.index /\ new.rest = Rest(plan, disk.records)
          /\ new.owner = [r \in Record |-> {c \in Candidate : r \in Rest(plan, disk.records)[c]}]
      BY <3>2 DEF rest, owner
    <3> HIDE DEF new
    <3>4. Made(plan, new)
      BY <2>1, <2>2, <3>3 DEF Made
    <3> QED
      BY <3>4 DEF new
  <2> QED
    BY <2>1, <2>2 DEF Drop
<1> QED
  BY <1>1, <1>3, <1>4, <1>5

(* A plan is begun, lists, and is made from the view it listed.            *)
LEMMA DraftKeeps ==
    ASSUME KeepInv, \/ \E p \in Process, expire \in BOOLEAN : PlanStart(p, expire)
                    \/ PlanList \/ PlanFinish
    PROVE  KeepInv'
<1>1. /\ CacheInv' /\ disk.revision \in Nat /\ disk.records \subseteq Record /\ Drafted(disk, plan)
  BY PlanKept DEF KeepInv, CacheInv, Caches, Directory
<1>2. /\ UNCHANGED <<disk, client>>
      /\ plan' = NoPlan \/ Begun(plan') \/ Viewed(plan, plan') \/ Made(plan, plan')
  BY DraftSettles DEF KeepInv, CacheInv
<1> DEFINE new == plan'
<1> HIDE DEF new
<1>3. Drafted(disk, NoPlan)
  BY <1>1, NoPlanDrafts
<1>4. Begun(new) => Drafted(disk, new)
  BY <1>1, <1>3 DEF Begun, Drafted
<1>5. Viewed(plan, new) => Drafted(disk, new)
  BY <1>1 DEF Viewed, Drafted, Listed
<1>6. ASSUME Made(plan, new) PROVE Drafted(disk, new)
  <2>1. Listed(disk, plan)
    BY <1>1, <1>6 DEF Made, Drafted
  <2> QED
    BY <1>1, <1>6, <2>1, RestDrafts DEF Made
<1>7. Drafted(disk, plan')
  BY <1>2, <1>3, <1>4, <1>5, <1>6 DEF new
<1>8. Holding'
  BY <1>2 DEF KeepInv, Holding
<1> QED
  BY <1>1, <1>2, <1>7, <1>8 DEF KeepInv

(* What a batch leaves, done or failed: without some removable records; or *)
(* without all it removes, also in the index, and perhaps without the      *)
(* candidate's catalog.                                                    *)
Leaves(d, pl, c, B, e) ==
    \/ /\ e.catalogs = d.catalogs /\ e.index = d.index
       /\ \E D \in Removable(Removals(pl, B, c), pl.present) : e.records = d.records \ D
    \/ Retired(d, pl, c, B, e) /\ (e.catalogs = d.catalogs \/ Disowned(d, pl, c, B, e))
(* So a batch settles, done or failed.                                     *)
LEMMA PruneSettles ==
    ASSUME CacheInv, NEW c \in Candidate, NEW B, plan.by \in Process,
           LET S == Prune(Open(plan.by), plan, c, B)
           IN  Commit(plan.by, S) \/ Fail(plan.by, S)
    PROVE  LET S == Prune(Open(plan.by), plan, c, B)
           IN  /\ Directory(disk) /\ Directory(disk') /\ Follows(disk, disk')
               /\ Leaves(disk, plan, c, B, disk') /\ Contents(S.disk) = Pruning(disk, plan, c, B)
<1> DEFINE O == Open(plan.by)
           S == Prune(O, plan, c, B)
           G == Prunings(disk, plan, c, B)
<1>1. /\ Caches /\ Directory(disk) /\ Working(disk, O) /\ O.disk = disk /\ O.past = {}
  BY OpenKept DEF CacheInv, Caches, Open
<1> HIDE DEF O
<1>2. Working(disk, S) /\ Within(S, G) /\ Contents(S.disk) = Pruning(disk, plan, c, B)
  BY <1>1, PruneWorks, PruneWithin
<1>3. Commit(plan.by, S) \/ Fail(plan.by, S)
  BY DEF O
<1> HIDE DEF S, G
<1>4. Directory(disk') /\ Follows(disk, disk') /\ Contents(disk') \in G
  BY <1>2, <1>3, Settled
<1>5. Leaves(disk, plan, c, B, disk')
  <2>1. CASE \E D \in Removable(Removals(plan, B, c), plan.present) : Contents(disk') = Thinned(disk, D)
    BY <2>1 DEF Contents, Thinned, Leaves
  <2>2. CASE Contents(disk') = Retiring(disk, plan, c, B)
    BY <1>1, <2>2, PruningIs DEF Leaves
  <2>3. CASE Contents(disk') = Pruning(disk, plan, c, B)
    BY <1>1, <2>3, PruningIs DEF Leaves
  <2> QED
    BY <1>4, <2>1, <2>2, <2>3 DEF G, Prunings
<1> QED
  BY <1>1, <1>2, <1>4, <1>5 DEF S, O

(* A candidate whose retirement has begun is left for a session that came  *)
(* to life: what was retired of it has lost an owner for good.             *)
Abandons == CommitBatch /\ plan.current # Idle /\ Leased(plan.current) /\ plan'.stage = "planned"

(* A batch of a plan that nothing overtook takes from no client what it    *)
(* holds, and leaves nothing dangling, whole or failed.                    *)
LEMMA PruneKeeps ==
    ASSUME KeepInv, NEW c \in Candidate, plan.current \in {Idle, c}, plan.stage = "planned",
           disk.revision = plan.revision, ~Reading, ~Leased(c), UNCHANGED client, CacheInv',
           NEW B \in Removable(plan.rest[c], plan.present),
           LET S == Prune(Open(plan.by), plan, c, B)
           IN  \/ Commit(plan.by, S) /\ plan' = Pruned(plan, S, c, B)
               \/ Fail(plan.by, S) /\ Drop
    PROVE  KeepInv'
<1> DEFINE S == Prune(Open(plan.by), plan, c, B)
           deleted == Removals(plan, B, c)
<1>1. /\ plan.by \in Process /\ disk.records \subseteq Record /\ Whole(disk) /\ Holding /\ Clients
      /\ Drafted(disk, plan) /\ Counted(disk, plan) /\ Guarded(disk, plan)
      /\ DOMAIN plan = DOMAIN NoPlan
  BY DEF KeepInv, CacheInv, Planned, Drafted
<1>3. (Commit(plan.by, S) /\ plan' = Pruned(plan, S, c, B)) \/ (Fail(plan.by, S) /\ Drop)
  OBVIOUS
<1>4. /\ Directory(disk) /\ Directory(disk') /\ Follows(disk, disk')
      /\ Leaves(disk, plan, c, B, disk') /\ Contents(S.disk) = Pruning(disk, plan, c, B)
  BY <1>1, <1>3, PruneSettles DEF KeepInv
<1> HIDE DEF S
<1>5. PICK D \in Removable(deleted, plan.present) :
        /\ disk'.records = disk.records \ D
        /\ \A t \in Thread : t # c => disk'.catalogs[t] = disk.catalogs[t]
  <2>1. deleted \in Removable(deleted, plan.present)
    BY DEF Removable
  <2> QED
    BY <1>4, <2>1 DEF Leaves, Retired, Disowned
<1>6. D \subseteq deleted
  BY DEF Removable
<1>7. Whole(disk')
  BY <1>1, <1>5, ThinnedWhole
<1>8. Holding'
  <2> SUFFICES ASSUME NEW p \in Process
               PROVE  /\ client[p].held \cup client[p].seen \subseteq disk'.records
                      /\ \A r \in client[p].held : Owns(disk', client[p].session, r)
    BY <1>1 DEF Holding
  <2>1. client[p].seen = {} /\ client[p].session # c
    BY <1>1 DEF Reading, Leased, Holding
  <2>2. ASSUME NEW r \in client[p].held
        PROVE  r \in disk'.records /\ Owns(disk', client[p].session, r)
    <3>1. /\ client[p].session \in Thread /\ client[p].session # Idle /\ r \in disk.records
          /\ Owns(disk, client[p].session, r)
      BY <1>1 DEF Holding, Clients
    <3>2. client[p].session # plan.current /\ r \in Record
      BY <1>1, <2>1, <3>1
    <3>3. r \notin deleted
      BY <1>1, <2>1, <3>1, <3>2, OwnedStay
    <3> HIDE DEF deleted
    <3> QED
      BY <1>5, <1>6, <2>1, <3>1, <3>3 DEF Owns
  <2> QED
    BY <2>1, <2>2
<1>9. Drafted(disk', plan')
  <2>1. CASE Fail(plan.by, S) /\ Drop
    BY <1>4, <2>1, NoPlanDrafts DEF Drop, Directory
  <2>2. CASE Commit(plan.by, S) /\ plan' = Pruned(plan, S, c, B)
    <3>1. disk' = S.disk /\ S.disk.revision \in Nat
      BY <1>1, <1>4, <2>2 DEF Commit, Directory
    <3>2. Drafted(S.disk, Pruned(plan, S, c, B))
      BY <1>1, <1>4, <3>1, PrunedDrafts
    <3> QED
      BY <2>2, <3>1, <3>2
  <2> QED
    BY <1>3, <2>1, <2>2
<1>10. disk'.records \subseteq Record
  BY <1>1, <1>5
<1> QED
  BY <1>7, <1>8, <1>9, <1>10 DEF KeepInv

(* So does every commit, as long as no candidate is left half retired.     *)
LEMMA BatchKeeps ==
    ASSUME KeepInv, CommitBatch, ~Abandons
    PROVE  KeepInv'
<1>1. CacheInv' /\ UNCHANGED client /\ plan.stage = "planned" /\ Drafted(disk, plan)
      /\ DOMAIN plan = DOMAIN NoPlan /\ disk.revision \in Nat /\ Holding
  BY BatchKept DEF KeepInv, CommitBatch, CacheInv, Planned, Caches, Directory
<1>2. PICK c \in NextCandidates(plan) :
        IF disk.revision # plan.revision \/ Reading
        THEN Drop /\ UNCHANGED <<disk, cache, spent>>
        ELSE IF Leased(c)
        THEN /\ plan' = [plan EXCEPT !.todo = @ \ {c}, !.current = Idle]
             /\ UNCHANGED <<disk, cache, spent>>
        ELSE \E B \in Removable(plan.rest[c], plan.present) :
             LET S == Prune(Open(plan.by), plan, c, B) IN
             \/ Commit(plan.by, S) /\ plan' = Pruned(plan, S, c, B)
             \/ Fail(plan.by, S) /\ Drop
  BY DEF CommitBatch
<1>3. c \in Candidate /\ plan.current \in {Idle, c}
  BY <1>1 DEF NextCandidates, Drafted
<1>4. CASE disk.revision # plan.revision \/ Reading
  <2>1. disk' = disk /\ plan' = NoPlan
    BY <1>2, <1>4 DEF Drop
  <2>2. Drafted(disk', plan') /\ Holding'
    BY <1>1, <2>1, NoPlanDrafts DEF Holding
  <2> QED
    BY <1>1, <2>1, <2>2 DEF KeepInv
<1>5. CASE disk.revision = plan.revision /\ ~Reading /\ Leased(c)
  <2> DEFINE todo == plan.todo \ {c}
  <2>1. disk' = disk /\ plan' = [plan EXCEPT !.todo = todo, !.current = Idle]
    BY <1>2, <1>5, Zenon
  <2> HIDE DEF todo
  <2>2. DOMAIN plan = {"by", "stage", "revision", "expire", "pressure", "old", "catalogs", "sizes", "present",
                       "index", "current", "todo", "rest", "owner"}
    BY <1>1 DEF NoPlan
  <2>3. /\ plan'.stage = plan.stage /\ plan'.revision = plan.revision /\ plan'.present = plan.present
        /\ plan'.rest = plan.rest /\ plan'.owner = plan.owner /\ plan'.current = Idle
    BY <2>1, <2>2
  <2>4. plan.current = Idle
    BY <1>1, <1>3, <1>5, <2>3 DEF Abandons
  <2>5. Drafted(disk', plan')
    BY <1>1, <1>5, <2>1, <2>3, <2>4 DEF Drafted, Counted, Guarded
  <2>6. Holding'
    BY <1>1, <2>1 DEF Holding
  <2> QED
    BY <1>1, <2>1, <2>5, <2>6 DEF KeepInv
<1>6. CASE disk.revision = plan.revision /\ ~Reading /\ ~Leased(c)
  BY <1>1, <1>2, <1>3, <1>6, PruneKeeps
<1> QED
  BY <1>4, <1>5, <1>6

(* A plan that is done stores and lists nothing new.                       *)
LEMMA FinishSettles ==
    ASSUME CacheInv, FinishPlan
    PROVE  /\ disk'.records = disk.records /\ disk'.catalogs = disk.catalogs /\ disk'.index = disk.index
           /\ Directory(disk) /\ Directory(disk') /\ CacheInv' /\ UNCHANGED client /\ plan' = NoPlan
<1> DEFINE p == plan.by
           R == AdvanceRevision(Open(p))
           e == [R.disk EXCEPT !.pressure = {}]
           A == IF plan.pressure = {} THEN Open(p) ELSE Did(R, e, R.mine)
           S == Put(A, "retention-sweep", [A.disk EXCEPT !.swept = TRUE])
           G == {Contents(disk)}
<1>1. /\ p \in Process /\ UNCHANGED client /\ plan' = NoPlan /\ CacheInv' /\ Directory(disk) /\ Directory(disk')
      /\ Working(disk, Open(p)) /\ Open(p).disk = disk /\ Open(p).past = {}
  BY FinishKept, OpenKept DEF CacheInv, FinishPlan, Planned, Caches, Drop, Open
<1>2. (disk' = disk) \/ Commit(p, S) \/ Fail(p, S)
  BY DEF FinishPlan
<1>3. Within(Open(p), G)
  BY <1>1 DEF Within
<1> HIDE DEF G
<1>4. Working(disk, A) /\ Within(A, G) /\ Contents(A.disk) = Contents(disk)
  <2>1. CASE plan.pressure = {}
    BY <1>1, <1>3, <2>1
  <2>2. CASE plan.pressure # {}
    <3> DEFINE O == Open(p)
    <3>1. Late(disk, R) /\ Within(R, G) /\ Contents(R.disk) = Contents(disk)
      <4>1. Working(disk, O) /\ Within(O, G) /\ O.disk = disk
        BY <1>1, <1>3
      <4> HIDE DEF O
      <4>2. Advanced(disk, O, AdvanceRevision(O))
        BY <1>1, <4>1, AdvanceWorks
      <4>3. Within(AdvanceRevision(O), G) /\ Contents(AdvanceRevision(O).disk) = Contents(disk)
        BY <1>1, <4>1, AdvanceWithin
      <4> QED
        BY <4>2, <4>3 DEF Advanced, Late, O
    <3>2. Working(disk, Did(R, e, R.mine))
      BY <1>1, AnswerWorks
    <3> HIDE DEF R
    <3>3. Transaction(R) /\ Directory(R.disk)
      BY <3>1 DEF Late, Working, Left
    <3>4. Contents(e) = Contents(disk) /\ Contents(e) \in G
      BY <3>1, <3>3, PressureIs DEF Contents, Within
    <3> HIDE DEF e
    <3>5. Within(Did(R, e, R.mine), G) /\ Did(R, e, R.mine).disk = e
      BY <3>1, <3>3, <3>4, DidWithin
    <3> QED
      BY <2>2, <3>2, <3>4, <3>5
  <2> QED
    BY <2>1, <2>2
<1> HIDE DEF A
<1>5. Working(disk, S) /\ Within(S, G)
  <2> DEFINE yes == TRUE
             a == [A.disk EXCEPT !.swept = yes]
  <2>1. Working(disk, S)
    BY <1>1, <1>4, FinishWorks
  <2> HIDE DEF yes
  <2>2. Directory(A.disk)
    BY <1>4 DEF Working, Left
  <2>3. Directory(a) /\ Contents(a) = Contents(disk) /\ Contents(a) \in G
    BY <1>4, <2>2, SweptIs DEF Contents, Within
  <2> HIDE DEF a
  <2>4. Within(Put(A, "retention-sweep", a), G)
    BY <1>1, <1>4, <2>3, PutWithin
  <2>5. S = Put(A, "retention-sweep", a)
    BY Zenon DEF a, yes
  <2> QED
    BY <2>1, <2>4, <2>5
<1> HIDE DEF S
<1>6. disk' = disk \/ (Follows(disk, disk') /\ Contents(disk') \in G)
  BY <1>2, <1>5, Settled
<1> QED
  BY <1>1, <1>6 DEF G, Contents

(* So what clients hold stays.                                             *)
LEMMA FinishKeeps ==
    ASSUME KeepInv, FinishPlan
    PROVE  KeepInv'
<1>1. /\ disk'.records = disk.records /\ disk'.catalogs = disk.catalogs
      /\ Directory(disk') /\ CacheInv' /\ UNCHANGED client /\ plan' = NoPlan
  BY FinishSettles DEF KeepInv
<1>2. Grown(disk, disk')
  BY <1>1 DEF KeepInv, Grown, Whole, Owns
<1>3. Holding'
  BY <1>1, <1>2, HoldingStays DEF KeepInv, CacheInv
<1>4. Drafted(disk', plan')
  BY <1>1, NoPlanDrafts DEF Directory
<1> QED
  BY <1>1, <1>2, <1>3, <1>4 DEF KeepInv, Grown

-----------------------------------------------------------------------------
(* Everything that is held stays.                                          *)

(* At first nothing is held, and the records of old are whole.             *)
LEMMA KeepBegin == Init => KeepInv /\ plan.current = Idle
<1> SUFFICES ASSUME Init PROVE KeepInv /\ plan.current = Idle
  OBVIOUS
<1>1. CacheInv /\ disk.records = Legacy /\ plan = NoPlan /\ disk.revision \in Nat
  BY CachesBegin DEF Init
<1>2. Whole(disk) /\ disk.records \subseteq Record
  BY <1>1, Storage DEF Whole
<1>3. Holding
  BY DEF Init, Holding, NoClient
<1>4. Drafted(disk, plan)
  BY <1>1, NoPlanDrafts
<1>5. plan.current = Idle
  BY <1>1 DEF NoPlan
<1> QED
  BY <1>1, <1>2, <1>3, <1>4, <1>5 DEF KeepInv

(* Every step keeps it, as long as no candidate is left half retired.      *)
LEMMA KeepStep == KeepInv /\ [Next]_vars /\ [~Abandons]_vars => KeepInv'
<1> SUFFICES ASSUME KeepInv, [Next]_vars, [~Abandons]_vars PROVE KeepInv'
  OBVIOUS
<1>1. CASE UNCHANGED vars
  <2>1. CacheInv'
    BY CacheStep DEF KeepInv
  <2> QED
    BY <1>1, <2>1 DEF vars, KeepInv, Holding
<1>2. CASE Next /\ ~UNCHANGED vars
  BY <1>2, BeginKeeps, PublishKeeps, RepublishKeeps, AdoptKeeps, ReadKeeps, EndKeeps, CrashKeeps, ExpireKeeps,
     DraftKeeps, BatchKeeps, FinishKeeps DEF Next
<1> QED
  BY <1>1, <1>2

(* What is held or read is stored, and nothing stored refers to what is    *)
(* gone.                                                                   *)
LEMMA KeepsAll == KeepInv => ActiveKept /\ NoDangling
BY DEF KeepInv, Holding, Whole, ActiveKept, NoDangling

(* What an active session has published, adopted or is reading stays       *)
(* stored, whatever failed halfway and whatever plans were made before it  *)
(* came, as long as no plan leaves a candidate it has begun to retire      *)
(* (retention.go, commitStoragePrune).                                           *)
THEOREM ActiveStays == Spec /\ [][~Abandons]_vars => []ActiveKept
BY KeepBegin, KeepStep, KeepsAll, PTL DEF Spec

(* Then no failure, crash or prune leaves a stored record whose            *)
(* dependencies are gone.                                                  *)
THEOREM NothingDangles == Spec /\ [][~Abandons]_vars => []NoDangling
BY KeepBegin, KeepStep, KeepsAll, PTL DEF Spec

(* Every record fits a batch: then a candidate goes in one.                *)
Fits == IsFiniteSet(Record) /\ Cardinality(Record) <= Batch
(* All of a candidate is the batch.                                        *)
LEMMA OneBatch ==
    ASSUME Fits, NEW F \in SUBSET Record, NEW B \in SUBSET F,
           Cardinality(B) = Smaller(Cardinality(F), Batch)
    PROVE  B = F
<1>1. IsFiniteSet(F) /\ Cardinality(F) <= Cardinality(Record)
  BY FS_Subset DEF Fits
<1>2. Cardinality(F) \in Nat /\ Cardinality(Record) \in Nat /\ Batch \in Nat
  BY <1>1, FS_CardinalityType, Storage DEF Fits
<1>3. Cardinality(B) = Cardinality(F)
  BY <1>1, <1>2 DEF Smaller, Fits
<1> QED
  BY <1>1, <1>3, FS_Subset

(* No candidate is ever half retired.                                      *)
WholeInv == Fits /\ KeepInv /\ plan.current = Idle
(* Every step keeps it so.                                                 *)
LEMMA OneBatchStep == WholeInv /\ [Next]_vars => WholeInv'
<1> SUFFICES ASSUME Fits, KeepInv, plan.current = Idle, [Next]_vars PROVE KeepInv' /\ plan'.current = Idle
  BY DEF WholeInv, Fits
<1>1. KeepInv'
  BY KeepStep DEF Abandons
<1>2. /\ DOMAIN plan = {"by", "stage", "revision", "expire", "pressure", "old", "catalogs", "sizes", "present",
                        "index", "current", "todo", "rest", "owner"}
      /\ DOMAIN plan = DOMAIN NoPlan /\ NoPlan.current = Idle
  BY DEF KeepInv, CacheInv, Planned, NoPlan
<1>3. ASSUME UNCHANGED plan \/ plan' = NoPlan PROVE plan'.current = Idle
  BY <1>2, <1>3
<1>4. ASSUME \/ \E p \in Process, expire \in BOOLEAN : PlanStart(p, expire)
             \/ PlanList \/ PlanFinish
      PROVE  plan'.current = Idle
  <2>1. plan' = NoPlan \/ Begun(plan') \/ Viewed(plan, plan') \/ Made(plan, plan')
    BY <1>4, DraftSettles DEF KeepInv, CacheInv
  <2> QED
    BY <1>2, <2>1 DEF Begun, Viewed, Made
<1>7. ASSUME CommitBatch PROVE plan'.current = Idle
  <2>1. PICK c \in NextCandidates(plan) :
          \/ Drop
          \/ plan' = [plan EXCEPT !.todo = @ \ {c}, !.current = Idle]
          \/ \E S : \E B \in Removable(plan.rest[c], plan.present) :
               /\ Cardinality(B) = Smaller(Cardinality(plan.rest[c]), Batch)
               /\ plan' = Pruned(plan, S, c, B)
    BY <1>7 DEF CommitBatch
  <2>2. c \in Candidate
    BY DEF NextCandidates
  <2>3. CASE Drop
    BY <1>2, <2>3 DEF Drop
  <2>4. CASE plan' = [plan EXCEPT !.todo = @ \ {c}, !.current = Idle]
    <3> DEFINE todo == plan.todo \ {c}
    <3>1. plan' = [plan EXCEPT !.todo = todo, !.current = Idle]
      BY <2>4, Zenon
    <3> HIDE DEF todo
    <3> QED
      BY <1>2, <3>1
  <2>5. ASSUME NEW B \in Removable(plan.rest[c], plan.present), NEW S,
               Cardinality(B) = Smaller(Cardinality(plan.rest[c]), Batch), plan' = Pruned(plan, S, c, B)
        PROVE  plan'.current = Idle
    <3>1. plan.rest \in [Candidate -> SUBSET Record] /\ B \in SUBSET plan.rest[c]
      BY DEF KeepInv, Drafted, Removable
    <3>2. plan.rest[c] \in SUBSET Record
      BY <2>2, <3>1
    <3>3. B = plan.rest[c]
      BY <2>5, <3>1, <3>2, OneBatch
    <3>4. Batched(plan, S, c, B, Pruned(plan, S, c, B))
      BY <1>2, <2>2, <3>1, PrunedIs
    <3> HIDE DEF Pruned
    <3> QED
      BY <2>5, <3>3, <3>4 DEF Batched
  <2> QED
    BY <2>1, <2>3, <2>4, <2>5
<1>8. plan'.current = Idle
  <2>1. CASE UNCHANGED vars
    BY <1>3, <2>1 DEF vars
  <2>2. CASE Next
    <3>1. ASSUME NEW p \in Process, NEW t, NEW r, NEW noted,
                 \/ BeginSession(p, t, noted) \/ Publish(p, r, noted) \/ Republish(p, r) \/ ReadVisible(p, r)
                 \/ RetainInput(p, noted) \/ EndSession(p) \/ Crash(p) \/ Expire(t) \/ FinishPlan
          PROVE  UNCHANGED plan \/ plan' = NoPlan
      BY <3>1 DEF BeginSession, Publish, Republish, ReadVisible, RetainInput, EndSession, Crash, Expire, FinishPlan,
         Drop
    <3>2. FinishPlan => plan' = NoPlan
      BY DEF FinishPlan, Drop
    <3>3. \A n : Expire(n) => UNCHANGED plan
      BY DEF Expire
    <3> QED
      BY <1>3, <1>4, <1>7, <2>2, <3>1, <3>2, <3>3 DEF Next
  <2> QED
    BY <2>1, <2>2
<1> QED
  BY <1>1, <1>8

(* Where every record fits a batch, what active sessions hold stays stored *)
(* in every behaviour.                                                     *)
THEOREM ActiveStaysInOneBatch == Fits /\ Spec => []ActiveKept
<1>1. Fits /\ Init => WholeInv
  BY KeepBegin DEF WholeInv
<1>2. WholeInv => ActiveKept /\ NoDangling
  BY KeepsAll DEF WholeInv
<1> QED
  BY <1>1, <1>2, OneBatchStep, PTL DEF Spec

(* And nothing ever dangles.                                               *)
THEOREM NothingDanglesInOneBatch == Fits /\ Spec => []NoDangling
<1>1. Fits /\ Init => WholeInv
  BY KeepBegin DEF WholeInv
<1>2. WholeInv => ActiveKept /\ NoDangling
  BY KeepsAll DEF WholeInv
<1> QED
  BY <1>1, <1>2, OneBatchStep, PTL DEF Spec

-----------------------------------------------------------------------------
(* The index can be repaired.                                              *)

(* No stored record refers to one that the index names: the records that   *)
(* refer to others (calls, imports, instructions) refer to snapshots,      *)
(* trees, revisions and contents, and the index names calls.               *)
Unreferenced == \A r \in Record : Deps[r] \cap Indexed = {}

(* A record from before there were catalogs, or one that a catalog lists.  *)
Kept(d, r) == r \in Legacy \/ \E t \in Thread : Owns(d, t, r)

(* Catalogs list records; what the index names, and what is stored of what *)
(* it may name, is listed.                                                 *)
Repairable(d) ==
    /\ d.records \subseteq Record /\ d.index \subseteq Indexed
    /\ \A t \in Thread : d.catalogs[t].files \subseteq Record
    /\ \A r \in Indexed : r \in d.index \cup d.records => Kept(d, r)

(* A plan that nothing overtook counts, of each such record, the sessions  *)
(* that list it and nobody else, and at least one.                         *)
Tallied(d, pl) ==
    /\ pl.index \subseteq Indexed
    /\ \A r \in Record : pl.owner[r] = {c \in Candidate : r \in pl.rest[c]}
    /\ \A r \in Indexed \ Legacy : r \in pl.index \cup d.records =>
         pl.owner[r] # {} /\ \A x \in pl.owner[r] : x \in Thread /\ Owns(d, x, r)
Accounted(d, pl) ==
    /\ pl.revision \in Nat /\ pl.revision <= d.revision /\ pl.current \in Candidate \cup {Idle}
    /\ pl.rest \in [Candidate -> SUBSET Record] /\ pl.owner \in [Record -> SUBSET Candidate]
    /\ pl.revision = d.revision =>
         /\ pl.stage = "listed" => Listed(d, pl)
         /\ pl.stage = "planned" => Tallied(d, pl)

RepairInv == Unreferenced /\ CacheInv /\ Repairable(disk) /\ Accounted(disk, plan)

-----------------------------------------------------------------------------
(* Clients and the index.                                                  *)

(* A plan holds for what follows its directory.                            *)
LEMMA FollowedAccounts ==
    ASSUME NEW d, NEW e, Directory(d), Directory(e), d.records \subseteq Record,
           e.records \subseteq Record, Follows(d, e), NEW pl, Accounted(d, pl)
    PROVE  Accounted(e, pl)
<1>1. /\ d.revision \in Nat /\ e.revision \in Nat /\ d.revision <= e.revision
      /\ pl.revision \in Nat /\ pl.revision <= d.revision
  BY DEF Directory, Follows, Accounted
<1>2. ASSUME pl.revision = e.revision
      PROVE  /\ pl.revision = d.revision /\ View(e) = View(d) /\ e.catalogs = d.catalogs
             /\ e.records = d.records
  <2>1. e.revision = d.revision
    BY <1>1, <1>2
  <2> QED
    BY <1>2, <2>1, FollowsSame
<1>3. ASSUME pl.revision = e.revision, pl.stage = "listed" PROVE Listed(e, pl)
  BY <1>2, <1>3 DEF Accounted, Listed
<1>4. ASSUME pl.revision = e.revision, pl.stage = "planned" PROVE Tallied(e, pl)
  <2>1. e.records = d.records /\ e.catalogs = d.catalogs /\ Tallied(d, pl)
    BY <1>2, <1>4 DEF Accounted
  <2> QED
    BY <2>1 DEF Tallied, Owns
<1> QED
  BY <1>1, <1>3, <1>4 DEF Accounted

(* A plan that is dropped counts nothing.                                  *)
LEMMA NoPlanAccounts ==
    ASSUME NEW d, d.revision \in Nat
    PROVE  Accounted(d, NoPlan)
<1>1. /\ NoPlan.revision = 0 /\ NoPlan.stage = "none" /\ NoPlan.current = Idle
      /\ NoPlan.rest \in [Candidate -> SUBSET Record] /\ NoPlan.owner \in [Record -> SUBSET Candidate]
  BY DEF NoPlan
<1> QED
  BY <1>1 DEF Accounted

(* A session that adopts records has listed them before they go out, and   *)
(* they have gone out before the index names them.                         *)
LEMMA AdoptingRepairs ==
    ASSUME NEW d, Directory(d), Repairable(d), NEW t \in Thread, NEW names \in SUBSET Record, NEW e,
           e.catalogs = d.catalogs \/ e.catalogs = Adopting(d, t, names)[2],
           \/ e.records = d.records /\ e.index = d.index
           \/ /\ e.catalogs = Adopting(d, t, names)[2] /\ e.records \subseteq d.records \cup names
              /\ e.index \subseteq d.index \cup (names \cap Indexed)
    PROVE  Repairable(e)
<1> DEFINE v == Adopted(d, t, names)
           c == [d.catalogs EXCEPT ![t] = v]
<1>1. Adopting(d, t, names)[2] = c
  BY DEF Adopting
<1>2. /\ v.exists /\ d.catalogs[t].files \subseteq v.files /\ names \subseteq v.files
      /\ v.files \subseteq Record
  BY Storage DEF Adopted, Repairable
<1> HIDE DEF v
<1>3. \A u \in Thread : c[u] = IF u = t THEN v ELSE d.catalogs[u]
  BY DEF Directory
<1> HIDE DEF c
<1>4. ASSUME NEW r, Kept(d, r) PROVE Kept(e, r)
  BY <1>1, <1>2, <1>3, <1>4 DEF Owns, Kept
<1>5. ASSUME e.catalogs = c, NEW r \in names PROVE Kept(e, r)
  BY <1>2, <1>3, <1>5 DEF Owns, Kept
<1>6. \A u \in Thread : e.catalogs[u].files \subseteq Record
  BY <1>1, <1>2, <1>3 DEF Repairable
<1>7. e.records \subseteq Record /\ e.index \subseteq Indexed
  BY DEF Repairable
<1>8. ASSUME NEW r \in Indexed, r \in e.index \cup e.records PROVE Kept(e, r)
  <2>1. r \in d.index \cup d.records \/ (e.catalogs = c /\ r \in names)
    BY <1>1, <1>8
  <2> QED
    BY <1>4, <1>5, <2>1 DEF Repairable
<1> QED
  BY <1>6, <1>7, <1>8 DEF Repairable

(* The invariant at a step that leaves the plan as it is.                  *)
LEMMA RepairedStays ==
    ASSUME RepairInv, CacheInv', Repairable(disk'), Follows(disk, disk'), UNCHANGED plan
    PROVE  RepairInv'
<1>1. Directory(disk) /\ Directory(disk')
  BY DEF RepairInv, CacheInv, Caches
<1>2. Accounted(disk', plan)
  BY <1>1, FollowedAccounts DEF RepairInv, Repairable
<1> QED
  BY <1>2 DEF RepairInv, Unreferenced, Repairable, Kept, Owns

(* A session begins, or adopts what it read.                               *)
LEMMA AdoptRepairs ==
    ASSUME RepairInv, NEW p \in Process, NEW t \in Thread, NEW noted,
           BeginSession(p, t, noted) \/ RetainInput(p, noted)
    PROVE  RepairInv'
<1>1. CacheInv /\ Repairable(disk) /\ CacheInv' /\ UNCHANGED plan
  BY BeginKept, AdoptKept DEF RepairInv, BeginSession, RetainInput
<1>2. ASSUME NEW u \in Thread, NEW names \in SUBSET Record,
             LET S == Retain(Open(p), u, names, noted) IN Commit(p, S) \/ Fail(p, S)
      PROVE  Repairable(disk') /\ Follows(disk, disk')
  <2>1. /\ Follows(disk, disk') /\ Directory(disk)
        /\ disk'.records = disk.records /\ disk'.index = disk.index
        /\ disk'.catalogs = disk.catalogs \/ disk'.catalogs = Adopting(disk, u, names)[2]
    BY <1>1, <1>2, RetainSettles
  <2> QED
    BY <1>1, <2>1, AdoptingRepairs
<1>3. CASE BeginSession(p, t, noted)
  <2> DEFINE S == Retain(Open(p), t, {}, noted)
  <2>1. Commit(p, S) \/ Fail(p, S)
    BY <1>3 DEF BeginSession, Transact
  <2> QED
    BY <1>1, <1>2, <2>1, RepairedStays
<1>4. CASE RetainInput(p, noted)
  <2> DEFINE u == client[p].session
             names == client[p].seen
             S == Retain(Open(p), u, names, noted)
  <2>1. Commit(p, S) \/ Fail(p, S)
    BY <1>4 DEF RetainInput
  <2>2. u \in Thread /\ names \in SUBSET Record
    BY <1>1, <1>4 DEF RetainInput, CacheInv, Clients
  <2> HIDE DEF u, names
  <2> QED
    BY <1>1, <1>2, <2>1, <2>2, RepairedStays
<1> QED
  BY <1>3, <1>4

(* A record goes out, and the index follows.                               *)
LEMMA PublishRepairs ==
    ASSUME RepairInv, NEW p \in Process, NEW r \in Record, NEW noted, Publish(p, r, noted)
    PROVE  RepairInv'
<1> DEFINE t == client[p].session
           S == PublishIndex(PublishRecord(Open(p), t, r, noted), r)
           c == Adopting(disk, t, {r})[2]
<1>1. CacheInv /\ Repairable(disk) /\ CacheInv' /\ UNCHANGED plan /\ t \in Thread
  BY PublishKept DEF RepairInv, Publish, CacheInv, Clients
<1>2. Commit(p, S) \/ Fail(p, S)
  BY DEF Publish, Transact
<1>3. Follows(disk, disk') /\ Directory(disk) /\ Issues(disk, c, r, disk')
  BY <1>1, <1>2, PublishSettles
<1> HIDE DEF c
<1>4. \/ disk'.catalogs = disk.catalogs /\ disk'.records = disk.records /\ disk'.index = disk.index
      \/ /\ disk'.catalogs = c /\ disk'.records \subseteq disk.records \cup {r}
         /\ disk'.index \subseteq disk.index \cup ({r} \cap Indexed)
  BY <1>3 DEF Issues
<1>5. Repairable(disk')
  BY <1>1, <1>3, <1>4, AdoptingRepairs DEF c
<1> QED
  BY <1>1, <1>3, <1>5, RepairedStays

(* The index names a record again, which a catalog lists, as it is stored. *)
LEMMA RepublishRepairs ==
    ASSUME RepairInv, NEW p \in Process, NEW r \in Record, Republish(p, r)
    PROVE  RepairInv'
<1>1. CacheInv /\ Repairable(disk) /\ CacheInv' /\ UNCHANGED plan /\ r \in disk.records
  BY RepublishKept DEF RepairInv, Republish
<1>2. Follows(disk, disk') /\ Directory(disk) /\ Renamed(disk, r, disk')
  BY <1>1, RepublishSettles
<1>3. Repairable(disk')
  <2>1. /\ disk'.records = disk.records /\ disk'.catalogs = disk.catalogs
        /\ disk'.index \subseteq disk.index \cup ({r} \cap Indexed)
    BY <1>2 DEF Renamed
  <2>2. ASSUME NEW x \in Indexed, x \in disk'.index \cup disk'.records PROVE Kept(disk, x)
    BY <1>1, <2>1, <2>2 DEF Repairable
  <2>3. \A x : Kept(disk, x) => Kept(disk', x)
    BY <2>1 DEF Kept, Owns
  <2>4. disk'.index \subseteq Indexed
    BY <1>1, <2>1 DEF Repairable
  <2> QED
    BY <1>1, <2>1, <2>2, <2>3, <2>4 DEF Repairable
<1> QED
  BY <1>1, <1>2, <1>3, RepairedStays

(* What changes no file of the directory's contents repairs nothing.       *)
LEMMA SameRepairs ==
    ASSUME NEW d, NEW e, Repairable(d), e.records = d.records, e.index = d.index, e.catalogs = d.catalogs
    PROVE  Repairable(e)
BY DEF Repairable, Kept, Owns

(* A client reads or goes.                                                 *)
LEMMA QuietRepairs ==
    ASSUME RepairInv, NEW p \in Process,
           (\E r \in Record : ReadVisible(p, r)) \/ EndSession(p) \/ Crash(p)
    PROVE  RepairInv'
<1>1. /\ Repairable(disk) /\ CacheInv' /\ disk.revision \in Nat /\ Accounted(disk, plan) /\ Unreferenced
  BY ReadKept, EndKept, CrashKept DEF RepairInv, CacheInv, Caches, Directory
<1>2. UNCHANGED disk /\ (plan' = plan \/ plan' = NoPlan)
  BY DEF ReadVisible, EndSession, Crash
<1>3. Accounted(disk', plan')
  BY <1>1, <1>2, NoPlanAccounts
<1>4. Repairable(disk')
  BY <1>1, <1>2
<1> QED
  BY <1>1, <1>3, <1>4 DEF RepairInv, Unreferenced, Repairable, Kept, Owns

(* Time passes.                                                            *)
LEMMA ExpireRepairs ==
    ASSUME RepairInv, NEW n, Expire(n)
    PROVE  RepairInv'
<1> DEFINE x == disk.old \cup {n}
           e == [disk EXCEPT !.old = x]
<1>1. /\ Repairable(disk) /\ CacheInv' /\ Directory(disk) /\ disk.revision \in Nat
      /\ disk' = e /\ UNCHANGED plan
  BY ExpireKept DEF RepairInv, CacheInv, Caches, Directory, Expire
<1>2. /\ e.revision = disk.revision
      /\ e.records = disk.records /\ e.index = disk.index /\ e.catalogs = disk.catalogs
  BY <1>1, OldIs
<1> HIDE DEF e
<1>3. Follows(disk, e) /\ Repairable(e)
  BY <1>1, <1>2, SameView, SameRepairs DEF Follows
<1> QED
  BY <1>1, <1>3, RepairedStays

-----------------------------------------------------------------------------
(* Maintenance and the index.                                              *)

(* What nothing refers to is reached only where it is listed.              *)
LEMMA ClosureListed ==
    ASSUME Unreferenced, NEW files \in SUBSET Record, NEW present, NEW r \in Closure(files, present),
           r \in Indexed
    PROVE  r \in files
<1> SUFFICES ASSUME r \notin files PROVE FALSE
  OBVIOUS
<1> DEFINE F == Record \ {r}
<1>1. F \in SUBSET Record /\ files \subseteq F
  OBVIOUS
<1>2. ASSUME NEW u \in F \cap present PROVE Deps[u] \subseteq F
  BY Storage DEF Unreferenced
<1>3. r \in F
  BY <1>1, <1>2 DEF Closure
<1> QED
  BY <1>3

(* So a plan made from a view nothing overtook counts those that list it.  *)
LEMMA MadeTallies ==
    ASSUME Unreferenced, Repairable(disk), NEW pl, Listed(disk, pl), NEW new, Made(pl, new)
    PROVE  Tallied(disk, new)
<1> DEFINE rest == Rest(pl, disk.records)
<1>1. /\ pl.catalogs = disk.catalogs /\ new.index = disk.index /\ new.rest = rest
      /\ \A r \in Record : new.owner[r] = {c \in Candidate : r \in rest[c]}
  BY DEF Listed, Made
<1> HIDE DEF rest
<1>2. ASSUME NEW r \in Record, NEW t \in Thread, Owns(disk, t, r)
      PROVE  r \in Reached(pl, disk.records)[t] /\ r \in rest[t] /\ t \in Candidate
  <2>1. t \in Sessions(pl) /\ r \in pl.catalogs[t].files
    BY <1>1, <1>2 DEF Owns, Sessions
  <2>2. r \in Closure(pl.catalogs[t].files, disk.records)
    BY <2>1, ClosureHolds
  <2>3. rest[t] = Reached(pl, disk.records)[t] /\ t \in Candidate
    BY RestIs DEF rest, Candidate
  <2> QED
    BY <2>1, <2>2, <2>3 DEF Reached
<1>3. ASSUME NEW r \in Indexed, NEW x \in Thread, r \in rest[x] PROVE Owns(disk, x, r)
  <2>1. rest[x] = IF x \in Sessions(pl) THEN Closure(pl.catalogs[x].files, disk.records) ELSE {}
    BY RestIs DEF rest, Candidate, Reached
  <2>2. x \in Sessions(pl) /\ r \in Closure(pl.catalogs[x].files, disk.records)
    BY <1>3, <2>1
  <2>3. pl.catalogs[x].files \in SUBSET Record
    BY <1>1 DEF Repairable
  <2>4. r \in pl.catalogs[x].files
    BY <2>2, <2>3, ClosureListed
  <2> QED
    BY <1>1, <2>2, <2>4 DEF Owns, Sessions
<1>4. ASSUME NEW r \in Indexed, NEW x \in Candidate \ Thread, r \in rest[x], NEW t \in Thread, Owns(disk, t, r)
      PROVE  FALSE
  <2>1. rest[x] = IF x \in Roots(pl, disk.records) THEN Closure({x}, disk.records) ELSE {}
    BY RestIs DEF rest
  <2>2. x \in Roots(pl, disk.records) /\ r \in Closure({x}, disk.records)
    BY <1>4, <2>1
  <2>3. {x} \in SUBSET Record
    BY DEF Candidate
  <2>4. r = x
    BY <2>2, <2>3, ClosureListed
  <2>5. r \in Record /\ r \in Reached(pl, disk.records)[t]
    BY <1>2, <1>4, <2>3, <2>4
  <2>6. r \in UNION Range(Reached(pl, disk.records))
    BY <2>5 DEF Range, Reached
  <2> QED
    BY <2>2, <2>4, <2>6 DEF Roots, Unowned
<1>5. ASSUME NEW r \in Indexed \ Legacy, r \in new.index \cup disk.records
      PROVE  new.owner[r] # {} /\ \A x \in new.owner[r] : x \in Thread /\ Owns(disk, x, r)
  <2>1. r \in Record
    BY Storage
  <2>2. PICK t \in Thread : Owns(disk, t, r)
    BY <1>1, <1>5 DEF Repairable, Kept
  <2>3. t \in new.owner[r]
    BY <1>1, <1>2, <2>1, <2>2
  <2>4. ASSUME NEW x \in new.owner[r] PROVE x \in Thread /\ Owns(disk, x, r)
    <3>1. x \in Candidate /\ r \in rest[x]
      BY <1>1, <2>1
    <3>2. x \in Thread
      BY <1>4, <2>2, <3>1
    <3> QED
      BY <1>3, <3>1, <3>2
  <2> QED
    BY <2>3, <2>4
<1>6. new.index \subseteq Indexed
  BY <1>1 DEF Repairable
<1> QED
  BY <1>1, <1>5, <1>6 DEF Tallied

(* Drawing up a plan.                                                      *)
LEMMA DraftRepairs ==
    ASSUME RepairInv, \/ \E p \in Process, expire \in BOOLEAN : PlanStart(p, expire)
                      \/ PlanList \/ PlanFinish
    PROVE  RepairInv'
<1>1. /\ CacheInv' /\ disk.revision \in Nat /\ disk.records \subseteq Record /\ Accounted(disk, plan)
      /\ Unreferenced /\ Repairable(disk)
  BY PlanKept DEF RepairInv, CacheInv, Caches, Directory, Repairable
<1>2. /\ UNCHANGED <<disk, client>>
      /\ plan' = NoPlan \/ Begun(plan') \/ Viewed(plan, plan') \/ Made(plan, plan')
  BY DraftSettles DEF RepairInv, CacheInv
<1> DEFINE new == plan'
<1> HIDE DEF new
<1>3. Accounted(disk, NoPlan)
  BY <1>1, NoPlanAccounts
<1>4. Begun(new) => Accounted(disk, new)
  BY <1>1, <1>3 DEF Begun, Accounted
<1>5. Viewed(plan, new) => Accounted(disk, new)
  BY <1>1 DEF Viewed, Accounted, Listed
<1>6. ASSUME Made(plan, new) PROVE Accounted(disk, new)
  <2>1. Listed(disk, plan)
    BY <1>1, <1>6 DEF Made, Accounted
  <2>2. Tallied(disk, new)
    BY <1>1, <1>6, <2>1, MadeTallies
  <2>3. new.rest \in [Candidate -> SUBSET Record] /\ new.owner \in [Record -> SUBSET Candidate]
    BY <1>6, RestTyped DEF Made
  <2> QED
    BY <1>1, <1>6, <2>2, <2>3 DEF Made, Accounted
<1>7. Accounted(disk, plan')
  BY <1>2, <1>3, <1>4, <1>5, <1>6 DEF new
<1> QED
  BY <1>1, <1>2, <1>7 DEF RepairInv, Unreferenced, Repairable, Kept, Owns

(* Of what the index still names, or is stored, after a batch of a plan    *)
(* nothing overtook, an owner is left: had the candidate been the only     *)
(* one, the record would have gone.                                        *)
LEMMA OwnerLeft ==
    ASSUME NEW d, NEW pl, Tallied(d, pl), NEW c \in Candidate,
           NEW B \in Removable(pl.rest[c], pl.present), NEW e, Retired(d, pl, c, B, e),
           NEW r \in Indexed \ Legacy, r \in e.index \cup e.records
    PROVE  /\ pl.owner[r] # {} /\ \A x \in pl.owner[r] : x \in Thread /\ Owns(d, x, r)
           /\ r \in B => ~(pl.owner[r] \subseteq {c})
           /\ B = pl.rest[c] /\ c \in pl.owner[r] => r \in B
<1>1. r \in pl.index \cup d.records /\ r \notin Removals(pl, B, c) /\ r \in Record
  BY Storage DEF Retired
<1>2. pl.owner[r] # {} /\ \A x \in pl.owner[r] : x \in Thread /\ Owns(d, x, r)
  BY <1>1 DEF Tallied
<1>3. c \in pl.owner[r] => r \in pl.rest[c]
  BY <1>1 DEF Tallied
<1>4. r \in B => ~(pl.owner[r] \subseteq {c})
  BY <1>1 DEF Removals
<1> QED
  BY <1>2, <1>3, <1>4

(* So a batch leaves an index that can be repaired, wherever it fails.     *)
LEMMA LeavesRepairable ==
    ASSUME NEW d, Repairable(d), NEW pl, Tallied(d, pl), NEW c \in Candidate,
           NEW B \in Removable(pl.rest[c], pl.present), NEW e, Leaves(d, pl, c, B, e)
    PROVE  Repairable(e)
<1>1. CASE /\ e.catalogs = d.catalogs /\ e.index = d.index
           /\ \E D \in Removable(Removals(pl, B, c), pl.present) : e.records = d.records \ D
  BY <1>1 DEF Repairable, Kept, Owns
<1>2. CASE Retired(d, pl, c, B, e) /\ (e.catalogs = d.catalogs \/ Disowned(d, pl, c, B, e))
  <2>1. /\ \A t \in Thread : e.catalogs[t] = d.catalogs[t] \/ e.catalogs[t] = NoCatalog
        /\ \A t \in Thread : t # c \/ B # pl.rest[c] => e.catalogs[t] = d.catalogs[t]
    BY <1>2 DEF Disowned
  <2>2. \A t \in Thread : e.catalogs[t].files \subseteq Record
    BY <2>1 DEF Repairable, NoCatalog
  <2>3. e.records \subseteq Record /\ e.index \subseteq Indexed
    BY <1>2 DEF Retired, Repairable, Tallied
  <2>4. ASSUME NEW r \in Indexed \ Legacy, r \in e.index \cup e.records
        PROVE  \E x \in Thread : Owns(e, x, r)
    <3>1. /\ pl.owner[r] # {} /\ \A x \in pl.owner[r] : x \in Thread /\ Owns(d, x, r)
          /\ r \in B => ~(pl.owner[r] \subseteq {c})
          /\ B = pl.rest[c] /\ c \in pl.owner[r] => r \in B
      BY <1>2, <2>4, OwnerLeft
    <3>2. PICK x \in pl.owner[r] : x # c \/ B # pl.rest[c]
      BY <3>1
    <3>3. x \in Thread /\ Owns(d, x, r) /\ e.catalogs[x] = d.catalogs[x]
      BY <2>1, <3>1, <3>2
    <3> QED
      BY <3>3 DEF Owns
  <2> QED
    BY <2>2, <2>3, <2>4 DEF Repairable, Kept
<1> QED
  BY <1>1, <1>2 DEF Leaves

(* And the plan goes on counting those that list it.                       *)
LEMMA PrunedAccounts ==
    ASSUME NEW d, Directory(d), NEW pl, DOMAIN pl = DOMAIN NoPlan, Accounted(d, pl), Tallied(d, pl),
           pl.stage = "planned", NEW c \in Candidate, NEW B \in Removable(pl.rest[c], pl.present),
           NEW S, S.disk.revision \in Nat, Contents(S.disk) = Pruning(d, pl, c, B)
    PROVE  Accounted(S.disk, Pruned(pl, S, c, B))
<1> DEFINE new == Pruned(pl, S, c, B)
           e == S.disk
<1>1. pl.rest \in [Candidate -> SUBSET Record] /\ pl.owner \in [Record -> SUBSET Candidate]
  BY DEF Accounted
<1>2. Batched(pl, S, c, B, new)
  BY <1>1, PrunedIs
<1>3. Contents(e) = Pruning(d, pl, c, B) /\ e.revision \in Nat
  OBVIOUS
<1>4. new.revision = e.revision
  BY <1>2 DEF Batched
<1> HIDE DEF new, e
<1>5. Retired(d, pl, c, B, e) /\ Disowned(d, pl, c, B, e)
  BY <1>3, PruningIs
<1>6. /\ new.stage = pl.stage
      /\ new.index = pl.index \ Removals(pl, B, c) /\ new.current = IF B = pl.rest[c] THEN Idle ELSE c
      /\ \A x \in Candidate : new.rest[x] = IF x = c THEN pl.rest[c] \ B ELSE pl.rest[x]
      /\ new.rest = [x \in Candidate |-> new.rest[x]]
      /\ new.owner = [r \in Record |-> IF r \in B THEN pl.owner[r] \ {c} ELSE pl.owner[r]]
  BY <1>2 DEF Batched
<1>7. new.index = e.index /\ new.index \subseteq Indexed
  BY <1>5, <1>6 DEF Retired, Tallied
<1>8. ASSUME NEW r \in Record PROVE new.owner[r] = {x \in Candidate : r \in new.rest[x]}
  <2>1. pl.owner[r] = {x \in Candidate : r \in pl.rest[x]}
    BY DEF Tallied
  <2>2. new.owner[r] = IF r \in B THEN pl.owner[r] \ {c} ELSE pl.owner[r]
    BY <1>6
  <2>3. ASSUME NEW x \in Candidate PROVE x \in new.owner[r] <=> r \in new.rest[x]
    BY <1>6, <2>1, <2>2
  <2>4. new.owner[r] \subseteq Candidate
    BY <2>1, <2>2
  <2> QED
    BY <2>3, <2>4
<1>9. ASSUME NEW r \in Indexed \ Legacy, r \in new.index \cup e.records
      PROVE  new.owner[r] # {} /\ \A x \in new.owner[r] : x \in Thread /\ Owns(e, x, r)
  <2>1. /\ pl.owner[r] # {} /\ \A x \in pl.owner[r] : x \in Thread /\ Owns(d, x, r)
        /\ r \in B => ~(pl.owner[r] \subseteq {c})
        /\ B = pl.rest[c] /\ c \in pl.owner[r] => r \in B
    BY <1>5, <1>7, <1>9, OwnerLeft
  <2>2. new.owner[r] = IF r \in B THEN pl.owner[r] \ {c} ELSE pl.owner[r]
    BY <1>6, Storage
  <2>3. new.owner[r] # {}
    BY <2>1, <2>2
  <2>4. ASSUME NEW x \in new.owner[r] PROVE x \in Thread /\ Owns(e, x, r)
    <3>1. x \in pl.owner[r] /\ (x = c => r \notin B)
      BY <2>2
    <3>2. x \in Thread /\ Owns(d, x, r) /\ (x = c => B # pl.rest[c])
      BY <2>1, <3>1
    <3>3. e.catalogs[x] = d.catalogs[x]
      BY <1>5, <3>2 DEF Disowned
    <3> QED
      BY <3>2, <3>3 DEF Owns
  <2> QED
    BY <2>3, <2>4
<1>10. Tallied(e, new)
  BY <1>7, <1>8, <1>9 DEF Tallied
<1>11. new.rest \in [Candidate -> SUBSET Record] /\ new.owner \in [Record -> SUBSET Candidate]
  <2>1. \A x \in Candidate : new.rest[x] \subseteq Record
    BY <1>1, <1>6
  <2>2. \A r \in Record : (IF r \in B THEN pl.owner[r] \ {c} ELSE pl.owner[r]) \subseteq Candidate
    BY <1>1
  <2> QED
    BY <1>6, <2>1, <2>2
<1> QED
  BY <1>3, <1>4, <1>6, <1>10, <1>11 DEF Accounted, new, e

(* A commit of a plan, whatever becomes of its candidate.                  *)
LEMMA BatchRepairs ==
    ASSUME RepairInv, CommitBatch
    PROVE  RepairInv'
<1>1. /\ CacheInv /\ CacheInv' /\ plan.stage = "planned" /\ plan.by \in Process /\ Accounted(disk, plan)
      /\ DOMAIN plan = DOMAIN NoPlan /\ disk.revision \in Nat /\ Repairable(disk)
  BY BatchKept DEF RepairInv, CommitBatch, CacheInv, Planned, Caches, Directory
<1>2. PICK c \in NextCandidates(plan) :
        IF disk.revision # plan.revision \/ Reading
        THEN Drop /\ UNCHANGED <<disk, cache, spent>>
        ELSE IF Leased(c)
        THEN /\ plan' = [plan EXCEPT !.todo = @ \ {c}, !.current = Idle]
             /\ UNCHANGED <<disk, cache, spent>>
        ELSE \E B \in Removable(plan.rest[c], plan.present) :
             LET S == Prune(Open(plan.by), plan, c, B) IN
             \/ Commit(plan.by, S) /\ plan' = Pruned(plan, S, c, B)
             \/ Fail(plan.by, S) /\ Drop
  BY DEF CommitBatch
<1>3. Repairable(disk') /\ Accounted(disk', plan')
  <2>1. CASE disk.revision # plan.revision \/ Reading
    <3>1. disk' = disk /\ plan' = NoPlan
      BY <1>2, <2>1 DEF Drop
    <3> QED
      BY <1>1, <3>1, NoPlanAccounts
  <2>2. CASE disk.revision = plan.revision /\ ~Reading /\ Leased(c)
    <3> DEFINE todo == plan.todo \ {c}
    <3>1. disk' = disk /\ plan' = [plan EXCEPT !.todo = todo, !.current = Idle]
      BY <1>2, <2>2, Zenon
    <3> HIDE DEF todo
    <3>2. DOMAIN plan = {"by", "stage", "revision", "expire", "pressure", "old", "catalogs", "sizes", "present",
                         "index", "current", "todo", "rest", "owner"}
      BY <1>1 DEF NoPlan
    <3>3. /\ plan'.stage = plan.stage /\ plan'.revision = plan.revision /\ plan'.index = plan.index
          /\ plan'.rest = plan.rest /\ plan'.owner = plan.owner /\ plan'.current = Idle
      BY <3>1, <3>2
    <3>4. Accounted(disk, plan')
      BY <1>1, <3>3 DEF Accounted, Tallied
    <3> QED
      BY <1>1, <3>1, <3>4
  <2>3. CASE disk.revision = plan.revision /\ ~Reading /\ ~Leased(c)
    <3>1. c \in Candidate /\ Tallied(disk, plan)
      BY <1>1, <2>3 DEF NextCandidates, Accounted
    <3>2. PICK B \in Removable(plan.rest[c], plan.present) :
            LET S == Prune(Open(plan.by), plan, c, B) IN
            \/ Commit(plan.by, S) /\ plan' = Pruned(plan, S, c, B)
            \/ Fail(plan.by, S) /\ Drop
      BY <1>2, <2>3
    <3> DEFINE S == Prune(Open(plan.by), plan, c, B)
    <3>3. /\ Directory(disk) /\ Directory(disk')
          /\ Leaves(disk, plan, c, B, disk') /\ Contents(S.disk) = Pruning(disk, plan, c, B)
      BY <1>1, <3>1, <3>2, PruneSettles
    <3>4. (Commit(plan.by, S) /\ plan' = Pruned(plan, S, c, B)) \/ (Fail(plan.by, S) /\ Drop)
      BY <3>2
    <3> HIDE DEF S
    <3>5. Repairable(disk')
      BY <1>1, <3>1, <3>3, LeavesRepairable
    <3>6. disk'.revision \in Nat
      BY <3>3 DEF Directory
    <3>7. Fail(plan.by, S) /\ Drop => Accounted(disk', plan')
      BY <3>6, NoPlanAccounts DEF Drop
    <3>8. ASSUME Commit(plan.by, S), plan' = Pruned(plan, S, c, B) PROVE Accounted(disk', plan')
      <4>1. disk' = S.disk
        BY <3>8 DEF Commit
      <4>2. Accounted(S.disk, Pruned(plan, S, c, B))
        BY <1>1, <3>1, <3>3, <3>6, <4>1, PrunedAccounts
      <4> QED
        BY <3>8, <4>1, <4>2
    <3> QED
      BY <3>4, <3>5, <3>7, <3>8
  <2> QED
    BY <2>1, <2>2, <2>3
<1> QED
  BY <1>1, <1>3 DEF RepairInv, Unreferenced, Repairable, Kept, Owns

(* A plan that is done names and lists nothing new.                        *)
LEMMA FinishRepairs ==
    ASSUME RepairInv, FinishPlan
    PROVE  RepairInv'
<1>1. /\ disk'.records = disk.records /\ disk'.catalogs = disk.catalogs /\ disk'.index = disk.index
      /\ disk'.revision \in Nat /\ CacheInv' /\ plan' = NoPlan
  BY FinishSettles DEF RepairInv, Directory
<1>2. Repairable(disk') /\ Accounted(disk', plan')
  BY <1>1, SameRepairs, NoPlanAccounts DEF RepairInv
<1> QED
  BY <1>1, <1>2 DEF RepairInv, Unreferenced

-----------------------------------------------------------------------------
(* At first the index names nothing.                                       *)
LEMMA RepairBegin == Unreferenced /\ Init => RepairInv
<1> SUFFICES ASSUME Unreferenced, Init PROVE RepairInv
  OBVIOUS
<1>1. CacheInv /\ disk.records = Legacy /\ disk.index = {} /\ plan = NoPlan /\ disk.revision \in Nat
  BY CachesBegin DEF Init
<1>2. \A t \in Thread : disk.catalogs[t].files = {}
  BY DEF Init, NoCatalog
<1>3. Repairable(disk)
  BY <1>1, <1>2, Storage DEF Repairable, Kept
<1> QED
  BY <1>1, <1>3, NoPlanAccounts DEF RepairInv

(* Every step keeps it.                                                    *)
LEMMA RepairStep == RepairInv /\ [Next]_vars => RepairInv'
<1> SUFFICES ASSUME RepairInv, [Next]_vars PROVE RepairInv'
  OBVIOUS
<1>1. CASE UNCHANGED vars
  <2>1. CacheInv'
    BY CacheStep DEF RepairInv
  <2> QED
    BY <1>1, <2>1 DEF vars, RepairInv, Unreferenced
<1>2. CASE Next
  <2>1. ASSUME NEW p \in Process, NEW noted \in Touches, RetainInput(p, noted) PROVE RepairInv'
    <3>1. client[p].session \in Thread
      BY <2>1 DEF RetainInput, RepairInv, CacheInv, Clients
    <3> QED
      BY <2>1, <3>1, AdoptRepairs
  <2>2. ASSUME NEW p \in Process, EndSession(p) \/ Crash(p) PROVE RepairInv'
    BY <2>2, QuietRepairs
  <2>3. ASSUME NEW n \in Candidate, Expire(n) PROVE RepairInv'
    BY <2>3, ExpireRepairs
  <2> QED
    BY <1>2, <2>1, <2>2, <2>3, AdoptRepairs, PublishRepairs, RepublishRepairs, QuietRepairs, DraftRepairs, BatchRepairs,
       FinishRepairs DEF Next
<1> QED
  BY <1>1, <1>2

(* A change index that still names removed records can be repaired: they   *)
(* are in a catalog that the next cleanup removes them from again, or were *)
(* there before any catalog.  This is so in every behaviour, whatever size *)
(* batches have, whichever candidate is abandoned and wherever a prune     *)
(* fails (retention.go, commitStoragePrune).                               *)
THEOREM IndexStaysRepairable == Unreferenced /\ Spec => []IndexRepairable
<1>1. RepairInv => IndexRepairable
  BY DEF RepairInv, Repairable, Kept, Owns, IndexRepairable
<1> QED
  BY <1>1, RepairBegin, RepairStep, PTL DEF Spec
=============================================================================
