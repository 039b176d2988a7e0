-------------------------- MODULE NativeFeed_proofs --------------------------
(***************************************************************************)
(* Proofs about the feed of a native view, for every set of sessions,      *)
(* entries and outputs and every bound: folding two queued events decodes  *)
(* to what the two decode to one after the other, so however the queues    *)
(* fold, the client shows published frames in order and loses no output    *)
(* and no consequence silently.                                            *)
(***************************************************************************)
EXTENDS NativeFeed, SequenceTheorems, TLAPS

FrameSet == [n : Nat, thread : Session, at : Nat, main : [Entry -> Nat], review : Nat]
Outputs == Nat \X Demand
Patches == [kind : {"snapshot", "patch"}, n : Nat, at : Nat, thread : Session, from : SUBSET Session,
            retained : SUBSET Owners, delta : BOOLEAN, main : [Entry -> Int], review : Nat,
            out : SUBSET Outputs, marked : BOOLEAN, effects : SUBSET Nat]

(* Only a delta refers to entries, and output is of the event's own        *)
(* presentation.                                                           *)
Proper(e) ==
    /\ e \in Patches
    /\ ~e.delta => \A s \in Entry : e.main[s] # Kept
    /\ \A o \in e.out : o[1] = e.at

(* The session's thread was replaced by publication i.                     *)
Turned(h, i) == i > 1 /\ h[i].thread # h[i - 1].thread

(* An event decodes frame f to the publication of its number, and tells of *)
(* the replacement between the two, of which there is one at most.         *)
Link(h, f, e) ==
    /\ e.n \in 1 .. Len(h) /\ f.n < e.n
    /\ Decode(f, e) = h[e.n]
    /\ \A i \in f.n + 1 .. e.n : Turned(h, i) => e.from # {}
    /\ \A i, j \in f.n + 1 .. e.n : Turned(h, i) /\ Turned(h, j) => i = j

(* The frame a client that showed f shows before event k of a queue, and   *)
(* after all of it.                                                        *)
Before(h, f, q, k) == IF k = 1 THEN f ELSE h[q[k - 1].n]
Reached(h, f, q) ==
    Before(h, f, q, IF q # <<>> /\ q[Len(q)] = Exit THEN Len(q) ELSE Len(q) + 1)

Chained(h, f, q) ==
    /\ q \in Seq(Patches \cup {Exit})
    /\ \A k \in 1 .. Len(q) :
         /\ q[k] = Exit => k = Len(q)
         /\ q[k] # Exit => Proper(q[k]) /\ Link(h, Before(h, f, q, k), q[k])

(* The events of a queue.                                                  *)
EventsOf(q) == {q[k] : k \in 1 .. Len(q)} \ {Exit}

Recorded(h) ==
    /\ h \in Seq(FrameSet)
    /\ \A i \in 1 .. Len(h) : h[i].n = i
    /\ \A i, j \in 1 .. Len(h) : i <= j => h[i].at <= h[j].at
First == NoFrame(CHOOSE t \in Session : TRUE)

Screens == [frame : FrameSet, effects : SUBSET Nat, effect : Nat, applied : SUBSET Nat,
            got : SUBSET Outputs, marked : BOOLEAN, exited : BOOLEAN]
FeedTypes ==
    /\ sent \in [frame : FrameSet, local : BOOLEAN, canceled : BOOLEAN, exited : BOOLEAN]
    /\ outbox \in [events : Seq(Patches \cup {Exit}), ready : BOOLEAN]
    /\ inbox \in [events : Seq(Patches \cup {Exit}), ended : BOOLEAN]
    /\ screen \in Screens
    /\ ledger \in [pending : SUBSET Nat, next : Nat]
    /\ issued \in SUBSET Outputs

(* What was published is recorded in order; the session's frame is the     *)
(* last of it, and the client's is one of it.                              *)
FramesRecorded ==
    /\ Recorded(history)
    /\ sent.frame = IF history = <<>> THEN First ELSE history[Len(history)]
    /\ screen.frame = First \/ \E i \in 1 .. Len(history) : screen.frame = history[i]

(* The client's queue decodes what it shows, and the session's queue what  *)
(* the client will show, while the subscription takes it.                  *)
QueuesChained ==
    /\ Chained(history, screen.frame, inbox.events)
    /\ Exit \in Range(inbox.events) => inbox.ended
    /\ Exit \in Range(outbox.events) => sent.exited
    /\ inbox.ended => sent.canceled \/ (sent.exited /\ outbox.events = <<>>)
    /\ ~inbox.ended =>
         LET f == Reached(history, screen.frame, inbox.events) IN
         /\ Chained(history, f, outbox.events)
         /\ ~sent.canceled => sent.frame = Reached(history, f, outbox.events)
    /\ inbox.ended /\ ~sent.canceled =>
         sent.frame = Reached(history, screen.frame, inbox.events)

(* Where an output of the session's presentation is, or what stands for it. *)
OutputsKept ==
    /\ \A o \in screen.got : o[1] = screen.frame.at
    /\ \A o \in issued : o[1] <= sent.frame.at
    /\ ~sent.canceled => \A o \in issued : o[1] = sent.frame.at =>
         \/ o \in screen.got
         \/ \E e \in EventsOf(inbox.events) \cup (IF inbox.ended THEN {} ELSE EventsOf(outbox.events)) :
              o \in e.out \/ (e.marked /\ e.at = sent.frame.at)
         \/ screen.frame.at = sent.frame.at /\ screen.marked

(* A run of consequences that begins no later than with the first after    *)
(* those applied, and ends within those there are.                         *)
RunsOn(S, effect, next) == \E a \in 0 .. effect, b \in 0 .. next : S = a + 1 .. b
ConsequencesRun ==
    /\ screen.applied = 1 .. screen.effect /\ screen.effect <= ledger.next
    /\ \E a \in 0 .. screen.effect : ledger.pending = a + 1 .. ledger.next
    /\ RunsOn(screen.effects, screen.effect, ledger.next)
    /\ \A e \in EventsOf(inbox.events) \cup EventsOf(outbox.events) :
         RunsOn(e.effects, screen.effect, ledger.next)

FeedInv == FeedTypes /\ FramesRecorded /\ QueuesChained /\ OutputsKept /\ ConsequencesRun


-----------------------------------------------------------------------------
(* Decoding.                                                               *)

Accepts(f, e) ==
    /\ f.n = 0 => e.kind = "snapshot"
    /\ (e.retained # {} \/ e.delta) => Compatible(f, e) /\ Resolvable(f, e)
    /\ IF e.from = {} THEN e.thread = f.thread ELSE e.from = {f.thread}
DecodedMain(f, e) ==
    IF "main" \in e.retained THEN f.main
    ELSE IF e.delta THEN [s \in Entry |-> IF e.main[s] = Kept THEN f.main[s] ELSE e.main[s]]
    ELSE e.main
DecodedReview(f, e) == IF "review" \in e.retained THEN f.review ELSE e.review

(* What an accepted event decodes to, field by field (decodeNativeEvent).  *)
LEMMA DecodeIs ==
    ASSUME NEW f, NEW e
    PROVE  Decode(f, e) =
             IF Accepts(f, e)
             THEN [n |-> e.n, thread |-> e.thread, at |-> e.at,
                   main |-> DecodedMain(f, e), review |-> DecodedReview(f, e)]
             ELSE Rejected
<1>1. (CASE "main" \in e.retained -> f.main
         [] "main" \notin e.retained /\ e.delta ->
              [s \in Entry |-> IF e.main[s] = Kept THEN f.main[s] ELSE e.main[s]]
         [] OTHER -> e.main) = DecodedMain(f, e)
  BY DEF DecodedMain
<1> QED
  BY <1>1 DEF Decode, Accepts, DecodedReview

(* A frame that decoding gives was accepted.                               *)
LEMMA DecodeGives ==
    ASSUME NEW f, NEW e, Decode(f, e) \in FrameSet
    PROVE  LET g == Decode(f, e) IN
           /\ Accepts(f, e) /\ g.n = e.n /\ g.thread = e.thread /\ g.at = e.at
           /\ g.main = DecodedMain(f, e) /\ g.review = DecodedReview(f, e)
<1>1. Rejected.n \notin Nat
  BY DEF Rejected
<1>2. Rejected \notin FrameSet
  BY <1>1 DEF FrameSet
<1>3. Accepts(f, e)
  BY <1>2, DecodeIs
<1> QED
  BY <1>3, DecodeIs

(* An accepted event whose fields are a frame's decodes to that frame.     *)
LEMMA DecodeTo ==
    ASSUME NEW f, NEW e, NEW g \in FrameSet, Accepts(f, e),
           g.n = e.n, g.thread = e.thread, g.at = e.at,
           g.main = DecodedMain(f, e), g.review = DecodedReview(f, e)
    PROVE  Decode(f, e) = g
<1>1. g = [n |-> g.n, thread |-> g.thread, at |-> g.at, main |-> g.main, review |-> g.review]
  BY DEF FrameSet
<1> QED
  BY <1>1, DecodeIs

(* An event some of whose output was dropped.                              *)
Trimmed(e, x) == [e EXCEPT !.out = x, !.marked = TRUE]

(* What decoding does not look at: output and marks.                       *)
LEMMA DecodeIgnores ==
    ASSUME NEW f, NEW e \in Patches, NEW x \in SUBSET Outputs
    PROVE  /\ Decode(f, Trimmed(e, x)) = Decode(f, e) /\ Trimmed(e, x) \in Patches
           /\ Trimmed(e, x).n = e.n /\ Trimmed(e, x).at = e.at /\ Trimmed(e, x).from = e.from
           /\ Trimmed(e, x).effects = e.effects /\ Trimmed(e, x).out = x /\ Trimmed(e, x).marked
           /\ Trimmed(e, x).delta = e.delta /\ Trimmed(e, x).main = e.main
<1> DEFINE d == Trimmed(e, x)
<1>1. /\ d \in Patches /\ d.n = e.n /\ d.at = e.at /\ d.from = e.from /\ d.effects = e.effects
      /\ d.out = x /\ d.marked /\ d.delta = e.delta /\ d.main = e.main
      /\ d.kind = e.kind /\ d.thread = e.thread /\ d.retained = e.retained /\ d.review = e.review
  BY DEF Patches, Trimmed
<1> HIDE DEF d
<1>2. /\ Accepts(f, d) = Accepts(f, e) /\ DecodedMain(f, d) = DecodedMain(f, e)
      /\ DecodedReview(f, d) = DecodedReview(f, e)
  BY <1>1 DEF Accepts, DecodedMain, DecodedReview, Compatible, Resolvable
<1>3. Decode(f, d) = Decode(f, e)
  BY <1>1, <1>2, DecodeIs
<1> QED
  BY <1>1, <1>3 DEF d

-----------------------------------------------------------------------------
(* Folding.                                                                *)

(* The entries of the folded feed.                                         *)
LEMMA JoinedMainIs ==
    ASSUME NEW a \in Patches, NEW b \in Patches
    PROVE  /\ JoinedMain(a, b) =
                IF "main" \in b.retained THEN a.main
                ELSE IF b.delta /\ "main" \notin a.retained
                THEN [s \in Entry |-> IF b.main[s] = Kept THEN a.main[s] ELSE b.main[s]]
                ELSE b.main
           /\ JoinedMain(a, b) \in [Entry -> Int]
<1>1. JoinedMain(a, b) =
        IF "main" \in b.retained THEN a.main
        ELSE IF b.delta /\ "main" \notin a.retained
        THEN [s \in Entry |-> IF b.main[s] = Kept THEN a.main[s] ELSE b.main[s]]
        ELSE b.main
  BY DEF JoinedMain
<1> QED
  BY <1>1 DEF Patches


(* The event two events fold to, field by field (coalesceNative).          *)
LEMMA CoalesceIs ==
    ASSUME NEW a \in Patches, NEW b \in Patches
    PROVE  LET c == Coalesce(a, b) IN
           /\ c.n = b.n /\ c.at = b.at /\ c.thread = b.thread /\ c.effects = b.effects
           /\ c.kind = (IF a.kind = "snapshot" THEN a.kind ELSE b.kind)
           /\ c.from = b.from \cup a.from /\ c.retained = b.retained \cap a.retained
           /\ c.main = JoinedMain(a, b)
           /\ c.delta = (IF "main" \in b.retained THEN a.delta
                         ELSE IF "main" \in a.retained THEN b.delta
                         ELSE \E s \in Entry : JoinedMain(a, b)[s] = Kept)
           /\ c.review = (IF "review" \in b.retained THEN a.review ELSE b.review)
           /\ c.out = b.out \cup a.out /\ c.marked = (b.marked \/ a.marked)
           /\ c \in Patches
<1> DEFINE kind == IF a.kind = "snapshot" THEN a.kind ELSE b.kind
           main == JoinedMain(a, b)
           anyKept == \E s \in Entry : JoinedMain(a, b)[s] = Kept
           delta == IF "main" \in b.retained THEN a.delta
                    ELSE IF "main" \in a.retained THEN b.delta ELSE anyKept
           review == IF "review" \in b.retained THEN a.review ELSE b.review
           from == b.from \cup a.from
           both == b.retained \cap a.retained
           out == b.out \cup a.out
           marked == b.marked \/ a.marked
<1>1. (CASE "main" \in b.retained -> a.delta
         [] "main" \in a.retained \ b.retained -> b.delta
         [] OTHER -> \E s \in Entry : JoinedMain(a, b)[s] = Kept) = delta
  OBVIOUS
<1>2. Coalesce(a, b) = [b EXCEPT !.kind = kind, !.from = from, !.retained = both, !.main = main,
                                 !.delta = delta, !.review = review, !.out = out, !.marked = marked]
  BY <1>1 DEF Coalesce
<1>4. /\ kind \in {"snapshot", "patch"} /\ from \in SUBSET Session /\ both \in SUBSET Owners
      /\ review \in Nat /\ out \in SUBSET Outputs /\ main \in [Entry -> Int]
  BY JoinedMainIs DEF Patches
<1>5. delta \in BOOLEAN /\ marked \in BOOLEAN
  BY DEF Patches
<1> HIDE DEF kind, main, delta, review, from, both, out, marked
<1>6. Coalesce(a, b) \in Patches
  BY <1>2, <1>4, <1>5 DEF Patches
<1>3. LET c == Coalesce(a, b) IN
      /\ c.n = b.n /\ c.at = b.at /\ c.thread = b.thread /\ c.effects = b.effects
      /\ c.kind = kind /\ c.from = from /\ c.retained = both /\ c.main = main
      /\ c.delta = delta /\ c.review = review /\ c.out = out /\ c.marked = marked
  BY <1>2 DEF Patches
<1> QED
  BY <1>3, <1>6 DEF kind, main, delta, review, from, both, out, marked

(* The folded event is proper, and refers to what is there.                *)
LEMMA CoalesceProper ==
    ASSUME NEW a, NEW b, Proper(a), Proper(b), Foldable(a, b)
    PROVE  /\ Proper(Coalesce(a, b))
           /\ a.from # {} => b.from = {}
           /\ a.marked => Coalesce(a, b).marked
           /\ b.marked => Coalesce(a, b).marked
           /\ a.out \subseteq Coalesce(a, b).out /\ b.out \subseteq Coalesce(a, b).out
           /\ Coalesce(a, b).n = b.n /\ Coalesce(a, b).at = b.at
           /\ Coalesce(a, b).effects = b.effects
<1> DEFINE c == Coalesce(a, b)
<1>1. a \in Patches /\ b \in Patches
  BY DEF Proper
<1>2. /\ c.n = b.n /\ c.at = b.at /\ c.thread = b.thread /\ c.effects = b.effects
      /\ c.kind = (IF a.kind = "snapshot" THEN a.kind ELSE b.kind)
      /\ c.from = b.from \cup a.from /\ c.retained = b.retained \cap a.retained
      /\ c.main = JoinedMain(a, b)
      /\ c.delta = (IF "main" \in b.retained THEN a.delta
                    ELSE IF "main" \in a.retained THEN b.delta
                    ELSE \E s \in Entry : JoinedMain(a, b)[s] = Kept)
      /\ c.review = (IF "review" \in b.retained THEN a.review ELSE b.review)
      /\ c.out = b.out \cup a.out /\ c.marked = (b.marked \/ a.marked)
  BY <1>1, CoalesceIs
<1>3. /\ c.main = IF "main" \in b.retained THEN a.main
                  ELSE IF b.delta /\ "main" \notin a.retained
                  THEN [s \in Entry |-> IF b.main[s] = Kept THEN a.main[s] ELSE b.main[s]]
                  ELSE b.main
      /\ c.main \in [Entry -> Int]
  BY <1>1, <1>2, JoinedMainIs
<1>4. c \in Patches
  BY <1>1, CoalesceIs
<1>5. ASSUME ~c.delta, NEW s \in Entry PROVE c.main[s] # Kept
  <2>1. CASE "main" \in b.retained
    BY <1>2, <1>3, <1>5, <2>1 DEF Proper
  <2>2. CASE "main" \notin b.retained /\ "main" \in a.retained
    BY <1>2, <1>3, <1>5, <2>2 DEF Proper
  <2>3. CASE "main" \notin b.retained /\ "main" \notin a.retained
    BY <1>2, <1>5, <2>3
  <2> QED
    BY <2>1, <2>2, <2>3
<1>6. a.from # {} \/ a.out # {} => b.from = {} /\ a.at = b.at
  BY DEF Foldable, Boundary
<1>7. \A o \in c.out : o[1] = c.at
  BY <1>2, <1>6 DEF Proper
<1> QED
  BY <1>2, <1>4, <1>5, <1>6, <1>7 DEF Proper

(* Decoding the folded event is decoding the two in turn, whichever owners *)
(* either leaves out, and whether or not the first was a replacement.      *)
LEMMA CoalesceDecodes ==
    ASSUME NEW f \in FrameSet, NEW a, NEW b, Proper(a), Proper(b), Foldable(a, b),
           NEW g \in FrameSet, NEW h \in FrameSet, Decode(f, a) = g, Decode(g, b) = h
    PROVE  Decode(f, Coalesce(a, b)) = h
<1> DEFINE c == Coalesce(a, b)
<1>1. a \in Patches /\ b \in Patches
  BY DEF Proper
<1>2. /\ c.n = b.n /\ c.at = b.at /\ c.thread = b.thread
      /\ c.kind = (IF a.kind = "snapshot" THEN a.kind ELSE b.kind)
      /\ c.from = b.from \cup a.from /\ c.retained = b.retained \cap a.retained
      /\ c.main = JoinedMain(a, b)
      /\ c.delta = (IF "main" \in b.retained THEN a.delta
                    ELSE IF "main" \in a.retained THEN b.delta
                    ELSE \E s \in Entry : JoinedMain(a, b)[s] = Kept)
      /\ c.review = (IF "review" \in b.retained THEN a.review ELSE b.review)
  BY <1>1, CoalesceIs
<1>3. c.main = IF "main" \in b.retained THEN a.main
               ELSE IF b.delta /\ "main" \notin a.retained
               THEN [s \in Entry |-> IF b.main[s] = Kept THEN a.main[s] ELSE b.main[s]]
               ELSE b.main
  BY <1>1, <1>2, JoinedMainIs
<1>4. /\ Accepts(f, a) /\ g.n = a.n /\ g.thread = a.thread /\ g.at = a.at
      /\ g.main = DecodedMain(f, a) /\ g.review = DecodedReview(f, a)
  BY DecodeGives
<1>5. /\ Accepts(g, b) /\ h.n = b.n /\ h.thread = b.thread /\ h.at = b.at
      /\ h.main = DecodedMain(g, b) /\ h.review = DecodedReview(g, b)
  BY DecodeGives
<1>6. /\ (b.retained # {} \/ b.delta) => /\ b.kind = "patch" /\ b.from = {}
                                         /\ a.at = b.at /\ a.thread = b.thread
      /\ a.from # {} => b.from = {} /\ a.thread = b.thread
  BY DEF Foldable, Boundary
<1>7. /\ \A s \in Entry : ~a.delta => a.main[s] # Kept
      /\ \A s \in Entry : ~b.delta => b.main[s] # Kept
  BY DEF Proper
<1> HIDE DEF c
<1>8. c.delta => a.delta \/ ("main" \in a.retained /\ b.delta)
  <2>1. CASE "main" \in b.retained
    BY <1>2, <2>1
  <2>2. CASE "main" \notin b.retained /\ "main" \in a.retained
    BY <1>2, <2>2
  <2>3. CASE "main" \notin b.retained /\ "main" \notin a.retained
    <3>1. \A s \in Entry : c.main[s] = Kept => a.main[s] = Kept
      BY <1>3, <1>7, <2>3
    <3> QED
      BY <1>2, <1>7, <2>3, <3>1
  <2> QED
    BY <2>1, <2>2, <2>3
<1>9. c.delta => "main" \in b.retained \/ b.delta
  <2>1. CASE "main" \notin b.retained /\ "main" \notin a.retained /\ ~b.delta
    <3>1. c.main = b.main
      BY <1>3, <2>1
    <3> QED
      BY <1>2, <1>7, <2>1, <3>1
  <2> QED
    BY <1>2, <2>1
<1>10. Compatible(f, a) \/ (a.retained = {} /\ ~a.delta)
  BY <1>4 DEF Accepts
<1>11. (c.retained # {} \/ c.delta) => Compatible(f, c)
  <2> SUFFICES ASSUME c.retained # {} \/ c.delta PROVE Compatible(f, c)
    OBVIOUS
  <2>1. a.retained # {} \/ a.delta
    BY <1>2, <1>8
  <2>2. b.retained # {} \/ b.delta
    BY <1>2, <1>9
  <2> QED
    BY <1>2, <1>6, <1>10, <2>1, <2>2 DEF Compatible
<1>12. (c.retained # {} \/ c.delta) => Resolvable(f, c)
  <2> SUFFICES ASSUME NEW s \in Entry, c.main[s] = Kept PROVE f.main[s] # Absent
    BY DEF Resolvable
  <2>1. CASE a.main[s] = Kept
    BY <1>4, <1>7, <2>1 DEF Accepts, Resolvable
  <2>2. CASE a.main[s] # Kept
    <3>1. "main" \notin b.retained /\ b.main[s] = Kept /\ b.delta /\ "main" \in a.retained
      BY <1>3, <1>7, <2>2
    <3>2. g.main = f.main
      BY <1>4, <3>1 DEF DecodedMain
    <3> QED
      BY <1>5, <3>1, <3>2 DEF Accepts, Resolvable
  <2> QED
    BY <2>1, <2>2
<1>13. Accepts(f, c)
  <2>1. f.n = 0 => c.kind = "snapshot"
    BY <1>2, <1>4 DEF Accepts
  <2>2. IF c.from = {} THEN c.thread = f.thread ELSE c.from = {f.thread}
    <3>1. CASE a.from = {}
      BY <1>2, <1>4, <1>5, <3>1 DEF Accepts
    <3>2. CASE a.from # {}
      BY <1>2, <1>4, <1>6, <3>2 DEF Accepts
    <3> QED
      BY <3>1, <3>2
  <2> QED
    BY <1>11, <1>12, <2>1, <2>2 DEF Accepts
<1>14. h.review = DecodedReview(f, c)
  BY <1>2, <1>4, <1>5 DEF DecodedReview
<1>15. h.main = DecodedMain(f, c)
  <2>1. CASE "main" \in b.retained
    <3>1. h.main = g.main /\ c.main = a.main /\ c.delta = a.delta
      BY <1>2, <1>3, <1>5, <2>1 DEF DecodedMain
    <3> QED
      BY <1>2, <1>4, <2>1, <3>1 DEF DecodedMain
  <2>2. CASE "main" \notin b.retained /\ "main" \in a.retained
    <3>1. g.main = f.main /\ c.main = b.main /\ c.delta = b.delta /\ "main" \notin c.retained
      BY <1>2, <1>3, <1>4, <2>2 DEF DecodedMain
    <3> QED
      BY <1>5, <2>2, <3>1 DEF DecodedMain
  <2>3. CASE "main" \notin b.retained /\ "main" \notin a.retained /\ ~b.delta
    <3>1. h.main = b.main /\ c.main = b.main /\ "main" \notin c.retained
      BY <1>2, <1>3, <1>5, <2>3 DEF DecodedMain
    <3> QED
      BY <1>9, <2>3, <3>1 DEF DecodedMain
  <2>4. CASE "main" \notin b.retained /\ "main" \notin a.retained /\ b.delta
    <3>1. /\ h.main = [s \in Entry |-> IF b.main[s] = Kept THEN g.main[s] ELSE b.main[s]]
          /\ c.main = [s \in Entry |-> IF b.main[s] = Kept THEN a.main[s] ELSE b.main[s]]
          /\ "main" \notin c.retained
      BY <1>2, <1>3, <1>5, <2>4 DEF DecodedMain
    <3>2. \A s \in Entry : g.main[s] = IF a.main[s] = Kept THEN f.main[s] ELSE a.main[s]
      BY <1>4, <1>7, <2>4 DEF DecodedMain
    <3>3. CASE c.delta
      <4>1. DecodedMain(f, c) = [s \in Entry |-> IF c.main[s] = Kept THEN f.main[s] ELSE c.main[s]]
        BY <3>1, <3>3 DEF DecodedMain
      <4> QED
        BY <3>1, <3>2, <4>1
    <3>4. CASE ~c.delta
      <4>1. \A s \in Entry : c.main[s] # Kept
        BY <1>2, <2>4, <3>4
      <4>2. DecodedMain(f, c) = c.main
        BY <3>1, <3>4 DEF DecodedMain
      <4>3. \A s \in Entry : b.main[s] = Kept => g.main[s] = a.main[s]
        BY <3>1, <3>2, <4>1
      <4> QED
        BY <3>1, <4>2, <4>3
    <3> QED
      BY <3>3, <3>4
  <2> QED
    BY <2>1, <2>2, <2>3, <2>4
<1>16. h.n = c.n /\ h.thread = c.thread /\ h.at = c.at
  BY <1>2, <1>5
<1>17. Decode(f, c) = h
  BY <1>13, <1>14, <1>15, <1>16, DecodeTo
<1> QED
  BY <1>17 DEF c


-----------------------------------------------------------------------------
(* Encoding.                                                               *)

(* A publication has its number and a presentation no older than the last. *)
LEMMA FramesAre ==
    ASSUME NEW old \in FrameSet, NEW n \in Nat, NEW new \in Frames(old, n)
    PROVE  new \in FrameSet /\ new.n = n /\ new.at \in {old.at, old.at + 1}
<1>1. CASE \E t \in (IF n = 1 THEN {old.thread} ELSE Session), a \in {old.at, old.at + 1} :
              new = [n |-> n, thread |-> t, at |-> a, main |-> [s \in Entry |-> n], review |-> n]
  BY <1>1 DEF FrameSet
<1>2. CASE \E m \in Feeds(old.main, n), r \in {old.review, n} :
              new = [n |-> n, thread |-> old.thread, at |-> old.at, main |-> m, review |-> r]
  <2>1. \A m \in Feeds(old.main, n) : m \in [Entry -> Nat]
    BY DEF Feeds, FrameSet, Absent
  <2> QED
    BY <1>2, <2>1 DEF FrameSet
<1> QED
  BY <1>1, <1>2 DEF Frames

(* Encoding against the frame before is undone by decoding against it      *)
(* (encodeNativePrefix, decodeNativeEvent).                                *)
LEMMA EncodeDecodes ==
    ASSUME NEW old \in FrameSet, NEW new \in FrameSet, NEW from,
           from = IF new.thread = old.thread THEN {} ELSE {old.thread},
           NEW same \in SUBSET Unchanged(old, new), NEW delta \in BOOLEAN,
           NEW out \in SUBSET {<<new.at, d>> : d \in Demand}, NEW effects \in SUBSET Nat,
           Encode(old, new, from, same, delta, out, effects).kind # "patch" => same = {},
           delta => /\ Encode(old, new, from, same, delta, out, effects).kind = "patch"
                    /\ "main" \notin same
    PROVE  LET e == Encode(old, new, from, same, delta, out, effects) IN
           /\ Proper(e) /\ Decode(old, e) = new
           /\ e.n = new.n /\ e.at = new.at /\ e.from = from /\ e.out = out /\ e.effects = effects
<1> DEFINE e == Encode(old, new, from, same, delta, out, effects)
<1>1. /\ e.kind = (IF old.n = 0 \/ old.at # new.at \/ from # {} THEN "snapshot" ELSE "patch")
      /\ e.n = new.n /\ e.at = new.at /\ e.thread = new.thread /\ e.from = from
      /\ e.retained = same /\ e.delta = delta /\ e.out = out /\ e.marked = FALSE /\ e.effects = effects
      /\ e.main = (IF "main" \in same THEN NoFeed
                   ELSE IF delta THEN References(old.main, new.main) ELSE new.main)
      /\ e.review = (IF "review" \in same THEN 0 ELSE new.review)
  BY DEF Encode
<1>2. same \subseteq Owners /\ \A o \in same : old[o] = new[o]
  BY DEF Unchanged
<1>3. NoFeed \in [Entry -> Int] /\ \A s \in Entry : NoFeed[s] # Kept
  BY DEF NoFeed, Absent, Kept
<1>4. /\ References(old.main, new.main) \in [Entry -> Int]
      /\ \A s \in Entry : References(old.main, new.main)[s] =
           IF new.main[s] # Absent /\ new.main[s] = old.main[s] THEN Kept ELSE new.main[s]
  BY DEF References, FrameSet, Kept
<1>5. \A s \in Entry : new.main[s] # Kept
  BY DEF FrameSet, Kept
<1>6. e.main \in [Entry -> Int]
  BY <1>1, <1>3, <1>4 DEF FrameSet
<1>7. out \in SUBSET Outputs /\ \A o \in out : o[1] = new.at
  BY DEF Outputs, FrameSet
<1>8. from \in SUBSET Session
  BY DEF FrameSet
<1>9. e \in Patches
  <2>1. e.kind \in {"snapshot", "patch"} /\ e.review \in Nat /\ e.n \in Nat /\ e.at \in Nat /\ e.thread \in Session
    BY <1>1 DEF FrameSet
  <2>2. e = [kind |-> e.kind, n |-> e.n, at |-> e.at, thread |-> e.thread, from |-> e.from,
             retained |-> e.retained, delta |-> e.delta, main |-> e.main, review |-> e.review,
             out |-> e.out, marked |-> e.marked, effects |-> e.effects]
    BY DEF Encode
  <2> HIDE DEF e
  <2> QED
    BY <1>1, <1>2, <1>6, <1>7, <1>8, <2>1, <2>2 DEF Patches
<1>10. \A s \in Entry : ~delta => e.main[s] # Kept
  BY <1>1, <1>3, <1>5
<1>11. Proper(e)
  BY <1>1, <1>7, <1>9, <1>10 DEF Proper
<1>12. ASSUME NEW s \in Entry, e.main[s] = Kept
       PROVE  delta /\ "main" \notin same /\ new.main[s] = old.main[s] /\ old.main[s] # Absent
  BY <1>1, <1>3, <1>4, <1>5, <1>12
<1>13. Accepts(old, e)
  <2>1. (e.retained # {} \/ e.delta) => e.kind = "patch"
    BY <1>1
  <2>2. e.kind = "patch" => e.from = {} /\ e.at = old.at /\ e.thread = old.thread /\ old.n # 0
    BY <1>1
  <2>3. Resolvable(old, e)
    BY <1>12 DEF Resolvable
  <2>4. old.n = 0 => e.kind = "snapshot"
    BY <1>1
  <2>5. IF e.from = {} THEN e.thread = old.thread ELSE e.from = {old.thread}
    BY <1>1
  <2> QED
    BY <2>1, <2>2, <2>3, <2>4, <2>5 DEF Accepts, Compatible
<1>14. new.main = DecodedMain(old, e)
  <2>1. CASE "main" \in same
    BY <1>1, <1>2, <2>1 DEF DecodedMain
  <2>2. CASE "main" \notin same /\ delta
    <3>1. DecodedMain(old, e) = [s \in Entry |-> IF e.main[s] = Kept THEN old.main[s] ELSE e.main[s]]
      BY <1>1, <2>2 DEF DecodedMain
    <3>2. \A s \in Entry : (IF e.main[s] = Kept THEN old.main[s] ELSE e.main[s]) = new.main[s]
      BY <1>1, <1>4, <1>5, <2>2
    <3>3. new.main = [s \in Entry |-> new.main[s]]
      BY DEF FrameSet
    <3> QED
      BY <3>1, <3>2, <3>3
  <2>3. CASE "main" \notin same /\ ~delta
    BY <1>1, <2>3 DEF DecodedMain
  <2> QED
    BY <2>1, <2>2, <2>3
<1>15. new.review = DecodedReview(old, e)
  BY <1>1, <1>2 DEF DecodedReview
<1>16. Decode(old, e) = new
  BY <1>1, <1>13, <1>14, <1>15, DecodeTo
<1> QED
  BY <1>1, <1>11, <1>16

-----------------------------------------------------------------------------
(* Queues.                                                                 *)

(* Output that is dropped leaves a mark, and nothing else changes.         *)
LEMMA NormalizedIs ==
    ASSUME NEW e, Proper(e), NEW d \in Normalized(e)
    PROVE  /\ Proper(d) /\ \A f : Decode(f, d) = Decode(f, e)
           /\ d.n = e.n /\ d.at = e.at /\ d.from = e.from /\ d.effects = e.effects
           /\ \A o \in e.out : o \in d.out \/ d.marked
           /\ e.marked => d.marked
<1>1. e \in Patches /\ e.kind # "exit"
  BY DEF Proper, Patches
<1>2. CASE d = e
  BY <1>2
<1>3. CASE d # e
  <2>1. PICK kept \in SUBSET e.out : d = Trimmed(e, kept)
    BY <1>1, <1>3 DEF Normalized, Trimmed
  <2>2. kept \in SUBSET Outputs
    BY <1>1 DEF Patches
  <2>3. /\ d \in Patches /\ d.n = e.n /\ d.at = e.at /\ d.from = e.from /\ d.effects = e.effects
        /\ d.out = kept /\ d.marked /\ d.delta = e.delta /\ d.main = e.main
        /\ \A f : Decode(f, d) = Decode(f, e)
    BY <1>1, <2>1, <2>2, DecodeIgnores
  <2> QED
    BY <2>1, <2>3 DEF Proper
<1> QED
  BY <1>2, <1>3


(* An exit is no frame.                                                    *)
LEMMA ExitApart == Exit.kind = "exit" /\ \A e \in Patches : e.kind # "exit" /\ e # Exit
<1>1. Exit.kind = "exit"
  BY DEF Exit
<1>2. \A e \in Patches : e.kind # "exit"
  BY DEF Patches
<1> QED
  BY <1>1, <1>2

(* A link is about what an event decodes to, its number and its origin.    *)
LEMMA LinkSame ==
    ASSUME NEW h, NEW f, NEW e, NEW d, Link(h, f, e),
           Decode(f, d) = Decode(f, e), d.n = e.n, d.from = e.from
    PROVE  Link(h, f, d)
<1> QED
  BY DEF Link

(* Two links fold to one: of the two, one at most is a replacement.        *)
LEMMA LinkFold ==
    ASSUME NEW h, Recorded(h), NEW f \in FrameSet, NEW a, NEW b, Proper(a), Proper(b), Foldable(a, b),
           Link(h, f, a), Link(h, h[a.n], b)
    PROVE  Link(h, f, Coalesce(a, b))
<1> DEFINE c == Coalesce(a, b)
<1>1. /\ a.n \in 1 .. Len(h) /\ b.n \in 1 .. Len(h) /\ h[a.n] \in FrameSet /\ h[b.n] \in FrameSet
      /\ h[a.n].n = a.n /\ f.n \in Nat /\ f.n < a.n /\ a.n < b.n
  <2>1. a.n \in 1 .. Len(h) /\ b.n \in 1 .. Len(h) /\ f.n < a.n /\ h[a.n].n < b.n
    BY DEF Link
  <2>2. h \in Seq(FrameSet) /\ h[a.n].n = a.n
    BY <2>1 DEF Recorded
  <2>3. f.n \in Nat
    BY DEF FrameSet
  <2> QED
    BY <2>1, <2>2, <2>3
<1>2. c.n = b.n /\ c.from = b.from \cup a.from
  BY CoalesceIs DEF Proper
<1>3. a.from # {} => b.from = {}
  BY CoalesceProper
<1>4. Decode(f, c) = h[c.n]
  BY <1>1, <1>2, CoalesceDecodes DEF Link
<1> HIDE DEF c
<1>5. \A i \in f.n + 1 .. c.n : Turned(h, i) =>
        \/ i \in f.n + 1 .. a.n /\ a.from # {}
        \/ i \in h[a.n].n + 1 .. b.n /\ b.from # {}
  BY <1>1, <1>2 DEF Link
<1>6. \A i, j \in f.n + 1 .. c.n : Turned(h, i) /\ Turned(h, j) => i = j
  <2> SUFFICES ASSUME NEW i \in f.n + 1 .. c.n, NEW j \in f.n + 1 .. c.n, Turned(h, i), Turned(h, j)
               PROVE  i = j
    OBVIOUS
  <2>1. CASE a.from # {}
    <3>1. i \in f.n + 1 .. a.n /\ j \in f.n + 1 .. a.n
      BY <1>3, <1>5, <2>1
    <3> QED
      BY <3>1 DEF Link
  <2>2. CASE a.from = {}
    <3>1. i \in h[a.n].n + 1 .. b.n /\ j \in h[a.n].n + 1 .. b.n
      BY <1>5, <2>2
    <3> QED
      BY <3>1 DEF Link
  <2> QED
    BY <2>1, <2>2
<1>7. f.n < c.n /\ c.n \in 1 .. Len(h)
  BY <1>1, <1>2
<1>8. \A i \in f.n + 1 .. c.n : Turned(h, i) => c.from # {}
  BY <1>2, <1>5
<1>9. Link(h, f, c)
  BY <1>4, <1>6, <1>7, <1>8 DEF Link
<1> QED
  BY <1>9 DEF c

(* No event of a queue is an exit.                                         *)
Unended(q) == \A k \in 1 .. Len(q) : q[k] # Exit

(* What the client shows before an event was published.                    *)
LEMMA BeforeIn ==
    ASSUME NEW h, Recorded(h), NEW f \in FrameSet, NEW q, Chained(h, f, q),
           NEW k \in 1 .. Len(q) + 1, k > 1 => q[k - 1] # Exit
    PROVE  Before(h, f, q, k) \in FrameSet /\ (k > 1 => Before(h, f, q, k).n = q[k - 1].n)
<1>1. Len(q) \in Nat
  BY DEF Chained
<1>2. CASE k = 1
  BY <1>2 DEF Before
<1>3. CASE k # 1
  <2>1. k - 1 \in 1 .. Len(q)
    BY <1>1, <1>3
  <2>2. q[k - 1].n \in 1 .. Len(h)
    BY <1>3, <2>1 DEF Chained, Link
  <2> QED
    BY <1>3, <2>2 DEF Before, Recorded
<1> QED
  BY <1>2, <1>3

(* One more event at the end of a queue.                                   *)
LEMMA ChainAppend ==
    ASSUME NEW h, NEW f, NEW q, Chained(h, f, q), Unended(q), NEW e, Proper(e),
           Link(h, Before(h, f, q, Len(q) + 1), e)
    PROVE  /\ Chained(h, f, Append(q, e)) /\ Unended(Append(q, e))
           /\ Reached(h, f, Append(q, e)) = h[e.n]
           /\ EventsOf(Append(q, e)) = EventsOf(q) \cup {e}
<1> DEFINE p == Append(q, e)
<1>1. q \in Seq(Patches \cup {Exit}) /\ e \in Patches /\ e # Exit
  BY ExitApart DEF Chained, Proper
<1>2. /\ p \in Seq(Patches \cup {Exit}) /\ Len(p) = Len(q) + 1 /\ Len(q) \in Nat
      /\ \A k \in 1 .. Len(p) : p[k] = IF k = Len(q) + 1 THEN e ELSE q[k]
  BY <1>1
<1> HIDE DEF p
<1>3. \A k \in 1 .. Len(p) : Before(h, f, p, k) = Before(h, f, q, k)
  BY <1>2 DEF Before
<1>4. Unended(p)
  BY <1>1, <1>2 DEF Unended
<1>5. Chained(h, f, p)
  <2> SUFFICES ASSUME NEW k \in 1 .. Len(p) PROVE Proper(p[k]) /\ Link(h, Before(h, f, p, k), p[k])
    BY <1>2, <1>4 DEF Chained, Unended
  <2>1. CASE k = Len(q) + 1
    BY <1>2, <1>3, <2>1
  <2>2. CASE k # Len(q) + 1
    <3>1. k \in 1 .. Len(q) /\ p[k] = q[k]
      BY <1>2, <2>2
    <3> QED
      BY <1>3, <3>1 DEF Chained, Unended
  <2> QED
    BY <2>1, <2>2
<1>6. Reached(h, f, p) = h[e.n]
  <2>1. Len(p) + 1 # 1 /\ p # <<>> /\ p[Len(p)] = e
    BY <1>2
  <2> QED
    BY <1>1, <1>2, <2>1 DEF Reached, Before
<1>7. EventsOf(p) = EventsOf(q) \cup {e}
  <2>1. \A k \in 1 .. Len(q) : k \in 1 .. Len(p) /\ p[k] = q[k]
    BY <1>2
  <2>2. Len(p) \in 1 .. Len(p) /\ p[Len(p)] = e
    BY <1>2
  <2> QED
    BY <1>1, <1>2, <2>1, <2>2 DEF EventsOf
<1> QED
  BY <1>4, <1>5, <1>6, <1>7 DEF p

(* The exit at the end of a queue.                                         *)
LEMMA ChainExit ==
    ASSUME NEW h, NEW f, NEW q, Chained(h, f, q), Unended(q)
    PROVE  /\ Chained(h, f, Append(q, Exit))
           /\ Reached(h, f, Append(q, Exit)) = Reached(h, f, q)
           /\ EventsOf(Append(q, Exit)) = EventsOf(q)
<1> DEFINE p == Append(q, Exit)
<1>1. q \in Seq(Patches \cup {Exit})
  BY DEF Chained
<1>2. /\ p \in Seq(Patches \cup {Exit}) /\ Len(p) = Len(q) + 1 /\ Len(q) \in Nat
      /\ \A k \in 1 .. Len(p) : p[k] = IF k = Len(q) + 1 THEN Exit ELSE q[k]
  BY <1>1
<1> HIDE DEF p
<1>3. \A k \in 1 .. Len(p) : Before(h, f, p, k) = Before(h, f, q, k)
  BY <1>2 DEF Before
<1>4. Chained(h, f, p)
  BY <1>2, <1>3 DEF Chained, Unended
<1>5. Reached(h, f, p) = Reached(h, f, q)
  <2>1. p # <<>> /\ p[Len(p)] = Exit /\ Len(p) \in 1 .. Len(p)
    BY <1>2
  <2>2. Reached(h, f, p) = Before(h, f, q, Len(q) + 1)
    BY <1>2, <1>3, <2>1 DEF Reached
  <2>3. ~(q # <<>> /\ q[Len(q)] = Exit)
    BY <1>1, <1>2 DEF Unended
  <2> QED
    BY <2>2, <2>3 DEF Reached
<1>6. EventsOf(p) = EventsOf(q)
  BY <1>2 DEF EventsOf
<1> QED
  BY <1>4, <1>5, <1>6 DEF p

(* A queue without its last event.                                         *)
LEMMA ChainFront ==
    ASSUME NEW h, NEW f, NEW q, Chained(h, f, q), Unended(q), q # <<>>
    PROVE  /\ Chained(h, f, Front(q)) /\ Unended(Front(q))
           /\ Len(q) \in Nat \ {0}
           /\ Before(h, f, Front(q), Len(Front(q)) + 1) = Before(h, f, q, Len(q))
           /\ EventsOf(q) = EventsOf(Front(q)) \cup {q[Len(q)]}
<1> DEFINE p == Front(q)
<1>1. q \in Seq(Patches \cup {Exit}) /\ Len(q) \in Nat \ {0}
  BY DEF Chained
<1>2. /\ p \in Seq(Patches \cup {Exit}) /\ Len(p) = Len(q) - 1
      /\ \A k \in 1 .. Len(p) : p[k] = q[k]
  <2>1. p = SubSeq(q, 1, Len(q) - 1)
    BY DEF Front
  <2>2. 1 \in Int /\ Len(q) - 1 \in Int /\ \A i \in 1 .. Len(q) - 1 : q[i] \in Patches \cup {Exit}
    BY <1>1
  <2> DEFINE r == SubSeq(q, 1, Len(q) - 1)
  <2>3. /\ r \in Seq(Patches \cup {Exit})
        /\ Len(r) = IF 1 <= Len(q) - 1 THEN (Len(q) - 1) - 1 + 1 ELSE 0
        /\ \A i \in 1 .. (Len(q) - 1) - 1 + 1 : r[i] = q[1 + i - 1]
    BY <2>2, SubSeqProperties
  <2> HIDE DEF p, r
  <2>4. p = r
    BY <2>1 DEF r
  <2> QED
    BY <1>1, <2>3, <2>4
<1> HIDE DEF p
<1>3. \A k \in 1 .. Len(q) : Before(h, f, p, k) = Before(h, f, q, k)
  BY <1>1, <1>2 DEF Before
<1>4. Chained(h, f, p) /\ Unended(p)
  BY <1>1, <1>2, <1>3 DEF Chained, Unended
<1>5. Before(h, f, p, Len(p) + 1) = Before(h, f, q, Len(q))
  BY <1>1, <1>2, <1>3
<1>6. EventsOf(q) = EventsOf(p) \cup {q[Len(q)]}
  BY <1>1, <1>2 DEF EventsOf, Unended
<1> QED
  BY <1>1, <1>4, <1>5, <1>6 DEF p

(* A queue without its first event, for a client that has decoded it.      *)
LEMMA ChainTail ==
    ASSUME NEW h, NEW f, NEW q, Chained(h, f, q), q # <<>>, Head(q) # Exit
    PROVE  /\ Proper(Head(q)) /\ Link(h, f, Head(q))
           /\ Chained(h, h[Head(q).n], Tail(q))
           /\ Reached(h, h[Head(q).n], Tail(q)) = Reached(h, f, q)
           /\ EventsOf(q) = EventsOf(Tail(q)) \cup {Head(q)}
           /\ \A k \in 1 .. Len(Tail(q)) : Tail(q)[k] = q[k + 1]
           /\ Len(Tail(q)) = Len(q) - 1 /\ Len(q) \in Nat \ {0}
<1> DEFINE p == Tail(q)
           g == h[Head(q).n]
<1>1. q \in Seq(Patches \cup {Exit}) /\ Len(q) \in Nat \ {0} /\ Head(q) = q[1]
  BY DEF Chained
<1>2. /\ p \in Seq(Patches \cup {Exit}) /\ Len(p) = Len(q) - 1
      /\ \A k \in 1 .. Len(p) : p[k] = q[k + 1]
  BY <1>1
<1>3. Proper(Head(q)) /\ Link(h, f, Head(q))
  <2>1. Before(h, f, q, 1) = f /\ 1 \in 1 .. Len(q)
    BY <1>1 DEF Before
  <2> QED
    BY <1>1, <2>1 DEF Chained
<1> HIDE DEF p
<1>4. \A k \in 1 .. Len(q) : Before(h, g, p, k) = Before(h, f, q, k + 1)
  <2> SUFFICES ASSUME NEW k \in 1 .. Len(q) PROVE Before(h, g, p, k) = Before(h, f, q, k + 1)
    OBVIOUS
  <2>1. CASE k = 1
    BY <1>1, <2>1 DEF Before
  <2>2. CASE k # 1
    <3>1. k - 1 \in 1 .. Len(p) /\ p[k - 1] = q[k] /\ k + 1 # 1 /\ (k + 1) - 1 = k
      BY <1>1, <1>2, <2>2
    <3> QED
      BY <2>2, <3>1 DEF Before
  <2> QED
    BY <2>1, <2>2
<1> HIDE DEF g
<1>5. Chained(h, g, p)
  <2> SUFFICES ASSUME NEW k \in 1 .. Len(p)
               PROVE  /\ p[k] = Exit => k = Len(p)
                      /\ p[k] # Exit => Proper(p[k]) /\ Link(h, Before(h, g, p, k), p[k])
    BY <1>2 DEF Chained
  <2>1. k + 1 \in 1 .. Len(q) /\ k \in 1 .. Len(q) /\ p[k] = q[k + 1] /\ (k + 1 = Len(q) => k = Len(p))
    BY <1>1, <1>2
  <2> QED
    BY <1>4, <2>1 DEF Chained
<1>6. Reached(h, g, p) = Reached(h, f, q)
  <2>1. CASE p = <<>>
    <3>1. Len(p) = 0
      BY <2>1
    <3>2. Len(q) = 1
      BY <1>1, <1>2, <3>1
    <3>3. q[Len(q)] # Exit
      BY <1>1, <3>2
    <3> QED
      BY <1>1, <1>4, <2>1, <3>1, <3>2, <3>3 DEF Reached
  <2>2. CASE p # <<>>
    <3>1. Len(p) \in 1 .. Len(q) /\ p[Len(p)] = q[Len(q)] /\ q # <<>> /\ Len(p) + 1 = Len(q)
      BY <1>1, <1>2, <2>2
    <3> QED
      BY <1>4, <2>2, <3>1 DEF Reached
  <2> QED
    BY <2>1, <2>2
<1>7. EventsOf(q) = EventsOf(p) \cup {Head(q)}
  <2>1. \A k \in 1 .. Len(q) : k = 1 \/ (k - 1 \in 1 .. Len(p) /\ p[k - 1] = q[k])
    BY <1>1, <1>2
  <2>2. \A k \in 1 .. Len(p) : k + 1 \in 1 .. Len(q) /\ p[k] = q[k + 1]
    BY <1>1, <1>2
  <2>3. EventsOf(q) \subseteq EventsOf(p) \cup {Head(q)}
    BY <1>1, <2>1 DEF EventsOf
  <2>4. EventsOf(p) \cup {Head(q)} \subseteq EventsOf(q)
    BY <1>1, <2>2 DEF EventsOf
  <2> QED
    BY <2>3, <2>4
<1> QED
  BY <1>1, <1>2, <1>3, <1>5, <1>6, <1>7 DEF p, g


(* What an event is linked to was published in its presentation.           *)
LEMMA LinkIn ==
    ASSUME NEW h, Recorded(h), NEW f, NEW e, Link(h, f, e)
    PROVE  /\ e.n \in 1 .. Len(h) /\ h[e.n] \in FrameSet /\ e.at = h[e.n].at
           /\ f.n < e.n /\ Decode(f, e) = h[e.n]
<1>1. e.n \in 1 .. Len(h) /\ h \in Seq(FrameSet) /\ Decode(f, e) = h[e.n] /\ f.n < e.n
  BY DEF Link, Recorded
<1>2. h[e.n] \in FrameSet
  BY <1>1
<1> QED
  BY <1>1, <1>2, DecodeGives

(* What is queued and what joins it is in the queue after: itself, or      *)
(* folded into the newest event, whose output or mark stands for it.       *)
StandsFor(y, x, e) ==
    /\ y = x \/ (x.at <= e.at /\ y.at = e.at)
    /\ \A o \in x.out : o \in y.out \/ (y.marked /\ y.at = e.at)
    /\ x.marked => y.marked

(* A queue stays chained when an event is admitted, folded or not, with or *)
(* without all of its output (admitNative, coalesceNative).                *)
LEMMA AdmitKeeps ==
    ASSUME NEW h, Recorded(h), NEW f \in FrameSet, NEW q, Chained(h, f, q), Unended(q),
           NEW e, Proper(e), Link(h, Reached(h, f, q), e), NEW p \in Admissions(q, e)
    PROVE  /\ Chained(h, f, p) /\ Unended(p) /\ Reached(h, f, p) = h[e.n]
           /\ \A x \in EventsOf(q) \cup {e} : \E y \in EventsOf(p) : StandsFor(y, x, e)
           /\ \A y \in EventsOf(p) : y \in EventsOf(q) \/ y.effects = e.effects
<1> DEFINE last == q[Len(q)]
           fold == q # <<>> /\ Foldable(last, e)
<1>1. q \in Seq(Patches \cup {Exit}) /\ Len(q) \in Nat /\ (q # <<>> => Len(q) \in 1 .. Len(q))
  BY DEF Chained
<1>2. Reached(h, f, q) = Before(h, f, q, Len(q) + 1)
  BY <1>1 DEF Reached, Unended
<1>3. CASE ~fold
  <2>1. PICK d \in Normalized(e) : p = Append(q, d)
    BY <1>3 DEF Admissions
  <2>2. /\ Proper(d) /\ Decode(Reached(h, f, q), d) = Decode(Reached(h, f, q), e)
        /\ d.n = e.n /\ d.at = e.at /\ d.from = e.from /\ d.effects = e.effects
        /\ \A o \in e.out : o \in d.out \/ d.marked
        /\ e.marked => d.marked
    BY NormalizedIs
  <2>3. Link(h, Before(h, f, q, Len(q) + 1), d)
    BY <1>2, <2>2, LinkSame
  <2>4. /\ Chained(h, f, p) /\ Unended(p) /\ Reached(h, f, p) = h[d.n]
        /\ EventsOf(p) = EventsOf(q) \cup {d}
    BY <2>1, <2>2, <2>3, ChainAppend
  <2>5. StandsFor(d, e, e) /\ \A x \in EventsOf(q) : StandsFor(x, x, e)
    <3>1. e.at \in Nat
      BY DEF Proper, Patches
    <3> QED
      BY <2>2, <3>1 DEF StandsFor
  <2> QED
    BY <2>2, <2>4, <2>5
<1>4. CASE fold
  <2> DEFINE c == Coalesce(last, e)
             r == Front(q)
             g == Before(h, f, q, Len(q))
  <2>1. PICK d \in Normalized(c) : p = Append(r, d)
    BY <1>4 DEF Admissions
  <2>2. /\ Chained(h, f, r) /\ Unended(r) /\ Len(q) \in 1 .. Len(q)
        /\ Before(h, f, r, Len(r) + 1) = g
        /\ EventsOf(q) = EventsOf(r) \cup {last}
    BY <1>1, <1>4, ChainFront
  <2>3. Proper(last) /\ Link(h, g, last) /\ last # Exit
    BY <2>2 DEF Chained, Unended
  <2>4. g \in FrameSet
    <3>1. Len(q) \in 1 .. Len(q) + 1 /\ (Len(q) > 1 => Len(q) - 1 \in 1 .. Len(q))
      BY <1>1, <2>2
    <3> QED
      BY <3>1, BeforeIn DEF Unended
  <2>5. Before(h, f, q, Len(q) + 1) = h[last.n]
    BY <1>1, <2>2 DEF Before
  <2>6. Link(h, g, c) /\ Proper(c) /\ last.out \subseteq c.out /\ (last.marked => c.marked)
    <3> HIDE DEF last, g
    <3> QED
      BY <1>2, <1>4, <2>3, <2>4, <2>5, LinkFold, CoalesceProper
  <2>7. c.n = e.n /\ c.at = e.at /\ c.effects = e.effects /\ e.out \subseteq c.out /\ (e.marked => c.marked)
    <3> HIDE DEF last
    <3> QED
      BY <1>4, <2>3, CoalesceProper
  <2> HIDE DEF c, r, g
  <2>8. /\ Proper(d) /\ Decode(g, d) = Decode(g, c)
        /\ d.n = c.n /\ d.at = c.at /\ d.from = c.from /\ d.effects = c.effects
        /\ \A o \in c.out : o \in d.out \/ d.marked
        /\ c.marked => d.marked
    BY <2>6, NormalizedIs
  <2>9. Link(h, Before(h, f, r, Len(r) + 1), d)
    BY <2>2, <2>6, <2>8, LinkSame
  <2>10. /\ Chained(h, f, p) /\ Unended(p) /\ Reached(h, f, p) = h[d.n]
         /\ EventsOf(p) = EventsOf(r) \cup {d}
    BY <2>1, <2>2, <2>8, <2>9, ChainAppend
  <2>11. StandsFor(d, e, e) /\ StandsFor(d, last, e) /\ \A x \in EventsOf(r) : StandsFor(x, x, e)
    <3>1. last.at <= e.at /\ e.at <= e.at
      <4> HIDE DEF last, g
      <4>1. Link(h, h[last.n], e)
        BY <1>2, <2>5
      <4>2. /\ last.n \in 1 .. Len(h) /\ last.at = h[last.n].at
            /\ e.n \in 1 .. Len(h) /\ e.at = h[e.n].at /\ h[e.n] \in FrameSet
            /\ h[last.n].n < e.n /\ h[last.n].n = last.n
        BY <2>3, <4>1, LinkIn DEF Recorded
      <4>3. h[last.n].at <= h[e.n].at
        BY <4>2 DEF Recorded
      <4> QED
        BY <4>2, <4>3 DEF FrameSet
    <3> QED
      BY <2>6, <2>7, <2>8, <3>1 DEF StandsFor
  <2> QED
    BY <2>2, <2>7, <2>8, <2>10, <2>11
<1> QED
  BY <1>3, <1>4

(* An exit joins no event and is admitted whole.                           *)
LEMMA AdmitExit ==
    ASSUME NEW q, NEW p \in Admissions(q, Exit)
    PROVE  p = Append(q, Exit)
<1>1. Normalized(Exit) = {Exit} /\ ~(q # <<>> /\ Foldable(q[Len(q)], Exit))
  BY DEF Normalized, Exit, Foldable
<1> QED
  BY <1>1 DEF Admissions

(* A publication is chained like any other event, and disturbs no chain.   *)
LEMMA ChainGrows ==
    ASSUME NEW h, Recorded(h), NEW x \in FrameSet, NEW f \in FrameSet, NEW q, Chained(h, f, q)
    PROVE  /\ Chained(Append(h, x), f, q)
           /\ Reached(Append(h, x), f, q) = Reached(h, f, q)
<1> DEFINE g == Append(h, x)
<1>1. h \in Seq(FrameSet) /\ q \in Seq(Patches \cup {Exit}) /\ Len(q) \in Nat
  BY DEF Recorded, Chained
<1>2. Len(g) = Len(h) + 1 /\ Len(h) \in Nat /\ \A i \in 1 .. Len(h) : g[i] = h[i]
  BY <1>1
<1> HIDE DEF g
<1>3. \A i \in 1 .. Len(h) : Turned(g, i) <=> Turned(h, i)
  <2> SUFFICES ASSUME NEW i \in 1 .. Len(h) PROVE Turned(g, i) <=> Turned(h, i)
    OBVIOUS
  <2>1. i > 1 => i - 1 \in 1 .. Len(h)
    BY <1>2
  <2> QED
    BY <1>2, <2>1 DEF Turned
<1>4. \A k \in 1 .. Len(q) + 1 : (k > 1 => q[k - 1] # Exit) => Before(g, f, q, k) = Before(h, f, q, k)
  <2> SUFFICES ASSUME NEW k \in 1 .. Len(q) + 1, k > 1 => q[k - 1] # Exit
               PROVE  Before(g, f, q, k) = Before(h, f, q, k)
    OBVIOUS
  <2>1. CASE k = 1
    BY <2>1 DEF Before
  <2>2. CASE k > 1
    <3>1. k - 1 \in 1 .. Len(q)
      BY <1>1, <2>2
    <3>2. q[k - 1].n \in 1 .. Len(h)
      BY <2>2, <3>1 DEF Chained, Link
    <3> QED
      BY <1>2, <2>2, <3>2 DEF Before
  <2> QED
    BY <1>1, <2>1, <2>2
<1>5. ASSUME NEW d \in FrameSet, NEW e, Link(h, d, e) PROVE Link(g, d, e)
  <2>1. e.n \in 1 .. Len(h) /\ e.n \in 1 .. Len(g) /\ g[e.n] = h[e.n] /\ d.n < e.n /\ d.n \in Nat
    BY <1>2, <1>5 DEF Link, FrameSet
  <2>2. \A i \in d.n + 1 .. e.n : i \in 1 .. Len(h)
    BY <1>2, <2>1
  <2> QED
    BY <1>3, <1>5, <2>1, <2>2 DEF Link
<1>6. ASSUME NEW k \in 1 .. Len(q), q[k] # Exit
      PROVE  Proper(q[k]) /\ Link(g, Before(g, f, q, k), q[k])
  <2>1. k \in 1 .. Len(q) + 1 /\ (k > 1 => k - 1 \in 1 .. Len(q) /\ k - 1 # Len(q))
    BY <1>1
  <2>2. k > 1 => q[k - 1] # Exit
    BY <2>1 DEF Chained
  <2>3. Before(h, f, q, k) \in FrameSet
    BY <2>1, <2>2, BeforeIn
  <2>4. Proper(q[k]) /\ Link(h, Before(h, f, q, k), q[k])
    BY <1>6 DEF Chained
  <2> QED
    BY <1>4, <1>5, <2>1, <2>2, <2>3, <2>4
<1>7. Chained(g, f, q)
  BY <1>6 DEF Chained
<1>8. Reached(g, f, q) = Reached(h, f, q)
  <2> DEFINE k == IF q # <<>> /\ q[Len(q)] = Exit THEN Len(q) ELSE Len(q) + 1
  <2>1. k \in 1 .. Len(q) + 1
    BY <1>1
  <2>2. k > 1 => q[k - 1] # Exit
    <3>1. CASE q # <<>> /\ q[Len(q)] = Exit
      <4>1. k > 1 => k - 1 \in 1 .. Len(q) /\ k - 1 # Len(q)
        BY <1>1, <3>1
      <4> QED
        BY <4>1 DEF Chained
    <3>2. CASE ~(q # <<>> /\ q[Len(q)] = Exit)
      <4>1. k - 1 = Len(q) /\ (k > 1 => q # <<>>)
        BY <1>1, <3>2
      <4> QED
        BY <3>2, <4>1
    <3> QED
      BY <3>1, <3>2
  <2> HIDE DEF k
  <2>3. Before(g, f, q, k) = Before(h, f, q, k)
    BY <1>4, <2>1, <2>2
  <2> QED
    BY <2>3 DEF k, Reached
<1> QED
  BY <1>7, <1>8 DEF g


(* Where a queue leads: to the frame before its exit, or after all of it.  *)
LEMMA ReachedIn ==
    ASSUME NEW h, Recorded(h), NEW f \in FrameSet, NEW q, Chained(h, f, q)
    PROVE  Reached(h, f, q) \in FrameSet
<1> DEFINE k == IF q # <<>> /\ q[Len(q)] = Exit THEN Len(q) ELSE Len(q) + 1
<1>1. q \in Seq(Patches \cup {Exit}) /\ Len(q) \in Nat
  BY DEF Chained
<1>2. k \in 1 .. Len(q) + 1
  BY <1>1
<1>3. k > 1 => q[k - 1] # Exit
  <2>1. CASE q # <<>> /\ q[Len(q)] = Exit
    <3>1. k > 1 => k - 1 \in 1 .. Len(q) /\ k - 1 # Len(q)
      BY <1>1, <2>1
    <3> QED
      BY <3>1 DEF Chained
  <2>2. CASE ~(q # <<>> /\ q[Len(q)] = Exit)
    <3>1. k - 1 = Len(q) /\ (k > 1 => q # <<>>)
      BY <1>1, <2>2
    <3> QED
      BY <2>2, <3>1
  <2> QED
    BY <2>1, <2>2
<1> HIDE DEF k
<1>4. Before(h, f, q, k) \in FrameSet
  BY <1>2, <1>3, BeforeIn
<1> QED
  BY <1>4 DEF k, Reached

(* A queue holds an exit or none.                                          *)
LEMMA UnendedIs ==
    ASSUME NEW q \in Seq(Patches \cup {Exit})
    PROVE  Unended(q) <=> Exit \notin Range(q)
<1>1. DOMAIN q = 1 .. Len(q)
  OBVIOUS
<1> QED
  BY <1>1 DEF Unended, Range

-----------------------------------------------------------------------------
(* The steps.                                                              *)

(* Nothing is published, queued or retained at first.                      *)
LEMMA FeedBegins == NativeInit => FeedInv
<1> SUFFICES ASSUME NativeInit PROVE FeedInv
  OBVIOUS
<1> DEFINE t0 == CHOOSE t \in Session : TRUE
<1>1. t0 \in Session
  BY Feed
<1>2. First \in FrameSet /\ First.n = 0 /\ First.at = 0
  BY <1>1 DEF First, NoFrame, NoFeed, Absent, FrameSet
<1>3. PICK local \in BOOLEAN :
        /\ sent = [frame |-> First, local |-> local, canceled |-> FALSE, exited |-> FALSE]
        /\ ledger = [pending |-> {}, next |-> 0]
        /\ outbox = [events |-> <<>>, ready |-> FALSE]
        /\ inbox = [events |-> <<>>, ended |-> FALSE]
        /\ screen = [frame |-> First, effects |-> {}, effect |-> 0, applied |-> {},
                     got |-> {}, marked |-> FALSE, exited |-> FALSE]
        /\ history = <<>> /\ issued = {}
  BY DEF NativeInit, First
<1> HIDE DEF t0
<1>4. FeedTypes
  BY <1>2, <1>3 DEF FeedTypes, Screens
<1>5. FramesRecorded
  BY <1>3 DEF FramesRecorded, Recorded
<1>6. QueuesChained
  <2>1. Chained(<<>>, First, <<>>) /\ Reached(<<>>, First, <<>>) = First
    BY DEF Chained, Reached, Before
  <2>2. Exit \notin Range(<<>>)
    BY DEF Range
  <2> QED
    BY <1>3, <2>1, <2>2 DEF QueuesChained
<1>7. OutputsKept
  BY <1>3 DEF OutputsKept
<1>8. ConsequencesRun
  <2>1. EventsOf(<<>>) = {}
    BY DEF EventsOf
  <2>2. RunsOn({}, 0, 0)
    BY DEF RunsOn
  <2> QED
    BY <1>3, <2>1, <2>2 DEF ConsequencesRun
<1> QED
  BY <1>4, <1>5, <1>6, <1>7, <1>8 DEF FeedInv

(* A canceled view promises nothing that it had not sent.                  *)
LEMMA CancelKept ==
    ASSUME FeedInv, sent' = [sent EXCEPT !.canceled = TRUE],
           UNCHANGED <<ledger, outbox, inbox, screen, history, issued>>
    PROVE  FeedInv'
<1>1. /\ sent'.frame = sent.frame /\ sent'.canceled /\ sent'.exited = sent.exited
      /\ sent' \in [frame : FrameSet, local : BOOLEAN, canceled : BOOLEAN, exited : BOOLEAN]
  BY DEF FeedInv, FeedTypes
<1>2. FeedTypes'
  BY <1>1 DEF FeedInv, FeedTypes
<1>3. FramesRecorded'
  BY <1>1 DEF FeedInv, FramesRecorded
<1>4. QueuesChained'
  BY <1>1 DEF FeedInv, QueuesChained
<1>5. OutputsKept'
  BY <1>1 DEF FeedInv, OutputsKept
<1>6. ConsequencesRun'
  BY DEF FeedInv, ConsequencesRun
<1> QED
  BY <1>2, <1>3, <1>4, <1>5, <1>6 DEF FeedInv

(* A run stays one as more are applied, and as more are retained.          *)
LEMMA RunsFurther ==
    ASSUME NEW S, NEW e \in Nat, NEW n \in Nat, NEW e2 \in Nat, NEW n2 \in Nat,
           e <= e2, n <= n2, RunsOn(S, e, n)
    PROVE  RunsOn(S, e2, n2)
<1>1. PICK a \in 0 .. e, b \in 0 .. n : S = a + 1 .. b
  BY DEF RunsOn
<1>2. a \in 0 .. e2 /\ b \in 0 .. n2
  BY <1>1
<1> QED
  BY <1>1, <1>2 DEF RunsOn

(* Consequences that are retained or acknowledged leave the frames alone.  *)
LEMMA LedgerKept ==
    ASSUME FeedInv, UNCHANGED <<sent, outbox, inbox, screen, history, issued>>,
           ledger' \in [pending : SUBSET Nat, next : Nat], ledger.next <= ledger'.next,
           \E a \in 0 .. screen.effect : ledger'.pending = a + 1 .. ledger'.next
    PROVE  FeedInv'
<1>1. FeedTypes' /\ FramesRecorded' /\ QueuesChained' /\ OutputsKept'
  BY DEF FeedInv, FeedTypes, FramesRecorded, QueuesChained, OutputsKept
<1>2. ledger.next \in Nat /\ ledger'.next \in Nat /\ screen.effect \in Nat
  BY DEF FeedInv, FeedTypes, Screens
<1>3. \A S : RunsOn(S, screen.effect, ledger.next) => RunsOn(S, screen.effect, ledger'.next)
  BY <1>2, RunsFurther
<1>5. ConsequencesRun'
  BY <1>2, <1>3 DEF FeedInv, ConsequencesRun
<1> QED
  BY <1>1, <1>5 DEF FeedInv

(* A consequence is retained behind those that are (AddEffect).            *)
LEMMA AddEffectKept ==
    ASSUME FeedInv, AddEffect
    PROVE  FeedInv'
<1>1. /\ ledger' = [pending |-> ledger.pending \cup {ledger.next + 1}, next |-> ledger.next + 1]
      /\ UNCHANGED <<sent, outbox, inbox, screen, history, issued>>
  BY DEF AddEffect
<1>2. ledger.next \in Nat /\ screen.effect \in Nat /\ screen.effect <= ledger.next /\ ledger.pending \in SUBSET Nat
  BY DEF FeedInv, FeedTypes, Screens, ConsequencesRun
<1>3. PICK a \in 0 .. screen.effect : ledger.pending = a + 1 .. ledger.next
  BY DEF FeedInv, ConsequencesRun
<1>4. (a + 1 .. ledger.next) \cup {ledger.next + 1} = a + 1 .. ledger.next + 1
  BY <1>2
<1> QED
  BY <1>1, <1>2, <1>3, <1>4, LedgerKept

(* A receipt drops no consequence that was not applied (acknowledge).      *)
LEMMA AcknowledgeKept ==
    ASSUME FeedInv, NEW id \in 1 .. screen.effect, Acknowledge(id)
    PROVE  FeedInv'
<1>1. /\ ledger' = [ledger EXCEPT !.pending = {e \in ledger.pending : e > id}]
      /\ UNCHANGED <<sent, outbox, inbox, screen, history, issued>>
  BY DEF Acknowledge
<1>2. /\ ledger \in [pending : SUBSET Nat, next : Nat] /\ screen.effect \in Nat
      /\ screen.effect <= ledger.next
  BY DEF FeedInv, FeedTypes, Screens, ConsequencesRun
<1>3. PICK a \in 0 .. screen.effect : ledger.pending = a + 1 .. ledger.next
  BY DEF FeedInv, ConsequencesRun
<1>4. /\ ledger'.pending = {e \in ledger.pending : e > id} /\ ledger'.next = ledger.next
      /\ ledger' \in [pending : SUBSET Nat, next : Nat]
  BY <1>1, <1>2
<1>5. \E b \in 0 .. screen.effect : ledger'.pending = b + 1 .. ledger'.next
  <2>1. CASE a >= id
    <3>1. ledger'.pending = a + 1 .. ledger'.next
      BY <1>2, <1>3, <1>4, <2>1
    <3> QED
      BY <3>1
  <2>2. CASE a < id
    <3>1. ledger'.pending = id + 1 .. ledger'.next
      BY <1>2, <1>3, <1>4, <2>2
    <3>2. id \in 0 .. screen.effect
      BY <1>2
    <3> QED
      BY <3>1, <3>2
  <2> QED
    BY <1>2, <2>1, <2>2
<1> QED
  BY <1>1, <1>2, <1>4, <1>5, LedgerKept


(* A view that is alive has a subscription and no exit queued.             *)
LEMMA AliveIs ==
    ASSUME FeedInv, Alive
    PROVE  /\ ~sent.canceled /\ ~inbox.ended
           /\ Unended(inbox.events) /\ Unended(outbox.events)
           /\ Chained(history, screen.frame, inbox.events)
           /\ Reached(history, screen.frame, inbox.events) \in FrameSet
           /\ Chained(history, Reached(history, screen.frame, inbox.events), outbox.events)
           /\ sent.frame = Reached(history, Reached(history, screen.frame, inbox.events), outbox.events)
<1>1. ~sent.canceled /\ ~sent.exited
  BY DEF Alive
<1>2. ~inbox.ended
  BY <1>1 DEF FeedInv, QueuesChained
<1>3. Unended(inbox.events) /\ Unended(outbox.events)
  BY <1>1, <1>2, UnendedIs DEF FeedInv, FeedTypes, QueuesChained
<1>4. Chained(history, screen.frame, inbox.events) /\ Recorded(history) /\ screen.frame \in FrameSet
  BY DEF FeedInv, FeedTypes, Screens, QueuesChained, FramesRecorded
<1>5. Reached(history, screen.frame, inbox.events) \in FrameSet
  BY <1>4, ReachedIn
<1> QED
  BY <1>1, <1>2, <1>3, <1>4, <1>5 DEF FeedInv, QueuesChained

(* The exit follows what is queued (FinishNative).                         *)
LEMMA FinishKept ==
    ASSUME FeedInv, FinishNative
    PROVE  FeedInv'
<1> DEFINE q == Append(outbox.events, Exit)
<1>1. Alive /\ sent' = [sent EXCEPT !.exited = TRUE] /\ UNCHANGED <<ledger, inbox, screen, history, issued>>
  BY DEF FinishNative
<1>2. outbox' = [events |-> q, ready |-> TRUE]
  BY AdmitExit DEF FinishNative, Admitted
<1>3. /\ sent'.frame = sent.frame /\ sent'.canceled = sent.canceled /\ sent'.exited
      /\ sent' \in [frame : FrameSet, local : BOOLEAN, canceled : BOOLEAN, exited : BOOLEAN]
      /\ outbox.events \in Seq(Patches \cup {Exit})
  BY <1>1 DEF FeedInv, FeedTypes
<1>4. /\ ~sent.canceled /\ ~inbox.ended
      /\ Unended(inbox.events) /\ Unended(outbox.events)
      /\ Chained(history, screen.frame, inbox.events)
      /\ Chained(history, Reached(history, screen.frame, inbox.events), outbox.events)
      /\ sent.frame = Reached(history, Reached(history, screen.frame, inbox.events), outbox.events)
  BY <1>1, AliveIs
<1> HIDE DEF q
<1>5. /\ Chained(history, Reached(history, screen.frame, inbox.events), q)
      /\ Reached(history, Reached(history, screen.frame, inbox.events), q) = sent.frame
      /\ EventsOf(q) = EventsOf(outbox.events)
  BY <1>4, ChainExit DEF q
<1>6. FeedTypes'
  BY <1>1, <1>2, <1>3, <1>5 DEF FeedInv, FeedTypes, Chained
<1>7. FramesRecorded'
  BY <1>1, <1>3 DEF FeedInv, FramesRecorded
<1>8. QueuesChained'
  BY <1>1, <1>2, <1>3, <1>4, <1>5 DEF FeedInv, QueuesChained
<1>9. OutputsKept' /\ ConsequencesRun'
  BY <1>1, <1>2, <1>3, <1>5 DEF FeedInv, OutputsKept, ConsequencesRun
<1> QED
  BY <1>6, <1>7, <1>8, <1>9 DEF FeedInv

(* The end of a canceled view leaves what the client had taken.            *)
LEMMA ClosedKept ==
    ASSUME FeedInv, Closed
    PROVE  FeedInv'
<1>1. /\ sent.canceled /\ inbox' = [inbox EXCEPT !.ended = TRUE]
      /\ outbox' = [events |-> <<>>, ready |-> FALSE]
      /\ UNCHANGED <<sent, ledger, screen, history, issued>>
  BY DEF Closed
<1>2. /\ inbox'.events = inbox.events /\ inbox'.ended
      /\ inbox' \in [events : Seq(Patches \cup {Exit}), ended : BOOLEAN]
  BY <1>1 DEF FeedInv, FeedTypes
<1>3. EventsOf(<<>>) = {} /\ Exit \notin Range(<<>>)
  BY DEF EventsOf, Range
<1>4. FeedTypes' /\ FramesRecorded'
  BY <1>1, <1>2 DEF FeedInv, FeedTypes, FramesRecorded
<1>5. QueuesChained'
  BY <1>1, <1>2, <1>3 DEF FeedInv, QueuesChained
<1>6. OutputsKept' /\ ConsequencesRun'
  BY <1>1, <1>2, <1>3 DEF FeedInv, OutputsKept, ConsequencesRun
<1> QED
  BY <1>4, <1>5, <1>6 DEF FeedInv

(* The greatest of a set of numbers.                                       *)
LEMMA MaxIs ==
    ASSUME NEW S \in SUBSET Nat, NEW m \in S, \A e \in S : m >= e
    PROVE  Max(S) = m
<1> DEFINE top == Max(S)
<1>1. top \in S /\ \A e \in S : top >= e
  BY DEF Max
<1> HIDE DEF top
<1>2. top \in Nat /\ m \in Nat /\ top >= m /\ m >= top
  BY <1>1
<1>3. top = m
  BY <1>2
<1> QED
  BY <1>3 DEF top

(* Applying what is due leaves a run applied (applyEffects).               *)
LEMMA ApplyRuns ==
    ASSUME NEW s \in Screens, NEW n \in Nat, RunsOn(s.effects, s.effect, n),
           s.applied = 1 .. s.effect, s.effect <= n, NEW upTo \in {s.effect} \cup s.effects
    PROVE  LET r == Apply(s, upTo) IN
           /\ r \in Screens /\ r.frame = s.frame /\ r.effects = s.effects /\ r.got = s.got
           /\ r.marked = s.marked /\ r.exited = s.exited
           /\ r.applied = 1 .. r.effect /\ s.effect <= r.effect /\ r.effect <= n
<1> DEFINE now == {e \in s.effects : s.effect < e /\ e <= upTo}
           next == IF now = {} THEN s.effect ELSE Max(now)
           all == s.applied \cup now
<1>1. s.effect \in Nat /\ s.effects \in SUBSET Nat /\ s.applied \in SUBSET Nat
  BY DEF Screens
<1>2. PICK a \in 0 .. s.effect, b \in 0 .. n : s.effects = a + 1 .. b
  BY DEF RunsOn
<1>3. Apply(s, upTo) = [s EXCEPT !.effect = next, !.applied = all]
  BY DEF Apply
<1>4. /\ next \in Nat /\ all = 1 .. next /\ s.effect <= next /\ next <= n
  <2>1. CASE upTo <= s.effect
    <3>1. now = {}
      BY <1>1, <2>1
    <3> QED
      BY <1>1, <3>1
  <2>2. CASE ~(upTo <= s.effect)
    <3>1. upTo \in s.effects /\ upTo \in Nat /\ s.effect < upTo /\ upTo <= b
      BY <1>1, <1>2, <2>2
    <3>2. now = s.effect + 1 .. upTo
      BY <1>1, <1>2, <3>1
    <3>3. upTo \in now /\ \A e \in now : upTo >= e
      BY <1>1, <3>1, <3>2
    <3>4. Max(now) = upTo
      BY <1>1, <3>3, MaxIs
    <3>5. next = upTo
      BY <3>3, <3>4
    <3>6. all = 1 .. upTo
      BY <1>1, <3>1, <3>2
    <3> HIDE DEF now, next, all
    <3>7. upTo <= n
      BY <1>2, <3>1
    <3> QED
      BY <1>1, <3>1, <3>5, <3>6, <3>7
  <2> QED
    BY <2>1, <2>2
<1>5. all \in SUBSET Nat
  BY <1>1
<1> HIDE DEF now, next, all
<1>6. LET r == Apply(s, upTo) IN
      /\ r \in Screens /\ r.frame = s.frame /\ r.effects = s.effects /\ r.got = s.got
      /\ r.marked = s.marked /\ r.exited = s.exited /\ r.applied = all /\ r.effect = next
  BY <1>3, <1>4, <1>5 DEF Screens
<1> QED
  BY <1>4, <1>6

(* A restored image lets further consequences be applied, in order.        *)
LEMMA RestoredKept ==
    ASSUME FeedInv, Restored
    PROVE  FeedInv'
<1>1. UNCHANGED <<sent, ledger, outbox, inbox, history, issued>>
  BY DEF Restored
<1>2. PICK e \in screen.effects : screen' = Apply(screen, e)
  BY DEF Restored
<1>3. /\ screen \in Screens /\ ledger.next \in Nat /\ screen.effect \in Nat
      /\ RunsOn(screen.effects, screen.effect, ledger.next)
      /\ screen.applied = 1 .. screen.effect /\ screen.effect <= ledger.next
  BY DEF FeedInv, FeedTypes, Screens, ConsequencesRun
<1>4. /\ screen' \in Screens /\ screen'.frame = screen.frame /\ screen'.effects = screen.effects
      /\ screen'.got = screen.got /\ screen'.marked = screen.marked
      /\ screen'.applied = 1 .. screen'.effect /\ screen.effect <= screen'.effect
      /\ screen'.effect <= ledger.next
  BY <1>2, <1>3, ApplyRuns
<1>5. screen'.effect \in Nat /\ 0 .. screen.effect \subseteq 0 .. screen'.effect
  BY <1>3, <1>4 DEF Screens
<1>6. \A S : RunsOn(S, screen.effect, ledger.next) => RunsOn(S, screen'.effect, ledger.next)
  BY <1>5 DEF RunsOn
<1>7. FeedTypes' /\ FramesRecorded'
  BY <1>1, <1>4 DEF FeedInv, FeedTypes, FramesRecorded
<1>8. QueuesChained' /\ OutputsKept'
  BY <1>1, <1>4 DEF FeedInv, QueuesChained, OutputsKept
<1>9. ConsequencesRun'
  BY <1>1, <1>4, <1>5, <1>6 DEF FeedInv, ConsequencesRun
<1> QED
  BY <1>7, <1>8, <1>9 DEF FeedInv


(* The record grows by the frame published next.                           *)
LEMMA RecordGrows ==
    ASSUME NEW h, Recorded(h), NEW x \in FrameSet, x.n = Len(h) + 1,
           h # <<>> => h[Len(h)].at <= x.at
    PROVE  /\ Recorded(Append(h, x)) /\ Len(Append(h, x)) = Len(h) + 1
           /\ Append(h, x)[Len(h) + 1] = x /\ \A i \in 1 .. Len(h) : Append(h, x)[i] = h[i]
<1> DEFINE g == Append(h, x)
<1>1. /\ h \in Seq(FrameSet) /\ Len(h) \in Nat /\ (h # <<>> => Len(h) \in 1 .. Len(h))
      /\ \A i \in 1 .. Len(h) : h[i] \in FrameSet
  BY DEF Recorded
<1>2. /\ g \in Seq(FrameSet) /\ Len(g) = Len(h) + 1
      /\ \A i \in 1 .. Len(g) : g[i] = IF i = Len(h) + 1 THEN x ELSE h[i]
  BY <1>1
<1> HIDE DEF g
<1>3. \A i \in 1 .. Len(g) : g[i].n = i
  BY <1>1, <1>2 DEF Recorded
<1>4. ASSUME NEW i \in 1 .. Len(g), NEW j \in 1 .. Len(g), i <= j PROVE g[i].at <= g[j].at
  <2>1. CASE j \in 1 .. Len(h)
    BY <1>1, <1>2, <1>4, <2>1 DEF Recorded
  <2>2. CASE j = Len(h) + 1 /\ i = j
    <3>1. g[i] = x /\ g[j] = x /\ x.at \in Nat
      BY <1>2, <2>2 DEF FrameSet
    <3> QED
      BY <3>1
  <2>3. CASE j = Len(h) + 1 /\ i # j
    <3>1. i \in 1 .. Len(h) /\ Len(h) \in 1 .. Len(h) /\ h # <<>>
      BY <1>1, <1>2, <1>4, <2>3
    <3>2. h[i].at <= h[Len(h)].at
      BY <1>1, <3>1 DEF Recorded
    <3>3. h[i].at \in Nat /\ h[Len(h)].at \in Nat /\ x.at \in Nat /\ g[i] = h[i] /\ g[j] = x
      BY <1>1, <1>2, <2>3, <3>1 DEF FrameSet
    <3> QED
      BY <3>1, <3>2, <3>3
  <2> QED
    BY <1>1, <1>2, <2>1, <2>2, <2>3
<1> QED
  BY <1>1, <1>2, <1>3, <1>4 DEF Recorded, g

(* The consequences a frame carries are a run of those retained            *)
(* (encodeNativePrefix).                                                   *)
LEMMA PrefixesRun ==
    ASSUME NEW effect \in Nat, NEW next \in Nat, NEW a \in 0 .. effect,
           NEW S \in EffectPrefixes(a + 1 .. next)
    PROVE  RunsOn(S, effect, next) /\ S \in SUBSET Nat
<1>1. CASE a + 1 .. next = {}
  <2>1. S = 0 + 1 .. 0
    BY <1>1 DEF EffectPrefixes
  <2> QED
    BY <2>1 DEF RunsOn
<1>2. CASE a + 1 .. next # {}
  <2>1. PICK hi \in a + 1 .. next : S = {e \in a + 1 .. next : e <= hi}
    BY <1>2 DEF EffectPrefixes
  <2>2. S = a + 1 .. hi /\ hi \in 0 .. next
    BY <2>1
  <2> QED
    BY <2>2 DEF RunsOn
<1> QED
  BY <1>1, <1>2

(* What a publication appends is linked to what was published before it.   *)
LEMMA PublishedLink ==
    ASSUME FramesRecorded, sent.frame \in FrameSet, NEW new \in FrameSet, NEW e,
           new.n = Len(history) + 1, e.n = new.n, Decode(sent.frame, e) = new,
           e.from = IF new.thread = sent.frame.thread THEN {} ELSE {sent.frame.thread},
           sent.frame.at <= new.at
    PROVE  Recorded(Append(history, new)) /\ Link(Append(history, new), sent.frame, e)
<1> DEFINE g == Append(history, new)
           n == Len(history)
<1>1. Recorded(history) /\ history \in Seq(FrameSet) /\ n \in Nat
  BY DEF FramesRecorded, Recorded
<1>2. sent.frame.n = n /\ (n > 0 => sent.frame = history[n])
  <2>1. CASE history = <<>>
    BY <2>1 DEF FramesRecorded, First, NoFrame
  <2>2. CASE history # <<>>
    <3>1. n \in 1 .. n
      BY <1>1, <2>2
    <3> QED
      BY <2>2, <3>1 DEF FramesRecorded, Recorded
  <2> QED
    BY <2>1, <2>2
<1>3. history # <<>> => history[n].at <= new.at
  BY DEF FramesRecorded
<1>4. /\ Recorded(g) /\ Len(g) = n + 1 /\ g[n + 1] = new
      /\ \A i \in 1 .. n : g[i] = history[i]
  BY <1>1, <1>3, RecordGrows
<1> HIDE DEF g
<1>5. sent.frame.n + 1 .. e.n = {n + 1}
  BY <1>1, <1>2
<1>6. Turned(g, n + 1) => e.from # {}
  BY <1>1, <1>2, <1>4 DEF Turned
<1>7. Link(g, sent.frame, e)
  BY <1>1, <1>2, <1>4, <1>5, <1>6 DEF Link
<1> QED
  BY <1>4, <1>7 DEF g


(* A publication is queued decodable, with what it announces; one the      *)
(* queue refuses cancels the view (publish, admitNative).                  *)
LEMMA PublishKept ==
    ASSUME FeedInv, PublishNext
    PROVE  FeedInv'
<1> DEFINE old == sent.frame
           f == Reached(history, screen.frame, inbox.events)
<1>0. PICK new \in Frames(old, Len(history) + 1) :
        \E same \in SUBSET Unchanged(old, new), delta \in BOOLEAN,
           out \in SUBSET {<<new.at, d>> : d \in Demand}, effects \in EffectPrefixes(ledger.pending) :
          PublishFrame(new, same, delta, out, effects)
  BY DEF PublishNext
<1>1. PICK same \in SUBSET Unchanged(old, new), delta \in BOOLEAN,
           out \in SUBSET {<<new.at, d>> : d \in Demand}, effects \in EffectPrefixes(ledger.pending) :
        PublishFrame(new, same, delta, out, effects)
  BY <1>0
<1> DEFINE from == IF new.thread = old.thread THEN {} ELSE {old.thread}
           event == Encode(old, new, from, same, delta, out, effects)
           queues == Admitted(outbox.events, event)
           g == Append(history, new)
<1>2. /\ Alive
      /\ IF event.kind = "patch" /\ sent.local
         THEN same \in {Unchanged(old, new), Unchanged(old, new) \ {"main"}} ELSE same = {}
      /\ delta => event.kind = "patch" /\ "main" \notin same
      /\ IF queues = {}
         THEN /\ sent' = [sent EXCEPT !.canceled = TRUE]
              /\ UNCHANGED <<outbox, history, issued>>
         ELSE /\ \E q \in queues : outbox' = [events |-> q, ready |-> TRUE]
              /\ sent' = [sent EXCEPT !.frame = new]
              /\ history' = g
              /\ issued' = issued \cup out
      /\ UNCHANGED <<ledger, inbox, screen>>
  BY <1>1 DEF PublishFrame
<1>3. old \in FrameSet /\ Len(history) \in Nat /\ Recorded(history) /\ history \in Seq(FrameSet)
  BY DEF FeedInv, FeedTypes, FramesRecorded, Recorded
<1>4. new \in FrameSet /\ new.n = Len(history) + 1 /\ new.at \in {old.at, old.at + 1} /\ old.at \in Nat
  <2>1. Len(history) + 1 \in Nat
    BY <1>3
  <2> HIDE DEF old
  <2> QED
    BY <1>0, <1>3, <2>1, FramesAre DEF FrameSet
<1>5. /\ screen.effect \in Nat /\ ledger.next \in Nat
      /\ \E a \in 0 .. screen.effect : ledger.pending = a + 1 .. ledger.next
  BY DEF FeedInv, FeedTypes, Screens, ConsequencesRun
<1>6. RunsOn(effects, screen.effect, ledger.next) /\ effects \in SUBSET Nat
  BY <1>1, <1>5, PrefixesRun
<1>7. /\ Proper(event) /\ Decode(old, event) = new
      /\ event.n = new.n /\ event.at = new.at /\ event.from = from /\ event.out = out
      /\ event.effects = effects
  <2>1. event.kind # "patch" => same = {}
    BY <1>2
  <2> QED
    BY <1>2, <1>3, <1>4, <1>6, <2>1, EncodeDecodes
<1>8. Recorded(g) /\ Link(g, old, event)
  <2> HIDE DEF event
  <2>1. old.at <= new.at
    BY <1>4
  <2> QED
    BY <1>3, <1>4, <1>7, <2>1, PublishedLink DEF FeedInv
<1>9. /\ ~sent.canceled /\ ~inbox.ended
      /\ Unended(inbox.events) /\ Unended(outbox.events)
      /\ Chained(history, screen.frame, inbox.events)
      /\ f \in FrameSet /\ Chained(history, f, outbox.events)
      /\ old = Reached(history, f, outbox.events)
  BY <1>2, AliveIs
<1>10. /\ Chained(g, screen.frame, inbox.events) /\ Reached(g, screen.frame, inbox.events) = f
       /\ Chained(g, f, outbox.events) /\ Reached(g, f, outbox.events) = old
  <2>1. screen.frame \in FrameSet
    BY DEF FeedInv, FeedTypes, Screens
  <2> QED
    BY <1>3, <1>4, <1>9, <2>1, ChainGrows
<1>11. CASE queues = {}
  BY <1>2, <1>11, CancelKept
<1>12. CASE queues # {}
  <2>1. PICK q \in queues : outbox' = [events |-> q, ready |-> TRUE]
    BY <1>2, <1>12
  <2>2. q \in Admissions(outbox.events, event)
    BY DEF Admitted
  <2> HIDE DEF event, queues, g, f
  <2>3. /\ Chained(g, f, q) /\ Unended(q) /\ Reached(g, f, q) = g[event.n]
        /\ \A x \in EventsOf(outbox.events) \cup {event} : \E y \in EventsOf(q) : StandsFor(y, x, event)
        /\ \A y \in EventsOf(q) : y \in EventsOf(outbox.events) \/ y.effects = event.effects
    BY <1>7, <1>8, <1>9, <1>10, <2>2, AdmitKeeps
  <2>4. /\ sent' = [sent EXCEPT !.frame = new] /\ history' = g /\ issued' = issued \cup out
        /\ UNCHANGED <<ledger, inbox, screen>>
    BY <1>2, <1>12
  <2>5. /\ sent' \in [frame : FrameSet, local : BOOLEAN, canceled : BOOLEAN, exited : BOOLEAN]
        /\ sent'.frame = new /\ sent'.canceled = sent.canceled /\ sent'.exited = sent.exited
    BY <1>4, <2>4 DEF FeedInv, FeedTypes
  <2>6. g[event.n] = new /\ Len(g) = Len(history) + 1 /\ g # <<>> /\ \A i \in 1 .. Len(history) : g[i] = history[i]
    BY <1>3, <1>4, <1>7 DEF g
  <2>7. FeedTypes'
    <3>1. out \subseteq Outputs
      BY <1>4 DEF Outputs, FrameSet
    <3> QED
      BY <2>1, <2>3, <2>4, <2>5, <3>1 DEF FeedInv, FeedTypes, Chained
  <2>8. FramesRecorded'
    <3>1. ASSUME NEW i \in 1 .. Len(history) PROVE i \in 1 .. Len(g) /\ g[i] = history[i]
      BY <1>3, <2>6
    <3> QED
      BY <1>4, <1>7, <1>8, <2>4, <2>5, <2>6, <3>1 DEF FeedInv, FramesRecorded
  <2>9. QueuesChained'
    <3>1. Exit \notin Range(q) /\ Exit \notin Range(inbox.events)
      BY <1>9, <2>3, UnendedIs DEF Chained
    <3> QED
      BY <1>9, <1>10, <2>1, <2>3, <2>4, <2>5, <2>6, <3>1 DEF QueuesChained
  <2>10. OutputsKept'
    <3>1. \A o \in screen.got : o[1] = screen.frame.at
      BY DEF FeedInv, OutputsKept
    <3>2. \A o \in out : o[1] = new.at
      OBVIOUS
    <3>3. \A o \in issued : o[1] <= old.at /\ o[1] \in Nat
      BY DEF FeedInv, FeedTypes, OutputsKept, Outputs
    <3>4. \A o \in issued' : o[1] <= new.at
      BY <1>4, <2>4, <3>2, <3>3
    <3>5. ASSUME NEW o \in out
          PROVE  \E y \in EventsOf(q) : o \in y.out \/ (y.marked /\ y.at = new.at)
      BY <1>7, <2>3, <3>5 DEF StandsFor
    <3>6. ASSUME NEW o \in issued, o[1] = new.at
          PROVE  \/ o \in screen.got
                 \/ \E e \in EventsOf(inbox.events) \cup EventsOf(q) :
                      o \in e.out \/ (e.marked /\ e.at = new.at)
                 \/ screen.frame.at = new.at /\ screen.marked
      <4>1. new.at = old.at
        BY <1>4, <3>3, <3>6
      <4>2. \/ o \in screen.got
            \/ \E e \in EventsOf(inbox.events) \cup EventsOf(outbox.events) :
                 o \in e.out \/ (e.marked /\ e.at = new.at)
            \/ screen.frame.at = new.at /\ screen.marked
        BY <1>9, <3>6, <4>1 DEF FeedInv, OutputsKept
      <4>3. ASSUME NEW x \in EventsOf(outbox.events), o \in x.out \/ (x.marked /\ x.at = new.at)
            PROVE  \E y \in EventsOf(q) : o \in y.out \/ (y.marked /\ y.at = new.at)
        BY <1>7, <2>3, <4>3 DEF StandsFor
      <4> QED
        BY <4>2, <4>3
    <3> QED
      BY <1>9, <2>1, <2>4, <2>5, <3>1, <3>4, <3>5, <3>6 DEF OutputsKept
  <2>11. ConsequencesRun'
    BY <1>6, <1>7, <2>1, <2>3, <2>4 DEF FeedInv, ConsequencesRun
  <2> QED
    BY <2>7, <2>8, <2>9, <2>10, <2>11 DEF FeedInv
<1> QED
  BY <1>11, <1>12


(* Nothing follows an exit.                                                *)
LEMMA ExitLast ==
    ASSUME NEW h, NEW f, NEW q, Chained(h, f, q), q # <<>>, Head(q) = Exit
    PROVE  Tail(q) = <<>> /\ Reached(h, f, q) = f /\ EventsOf(q) = {} /\ Exit \in Range(q)
<1>1. q \in Seq(Patches \cup {Exit}) /\ Len(q) \in Nat /\ 1 \in 1 .. Len(q) /\ q[1] = Exit /\ DOMAIN q = 1 .. Len(q)
  BY DEF Chained
<1>2. Len(q) = 1
  BY <1>1 DEF Chained
<1>3. Tail(q) = <<>>
  <2>1. Tail(q) \in Seq(Patches \cup {Exit}) /\ Len(Tail(q)) = 0
    BY <1>1, <1>2
  <2> QED
    BY <2>1, EmptySeq
<1>4. Reached(h, f, q) = f
  BY <1>1, <1>2 DEF Reached, Before
<1>5. EventsOf(q) = {}
  BY <1>1, <1>2 DEF EventsOf
<1>6. Exit \in Range(q)
  BY <1>1 DEF Range
<1> QED
  BY <1>3, <1>4, <1>5, <1>6

(* Presentations are published in order: the session is in the latest, and *)
(* the client in none later than what it has not been shown.               *)
LEMMA PresentationsRise ==
    ASSUME FeedInv, NEW i \in 1 .. Len(history)
    PROVE  /\ history[i].at <= sent.frame.at
           /\ screen.frame.n < i => screen.frame.at <= history[i].at
           /\ history[i].at \in Nat /\ sent.frame.at \in Nat /\ screen.frame.at \in Nat
<1>1. history \in Seq(FrameSet) /\ Len(history) \in Nat /\ Len(history) \in 1 .. Len(history) /\ history # <<>>
  BY DEF FeedInv, FramesRecorded, Recorded
<1>2. history[i].at <= sent.frame.at
  BY <1>1 DEF FeedInv, FramesRecorded, Recorded
<1>3. history[i].at \in Nat /\ sent.frame.at \in Nat /\ screen.frame.at \in Nat
  <2>1. history[i] \in FrameSet /\ sent.frame \in FrameSet /\ screen.frame \in FrameSet
    BY <1>1 DEF FeedInv, FeedTypes, Screens
  <2> QED
    BY <2>1 DEF FrameSet
<1>4. ASSUME screen.frame.n < i PROVE screen.frame.at <= history[i].at
  <2>1. CASE screen.frame = First
    BY <1>3, <2>1 DEF First, NoFrame
  <2>2. CASE \E j \in 1 .. Len(history) : screen.frame = history[j]
    <3>1. PICK j \in 1 .. Len(history) : screen.frame = history[j]
      BY <2>2
    <3>2. j <= i
      BY <1>1, <1>4, <3>1 DEF FeedInv, FramesRecorded, Recorded
    <3> QED
      BY <3>1, <3>2 DEF FeedInv, FramesRecorded, Recorded
  <2> QED
    BY <2>1, <2>2 DEF FeedInv, FramesRecorded
<1> QED
  BY <1>2, <1>3, <1>4

(* An event on its way is taken whole, or ends the subscription; an exit   *)
(* is always taken (native_transport.go, pop; the subscription's reader).  *)
LEMMA SendKept ==
    ASSUME FeedInv, Send
    PROVE  FeedInv'
<1> DEFINE event == Head(outbox.events)
           rest == Tail(outbox.events)
           queues == Admitted(inbox.events, event)
           f == Reached(history, screen.frame, inbox.events)
<1>1. /\ outbox.events # <<>> /\ ~inbox.ended
      /\ outbox' = [events |-> rest, ready |-> Wake(rest)]
      /\ IF queues = {}
         THEN /\ sent' = [sent EXCEPT !.canceled = TRUE]
              /\ inbox' = [inbox EXCEPT !.ended = TRUE]
         ELSE /\ \E q \in queues : inbox' = [events |-> q, ended |-> event.kind = "exit"]
              /\ UNCHANGED sent
      /\ UNCHANGED <<ledger, screen, history, issued>>
  BY DEF Send
<1>2. /\ outbox.events \in Seq(Patches \cup {Exit}) /\ inbox.events \in Seq(Patches \cup {Exit})
      /\ Recorded(history) /\ screen.frame \in FrameSet
      /\ Chained(history, screen.frame, inbox.events) /\ Chained(history, f, outbox.events)
      /\ ~sent.canceled => sent.frame = Reached(history, f, outbox.events)
      /\ Exit \in Range(outbox.events) => sent.exited
  BY <1>1 DEF FeedInv, FeedTypes, Screens, FramesRecorded, QueuesChained
<1>3. Unended(inbox.events) /\ Exit \notin Range(inbox.events)
  BY <1>1, <1>2, UnendedIs DEF FeedInv, QueuesChained
<1>4. f \in FrameSet
  BY <1>2, ReachedIn
<1>5. rest \in Seq(Patches \cup {Exit}) /\ Wake(rest) \in BOOLEAN
  BY <1>1, <1>2 DEF Wake
<1>6. outbox'.events = rest /\ outbox' \in [events : Seq(Patches \cup {Exit}), ready : BOOLEAN]
  BY <1>1, <1>5
<1> HIDE DEF event, rest, queues, f
<1>7. CASE event = Exit
  <2>1. rest = <<>> /\ Reached(history, f, outbox.events) = f /\ EventsOf(outbox.events) = {} /\ sent.exited
    BY <1>1, <1>2, <1>7, ExitLast DEF event, rest
  <2> DEFINE p == Append(inbox.events, Exit)
  <2>2. p \in queues
    <3>1. Normalized(Exit) = {Exit} /\ ~Foldable(inbox.events[Len(inbox.events)], Exit) /\ Exit.kind = "exit"
      BY DEF Normalized, Exit, Foldable
    <3> QED
      BY <1>7, <3>1 DEF queues, Admitted, Admissions
  <2>3. UNCHANGED sent /\ inbox' = [events |-> p, ended |-> TRUE]
    <3>1. \A q \in queues : q = p
      BY <1>7, AdmitExit DEF queues, Admitted
    <3>2. event.kind = "exit"
      BY <1>7, ExitApart
    <3> QED
      BY <1>1, <2>2, <3>1, <3>2
  <2>4. /\ Chained(history, screen.frame, p) /\ Reached(history, screen.frame, p) = f
        /\ EventsOf(p) = EventsOf(inbox.events)
    BY <1>2, <1>3, ChainExit DEF f
  <2> HIDE DEF p
  <2>5. EventsOf(<<>>) = {} /\ Exit \notin Range(<<>>)
    BY DEF EventsOf, Range
  <2>6. FeedTypes' /\ FramesRecorded'
    BY <1>1, <1>6, <2>3, <2>4 DEF FeedInv, FeedTypes, FramesRecorded, Chained
  <2>7. QueuesChained'
    BY <1>1, <1>2, <1>6, <2>1, <2>3, <2>4, <2>5 DEF QueuesChained
  <2>8. OutputsKept' /\ ConsequencesRun'
    BY <1>1, <1>6, <2>1, <2>3, <2>4, <2>5 DEF FeedInv, OutputsKept, ConsequencesRun
  <2> QED
    BY <2>6, <2>7, <2>8 DEF FeedInv
<1>8. CASE event # Exit
  <2>1. /\ Proper(event) /\ Link(history, f, event)
        /\ Chained(history, history[event.n], rest)
        /\ Reached(history, history[event.n], rest) = Reached(history, f, outbox.events)
        /\ EventsOf(outbox.events) = EventsOf(rest) \cup {event}
    BY <1>1, <1>2, <1>8, ChainTail DEF event, rest
  <2>2. Exit \in Range(rest) => sent.exited
    <3>1. /\ DOMAIN rest = 1 .. Len(rest)
          /\ \A k \in 1 .. Len(rest) : k + 1 \in DOMAIN outbox.events /\ rest[k] = outbox.events[k + 1]
      BY <1>1, <1>2 DEF rest
    <3>2. Exit \in Range(rest) => Exit \in Range(outbox.events)
      BY <3>1 DEF Range
    <3> QED
      BY <1>2, <3>2
  <2>3. CASE queues = {}
    <3>1. /\ sent'.frame = sent.frame /\ sent'.canceled /\ sent'.exited = sent.exited
          /\ sent' \in [frame : FrameSet, local : BOOLEAN, canceled : BOOLEAN, exited : BOOLEAN]
          /\ inbox'.events = inbox.events /\ inbox'.ended
          /\ inbox' \in [events : Seq(Patches \cup {Exit}), ended : BOOLEAN]
      BY <1>1, <2>3 DEF FeedInv, FeedTypes
    <3>2. FeedTypes' /\ FramesRecorded'
      BY <1>1, <1>6, <3>1 DEF FeedInv, FeedTypes, FramesRecorded
    <3>3. QueuesChained'
      BY <1>1, <1>2, <1>6, <2>2, <3>1 DEF QueuesChained
    <3>4. OutputsKept' /\ ConsequencesRun'
      BY <1>1, <1>6, <2>1, <3>1 DEF FeedInv, OutputsKept, ConsequencesRun
    <3> QED
      BY <3>2, <3>3, <3>4 DEF FeedInv
  <2>4. CASE queues # {}
    <3>1. PICK q \in queues : inbox' = [events |-> q, ended |-> event.kind = "exit"]
      BY <1>1, <2>4
    <3>2. event.kind # "exit"
      BY <2>1, ExitApart DEF Proper
    <3>3. UNCHANGED sent /\ inbox'.events = q /\ ~inbox'.ended
      BY <1>1, <2>4, <3>1, <3>2
    <3>4. q \in Admissions(inbox.events, event)
      BY DEF queues, Admitted
    <3>5. /\ Chained(history, screen.frame, q) /\ Unended(q) /\ Reached(history, screen.frame, q) = history[event.n]
          /\ \A x \in EventsOf(inbox.events) \cup {event} : \E y \in EventsOf(q) : StandsFor(y, x, event)
          /\ \A y \in EventsOf(q) : y \in EventsOf(inbox.events) \/ y.effects = event.effects
      BY <1>2, <1>3, <2>1, <3>4, AdmitKeeps DEF f
    <3>6. q \in Seq(Patches \cup {Exit}) /\ Exit \notin Range(q)
      BY <3>5, UnendedIs DEF Chained
    <3>7. FeedTypes' /\ FramesRecorded'
      BY <1>1, <1>6, <3>1, <3>2, <3>3, <3>6 DEF FeedInv, FeedTypes, FramesRecorded
    <3>8. QueuesChained'
      BY <1>1, <1>2, <1>6, <2>1, <2>2, <3>3, <3>5, <3>6 DEF QueuesChained
    <3>9. OutputsKept'
      <4>1. event.n \in 1 .. Len(history) /\ event.at = history[event.n].at
        BY <1>2, <2>1, LinkIn
      <4>2. event.at <= sent.frame.at /\ event.at \in Nat /\ sent.frame.at \in Nat
        BY <4>1, PresentationsRise
      <4>3. ASSUME NEW o, o[1] = sent.frame.at,
                   NEW x \in EventsOf(inbox.events) \cup {event}, o \in x.out \/ (x.marked /\ x.at = sent.frame.at)
            PROVE  \E y \in EventsOf(q) : o \in y.out \/ (y.marked /\ y.at = sent.frame.at)
        <5>1. Proper(x)
          BY <1>2, <2>1 DEF Chained, EventsOf
        <5>2. x.at = sent.frame.at /\ x.at \in Nat
          BY <4>3, <5>1 DEF Proper, Patches
        <5>3. PICK y \in EventsOf(q) : StandsFor(y, x, event)
          BY <3>5
        <5>4. y.at = sent.frame.at
          <6>1. CASE y = x
            BY <5>2, <6>1
          <6>2. CASE x.at <= event.at /\ y.at = event.at
            BY <4>2, <5>2, <6>2
          <6> QED
            BY <5>3, <6>1, <6>2 DEF StandsFor
        <5> QED
          BY <4>3, <5>3, <5>4 DEF StandsFor
      <4> QED
        BY <1>1, <1>6, <2>1, <3>3, <4>3 DEF FeedInv, OutputsKept
    <3>10. ConsequencesRun'
      BY <1>1, <1>6, <2>1, <3>3, <3>5 DEF FeedInv, ConsequencesRun
    <3> QED
      BY <3>7, <3>8, <3>9, <3>10 DEF FeedInv
  <2> QED
    BY <2>3, <2>4
<1> QED
  BY <1>7, <1>8


(* The client decodes the next event to the frame published under its      *)
(* number, and applies what that lets it apply (NextEvent, applyEffects).  *)
LEMMA NextEventKept ==
    ASSUME FeedInv, NextEvent
    PROVE  /\ FeedInv' /\ screen'.frame # Rejected /\ UNCHANGED history
           /\ \/ screen'.frame = screen.frame
              \/ \E e \in Patches : Link(history, screen.frame, e) /\ screen'.frame = history[e.n]
<1> DEFINE event == Head(inbox.events)
           rest == Tail(inbox.events)
           frame == Decode(screen.frame, event)
           other == frame.at # screen.frame.at
           shown == [screen EXCEPT !.frame = frame, !.effects = event.effects,
                                   !.got = (IF other THEN {} ELSE @) \cup event.out,
                                   !.marked = (~other /\ @) \/ event.marked]
<1>1. /\ inbox.events # <<>>
      /\ inbox' = [inbox EXCEPT !.events = rest]
      /\ IF event.kind = "exit" THEN screen' = [screen EXCEPT !.exited = TRUE]
         ELSE IF frame = Rejected THEN screen' = [screen EXCEPT !.frame = Rejected, !.exited = TRUE]
         ELSE \E upTo \in {screen.effect} \cup event.effects : screen' = Apply(shown, upTo)
      /\ UNCHANGED <<sent, ledger, outbox, history, issued>>
  BY DEF NextEvent
<1>2. /\ inbox.events \in Seq(Patches \cup {Exit}) /\ Recorded(history)
      /\ screen \in Screens /\ screen.frame \in FrameSet
      /\ Chained(history, screen.frame, inbox.events)
      /\ ledger.next \in Nat /\ screen.effect \in Nat
  BY DEF FeedInv, FeedTypes, Screens, FramesRecorded, QueuesChained
<1>3. /\ inbox'.events = rest /\ inbox'.ended = inbox.ended
      /\ inbox' \in [events : Seq(Patches \cup {Exit}), ended : BOOLEAN]
  <2>1. rest \in Seq(Patches \cup {Exit})
    BY <1>1, <1>2
  <2> HIDE DEF rest
  <2> QED
    BY <1>1, <2>1 DEF FeedInv, FeedTypes
<1>4. Exit \in Range(rest) => Exit \in Range(inbox.events)
  <2>1. /\ DOMAIN rest = 1 .. Len(rest)
        /\ \A k \in 1 .. Len(rest) : k + 1 \in DOMAIN inbox.events /\ rest[k] = inbox.events[k + 1]
    BY <1>1, <1>2
  <2> QED
    BY <2>1 DEF Range
<1>5. screen.frame # Rejected
  <2>1. Rejected.n \notin Nat
    BY DEF Rejected
  <2> QED
    BY <1>2, <2>1 DEF FrameSet
<1> HIDE DEF event, rest, frame, other, shown
<1>6. CASE event = Exit
  <2>1. rest = <<>> /\ Reached(history, screen.frame, inbox.events) = screen.frame /\ EventsOf(inbox.events) = {}
        /\ inbox.ended
    BY <1>1, <1>2, <1>6, ExitLast DEF event, rest, FeedInv, QueuesChained
  <2>2. event.kind = "exit"
    BY <1>6, ExitApart
  <2>3. /\ screen' \in Screens /\ screen'.frame = screen.frame /\ screen'.effects = screen.effects
        /\ screen'.effect = screen.effect /\ screen'.applied = screen.applied
        /\ screen'.got = screen.got /\ screen'.marked = screen.marked
    BY <1>1, <1>2, <2>2 DEF Screens
  <2>4. /\ Chained(history, screen.frame, <<>>) /\ Reached(history, screen.frame, <<>>) = screen.frame
        /\ EventsOf(<<>>) = {}
    BY DEF Chained, Reached, Before, EventsOf
  <2>5. FeedTypes' /\ FramesRecorded'
    BY <1>1, <1>3, <2>3 DEF FeedInv, FeedTypes, FramesRecorded
  <2>6. QueuesChained'
    BY <1>1, <1>3, <2>1, <2>3, <2>4 DEF FeedInv, QueuesChained
  <2>7. OutputsKept' /\ ConsequencesRun'
    BY <1>1, <1>3, <2>1, <2>3, <2>4 DEF FeedInv, OutputsKept, ConsequencesRun
  <2> QED
    BY <1>1, <1>5, <2>3, <2>5, <2>6, <2>7 DEF FeedInv
<1>7. CASE event # Exit
  <2>1. /\ Proper(event) /\ Link(history, screen.frame, event)
        /\ Chained(history, history[event.n], rest)
        /\ Reached(history, history[event.n], rest) = Reached(history, screen.frame, inbox.events)
        /\ EventsOf(inbox.events) = EventsOf(rest) \cup {event}
    BY <1>1, <1>2, <1>7, ChainTail DEF event, rest
  <2>2. /\ event.n \in 1 .. Len(history) /\ frame = history[event.n] /\ frame \in FrameSet
        /\ event.at = frame.at /\ screen.frame.n < event.n
    BY <1>2, <2>1, LinkIn DEF frame
  <2>3. frame # Rejected
    <3>1. Rejected.n \notin Nat
      BY DEF Rejected
    <3> QED
      BY <2>2, <3>1 DEF FrameSet
  <2>4. event.kind # "exit" /\ event \in Patches
    BY <2>1, ExitApart DEF Proper
  <2>5. PICK upTo \in {screen.effect} \cup event.effects : screen' = Apply(shown, upTo)
    BY <1>1, <2>3, <2>4
  <2>6. /\ shown \in Screens /\ shown.frame = frame /\ shown.effects = event.effects
        /\ shown.effect = screen.effect /\ shown.applied = screen.applied
        /\ shown.got = (IF other THEN {} ELSE screen.got) \cup event.out
        /\ shown.marked = ((~other /\ screen.marked) \/ event.marked)
    <3> DEFINE got == (IF other THEN {} ELSE screen.got) \cup event.out
               marked == (~other /\ screen.marked) \/ event.marked
    <3>1. got \in SUBSET Outputs /\ marked \in BOOLEAN /\ event.effects \in SUBSET Nat
      BY <1>2, <2>4 DEF Screens, Patches
    <3>2. shown = [screen EXCEPT !.frame = frame, !.effects = event.effects, !.got = got, !.marked = marked]
      BY DEF shown
    <3> HIDE DEF got, marked
    <3>3. /\ shown \in Screens /\ shown.frame = frame /\ shown.effects = event.effects
          /\ shown.effect = screen.effect /\ shown.applied = screen.applied
          /\ shown.got = got /\ shown.marked = marked
      BY <1>2, <2>2, <3>1, <3>2 DEF Screens
    <3> QED
      BY <3>3 DEF got, marked
  <2>7. /\ RunsOn(event.effects, screen.effect, ledger.next)
        /\ screen.applied = 1 .. screen.effect /\ screen.effect <= ledger.next
    BY <2>1 DEF FeedInv, ConsequencesRun
  <2>8. /\ screen' \in Screens /\ screen'.frame = frame /\ screen'.effects = event.effects
        /\ screen'.got = shown.got /\ screen'.marked = shown.marked
        /\ screen'.applied = 1 .. screen'.effect /\ screen.effect <= screen'.effect
        /\ screen'.effect <= ledger.next
    BY <1>2, <2>5, <2>6, <2>7, ApplyRuns
  <2>9. FeedTypes' /\ FramesRecorded'
    BY <1>1, <1>3, <2>2, <2>8 DEF FeedInv, FeedTypes, FramesRecorded
  <2>10. QueuesChained'
    BY <1>1, <1>3, <1>4, <2>1, <2>2, <2>8 DEF FeedInv, QueuesChained
  <2>11. OutputsKept'
    <3>1. \A o \in screen'.got : o[1] = frame.at
      BY <2>1, <2>2, <2>6, <2>8 DEF Proper, other, FeedInv, OutputsKept
    <3>2. /\ frame.at <= sent.frame.at /\ screen.frame.at <= frame.at
          /\ frame.at \in Nat /\ sent.frame.at \in Nat /\ screen.frame.at \in Nat
      BY <2>2, PresentationsRise
    <3>3. screen.frame.at = sent.frame.at => ~other /\ frame.at = sent.frame.at
      BY <3>2 DEF other
    <3>4. \A o \in screen.got : o[1] = screen.frame.at
      BY DEF FeedInv, OutputsKept
    <3>5. ASSUME ~sent.canceled, NEW o \in issued, o[1] = sent.frame.at
          PROVE  \/ o \in screen'.got
                 \/ \E e \in EventsOf(rest) \cup (IF inbox.ended THEN {} ELSE EventsOf(outbox.events)) :
                      o \in e.out \/ (e.marked /\ e.at = sent.frame.at)
                 \/ frame.at = sent.frame.at /\ screen'.marked
      <4>1. \/ o \in screen.got
            \/ \E e \in EventsOf(inbox.events) \cup (IF inbox.ended THEN {} ELSE EventsOf(outbox.events)) :
                 o \in e.out \/ (e.marked /\ e.at = sent.frame.at)
            \/ screen.frame.at = sent.frame.at /\ screen.marked
        BY <3>5 DEF FeedInv, OutputsKept
      <4>2. CASE o \in screen.got
        BY <2>6, <2>8, <3>3, <3>4, <3>5, <4>2
      <4>3. CASE screen.frame.at = sent.frame.at /\ screen.marked
        BY <2>6, <2>8, <3>3, <4>3
      <4>4. CASE o \in event.out \/ (event.marked /\ event.at = sent.frame.at)
        BY <2>2, <2>6, <2>8, <4>4
      <4> QED
        BY <2>1, <4>1, <4>2, <4>3, <4>4
    <3>6. \A o \in issued : o[1] <= sent.frame.at
      BY DEF FeedInv, OutputsKept
    <3> QED
      BY <1>1, <1>3, <2>8, <3>1, <3>5, <3>6 DEF OutputsKept
  <2>12. ConsequencesRun'
    <3>1. screen'.effect \in Nat
      BY <2>8 DEF Screens
    <3>2. \A S : RunsOn(S, screen.effect, ledger.next) => RunsOn(S, screen'.effect, ledger.next)
      BY <1>2, <2>8, <3>1, RunsFurther
    <3>3. \E a \in 0 .. screen'.effect : ledger.pending = a + 1 .. ledger.next
      <4>1. PICK a \in 0 .. screen.effect : ledger.pending = a + 1 .. ledger.next
        BY DEF FeedInv, ConsequencesRun
      <4>2. a \in 0 .. screen'.effect
        BY <1>2, <2>8, <3>1
      <4> QED
        BY <4>1, <4>2
    <3>4. \A e \in EventsOf(rest) \cup EventsOf(outbox.events) \cup {event} :
             RunsOn(e.effects, screen'.effect, ledger.next)
      BY <2>1, <3>2 DEF FeedInv, ConsequencesRun
    <3> QED
      BY <1>1, <1>3, <2>8, <3>3, <3>4 DEF ConsequencesRun
  <2> QED
    BY <1>1, <2>1, <2>2, <2>3, <2>4, <2>8, <2>9, <2>10, <2>11, <2>12 DEF FeedInv
<1> QED
  BY <1>6, <1>7


(* A step of the feed keeps its invariant.                                 *)
LEMMA FeedStep == FeedInv /\ [NativeNext]_nativeVars => FeedInv'
<1> SUFFICES ASSUME FeedInv, [NativeNext]_nativeVars PROVE FeedInv'
  OBVIOUS
<1>1. CASE PublishNext
  BY <1>1, PublishKept
<1>2. CASE AddEffect
  BY <1>2, AddEffectKept
<1>3. CASE FinishNative
  BY <1>3, FinishKept
<1>4. CASE Disconnect
  BY <1>4, CancelKept DEF Disconnect
<1>5. CASE Send
  BY <1>5, SendKept
<1>6. CASE Closed
  BY <1>6, ClosedKept
<1>7. CASE NextEvent
  BY <1>7, NextEventKept
<1>8. CASE Restored
  BY <1>8, RestoredKept
<1>9. CASE \E id \in 1 .. screen.effect : Acknowledge(id)
  BY <1>9, AcknowledgeKept
<1>10. CASE UNCHANGED nativeVars
  BY <1>10 DEF nativeVars, FeedInv, FeedTypes, FramesRecorded, QueuesChained, OutputsKept, ConsequencesRun
<1> QED
  BY <1>1, <1>2, <1>3, <1>4, <1>5, <1>6, <1>7, <1>8, <1>9, <1>10 DEF NativeNext

(* The frames, both queues, the outputs and the consequences agree in every *)
(* state of the feed.                                                       *)
THEOREM FeedAgrees == NativeSpec => []FeedInv
<1>1. NativeInit => FeedInv
  BY FeedBegins
<1>2. FeedInv /\ [NativeNext]_nativeVars => FeedInv'
  BY FeedStep
<1> QED
  BY <1>1, <1>2, PTL DEF NativeSpec

-----------------------------------------------------------------------------
(* What the runs check.                                                    *)

(* Two queues, one behind the other, decode as one.                        *)
LEMMA ChainConcat ==
    ASSUME NEW h, NEW f, NEW q, Chained(h, f, q), Unended(q),
           NEW p, Chained(h, Reached(h, f, q), p)
    PROVE  /\ Chained(h, f, q \o p) /\ Reached(h, f, q \o p) = Reached(h, Reached(h, f, q), p)
           /\ EventsOf(q \o p) = EventsOf(q) \cup EventsOf(p)
<1> DEFINE r == q \o p
           g == Reached(h, f, q)
<1>1. q \in Seq(Patches \cup {Exit}) /\ p \in Seq(Patches \cup {Exit}) /\ Len(q) \in Nat /\ Len(p) \in Nat
  BY DEF Chained
<1>2. /\ r \in Seq(Patches \cup {Exit}) /\ Len(r) = Len(q) + Len(p)
      /\ \A k \in 1 .. Len(q) : r[k] = q[k]
      /\ \A j \in 1 .. Len(p) : r[Len(q) + j] = p[j]
  BY <1>1
<1>3. g = Before(h, f, q, Len(q) + 1) /\ \A k \in 1 .. Len(q) : q[k] # Exit
  <2>1. q # <<>> => Len(q) \in 1 .. Len(q)
    BY <1>1
  <2> QED
    BY <2>1 DEF Reached, Unended
<1> HIDE DEF r, g
<1>4. ASSUME NEW k \in 1 .. Len(q) + 1 PROVE Before(h, f, r, k) = Before(h, f, q, k)
  <2>1. CASE k = 1
    BY <2>1 DEF Before
  <2>2. CASE k > 1
    <3>1. k - 1 \in 1 .. Len(q)
      BY <1>1, <2>2
    <3> QED
      BY <1>2, <2>2, <3>1 DEF Before
  <2> QED
    BY <1>1, <2>1, <2>2
<1>5. ASSUME NEW j \in 1 .. Len(p) + 1 PROVE Before(h, f, r, Len(q) + j) = Before(h, g, p, j)
  <2>1. CASE j = 1
    <3>1. Before(h, f, r, Len(q) + 1) = g
      <4>1. Len(q) + 1 \in 1 .. Len(q) + 1
        BY <1>1
      <4> QED
        BY <1>3, <1>4, <4>1
    <3> QED
      BY <2>1, <3>1 DEF Before
  <2>2. CASE j > 1
    <3>1. j - 1 \in 1 .. Len(p) /\ (Len(q) + j) - 1 = Len(q) + (j - 1) /\ Len(q) + j # 1 /\ j # 1
      BY <1>1, <2>2
    <3>2. r[(Len(q) + j) - 1] = p[j - 1]
      BY <1>2, <3>1
    <3> QED
      BY <3>1, <3>2 DEF Before
  <2> QED
    BY <1>1, <2>1, <2>2
<1>6. ASSUME NEW k \in 1 .. Len(r)
      PROVE  \/ k \in 1 .. Len(q)
             \/ \E j \in 1 .. Len(p) : k = Len(q) + j
  <2>1. CASE k <= Len(q)
    BY <1>1, <1>2, <2>1
  <2>2. CASE ~(k <= Len(q))
    <3>1. k - Len(q) \in 1 .. Len(p) /\ k = Len(q) + (k - Len(q))
      BY <1>1, <1>2, <2>2
    <3> QED
      BY <3>1
  <2> QED
    BY <2>1, <2>2
<1>7. ASSUME NEW k \in 1 .. Len(r)
      PROVE  /\ r[k] = Exit => k = Len(r)
             /\ r[k] # Exit => Proper(r[k]) /\ Link(h, Before(h, f, r, k), r[k])
  <2>1. CASE k \in 1 .. Len(q)
    <3>1. Before(h, f, r, k) = Before(h, f, q, k)
      BY <1>1, <1>4, <2>1
    <3> QED
      BY <1>2, <1>3, <2>1, <3>1 DEF Chained
  <2>2. CASE \E j \in 1 .. Len(p) : k = Len(q) + j
    <3>1. PICK j \in 1 .. Len(p) : k = Len(q) + j
      BY <2>2
    <3>2. Before(h, f, r, k) = Before(h, g, p, j) /\ r[k] = p[j]
      BY <1>1, <1>2, <1>5, <3>1
    <3>3. Chained(h, g, p)
      BY DEF g
    <3>4. r[k] = Exit => j = Len(p)
      BY <3>2, <3>3 DEF Chained
    <3>5. r[k] # Exit => Proper(p[j]) /\ Link(h, Before(h, g, p, j), p[j])
      BY <3>2, <3>3 DEF Chained
    <3> QED
      BY <1>2, <3>1, <3>2, <3>4, <3>5
  <2> QED
    BY <1>6, <2>1, <2>2
<1>8. Chained(h, f, r)
  BY <1>2, <1>7 DEF Chained
<1>9. Reached(h, f, r) = Reached(h, g, p)
  <2>1. CASE p = <<>>
    <3>1. Len(r) = Len(q) /\ r = q
      BY <1>1, <2>1, ConcatEmptySeq DEF r
    <3>2. Reached(h, g, p) = g
      BY <2>1 DEF Reached, Before
    <3> QED
      BY <3>1, <3>2 DEF g
  <2>2. CASE p # <<>>
    <3>1. Len(p) \in 1 .. Len(p) /\ Len(p) + 1 \in 1 .. Len(p) + 1 /\ Len(p) \in 1 .. Len(p) + 1
      BY <1>1, <2>2
    <3>2. r[Len(r)] = p[Len(p)] /\ r # <<>> /\ Len(r) + 1 = Len(q) + (Len(p) + 1)
      BY <1>1, <1>2, <3>1
    <3>3. Before(h, f, r, Len(r)) = Before(h, g, p, Len(p))
      BY <1>2, <1>5, <3>1
    <3>4. Before(h, f, r, Len(r) + 1) = Before(h, g, p, Len(p) + 1)
      BY <1>5, <3>1, <3>2
    <3> QED
      BY <2>2, <3>2, <3>3, <3>4 DEF Reached
  <2> QED
    BY <2>1, <2>2
<1>10. EventsOf(r) = EventsOf(q) \cup EventsOf(p)
  <2>1. \A k \in 1 .. Len(q) : k \in 1 .. Len(r)
    BY <1>1, <1>2
  <2>2. \A j \in 1 .. Len(p) : Len(q) + j \in 1 .. Len(r)
    BY <1>1, <1>2
  <2>3. EventsOf(q) \cup EventsOf(p) \subseteq EventsOf(r)
    BY <1>2, <2>1, <2>2 DEF EventsOf
  <2>4. EventsOf(r) \subseteq EventsOf(q) \cup EventsOf(p)
    <3>1. ASSUME NEW k \in 1 .. Len(r), r[k] # Exit PROVE r[k] \in EventsOf(q) \cup EventsOf(p)
      <4>1. CASE k \in 1 .. Len(q)
        BY <1>2, <3>1, <4>1 DEF EventsOf
      <4>2. CASE \E j \in 1 .. Len(p) : k = Len(q) + j
        BY <1>2, <3>1, <4>2 DEF EventsOf
      <4> QED
        BY <1>6, <4>1, <4>2
    <3> QED
      BY <3>1 DEF EventsOf
  <2> QED
    BY <2>3, <2>4
<1> QED
  BY <1>8, <1>9, <1>10 DEF r, g

(* What is on its way is one chain from what the client shows to what the  *)
(* session published last.                                                 *)
LEMMA OnItsWayChained ==
    ASSUME FeedInv
    PROVE  /\ Chained(history, screen.frame, OnItsWay)
           /\ ~sent.canceled => sent.frame = Reached(history, screen.frame, OnItsWay)
           /\ EventsOf(OnItsWay) = EventsOf(inbox.events) \cup
                                 (IF inbox.ended THEN {} ELSE EventsOf(outbox.events))
<1>1. /\ Chained(history, screen.frame, inbox.events)
      /\ inbox.events \in Seq(Patches \cup {Exit})
  BY DEF FeedInv, FeedTypes, QueuesChained
<1>2. CASE inbox.ended
  <2>1. OnItsWay = inbox.events
    BY <1>1, <1>2, ConcatEmptySeq DEF OnItsWay
  <2> QED
    BY <1>1, <1>2, <2>1 DEF FeedInv, QueuesChained
<1>3. CASE ~inbox.ended
  <2>1. OnItsWay = inbox.events \o outbox.events
    BY <1>3 DEF OnItsWay
  <2>2. Unended(inbox.events)
    BY <1>1, <1>3, UnendedIs DEF FeedInv, QueuesChained
  <2>3. /\ Chained(history, Reached(history, screen.frame, inbox.events), outbox.events)
        /\ ~sent.canceled =>
             sent.frame = Reached(history, Reached(history, screen.frame, inbox.events), outbox.events)
    BY <1>3 DEF FeedInv, QueuesChained
  <2> QED
    BY <1>1, <1>3, <2>1, <2>2, <2>3, ChainConcat
<1> QED
  BY <1>2, <1>3


(* Whatever the queues have folded, dropped or refused, the client decodes *)
(* each event on its way to the frame published under its number, never    *)
(* rejects one, and ends where the session is (coalesceNative,             *)
(* decodeNativeEvent).                                                     *)
THEOREM ClientCatchesUp == NativeSpec => []CaughtUp
<1>1. FeedInv => CaughtUp
  <2> SUFFICES ASSUME FeedInv PROVE CaughtUp
    OBVIOUS
  <2> DEFINE events == OnItsWay
             count == Len(events)
             After(k) == IF k = 0 THEN screen.frame ELSE history[events[k].n]
             end == IF count > 0 /\ events[count].kind = "exit" THEN count - 1 ELSE count
  <2>1. /\ Chained(history, screen.frame, events)
        /\ ~sent.canceled => sent.frame = Reached(history, screen.frame, events)
    BY OnItsWayChained
  <2>2. events \in Seq(Patches \cup {Exit}) /\ count \in Nat
    BY <2>1 DEF Chained
  <2>3. screen.frame # Rejected
    <3>1. Rejected.n \notin Nat /\ screen.frame \in FrameSet
      BY DEF Rejected, FeedInv, FeedTypes, Screens
    <3> QED
      BY <3>1 DEF FrameSet
  <2> HIDE DEF events
  <2>4. ASSUME NEW k \in Nat PROVE Before(history, screen.frame, events, k + 1) = After(k)
    BY DEF Before
  <2>5. ASSUME NEW k \in 1 .. count PROVE (events[k].kind = "exit") <=> (events[k] = Exit)
    BY <2>2, ExitApart
  <2>6. ASSUME NEW k \in 1 .. count, events[k].kind # "exit"
        PROVE  Decode(After(k - 1), events[k]) = After(k)
    <3>1. events[k] # Exit
      BY <2>6, ExitApart
    <3>2. k - 1 \in Nat /\ (k - 1) + 1 = k /\ k # 0
      BY <2>2
    <3>3. Before(history, screen.frame, events, k) = After(k - 1)
      BY <2>4, <3>2
    <3>4. Link(history, After(k - 1), events[k])
      BY <2>1, <3>1, <3>3 DEF Chained
    <3> QED
      BY <3>2, <3>4 DEF Link
  <2>7. Reached(history, screen.frame, events) = After(end)
    <3>1. events # <<>> <=> count > 0
      BY <2>2, EmptySeq
    <3>2. count > 0 => count \in 1 .. count
      BY <2>2
    <3>3. CASE count > 0 /\ events[count] = Exit
      <4>1. end = count - 1 /\ count - 1 \in Nat /\ (count - 1) + 1 = count
        BY <2>2, <2>5, <3>2, <3>3
      <4>2. Reached(history, screen.frame, events) = Before(history, screen.frame, events, count)
        BY <3>1, <3>3 DEF Reached
      <4> QED
        BY <2>4, <4>1, <4>2
    <3>4. CASE ~(count > 0 /\ events[count] = Exit)
      <4>1. end = count
        BY <2>5, <3>2, <3>4
      <4>2. Reached(history, screen.frame, events) = Before(history, screen.frame, events, count + 1)
        BY <3>1, <3>4 DEF Reached
      <4> QED
        BY <2>2, <2>4, <4>1, <4>2
    <3> QED
      BY <3>3, <3>4
  <2> QED
    BY <2>1, <2>3, <2>6, <2>7 DEF CaughtUp, events
<1> QED
  BY <1>1, FeedAgrees, PTL

(* No output of the current presentation is lost without the client being  *)
(* told to ask again, and none reaches it in another presentation          *)
(* (normalizeNative, nativeBoundary).                                      *)
THEOREM NoOutputLost == NativeSpec => []OutputAccounted
<1>1. FeedInv => OutputAccounted
  <2> SUFFICES ASSUME FeedInv PROVE OutputAccounted
    OBVIOUS
  <2> DEFINE coming == {e \in Range(OnItsWay) : e.kind # "exit"}
  <2>1. /\ Chained(history, screen.frame, OnItsWay)
        /\ EventsOf(OnItsWay) = EventsOf(inbox.events) \cup
                              (IF inbox.ended THEN {} ELSE EventsOf(outbox.events))
    BY OnItsWayChained
  <2>2. OnItsWay \in Seq(Patches \cup {Exit}) /\ DOMAIN OnItsWay = 1 .. Len(OnItsWay)
    BY <2>1 DEF Chained
  <2>3. coming = EventsOf(OnItsWay)
    <3>1. \A k \in 1 .. Len(OnItsWay) : OnItsWay[k].kind # "exit" <=> OnItsWay[k] # Exit
      BY <2>2, ExitApart
    <3> QED
      BY <2>2, <3>1 DEF EventsOf, Range
  <2>4. \A e \in EventsOf(OnItsWay) : Proper(e)
    BY <2>1 DEF Chained, EventsOf
  <2>5. \A e \in coming : \A o \in e.out : o[1] = e.at
    BY <2>3, <2>4 DEF Proper
  <2> HIDE DEF coming
  <2>6. ASSUME ~sent.canceled, NEW o \in issued, o[1] = sent.frame.at
        PROVE  \/ o \in screen.got \/ \E e \in coming : o \in e.out \/ e.marked
               \/ screen.frame.at = sent.frame.at /\ screen.marked
    BY <2>1, <2>3, <2>6 DEF FeedInv, OutputsKept
  <2> QED
    BY <2>5, <2>6 DEF OutputAccounted, coming
<1> QED
  BY <1>1, FeedAgrees, PTL

(* A consequence is retained until the client has applied it and all       *)
(* before it (encodeNativePrefix, acknowledge).                            *)
THEOREM ConsequencesReach == NativeSpec => []EffectsApplied
<1>1. FeedInv => EffectsApplied
  <2> SUFFICES ASSUME FeedInv PROVE EffectsApplied
    OBVIOUS
  <2>1. screen.effect \in Nat /\ ledger.next \in Nat /\ screen.applied = 1 .. screen.effect
    BY DEF FeedInv, FeedTypes, Screens, ConsequencesRun
  <2>2. PICK a \in 0 .. screen.effect : ledger.pending = a + 1 .. ledger.next
    BY DEF FeedInv, ConsequencesRun
  <2>3. 1 .. ledger.next \subseteq (1 .. screen.effect) \cup (a + 1 .. ledger.next)
    BY <2>1, <2>2
  <2> QED
    BY <2>1, <2>2, <2>3 DEF EffectsApplied
<1> QED
  BY <1>1, FeedAgrees, PTL


-----------------------------------------------------------------------------
(* The promise to the client.                                              *)

(* A publication is recorded under the next number, or cancels the view.   *)
LEMMA PublishRecords ==
    ASSUME FeedInv, PublishNext
    PROVE  /\ UNCHANGED screen
           /\ \/ UNCHANGED history
              \/ \E new \in FrameSet : new.n = Len(history) + 1 /\ history' = Append(history, new)
<1> DEFINE old == sent.frame
<1>1. PICK new \in Frames(old, Len(history) + 1) :
        /\ UNCHANGED screen
        /\ UNCHANGED history \/ history' = Append(history, new)
  BY DEF PublishNext, PublishFrame
<1>2. old \in FrameSet /\ Len(history) + 1 \in Nat
  BY DEF FeedInv, FeedTypes, FramesRecorded, Recorded
<1> HIDE DEF old
<1>3. new \in FrameSet /\ new.n = Len(history) + 1
  BY <1>2, FramesAre
<1> QED
  BY <1>1, <1>3

(* A longer record is a publication of the promise.                        *)
LEMMA RecordPublishes ==
    ASSUME history \in Seq(FrameSet), NEW new \in FrameSet, new.n = Len(history) + 1,
           history' = Append(history, new), UNCHANGED screen
    PROVE  Published!Publication
<1>1. /\ Len(history) \in Nat /\ Len(history') = Len(history) + 1
      /\ history' \in Seq(FrameSet) /\ history'[Len(history')] = new
      /\ \A i \in 1 .. Len(history) : history'[i] = history[i]
  OBVIOUS
<1>2. SubSeq(history', 1, Len(history)) = history
  <2> DEFINE p == SubSeq(history', 1, Len(history))
  <2>1. p \in Seq(FrameSet) /\ Len(p) = Len(history) /\ \A i \in 1 .. Len(history) : p[i] = history'[i]
    BY <1>1
  <2> HIDE DEF p
  <2>2. p = history
    BY <1>1, <2>1, SeqEqual
  <2> QED
    BY <2>2 DEF p
<1> QED
  BY <1>1, <1>2 DEF Published!Publication

(* Showing what an event is linked to is a step the promise allows: it     *)
(* passes over one replacement at most.                                    *)
LEMMA LinkShows ==
    ASSUME FeedInv, UNCHANGED history, NEW e, Link(history, screen.frame, e),
           screen'.frame = history[e.n]
    PROVE  Published!Showing
<1>1. Len(history) \in Nat /\ screen.frame.n \in Nat
  <2>1. history \in Seq(FrameSet) /\ screen.frame \in FrameSet
    BY DEF FeedInv, FeedTypes, Screens, FramesRecorded, Recorded
  <2> QED
    BY <2>1 DEF FrameSet
<1>2. e.n \in screen.frame.n + 1 .. Len(history)
  BY <1>1 DEF Link
<1>3. \A i, j \in screen.frame.n + 1 .. e.n : Published!Replaced(i) /\ Published!Replaced(j) => i = j
  BY DEF Link, Turned, Published!Replaced
<1> QED
  BY <1>2, <1>3 DEF Published!Showing

(* The feed implements the promise: the client shows frames the session    *)
(* published, whole and never going back, and is told of every replacement *)
(* of its thread.                                                          *)
THEOREM FeedKeepsPromise == NativeSpec => ShowsPublished
<1>1. NativeInit => Published!Start
  <2>1. ASSUME NativeInit PROVE history = <<>> /\ screen.frame.n = 0
    BY <2>1 DEF NativeInit, NoFrame
  <2> QED
    BY <2>1 DEF Published!Start
<1>2. FeedInv /\ [NativeNext]_nativeVars
        => [Published!Publication \/ Published!Showing]_(Published!feedVars)
  <2> SUFFICES ASSUME FeedInv, [NativeNext]_nativeVars
               PROVE  Published!Publication \/ Published!Showing \/ UNCHANGED <<history, screen.frame>>
    BY DEF Published!feedVars
  <2>1. CASE PublishNext
    <3>1. history \in Seq(FrameSet)
      BY DEF FeedInv, FramesRecorded, Recorded
    <3> QED
      BY <2>1, <3>1, PublishRecords, RecordPublishes
  <2>2. CASE NextEvent
    BY <2>2, NextEventKept, LinkShows
  <2>3. CASE Restored
    <3>1. UNCHANGED history
      BY <2>3 DEF Restored
    <3>2. PICK e \in screen.effects : screen' = Apply(screen, e)
      BY <2>3 DEF Restored
    <3>3. screen'.frame = screen.frame
      BY <3>2 DEF Apply, FeedInv, FeedTypes, Screens
    <3> QED
      BY <3>1, <3>3
  <2>4. CASE AddEffect \/ FinishNative \/ Disconnect \/ Send \/ Closed \/
             (\E id \in 1 .. screen.effect : Acknowledge(id)) \/ UNCHANGED nativeVars
    BY <2>4 DEF AddEffect, FinishNative, Disconnect, Send, Closed, Acknowledge, nativeVars
  <2> QED
    BY <2>1, <2>2, <2>3, <2>4 DEF NativeNext
<1> QED
  BY <1>1, <1>2, FeedAgrees, PTL DEF NativeSpec, ShowsPublished, Published!Promise
=============================================================================
