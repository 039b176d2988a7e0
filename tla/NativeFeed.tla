----------------------------- MODULE NativeFeed -----------------------------
(***************************************************************************)
(* Frames of a session on their way to one native client.  The server      *)
(* encodes each frame against the one before (owners that are unchanged    *)
(* are left out, a feed refers to entries already sent; a remote view gets *)
(* every owner whole), queues it, and                                      *)
(* folds it into the last queued one where it may; the client's side of    *)
(* the connection queues and folds again before the client decodes.        *)
(*                                                                         *)
(* A frame's two owners stand for the feeds, which may be sent as deltas   *)
(* (main, agents), and for the values sent whole (review, family).         *)
(***************************************************************************)
EXTENDS Integers, Sequences, FiniteSets, SequencesExt, FiniteSetsExt, Functions

CONSTANTS
    Session,     \* threads a view may be moved to
    Entry,       \* sequence numbers of a feed's entries
    Demand,      \* outputs a client may ask for
    Buffer,      \* publications a queue holds
    MaxFrames,   \* bound: publications
    MaxEffects   \* bound: editor consequences

ASSUME Feed ==
    /\ Session # {} /\ Entry \subseteq Nat
    /\ Buffer \in Nat \ {0} /\ MaxFrames \in Nat /\ MaxEffects \in Nat

VARIABLES
    sent,     \* the view as last published, and whether it is canceled or exited
    ledger,   \* consequences the client has not acknowledged
    outbox,   \* the view's queue, and the wake-up of its writer
    inbox,    \* the subscription's queue, and whether its end was reported
    screen,   \* the client
    history,  \* what was published (specification only)
    issued    \* outputs published (specification only)
nativeVars == <<sent, ledger, outbox, inbox, screen, history, issued>>

Absent == 0
Kept == -1          \* an entry sent as a reference to the one already there
Owners == {"main", "review"}
NoFeed == [s \in Entry |-> Absent]
NoFrame(t) == [n |-> 0, thread |-> t, at |-> 0, main |-> NoFeed, review |-> 0]
Rejected == [n |-> -1, thread |-> {}, at |-> -1, main |-> NoFeed, review |-> -1]

NativeInit ==
    \E local \in BOOLEAN : LET t == CHOOSE t \in Session : TRUE IN
        /\ sent = [frame |-> NoFrame(t), local |-> local, canceled |-> FALSE, exited |-> FALSE]
        /\ ledger = [pending |-> {}, next |-> 0]
        /\ outbox = [events |-> <<>>, ready |-> FALSE]
        /\ inbox = [events |-> <<>>, ended |-> FALSE]
        /\ screen = [frame |-> NoFrame(t), effects |-> {}, effect |-> 0, applied |-> {},
                     got |-> {}, marked |-> FALSE, exited |-> FALSE]
        /\ history = <<>> /\ issued = {}

-----------------------------------------------------------------------------
(* Encoding.  Where nothing was sent yet, or the presentation or thread is *)
(* new, the frame is a snapshot and stands alone.                          *)

(* Mutated form: a review counts as unchanged until it is reloaded.        *)
StaleReview(old, new) == {o \in Owners : old[o] = new[o]} \cup {"review"}
Unchanged(old, new) == {o \in Owners : old[o] = new[o]}
References(old, new) == [s \in Entry |-> IF new[s] # Absent /\ new[s] = old[s] THEN Kept ELSE new[s]]

Encode(old, new, from, same, delta, out, effects) ==
    [kind |-> IF old.n = 0 \/ old.at # new.at \/ from # {} THEN "snapshot" ELSE "patch",
     n |-> new.n, at |-> new.at, thread |-> new.thread, from |-> from, retained |-> same, delta |-> delta,
     main |-> IF "main" \in same THEN NoFeed ELSE IF delta THEN References(old.main, new.main) ELSE new.main,
     review |-> IF "review" \in same THEN 0 ELSE new.review,
     out |-> out, marked |-> FALSE, effects |-> effects]
Exit == [kind |-> "exit"]

-----------------------------------------------------------------------------
(* Queues.                                                                 *)

(* Mutated forms: output is no boundary; a kept owner is not looked up.    *)
OutputBoundaryIgnored(old, new) == old.from # {} /\ (new.from # {} \/ old.thread # new.thread \/ old.at # new.at)
KeptUnresolved(old, new) == new.main

(* A replacement, or output, queued before is only joined by newer state   *)
(* of the same presentation.                                               *)
Boundary(old, new) ==
    IF old.from # {} \/ old.out # {}
    THEN new.from # {} \/ old.thread # new.thread \/ old.at # new.at
    ELSE old.thread # new.thread /\ new.from = {}
(* Owners the newer frame leaves out come from the older one.              *)
JoinedMain(old, new) ==
    CASE "main" \in new.retained -> old.main
      [] "main" \notin new.retained /\ new.delta /\ "main" \notin old.retained ->
            [s \in Entry |-> IF new.main[s] = Kept THEN old.main[s] ELSE new.main[s]]
      [] OTHER -> new.main

Foldable(old, new) ==
    /\ old.kind # "exit" /\ new.kind # "exit"
    /\ (new.retained # {} \/ new.delta) =>
            /\ new.kind = "patch" /\ new.from = {}
            /\ old.at = new.at /\ old.thread = new.thread
    /\ ~Boundary(old, new)
Coalesce(old, new) ==
    LET main == JoinedMain(old, new) IN
    [new EXCEPT !.kind = IF old.kind = "snapshot" THEN old.kind ELSE @,
                !.from = @ \cup old.from,
                !.retained = @ \cap old.retained,
                !.main = main,
                !.delta = CASE "main" \in new.retained -> old.delta
                            [] "main" \in old.retained \ new.retained -> new.delta
                            [] OTHER -> \E s \in Entry : main[s] = Kept,
                !.review = IF "review" \in new.retained THEN old.review ELSE @,
                !.out = @ \cup old.out,
                !.marked = @ \/ old.marked]

(* Too much output is dropped, down to one result, or to none when there   *)
(* are consequences to carry; the client is told to ask again.             *)
Normalized(event) ==
    IF event.kind = "exit" THEN {event}
    ELSE {event} \cup {[event EXCEPT !.out = kept, !.marked = TRUE] :
            kept \in {S \in SUBSET event.out : S # event.out /\ (S # {} \/ event.effects # {})}}

(* Admission refuses beyond the limit, with one place reserved for exit.   *)
Admissions(events, event) ==
    LET last   == events[Len(events)]
        fold   == events # <<>> /\ Foldable(last, event)
        before == IF fold THEN Front(events) ELSE events
    IN  {Append(before, e) : e \in Normalized(IF fold THEN Coalesce(last, event) ELSE event)}
Admitted(events, event) ==
    {q \in Admissions(events, event) : event.kind = "exit" \/ Len(q) <= Buffer}

-----------------------------------------------------------------------------
(* The server.                                                             *)

Alive == ~sent.canceled /\ ~sent.exited

(* A feed gains, renews or loses an entry.  The first frame, and one of a  *)
(* new presentation or thread, has a feed and a review of its own.         *)
Feeds(old, n) == {old} \cup {[old EXCEPT ![s] = v] : s \in Entry, v \in {Absent, n}}
Frames(old, n) ==
    LET like(t, a, m, r) == [n |-> n, thread |-> t, at |-> a, main |-> m, review |-> r] IN
    {like(t, a, [s \in Entry |-> n], n) :
        t \in IF n = 1 THEN {old.thread} ELSE Session, a \in {old.at, old.at + 1}} \cup
    {like(old.thread, old.at, m, r) : m \in Feeds(old.main, n), r \in {old.review, n}}

(* Consequences travel as a prefix of those not acknowledged.              *)
EffectPrefixes(pending) ==
    IF pending = {} THEN {{}} ELSE {{e \in pending : e <= hi} : hi \in pending}

(* A view that has fallen behind is canceled instead.                      *)
PublishFrame(new, same, delta, out, effects) ==
    LET old    == sent.frame
        from   == IF new.thread = old.thread THEN {} ELSE {old.thread}
        event  == Encode(old, new, from, same, delta, out, effects)
        queues == Admitted(outbox.events, event)
    IN  /\ Alive
        /\ IF event.kind = "patch" /\ sent.local
           THEN same \in {Unchanged(old, new), Unchanged(old, new) \ {"main"}} ELSE same = {}
        /\ delta => /\ event.kind = "patch" /\ sent.local /\ "main" \notin same
                    /\ \E s \in Entry : References(old.main, new.main)[s] = Kept
        /\ IF queues = {}
           THEN /\ sent' = [sent EXCEPT !.canceled = TRUE]
                /\ UNCHANGED <<outbox, history, issued>>
           ELSE /\ \E q \in queues : outbox' = [events |-> q, ready |-> TRUE]
                /\ sent' = [sent EXCEPT !.frame = new]
                /\ history' = Append(history, new)
                /\ issued' = issued \cup out
        /\ UNCHANGED <<ledger, inbox, screen>>

PublishNext ==
    LET old == sent.frame IN
    /\ Len(history) < MaxFrames
    /\ \E new \in Frames(old, Len(history) + 1) :
        /\ \E same \in SUBSET Unchanged(old, new), delta \in BOOLEAN,
              out \in SUBSET {<<new.at, d>> : d \in Demand}, effects \in EffectPrefixes(ledger.pending) :
            /\ new.thread # old.thread => out = {}
            /\ PublishFrame(new, same, delta, out, effects)

(* Consequences are numbered as they are retained, and dropped when        *)
(* acknowledged; a receipt may be of any earlier state of the client.      *)
AddEffect ==
    /\ Alive /\ ledger.next < MaxEffects
    /\ ledger' = [pending |-> ledger.pending \cup {ledger.next + 1}, next |-> ledger.next + 1]
    /\ UNCHANGED <<sent, outbox, inbox, screen, history, issued>>
(* Mutated form: a receipt retires everything retained.                    *)
AcknowledgeAll(id) ==
    /\ Alive /\ ledger.pending # {}
    /\ ledger' = [ledger EXCEPT !.pending = {}]
    /\ UNCHANGED <<sent, outbox, inbox, screen, history, issued>>
Acknowledge(id) ==
    /\ Alive /\ \E e \in ledger.pending : e <= id
    /\ ledger' = [ledger EXCEPT !.pending = {e \in @ : e > id}]
    /\ UNCHANGED <<sent, outbox, inbox, screen, history, issued>>

(* The runtime has ended: the exit follows whatever is queued.             *)
FinishNative ==
    /\ Alive
    /\ sent' = [sent EXCEPT !.exited = TRUE]
    /\ \E q \in Admitted(outbox.events, Exit) : outbox' = [events |-> q, ready |-> TRUE]
    /\ UNCHANGED <<ledger, inbox, screen, history, issued>>

(* The client goes away, or a publication exceeds the transport's limit.   *)
Disconnect ==
    /\ Alive
    /\ sent' = [sent EXCEPT !.canceled = TRUE]
    /\ UNCHANGED <<ledger, outbox, inbox, screen, history, issued>>

(* Mutated form: the writer is not woken for what remains.                 *)
WakeOnce(rest) == FALSE
(* The writer takes its wake-up and one publication; the client's reader   *)
(* admits it, or ends the subscription.                                    *)
Wake(rest) == rest # <<>>
Send ==
    LET event  == Head(outbox.events)
        rest   == Tail(outbox.events)
        queues == Admitted(inbox.events, event)
    IN  /\ outbox.ready /\ outbox.events # <<>> /\ ~inbox.ended
        /\ outbox' = [events |-> rest, ready |-> Wake(rest)]
        /\ IF queues = {}
           THEN /\ sent' = [sent EXCEPT !.canceled = TRUE]
                /\ inbox' = [inbox EXCEPT !.ended = TRUE]
           ELSE /\ \E q \in queues : inbox' = [events |-> q, ended |-> event.kind = "exit"]
                /\ UNCHANGED sent
        /\ UNCHANGED <<ledger, screen, history, issued>>

(* The end of a canceled view is reported, whatever was still queued.      *)
Closed ==
    /\ sent.canceled /\ ~inbox.ended
    /\ inbox' = [inbox EXCEPT !.ended = TRUE]
    /\ outbox' = [events |-> <<>>, ready |-> FALSE]
    /\ UNCHANGED <<sent, ledger, screen, history, issued>>

-----------------------------------------------------------------------------
(* The client.                                                             *)

Compatible(frame, event) ==
    /\ event.kind = "patch" /\ event.from = {}
    /\ event.at = frame.at /\ event.thread = frame.thread
Resolvable(frame, event) == \A s \in Entry : event.main[s] = Kept => frame.main[s] # Absent

(* The frame an event decodes to, or a rejection.                          *)
Decode(frame, event) ==
    LET whole == [n |-> event.n, thread |-> event.thread, at |-> event.at,
                  main |-> CASE "main" \in event.retained -> frame.main
                             [] "main" \notin event.retained /\ event.delta ->
                                    [s \in Entry |-> IF event.main[s] = Kept THEN frame.main[s] ELSE event.main[s]]
                             [] OTHER -> event.main,
                  review |-> IF "review" \in event.retained THEN frame.review ELSE event.review]
    IN  IF /\ frame.n = 0 => event.kind = "snapshot"
           /\ (event.retained # {} \/ event.delta) => Compatible(frame, event) /\ Resolvable(frame, event)
           /\ IF event.from = {} THEN event.thread = frame.thread ELSE event.from = {frame.thread}
        THEN whole ELSE Rejected

(* Consequences are applied in order, as far as their images are restored. *)
Apply(s, upTo) ==
    LET now == {e \in s.effects : s.effect < e /\ e <= upTo} IN
    [s EXCEPT !.effect = IF now = {} THEN @ ELSE Max(now), !.applied = @ \cup now]

NextEvent ==
    LET event == Head(inbox.events)
        frame == Decode(screen.frame, event)
        other == frame.at # screen.frame.at
        shown == [screen EXCEPT !.frame = frame, !.effects = event.effects,
                                !.got = (IF other THEN {} ELSE @) \cup event.out,
                                !.marked = (~other /\ @) \/ event.marked]
    IN  /\ inbox.events # <<>> /\ ~screen.exited
        /\ inbox' = [inbox EXCEPT !.events = Tail(@)]
        /\ IF event.kind = "exit" THEN screen' = [screen EXCEPT !.exited = TRUE]
           ELSE IF frame = Rejected THEN screen' = [screen EXCEPT !.frame = Rejected, !.exited = TRUE]
           ELSE \E upTo \in {screen.effect} \cup event.effects : screen' = Apply(shown, upTo)
        /\ UNCHANGED <<sent, ledger, outbox, history, issued>>

(* An image that held up a consequence has been restored.                  *)
Restored ==
    /\ \E e \in screen.effects : e > screen.effect /\ screen' = Apply(screen, e)
    /\ UNCHANGED <<sent, ledger, outbox, inbox, history, issued>>

NativeNext ==
    \/ PublishNext \/ AddEffect \/ FinishNative \/ Disconnect \/ Send \/ Closed \/ NextEvent \/ Restored
    \/ \E id \in 1 .. screen.effect : Acknowledge(id)
NativeSpec == NativeInit /\ [][NativeNext]_nativeVars

(* The connection's writer and the client's loop run as long as the view.  *)
NativeFairness == WF_nativeVars(Send) /\ WF_nativeVars(NextEvent)

-----------------------------------------------------------------------------
(* What is on its way.  Once the subscription has ended, what the session  *)
(* still has queued stays there.                                           *)
OnItsWay == inbox.events \o (IF inbox.ended THEN <<>> ELSE outbox.events)

(* However the queues have folded what is on its way, the client can       *)
(* decode all of it, each event to the frame that was published under its  *)
(* number, and then shows what the session last published                  *)
(* (coalesceNative, decodeNativeEvent).                                    *)
CaughtUp ==
    LET events == OnItsWay
        count == Len(events)
        After(k) == IF k = 0 THEN screen.frame ELSE history[events[k].n]
    IN  /\ screen.frame # Rejected
        /\ \A k \in 1 .. count :
              events[k].kind # "exit" => Decode(After(k - 1), events[k]) = After(k)
        /\ ~sent.canceled =>
              sent.frame = After(IF count > 0 /\ events[count].kind = "exit" THEN count - 1 ELSE count)

(* An output of the current presentation is not lost silently: the client  *)
(* has it, will get it, or is told to ask again; and it reaches the client *)
(* only in the presentation that asked.                                    *)
OutputAccounted ==
    LET coming == {e \in Range(OnItsWay) : e.kind # "exit"} IN
    /\ \A e \in coming : \A o \in e.out : o[1] = e.at
    /\ ~sent.canceled => \A o \in issued : o[1] = sent.frame.at =>
         \/ o \in screen.got \/ \E e \in coming : o \in e.out \/ e.marked
         \/ screen.frame.at = sent.frame.at /\ screen.marked

(* A consequence stays retained until the client has applied it, and all    *)
(* before it: neither a shorter prefix nor the replacement of a queued     *)
(* frame retires one (encodeNativePrefix, applyEffects, acknowledge).      *)
EffectsApplied ==
    /\ screen.applied = 1 .. screen.effect
    /\ 1 .. ledger.next \subseteq screen.applied \cup ledger.pending

(* The client only ever shows frames that were published, in order, and is *)
(* told of every replacement: see PublishedFrames.                         *)
Published == INSTANCE PublishedFrames WITH frames <- history, shown <- screen.frame
ShowsPublished == Published!Promise

(* What is published is shown and the exit is delivered, unless the view   *)
(* is canceled: the writer is woken again for what one wake-up leaves      *)
(* (native_transport.go, pop).                                             *)
FeedDelivered ==
    /\ \A n \in 1 .. MaxFrames : sent.frame.n = n ~> (screen.frame.n >= n \/ sent.canceled)
    /\ sent.exited ~> (screen.exited \/ sent.canceled)
=============================================================================
