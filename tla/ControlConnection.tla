-------------------------- MODULE ControlConnection --------------------------
(***************************************************************************)
(* One control connection: a client that subscribes, reads, gives up and   *)
(* asks for pages, and a server whose reader, request goroutines, context  *)
(* callbacks and single writer share the connection's subscriptions.       *)
(* Shared publications and pages need a credit: one may be unacknowledged  *)
(* at a time.  A subscription's identity is not used again, as the clients *)
(* in this repository choose it.                                           *)
(***************************************************************************)
EXTENDS Integers, Sequences, SequencesExt

CONSTANTS
    Subscription,
    Page,          \* page requests
    Nobody,
    MaxVersions    \* bound: publications of the session

ASSUME ConnectionBounds ==
    /\ Nobody \notin Subscription \cup Page /\ Subscription \cap Page = {}
    /\ MaxVersions \in Nat \ {0}

VARIABLES
    version,   \* the session's latest publication
    observer,  \* the client's side of every subscription
    asked,     \* the client's side of every page request
    unsent,    \* receipts and cancellations the client has still to send
    forgone,   \* history: those it has given up instead
    up, down,  \* messages on their way
    request,   \* the server's goroutine for every request, and whether it is canceled
    view,      \* the server's side of every subscription
    replies,   \* the writer's queue
    waiting,   \* the page that waits for credit
    credit,    \* the delivery not yet acknowledged, 0 for none
    last,      \* number of the last delivery
    written    \* the subscription whose acknowledgement is written and not yet noted
clientVars == <<observer, asked, unsent, forgone>>
writerVars == <<waiting, credit, last, written>>
serverVars == <<request, view, replies, writerVars>>
connectionVars == <<version, clientVars, up, down, serverVars>>

ConnCall == Subscription \cup Page
Message(kind, c) == [kind |-> kind, of |-> c]
Data(kind, c, n, delivery) == [kind |-> kind, of |-> c, n |-> n, delivery |-> delivery]
Receipt(delivery) == [kind |-> "ack", delivery |-> delivery]

ConnectionInit ==
    /\ version = 1
    /\ observer = [s \in Subscription |-> [stage |-> "new", events |-> <<>>, shown |-> 0]]
    /\ asked = [p \in Page |-> "new"]
    /\ unsent = {} /\ forgone = {} /\ up = <<>> /\ down = <<>>
    /\ request = [c \in ConnCall |-> [stage |-> "none", canceled |-> FALSE]]
    /\ view = [s \in Subscription |->
            [stage |-> "none", canceled |-> FALSE, queue |-> <<>>, early |-> FALSE]]
    /\ replies = <<>> /\ waiting = Nobody /\ credit = 0 /\ last = 0 /\ written = Nobody

-----------------------------------------------------------------------------
(* The client.  What it sends besides calls goes out in any order.         *)

Subscribe(s) ==
    /\ observer[s].stage = "new"
    /\ observer' = [observer EXCEPT ![s].stage = "calling"]
    /\ up' = Append(up, Message("subscribe", s))
    /\ UNCHANGED <<version, asked, unsent, forgone, down, serverVars>>

SendOne(m) ==
    /\ m \in unsent
    /\ unsent' = unsent \ {m}
    /\ up' = Append(up, m)
    /\ UNCHANGED <<version, observer, asked, forgone, down, serverVars>>

(* Each of these calls is made once, for a second: refused among too many  *)
(* pending ones, or too late for the writer, it is dropped.                *)
Forgo(m) ==
    /\ m \in unsent
    /\ unsent' = unsent \ {m}
    /\ forgone' = forgone \cup {m}
    /\ UNCHANGED <<version, observer, asked, up, down, serverVars>>

(* Retiring a subscription acknowledges what it has not consumed.          *)
Receipts(s) == {Receipt(e.delivery) : e \in ToSet(observer[s].events)}
(* Mutated form: it only forgets it.                                       *)
RetireUnread(s, messages) ==
    /\ observer' = [observer EXCEPT ![s].stage = "gone", ![s].events = <<>>]
    /\ unsent' = unsent \cup messages

Retire(s, messages) ==
    /\ observer' = [observer EXCEPT ![s].stage = "gone", ![s].events = <<>>]
    /\ unsent' = unsent \cup Receipts(s) \cup messages

(* A caller that no longer waits cancels its request and releases the      *)
(* subscription, in two calls of which either may go first.                *)
GiveUpSubscribe(s) ==
    /\ observer[s].stage = "calling"
    /\ Retire(s, {Message("cancel", s), Message("unsubscribe", s)})
    /\ UNCHANGED <<version, asked, forgone, up, down, serverVars>>
CloseSubscription(s) ==
    /\ observer[s].stage \in {"open", "ended"}
    /\ Retire(s, {Message("unsubscribe", s)})
    /\ UNCHANGED <<version, asked, forgone, up, down, serverVars>>

ConsumeEvent(s) ==
    /\ observer[s].stage \in {"open", "ended"} /\ observer[s].events # <<>>
    /\ LET e == Head(observer[s].events) IN
        /\ observer' = [observer EXCEPT ![s].events = Tail(@), ![s].shown = e.n]
        /\ unsent' = unsent \cup {Receipt(e.delivery)}
    /\ UNCHANGED <<version, asked, forgone, up, down, serverVars>>

AskPage(p) ==
    /\ asked[p] = "new"
    /\ asked' = [asked EXCEPT ![p] = "calling"]
    /\ up' = Append(up, Message("page", p))
    /\ UNCHANGED <<version, observer, unsent, forgone, down, serverVars>>
AbandonPage(p) ==
    /\ asked[p] = "calling"
    /\ asked' = [asked EXCEPT ![p] = "gone"]
    /\ unsent' = unsent \cup {Message("cancel", p)}
    /\ UNCHANGED <<version, observer, forgone, up, down, serverVars>>

(* The client's reader.  A page is acknowledged when it is applied, and    *)
(* what nobody waits for at once.                                          *)
Held(s) == observer[s].stage \in {"calling", "open"}
ReadEvent(e) ==
    IF Held(e.of)
    THEN /\ observer' = [observer EXCEPT ![e.of].events = Append(@, e)]
         /\ UNCHANGED <<asked, unsent>>
    ELSE /\ unsent' = unsent \cup {Receipt(e.delivery)}
         /\ UNCHANGED <<observer, asked>>
ReadReply(m) ==
    LET s == m.of IN
    \/ /\ m.kind = "result"
       /\ observer' = [observer EXCEPT ![s].stage = IF @ = "calling" THEN "open" ELSE @]
       /\ UNCHANGED <<asked, unsent>>
    \/ /\ m.kind = "failure" /\ s \in Subscription /\ observer[s].stage = "calling"
       /\ Retire(s, {Message("unsubscribe", s)})
       /\ UNCHANGED asked
    \/ /\ m.kind = "failure" /\ s \in Subscription /\ observer[s].stage # "calling"
       /\ UNCHANGED <<observer, asked, unsent>>
    \/ /\ m.kind = "failure" /\ s \in Page
       /\ asked' = [asked EXCEPT ![s] = "gone"]
       /\ UNCHANGED <<observer, unsent>>
    \/ /\ m.kind = "page"
       /\ asked' = [asked EXCEPT ![s] = "gone"]
       /\ unsent' = unsent \cup {Receipt(m.delivery)}
       /\ UNCHANGED observer
    \/ /\ m.kind = "closed"
       /\ observer' = [observer EXCEPT ![s].stage = IF Held(s) THEN "ended" ELSE @]
       /\ UNCHANGED <<asked, unsent>>

ClientReads ==
    /\ down # <<>>
    /\ IF Head(down).kind = "event" THEN ReadEvent(Head(down)) ELSE ReadReply(Head(down))
    /\ down' = Tail(down)
    /\ UNCHANGED <<version, forgone, up, serverVars>>

-----------------------------------------------------------------------------
(* The session publishes to every view: into the free place of its queue,  *)
(* or instead of what is there, as a snapshot.                             *)
Publication(kind, n) == [kind |-> kind, n |-> n]
Queued(queue, n) ==
    IF queue = <<>> THEN <<Publication("patch", n)>> ELSE <<Publication("snapshot", n)>>

PublishVersion ==
    /\ version < MaxVersions
    /\ version' = version + 1
    /\ view' = [s \in Subscription |->
            IF view[s].stage \in {"installed", "active"}
            THEN [view[s] EXCEPT !.queue = Queued(@, version + 1)] ELSE view[s]]
    /\ UNCHANGED <<clientVars, up, down, request, replies, writerVars>>

(* A subscription ends with its closed notice in the writer's queue.       *)
Present(s) == view[s].stage \in {"reserved", "installed", "active"}
RemoveView(s) ==
    /\ view' = [view EXCEPT ![s].stage = "gone", ![s].queue = <<>>]
    /\ replies' = Append(replies, Message("closed", s))

(* The server's reader answers cancellations and receipts itself.          *)
Pending(c) == request[c].stage \notin {"none", "done"}
Accept(c) ==
    /\ request' = [request EXCEPT ![c].stage = "accepted"]
    /\ UNCHANGED <<view, replies, writerVars>>
Unsubscribe(s) ==
    /\ IF Present(s) THEN RemoveView(s)
       ELSE /\ view' = [view EXCEPT ![s].early = request[s].stage = "accepted"]
            /\ UNCHANGED replies
    /\ UNCHANGED <<request, writerVars>>
CancelRequest(c) ==
    /\ request' = [request EXCEPT ![c].canceled = @ \/ Pending(c)]
    /\ waiting' = IF waiting = c THEN Nobody ELSE waiting
    /\ UNCHANGED <<view, replies, credit, last, written>>
TakeReceipt(delivery) ==
    /\ credit' = IF credit = delivery THEN 0 ELSE credit
    /\ UNCHANGED <<request, view, replies, waiting, last, written>>
ServerReads ==
    /\ up # <<>>
    /\ LET m == Head(up) IN
        \/ m.kind \in {"subscribe", "page"} /\ Accept(m.of)
        \/ m.kind = "unsubscribe" /\ Unsubscribe(m.of)
        \/ m.kind = "cancel" /\ CancelRequest(m.of)
        \/ m.kind = "ack" /\ TakeReceipt(m.delivery)
    /\ up' = Tail(up)
    /\ UNCHANGED <<version, clientVars, down>>

(* A subscribing request: it reserves the identity, builds the view        *)
(* outside the lock, installs it unless it was given up, and answers.      *)
Stage(c, stage) == request' = [request EXCEPT ![c].stage = stage]
Reserve(s) ==
    /\ request[s].stage = "accepted"
    /\ \/ /\ Stage(s, "subscribing")
          /\ view' = [view EXCEPT ![s].stage = "reserved"]
       \/ Stage(s, "refused") /\ UNCHANGED view
    /\ UNCHANGED <<version, clientVars, up, down, replies, writerVars>>
(* Mutated form: what has become of the reservation is not looked at.      *)
InstallableAlways(s) == ~view[s].canceled
Installable(s) == view[s].stage = "reserved" /\ ~view[s].canceled
Install(s) ==
    /\ request[s].stage = "subscribing"
    /\ \/ /\ Installable(s)
          /\ Stage(s, "admitted")
          /\ view' = [view EXCEPT ![s].stage = "installed",
                                  ![s].queue = <<Publication("snapshot", version)>>]
       \/ /\ Stage(s, "refused")
          /\ view' = [view EXCEPT ![s].stage = "gone"]
    /\ UNCHANGED <<version, clientVars, up, down, replies, writerVars>>
Reply(s) ==
    /\ \/ /\ request[s].stage = "admitted" /\ Stage(s, "answered")
          /\ replies' = Append(replies, Message("result", s))
       \/ /\ request[s].stage = "refused" /\ Stage(s, "done")
          /\ replies' = Append(replies, Message("failure", s))
    /\ UNCHANGED <<version, clientVars, up, down, view, writerVars>>

GoneUnanswered(s) ==
    /\ request[s].stage = "answered" /\ request[s].canceled
    /\ Stage(s, "done")
    /\ UNCHANGED <<version, clientVars, up, down, view, replies, writerVars>>

(* The callbacks: of the request's context, until the acknowledgement is   *)
(* noted, and of the view's.                                               *)
CancelView(s) ==
    /\ request[s].canceled /\ view[s].stage \in {"reserved", "installed"} /\ ~view[s].canceled
    /\ view' = [view EXCEPT ![s].canceled = TRUE]
    /\ UNCHANGED <<version, clientVars, up, down, request, replies, writerVars>>
RemoveCanceled(s) ==
    /\ view[s].canceled /\ view[s].stage = "installed"
    /\ RemoveView(s)
    /\ UNCHANGED <<version, clientVars, up, down, request, writerVars>>

(* A page waits for credit unless another does.                            *)
ReplyPage(p) ==
    /\ request[p].stage = "accepted"
    /\ IF ~request[p].canceled /\ waiting = Nobody
       THEN Stage(p, "answered") /\ waiting' = p /\ UNCHANGED replies
       ELSE /\ Stage(p, "done")
            /\ replies' = IF request[p].canceled THEN replies
                                                 ELSE Append(replies, Message("failure", p))
            /\ UNCHANGED waiting
    /\ UNCHANGED <<version, clientVars, up, down, view, credit, last, written>>
PageCanceled(p) ==
    /\ request[p].stage = "answered" /\ request[p].canceled
    /\ Stage(p, "done")
    /\ waiting' = IF waiting = p THEN Nobody ELSE waiting
    /\ UNCHANGED <<version, clientVars, up, down, view, replies, credit, last, written>>

-----------------------------------------------------------------------------
(* The writer: replies in order, one page or publication when there is     *)
(* credit, and the end of a subscription whose session has ended.          *)
WriteReply ==
    /\ written = Nobody /\ replies # <<>>
    /\ down' = Append(down, Head(replies))
    /\ replies' = Tail(replies)
    /\ written' = IF Head(replies).kind = "result" THEN Head(replies).of ELSE Nobody
    /\ UNCHANGED <<version, clientVars, up, request, view, waiting, credit, last>>

(* A written acknowledgement activates the subscription, unless it was     *)
(* given up meanwhile.                                                     *)
Activatable(s) == view[s].stage = "installed" /\ ~request[s].canceled /\ ~view[s].canceled
NoteWritten(s) ==
    /\ written = s
    /\ IF Activatable(s) THEN view' = [view EXCEPT ![s].stage = "active"] /\ UNCHANGED replies
       ELSE IF view[s].stage = "installed" THEN RemoveView(s) ELSE UNCHANGED <<view, replies>>
    /\ Stage(s, "done")
    /\ written' = Nobody
    /\ UNCHANGED <<version, clientVars, up, down, waiting, credit, last>>

SpendCredit == credit' = last + 1 /\ last' = last + 1
WritePage ==
    /\ written = Nobody /\ credit = 0 /\ waiting # Nobody
    /\ IF request[waiting].canceled THEN UNCHANGED <<down, credit, last, request>>
       ELSE /\ SpendCredit
            /\ down' = Append(down, Data("page", waiting, 0, last'))
            /\ Stage(waiting, "done")
    /\ waiting' = Nobody
    /\ UNCHANGED <<version, clientVars, up, view, replies, written>>

(* Mutated form: an installed subscription is written to.                  *)
ActiveInstalled(s) == view[s].stage \in {"installed", "active"}
Active(s) == view[s].stage = "active"
WriteEvent(s) ==
    /\ written = Nobody /\ credit = 0 /\ Active(s) /\ view[s].queue # <<>>
    /\ SpendCredit
    /\ LET e == Head(view[s].queue) IN
        down' = Append(down, [kind |-> "event", of |-> s, n |-> e.n, delivery |-> last',
                              patch |-> e.kind = "patch"])
    /\ view' = [view EXCEPT ![s].queue = <<>>]
    /\ UNCHANGED <<version, clientVars, up, request, replies, waiting, written>>

EndView(s) ==
    /\ written = Nobody /\ view[s].stage = "active"
    /\ RemoveView(s)
    /\ UNCHANGED <<version, clientVars, up, down, request, writerVars>>

-----------------------------------------------------------------------------
SubscriberStep(s) == Subscribe(s) \/ GiveUpSubscribe(s) \/ CloseSubscription(s) \/ ConsumeEvent(s)
RequestStep(s) == Reserve(s) \/ Install(s) \/ Reply(s) \/ GoneUnanswered(s)
ViewStep(s) ==
    CancelView(s) \/ RemoveCanceled(s) \/ NoteWritten(s) \/ WriteEvent(s) \/ EndView(s)
PageStep(p) == AskPage(p) \/ AbandonPage(p) \/ ReplyPage(p) \/ PageCanceled(p)
ConnectionNext ==
    \/ \E s \in Subscription : SubscriberStep(s) \/ RequestStep(s) \/ ViewStep(s)
    \/ \E p \in Page : PageStep(p)
    \/ \E m \in unsent : SendOne(m) \/ Forgo(m)
    \/ PublishVersion \/ ClientReads \/ ServerReads \/ WriteReply \/ WritePage

(* The readers read, the writer writes and notes what it has written,      *)
(* requests end, consumers read or close what they have, and receipts and  *)
(* cancellations are sent or given up.  All of it is finite, so that       *)
(* fairness to the whole is enough: some of it goes on while any is left.  *)
Owed ==
    \/ ClientReads \/ ServerReads \/ WriteReply
    \/ \E m \in unsent : SendOne(m) \/ Forgo(m)
    \/ \E s \in Subscription :
        RequestStep(s) \/ NoteWritten(s) \/ ConsumeEvent(s) \/ CloseSubscription(s)
ConnectionFairness == WF_connectionVars(Owed)
ConnectionSpec == ConnectionInit /\ [][ConnectionNext]_connectionVars /\ ConnectionFairness

-----------------------------------------------------------------------------
(* What a client sees of a subscription is whole: its acknowledgement      *)
(* first, then snapshots and patches of which each patch follows the       *)
(* version before it, then its end (CONTRACT.md, writer, broadcast).       *)
Coming(i, kind, s) == i \in DOMAIN down /\ down[i].kind = kind /\ down[i].of = s
Follows(before, e) == IF e.patch /\ before > 0 THEN e.n = before + 1 ELSE e.n > before /\ ~e.patch
Read(s, i) == IF i = 0 THEN observer[s].shown ELSE observer[s].events[i].n
Consecutive(s) ==
    /\ \A i \in DOMAIN observer[s].events : Follows(Read(s, i - 1), observer[s].events[i])
    /\ \A i \in DOMAIN down : Coming(i, "event", s) =>
        \/ /\ \A j \in 1 .. i - 1 : ~Coming(j, "event", s)
           /\ Follows(Read(s, Len(observer[s].events)), down[i])
        \/ \E j \in 1 .. i - 1 :
            /\ Coming(j, "event", s) /\ Follows(down[j].n, down[i])
            /\ \A k \in j + 1 .. i - 1 : ~Coming(k, "event", s)
StreamsWhole == \A s \in Subscription :
    /\ \A i \in DOMAIN down :
        /\ Coming(i, "event", s) =>
            /\ observer[s].stage = "calling" => \E j \in 1 .. i - 1 : Coming(j, "result", s)
            /\ observer[s].stage # "ended"
        /\ Coming(i, "closed", s) => \A j \in i + 1 .. Len(down) : ~Coming(j, "event", s)
    /\ Held(s) => Consecutive(s)

(* When nothing is on its way, the server keeps exactly the subscriptions  *)
(* the client holds, whoever gave up when: any other is one whose release  *)
(* the client has dropped, or came before its request had begun            *)
(* (rpc_client.go, Subscribe and cancelSubscription; rpc_server.go,        *)
(* subscribe).                                                             *)
Rest ==
    /\ up = <<>> /\ down = <<>> /\ replies = <<>> /\ unsent = {} /\ written = Nobody
    /\ \A c \in ConnCall : ~Pending(c)
    /\ \A s \in Subscription : view[s].stage = "installed" => ~view[s].canceled
Unreleased(s) == Message("unsubscribe", s) \in forgone
ReleasedAtRest == Rest => \A s \in Subscription :
    /\ observer[s].stage = "open" => Present(s)
    /\ Present(s) => observer[s].stage = "open" \/ view[s].early \/ Unreleased(s)

(* Credit comes back, also for what the client no longer wants, unless the *)
(* client has dropped its very receipt; nothing else loses it, and nothing *)
(* brings that one back (rpc_client.go, read, retire and ackDelivery).     *)
CreditReturns == credit # 0 ~> credit = 0 \/ Receipt(credit) \in forgone
=============================================================================
