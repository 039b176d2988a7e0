--------------------------- MODULE CommandReports ---------------------------
(***************************************************************************)
(* Reports of instrumented commands, matched with the host's items.  The   *)
(* helper of a command says hello with its script alone; the item of that  *)
(* script is announced by the host, earlier or later, and twice: when its  *)
(* notification arrives and when it is presented.  Windows of a turn keep  *)
(* the evidence of the items that start while they are open.               *)
(*                                                                         *)
(* All items are of one thread and turn; others never match.  Scripts are  *)
(* compared without this invocation's guard prefixes.                      *)
(***************************************************************************)
EXTENDS Integers, FiniteSets

CONSTANTS
    Item,
    Script,
    ItemScript,    \* the script of an item's command
    Hello,         \* helpers that ask for a match
    HelloScript,
    Window,
    Nobody         \* no item, or no helper

ASSUME Commands ==
    /\ Nobody \notin Item \cup Hello
    /\ ItemScript \in [Item -> Script] /\ HelloScript \in [Hello -> Script]

VARIABLES
    started,    \* items announced and not matched, with the serial of each
    reports,    \* the helper whose report an item has, with the item's serial
    sequence,   \* the last serial
    told,       \* how often the host's start was delivered, and whether its end was
    hello,      \* each helper's stream and the item it was matched with
    window,     \* each window: when it opened and its evidence for each script
    since       \* items started since each window opened (specification only)
reportVars == <<started, reports, sequence, told, hello, window, since>>

NoReport == [by |-> Nobody, serial |-> 0]
NoMatch == [item |-> Nobody, by |-> Nobody, ambiguous |-> FALSE, completed |-> FALSE]

ReportInit ==
    /\ started = {} /\ reports = [i \in Item |-> NoReport] /\ sequence = 0
    /\ told = [i \in Item |-> [starts |-> 0, ended |-> FALSE]]
    /\ hello = [h \in Hello |-> [stage |-> "new", item |-> Nobody]]
    /\ window = [w \in Window |-> [stage |-> "new", after |-> 0, scripts |-> {},
                                   match |-> [s \in Script |-> NoMatch]]]
    /\ since = [w \in Window |-> {}]

-----------------------------------------------------------------------------
(* Windows.                                                                *)

(* Mutated form: what started before the window is evidence as well.       *)
QualifiesLate(w, serial) == window[w].stage = "open"
Qualifies(w, serial) == window[w].stage = "open" /\ serial > window[w].after
(* A second item of a script leaves no usable evidence.                    *)
Matched(m, i, by) ==
    IF m.item \notin {Nobody, i} THEN [m EXCEPT !.ambiguous = TRUE]
    ELSE [m EXCEPT !.item = i, !.by = by]
RetainMatch(i, serial, by) ==
    window' = [w \in Window |->
        IF Qualifies(w, serial) /\ ItemScript[i] \in window[w].scripts
        THEN [window[w] EXCEPT !.match[ItemScript[i]] = Matched(@, i, by)] ELSE window[w]]

(* A script asked for twice, or by another open window, is ambiguous.      *)
Subscribe(w, scripts, twice) ==
    LET open == {v \in Window : window[v].stage = "open"}
        Shared(s) == \E v \in open : s \in window[v].scripts
    IN  /\ window[w].stage = "new" /\ twice \subseteq scripts
        /\ window' = [v \in Window |->
              IF v = w
              THEN [stage |-> "open", after |-> sequence, scripts |-> scripts,
                    match |-> [s \in Script |-> [NoMatch EXCEPT !.ambiguous =
                                                   s \in scripts /\ (s \in twice \/ Shared(s))]]]
              ELSE [window[v] EXCEPT !.match = [s \in Script |->
                      IF v \in open /\ s \in scripts \cap window[v].scripts
                      THEN [@[s] EXCEPT !.ambiguous = TRUE] ELSE @[s]]]]
        /\ UNCHANGED <<started, reports, sequence, told, hello, since>>
CloseWindow(w) ==
    /\ window[w].stage = "open"
    /\ window' = [window EXCEPT ![w].stage = "closed"]
    /\ UNCHANGED <<started, reports, sequence, told, hello, since>>

-----------------------------------------------------------------------------
(* The host's items.                                                       *)

Tracked(i) == reports[i] # NoReport \/ \E c \in started : c.item = i
Start(i) ==
    /\ told[i].starts < 2 /\ ~told[i].ended
    /\ told' = [told EXCEPT ![i].starts = @ + 1]
    /\ IF Tracked(i) THEN UNCHANGED <<started, sequence, window, since>>
       ELSE /\ sequence' = sequence + 1
            /\ started' = started \cup {[item |-> i, serial |-> sequence + 1]}
            /\ RetainMatch(i, sequence + 1, Nobody)
            /\ since' = [w \in Window |-> IF window[w].stage = "open" THEN since[w] \cup {i} ELSE since[w]]
    /\ UNCHANGED <<reports, hello>>

Forgotten(i) ==
    /\ started' = {c \in started : c.item # i}
    /\ reports' = [reports EXCEPT ![i] = NoReport]

(* The host's completion is noted for the windows, and presentation lets   *)
(* go of an item that has no report; later also of one that has.           *)
Completed(i) ==
    /\ told[i].starts = 2 /\ ~told[i].ended
    /\ told' = [told EXCEPT ![i].ended = TRUE]
    /\ window' = [w \in Window |-> IF window[w].stage # "open" THEN window[w] ELSE
            [window[w] EXCEPT !.match = [s \in Script |->
                IF @[s].item = i THEN [@[s] EXCEPT !.completed = TRUE] ELSE @[s]]]]
    /\ IF reports[i] = NoReport THEN Forgotten(i) ELSE UNCHANGED <<started, reports>>
    /\ UNCHANGED <<sequence, hello, since>>
Settle(i) ==
    /\ told[i].ended /\ reports[i] # NoReport
    /\ Forgotten(i)
    /\ UNCHANGED <<sequence, told, hello, window, since>>

-----------------------------------------------------------------------------
(* Helpers.                                                                *)

Unique(S) == Cardinality(S) = 1
Take(c) == started' = started \ {c}

(* A helper waits a while for an item of its script.  More than one, or    *)
(* none in time, declines it.                                              *)
Claim(h) ==
    LET found == {c \in started : ItemScript[c.item] = HelloScript[h]} IN
    /\ hello[h].stage = "new" /\ found # {}
    /\ IF Unique(found)
       THEN \E c \in found :
            /\ Take(c)
            /\ reports' = [reports EXCEPT ![c.item] = [by |-> h, serial |-> c.serial]]
            /\ hello' = [hello EXCEPT ![h] = [stage |-> "claimed", item |-> c.item]]
            /\ RetainMatch(c.item, c.serial, h)
       ELSE /\ hello' = [hello EXCEPT ![h].stage = "declined"]
            /\ UNCHANGED <<started, reports, window>>
    /\ UNCHANGED <<sequence, told, since>>
TimeOut(h) ==
    /\ hello[h].stage = "new"
    /\ hello' = [hello EXCEPT ![h].stage = "declined"]
    /\ UNCHANGED <<started, reports, sequence, told, window, since>>

(* The claim is withdrawn when the reply does not reach the helper; else   *)
(* the report is streamed to its end.                                      *)
Abort(h) ==
    /\ hello[h].stage = "claimed"
    /\ hello' = [hello EXCEPT ![h].stage = "aborted"]
    /\ Forgotten(hello[h].item)
    /\ UNCHANGED <<sequence, told, window, since>>
EndStream(h) ==
    /\ hello[h].stage = "claimed"
    /\ hello' = [hello EXCEPT ![h].stage = "ended"]
    /\ UNCHANGED <<started, reports, sequence, told, window, since>>

ReportNext ==
    \/ \E i \in Item : Start(i) \/ Completed(i) \/ Settle(i)
    \/ \E h \in Hello : Claim(h) \/ TimeOut(h) \/ Abort(h) \/ EndStream(h)
    \/ \E w \in Window : CloseWindow(w) \/ \E scripts \in SUBSET Script \ {{}}, twice \in SUBSET Script :
                                                Subscribe(w, scripts, twice)
ReportSpec == ReportInit /\ [][ReportNext]_reportVars

-----------------------------------------------------------------------------
(* Evidence a window does not call ambiguous is of the only item of its    *)
(* script that started while it was open, and of no other open window's    *)
(* (subscription.go, retain and Subscribe).                                *)
SoleEvidence == \A w \in Window : window[w].stage = "open" =>
    \A s \in window[w].scripts : LET m == window[w].match[s] IN ~m.ambiguous =>
        /\ {i \in since[w] : ItemScript[i] = s} = {m.item} \ {Nobody}
        /\ m.by # Nobody => hello[m.by].item = m.item
        /\ \A v \in Window \ {w} : window[v].stage = "open" => s \notin window[v].scripts
=============================================================================
