------------------------ MODULE CommandReports_proofs ------------------------
(***************************************************************************)
(* Proofs about the reports of commands, for every set of items, scripts,  *)
(* helpers and windows: a window's evidence is of the only item it can be  *)
(* of, and a helper withdraws no claim but its own.                        *)
(***************************************************************************)
EXTENDS CommandReports, TLAPS

Candidates == [item : Item, serial : Nat]
Reports == [by : Hello \cup {Nobody}, serial : Nat]
Evidence == [item : Item \cup {Nobody}, by : Hello \cup {Nobody},
             ambiguous : BOOLEAN, completed : BOOLEAN]

ReportTypes ==
    /\ started \in SUBSET Candidates /\ reports \in [Item -> Reports]
    /\ sequence \in Nat
    /\ told \in [Item -> [starts : Nat, ended : BOOLEAN]]
    /\ hello \in [Hello -> [stage : {"new", "claimed", "declined", "aborted", "ended"},
                            item : Item \cup {Nobody}]]
    /\ window \in [Window -> [stage : {"new", "open", "closed"}, after : Nat,
                              scripts : SUBSET Script, match : [Script -> Evidence]]]
    /\ since \in [Window -> SUBSET Item]

(* An item waits at most once, has no report while it waits, and does not  *)
(* wait once its end was noted (Start, claim, Forget, Completed).          *)
WaitsOnce ==
    /\ \A c, d \in started : c.item = d.item => c = d
    /\ \A c \in started : reports[c.item] = NoReport /\ ~told[c.item].ended

(* A helper whose claim is live has the item's report, unless presentation *)
(* let go of the item for good; a helper that claimed nothing has no item. *)
ClaimsHeld == \A h \in Hello : hello[h].stage = "claimed" =>
    /\ hello[h].item \in Item
    /\ \/ reports[hello[h].item].by = h
       \/ reports[hello[h].item] = NoReport /\ told[hello[h].item].ended

(* Serials tell what started before a window from what started after, and  *)
(* a window has seen every item that waits and is younger than it.         *)
WindowsSee ==
    /\ \A c \in started : c.serial <= sequence
    /\ \A w \in Window :
        /\ window[w].stage = "new" => since[w] = {}
        /\ window[w].after <= sequence
        /\ window[w].stage = "open" =>
             \A c \in started : c.serial > window[w].after => c.item \in since[w]

(* Evidence names only helpers that have claimed an item.                  *)
HelpersClaimed == \A w \in Window, s \in Script :
    LET m == window[w].match[s] IN m.by # Nobody => hello[m.by].stage # "new"

ReportInv ==
    ReportTypes /\ WaitsOnce /\ ClaimsHeld /\ WindowsSee /\ HelpersClaimed /\ SoleEvidence

(* What is withdrawn with a helper's claim is its own report: an item that *)
(* has since been claimed by another helper keeps that one's (Abort).      *)
OwnWithdrawn == \A h \in Hello : hello[h].stage = "claimed" =>
    reports[hello[h].item].by \in {h, Nobody}


-----------------------------------------------------------------------------
(* Nothing is tracked at first, and no window is open.                     *)
LEMMA ReportsBegin == ReportInit => ReportInv
<1> SUFFICES ASSUME ReportInit PROVE ReportInv
  OBVIOUS
<1> USE DEF ReportInit, NoReport, NoMatch
<1>1. ReportTypes
  BY DEF ReportTypes, Candidates, Reports, Evidence
<1>2. WaitsOnce /\ ClaimsHeld /\ WindowsSee
  BY DEF WaitsOnce, ClaimsHeld, WindowsSee
<1>3. HelpersClaimed /\ SoleEvidence
  BY DEF HelpersClaimed, SoleEvidence
<1> QED
  BY <1>1, <1>2, <1>3 DEF ReportInv

(* A second item of a script makes evidence ambiguous for good.            *)
LEMMA MatchedIs ==
    ASSUME NEW m \in Evidence, NEW i \in Item, NEW by \in Hello \cup {Nobody}
    PROVE  /\ Matched(m, i, by) \in Evidence
           /\ m.ambiguous => Matched(m, i, by).ambiguous
           /\ ~Matched(m, i, by).ambiguous =>
                m.item \in {Nobody, i} /\ Matched(m, i, by).item = i /\ Matched(m, i, by).by = by
           /\ Matched(m, i, by).by \in {m.by, by}
<1>1. CASE m.item \notin {Nobody, i}
  <2>1. Matched(m, i, by) = [m EXCEPT !.ambiguous = TRUE]
    BY <1>1 DEF Matched
  <2> QED
    BY <1>1, <2>1 DEF Evidence
<1>2. CASE m.item \in {Nobody, i}
  <2>1. Matched(m, i, by) = [m EXCEPT !.item = i, !.by = by]
    BY <1>2 DEF Matched
  <2> QED
    BY <1>2, <2>1 DEF Evidence
<1> QED
  BY <1>1, <1>2

(* What a window retains for an item it qualifies for, and what it keeps.  *)
LEMMA Retained ==
    ASSUME ReportTypes, NEW i \in Item, NEW n \in Nat, NEW by \in Hello \cup {Nobody},
           RetainMatch(i, n, by)
    PROVE  /\ window' \in [Window -> [stage : {"new", "open", "closed"}, after : Nat,
                                      scripts : SUBSET Script, match : [Script -> Evidence]]]
           /\ \A w \in Window :
                /\ window'[w].stage = window[w].stage /\ window'[w].after = window[w].after
                /\ window'[w].scripts = window[w].scripts
                /\ \A s \in Script :
                     window'[w].match[s] =
                       IF Qualifies(w, n) /\ ItemScript[i] \in window[w].scripts /\ s = ItemScript[i]
                       THEN Matched(window[w].match[s], i, by) ELSE window[w].match[s]
<1>1. \A m \in Evidence : Matched(m, i, by) \in Evidence
  BY MatchedIs
<1>2. ItemScript[i] \in Script
  BY Commands
<1>3. ASSUME NEW w \in Window
      PROVE  /\ window'[w] \in [stage : {"new", "open", "closed"}, after : Nat,
                                scripts : SUBSET Script, match : [Script -> Evidence]]
             /\ window'[w].stage = window[w].stage /\ window'[w].after = window[w].after
             /\ window'[w].scripts = window[w].scripts
             /\ \A s \in Script :
                  window'[w].match[s] =
                    IF Qualifies(w, n) /\ ItemScript[i] \in window[w].scripts /\ s = ItemScript[i]
                    THEN Matched(window[w].match[s], i, by) ELSE window[w].match[s]
  <2>1. window[w] \in [stage : {"new", "open", "closed"}, after : Nat,
                       scripts : SUBSET Script, match : [Script -> Evidence]]
    BY DEF ReportTypes
  <2>2. CASE Qualifies(w, n) /\ ItemScript[i] \in window[w].scripts
    <3>1. window'[w] = [window[w] EXCEPT !.match[ItemScript[i]] = Matched(@, i, by)]
      BY <2>2 DEF RetainMatch
    <3> QED
      BY <1>1, <1>2, <2>1, <2>2, <3>1
  <2>3. CASE ~(Qualifies(w, n) /\ ItemScript[i] \in window[w].scripts)
    <3>1. window'[w] = window[w]
      BY <2>3 DEF RetainMatch
    <3> QED
      BY <2>1, <2>3, <3>1
  <2> QED
    BY <2>2, <2>3
<1>4. window' \in [Window -> [stage : {"new", "open", "closed"}, after : Nat,
                              scripts : SUBSET Script, match : [Script -> Evidence]]]
  BY <1>3 DEF RetainMatch
<1> QED
  BY <1>3, <1>4

(* An item that begins is evidence of every open window of its script, and *)
(* the only one, or the window's evidence becomes ambiguous (Start).       *)
LEMMA StartKept ==
    ASSUME ReportInv, NEW i \in Item, Start(i)
    PROVE  ReportInv'
<1> USE DEF ReportInv
<1>1. told' = [told EXCEPT ![i].starts = @ + 1] /\ ~told[i].ended /\ UNCHANGED <<reports, hello>>
  BY DEF Start
<1>2. told' \in [Item -> [starts : Nat, ended : BOOLEAN]] /\ \A j \in Item : told'[j].ended = told[j].ended
  BY <1>1 DEF ReportTypes
<1>3. CASE Tracked(i)
  <2>1. UNCHANGED <<started, sequence, window, since>>
    BY <1>3 DEF Start
  <2>2. ReportTypes'
    BY <1>1, <1>2, <2>1 DEF ReportTypes
  <2>3. WaitsOnce' /\ ClaimsHeld'
    BY <1>1, <1>2, <2>1 DEF WaitsOnce, ClaimsHeld, ReportTypes, Candidates
  <2>4. WindowsSee' /\ HelpersClaimed' /\ SoleEvidence'
    BY <1>1, <2>1 DEF WindowsSee, HelpersClaimed, SoleEvidence
  <2> QED
    BY <2>2, <2>3, <2>4
<1>4. CASE ~Tracked(i)
  <2> DEFINE new == [item |-> i, serial |-> sequence + 1]
  <2>1. /\ sequence' = sequence + 1 /\ started' = started \cup {new}
        /\ RetainMatch(i, sequence + 1, Nobody)
        /\ since' = [w \in Window |-> IF window[w].stage = "open" THEN since[w] \cup {i} ELSE since[w]]
    BY <1>4 DEF Start
  <2>2. reports[i] = NoReport /\ \A c \in started : c.item # i
    BY <1>4 DEF Tracked
  <2>3. sequence \in Nat /\ sequence + 1 \in Nat
    BY DEF ReportTypes
  <2>4. /\ window' \in [Window -> [stage : {"new", "open", "closed"}, after : Nat,
                                   scripts : SUBSET Script, match : [Script -> Evidence]]]
        /\ \A w \in Window :
             /\ window'[w].stage = window[w].stage /\ window'[w].after = window[w].after
             /\ window'[w].scripts = window[w].scripts
             /\ \A s \in Script :
                  window'[w].match[s] =
                    IF Qualifies(w, sequence + 1) /\ ItemScript[i] \in window[w].scripts /\ s = ItemScript[i]
                    THEN Matched(window[w].match[s], i, Nobody) ELSE window[w].match[s]
    BY <2>1, <2>3, Retained
  <2>5. ReportTypes'
    <3>1. started' \in SUBSET Candidates
      BY <2>1, <2>3 DEF ReportTypes, Candidates
    <3>2. since' \in [Window -> SUBSET Item]
      BY <2>1 DEF ReportTypes
    <3> QED
      BY <1>1, <1>2, <2>1, <2>3, <2>4, <3>1, <3>2 DEF ReportTypes
  <2>6. WaitsOnce'
    BY <1>1, <1>2, <2>1, <2>2 DEF WaitsOnce, ReportTypes, Candidates
  <2>7. ClaimsHeld'
    BY <1>1, <1>2 DEF ClaimsHeld
  <2>8. WindowsSee'
    <3>1. \A c \in started' : c.serial <= sequence'
      BY <2>1, <2>3 DEF WindowsSee, ReportTypes, Candidates
    <3>2. ASSUME NEW w \in Window
          PROVE  /\ window'[w].stage = "new" => since'[w] = {}
                 /\ window'[w].after <= sequence'
                 /\ window'[w].stage = "open" =>
                      \A c \in started' : c.serial > window'[w].after => c.item \in since'[w]
      <4>1. window[w].after \in Nat
        BY DEF ReportTypes
      <4> QED
        BY <2>1, <2>3, <2>4, <4>1 DEF WindowsSee
    <3> QED
      BY <3>1, <3>2 DEF WindowsSee
  <2>9. HelpersClaimed'
    <3>1. ASSUME NEW w \in Window, NEW s \in Script
          PROVE  window'[w].match[s].by \in {window[w].match[s].by, Nobody}
      <4>1. window[w].match[s] \in Evidence
        BY DEF ReportTypes
      <4> QED
        BY <2>4, <4>1, MatchedIs
    <3> QED
      BY <1>1, <3>1 DEF HelpersClaimed
  <2>10. SoleEvidence'
    <3> SUFFICES ASSUME NEW w \in Window, window'[w].stage = "open", NEW s \in window'[w].scripts,
                        ~window'[w].match[s].ambiguous
                 PROVE  /\ {j \in since'[w] : ItemScript[j] = s} = {window'[w].match[s].item} \ {Nobody}
                        /\ window'[w].match[s].by # Nobody =>
                             hello'[window'[w].match[s].by].item = window'[w].match[s].item
                        /\ \A v \in Window \ {w} : window'[v].stage = "open" => s \notin window'[v].scripts
      BY DEF SoleEvidence
    <3> DEFINE m == window[w].match[s]
    <3>1. window[w].stage = "open" /\ s \in window[w].scripts /\ s \in Script /\ m \in Evidence
      BY <2>4 DEF ReportTypes
    <3>2. since'[w] = since[w] \cup {i}
      BY <2>1, <3>1
    <3>3. sequence + 1 > window[w].after
      BY <2>3 DEF WindowsSee, ReportTypes
    <3>4. ~m.ambiguous
      BY <2>4, <3>1, MatchedIs
    <3>5. /\ {j \in since[w] : ItemScript[j] = s} = {m.item} \ {Nobody}
          /\ m.by # Nobody => hello[m.by].item = m.item
          /\ \A v \in Window \ {w} : window[v].stage = "open" => s \notin window[v].scripts
      BY <3>1, <3>4 DEF SoleEvidence
    <3>6. CASE ItemScript[i] = s
      <4>1. window'[w].match[s] = Matched(m, i, Nobody)
        BY <2>4, <3>1, <3>3, <3>6 DEF Qualifies
      <4>2. m.item \in {Nobody, i} /\ window'[w].match[s].item = i /\ window'[w].match[s].by = Nobody
        BY <3>1, <4>1, MatchedIs
      <4>3. i # Nobody
        BY Commands
      <4>4. {j \in since'[w] : ItemScript[j] = s} = {i}
        BY <3>2, <3>5, <3>6, <4>2
      <4> QED
        BY <2>4, <3>5, <4>2, <4>3, <4>4
    <3>7. CASE ItemScript[i] # s
      <4>1. window'[w].match[s] = m
        BY <2>4, <3>1, <3>7
      <4>2. {j \in since'[w] : ItemScript[j] = s} = {j \in since[w] : ItemScript[j] = s}
        BY <3>2, <3>7
      <4> QED
        BY <1>1, <2>4, <3>5, <4>1, <4>2
    <3> QED
      BY <3>6, <3>7
  <2> QED
    BY <2>5, <2>6, <2>7, <2>8, <2>9, <2>10
<1> QED
  BY <1>3, <1>4


(* A claim takes the only item of the helper's script that waits: nobody   *)
(* else has claimed it, and the evidence it becomes is of no other item.   *)
LEMMA ClaimKept ==
    ASSUME ReportInv, NEW h \in Hello, Claim(h)
    PROVE  ReportInv'
<1> USE DEF ReportInv
<1> DEFINE found == {c \in started : ItemScript[c.item] = HelloScript[h]}
<1>1. hello[h].stage = "new" /\ UNCHANGED <<sequence, told, since>>
  BY DEF Claim
<1>2. CASE ~Unique(found)
  <2>1. hello' = [hello EXCEPT ![h].stage = "declined"] /\ UNCHANGED <<started, reports, window>>
    BY <1>2 DEF Claim
  <2>2. \A g \in Hello : /\ hello'[g].item = hello[g].item
                         /\ hello'[g].stage = IF g = h THEN "declined" ELSE hello[g].stage
    BY <2>1 DEF ReportTypes
  <2>3. ReportTypes'
    BY <1>1, <2>1 DEF ReportTypes
  <2>4. WaitsOnce' /\ WindowsSee'
    BY <1>1, <2>1 DEF WaitsOnce, WindowsSee
  <2>5. ClaimsHeld' /\ HelpersClaimed' /\ SoleEvidence'
    BY <1>1, <2>1, <2>2 DEF ClaimsHeld, HelpersClaimed, SoleEvidence, ReportTypes, Evidence
  <2> QED
    BY <2>3, <2>4, <2>5
<1>3. CASE Unique(found)
  <2>1. PICK c \in found :
          /\ Take(c) /\ reports' = [reports EXCEPT ![c.item] = [by |-> h, serial |-> c.serial]]
          /\ hello' = [hello EXCEPT ![h] = [stage |-> "claimed", item |-> c.item]]
          /\ RetainMatch(c.item, c.serial, h)
    BY <1>3 DEF Claim
  <2>2. c \in started /\ c.item \in Item /\ c.serial \in Nat /\ c.item # Nobody
    BY Commands DEF ReportTypes, Candidates
  <2>3. started' \subseteq started /\ \A d \in started' : d.item # c.item
    BY <2>1, <2>2 DEF Take, WaitsOnce
  <2>4. \A g \in Hello : hello'[g] = IF g = h THEN [stage |-> "claimed", item |-> c.item] ELSE hello[g]
    BY <2>1 DEF ReportTypes
  <2>5. \A j \in Item : reports'[j] = IF j = c.item THEN [by |-> h, serial |-> c.serial] ELSE reports[j]
    BY <2>1, <2>2 DEF ReportTypes
  <2>6. /\ window' \in [Window -> [stage : {"new", "open", "closed"}, after : Nat,
                                   scripts : SUBSET Script, match : [Script -> Evidence]]]
        /\ \A w \in Window :
             /\ window'[w].stage = window[w].stage /\ window'[w].after = window[w].after
             /\ window'[w].scripts = window[w].scripts
             /\ \A s \in Script :
                  window'[w].match[s] =
                    IF Qualifies(w, c.serial) /\ ItemScript[c.item] \in window[w].scripts /\ s = ItemScript[c.item]
                    THEN Matched(window[w].match[s], c.item, h) ELSE window[w].match[s]
    BY <2>1, <2>2, Retained
  <2>7. ReportTypes'
    BY <1>1, <2>1, <2>2, <2>3, <2>6 DEF ReportTypes, Reports
  <2>8. WaitsOnce'
    BY <1>1, <2>3, <2>5 DEF WaitsOnce, ReportTypes, Candidates
  <2>9. ClaimsHeld'
    <3> SUFFICES ASSUME NEW g \in Hello, hello'[g].stage = "claimed"
                 PROVE  /\ hello'[g].item \in Item
                        /\ \/ reports'[hello'[g].item].by = g
                           \/ reports'[hello'[g].item] = NoReport /\ told'[hello'[g].item].ended
      BY DEF ClaimsHeld
    <3>1. CASE g = h
      BY <2>2, <2>4, <2>5, <3>1
    <3>2. CASE g # h
      <4>1. hello'[g] = hello[g] /\ hello[g].item \in Item
        BY <2>4, <3>2 DEF ClaimsHeld
      <4>2. CASE hello[g].item = c.item
        <5>1. reports[c.item].by = Nobody /\ ~told[c.item].ended /\ g # Nobody
          BY <2>2, Commands DEF WaitsOnce, NoReport
        <5> QED
          BY <4>1, <4>2, <5>1 DEF ClaimsHeld
      <4>3. CASE hello[g].item # c.item
        BY <1>1, <2>5, <4>1, <4>3 DEF ClaimsHeld
      <4> QED
        BY <4>2, <4>3
    <3> QED
      BY <3>1, <3>2
  <2>10. WindowsSee'
    BY <1>1, <2>3, <2>6 DEF WindowsSee
  <2>11. ASSUME NEW w \in Window, NEW s \in Script
         PROVE  window'[w].match[s].by \in {window[w].match[s].by, h} /\ window[w].match[s] \in Evidence
    <3>1. window[w].match[s] \in Evidence
      BY DEF ReportTypes
    <3> QED
      BY <2>2, <2>6, <3>1, MatchedIs
  <2>12. HelpersClaimed'
    BY <2>4, <2>11 DEF HelpersClaimed, Evidence
  <2>13. SoleEvidence'
    <3> SUFFICES ASSUME NEW w \in Window, window'[w].stage = "open", NEW s \in window'[w].scripts,
                        ~window'[w].match[s].ambiguous
                 PROVE  /\ {j \in since'[w] : ItemScript[j] = s} = {window'[w].match[s].item} \ {Nobody}
                        /\ window'[w].match[s].by # Nobody =>
                             hello'[window'[w].match[s].by].item = window'[w].match[s].item
                        /\ \A v \in Window \ {w} : window'[v].stage = "open" => s \notin window'[v].scripts
      BY DEF SoleEvidence
    <3> DEFINE m == window[w].match[s]
    <3>1. window[w].stage = "open" /\ s \in window[w].scripts /\ s \in Script /\ m \in Evidence
      BY <2>6, <2>11 DEF ReportTypes
    <3>2. ~m.ambiguous
      BY <2>2, <2>6, <3>1, MatchedIs
    <3>3. /\ {j \in since[w] : ItemScript[j] = s} = {m.item} \ {Nobody}
          /\ m.by # Nobody => hello[m.by].item = m.item
          /\ \A v \in Window \ {w} : window[v].stage = "open" => s \notin window[v].scripts
      BY <3>1, <3>2 DEF SoleEvidence
    <3>4. CASE Qualifies(w, c.serial) /\ ItemScript[c.item] = s
      <4>1. window'[w].match[s] = Matched(m, c.item, h)
        BY <2>6, <3>1, <3>4
      <4>2. window'[w].match[s].item = c.item /\ window'[w].match[s].by = h
        BY <2>2, <3>1, <4>1, MatchedIs
      <4>3. c.item \in since[w]
        BY <2>2, <3>4 DEF WindowsSee, Qualifies
      <4>4. m.item = c.item
        BY <3>3, <3>4, <4>3
      <4> QED
        BY <1>1, <2>4, <2>6, <3>3, <4>2, <4>4
    <3>5. CASE ~(Qualifies(w, c.serial) /\ ItemScript[c.item] = s)
      <4>1. window'[w].match[s] = m
        BY <2>6, <3>1, <3>5
      <4>2. m.by # Nobody => m.by \in Hello /\ m.by # h
        BY <1>1, <3>1 DEF HelpersClaimed, Evidence
      <4> QED
        BY <1>1, <2>4, <2>6, <3>3, <4>1, <4>2
    <3> QED
      BY <3>4, <3>5
  <2> QED
    BY <2>7, <2>8, <2>9, <2>10, <2>12, <2>13
<1> QED
  BY <1>2, <1>3

(* A window that opens has seen nothing, and shares no unambiguous script. *)
LEMMA SubscribeKept ==
    ASSUME ReportInv, NEW w \in Window, NEW scripts \in SUBSET Script, NEW twice \in SUBSET Script,
           Subscribe(w, scripts, twice)
    PROVE  ReportInv'
<1> USE DEF ReportInv
<1> DEFINE open == {v \in Window : window[v].stage = "open"}
           Shared(s) == \E v \in open : s \in window[v].scripts
<1>1. window[w].stage = "new" /\ UNCHANGED <<started, reports, sequence, told, hello, since>>
  BY DEF Subscribe
<1>2. window'[w] = [stage |-> "open", after |-> sequence, scripts |-> scripts,
                    match |-> [s \in Script |-> [NoMatch EXCEPT !.ambiguous =
                                                   s \in scripts /\ (s \in twice \/ Shared(s))]]]
  BY DEF Subscribe
<1>3. ASSUME NEW s \in Script
      PROVE  /\ window'[w].match[s] \in Evidence /\ window'[w].match[s].item = Nobody
             /\ window'[w].match[s].by = Nobody
             /\ window'[w].match[s].ambiguous = (s \in scripts /\ (s \in twice \/ Shared(s)))
  <2> DEFINE shared == s \in scripts /\ (s \in twice \/ Shared(s))
  <2>1. window'[w].match[s] = [NoMatch EXCEPT !.ambiguous = shared]
    BY <1>2
  <2>2. shared \in BOOLEAN
    OBVIOUS
  <2> HIDE DEF shared
  <2>3. ASSUME NEW b \in BOOLEAN
        PROVE  /\ [NoMatch EXCEPT !.ambiguous = b] \in Evidence
               /\ [NoMatch EXCEPT !.ambiguous = b].item = Nobody
               /\ [NoMatch EXCEPT !.ambiguous = b].by = Nobody
               /\ [NoMatch EXCEPT !.ambiguous = b].ambiguous = b
    BY DEF NoMatch, Evidence
  <2>4. /\ window'[w].match[s] \in Evidence /\ window'[w].match[s].item = Nobody
        /\ window'[w].match[s].by = Nobody /\ window'[w].match[s].ambiguous = shared
    BY <2>1, <2>2, <2>3
  <2> QED
    BY <2>4 DEF shared
<1>4. ASSUME NEW v \in Window, v # w
      PROVE  window'[v] = [window[v] EXCEPT !.match = [s \in Script |->
                 IF v \in open /\ s \in scripts \cap window[v].scripts
                 THEN [@[s] EXCEPT !.ambiguous = TRUE] ELSE @[s]]]
  BY <1>4 DEF Subscribe
<1>5. ASSUME NEW v \in Window, v # w
      PROVE  /\ window'[v].stage = window[v].stage /\ window'[v].after = window[v].after
             /\ window'[v].scripts = window[v].scripts
             /\ window'[v] \in [stage : {"new", "open", "closed"}, after : Nat,
                                scripts : SUBSET Script, match : [Script -> Evidence]]
             /\ \A s \in Script :
                  /\ window'[v].match[s].item = window[v].match[s].item
                  /\ window'[v].match[s].by = window[v].match[s].by
                  /\ window'[v].match[s].ambiguous =
                       (window[v].match[s].ambiguous \/ (v \in open /\ s \in scripts \cap window[v].scripts))
  <2>1. window[v] \in [stage : {"new", "open", "closed"}, after : Nat,
                       scripts : SUBSET Script, match : [Script -> Evidence]]
    BY DEF ReportTypes
  <2> DEFINE next == [s \in Script |-> IF v \in open /\ s \in scripts \cap window[v].scripts
                                      THEN [window[v].match[s] EXCEPT !.ambiguous = TRUE]
                                      ELSE window[v].match[s]]
  <2>6. window'[v] = [window[v] EXCEPT !.match = next]
    BY <1>4, <1>5
  <2>2. \A s \in Script : next[s] =
          IF v \in open /\ s \in scripts \cap window[v].scripts
          THEN [window[v].match[s] EXCEPT !.ambiguous = TRUE] ELSE window[v].match[s]
    OBVIOUS
  <2>3. \A s \in Script : window[v].match[s] \in Evidence
    BY <2>1
  <2>4. \A s \in Script :
          /\ next[s] \in Evidence
          /\ next[s].item = window[v].match[s].item
          /\ next[s].by = window[v].match[s].by
          /\ next[s].ambiguous =
               (window[v].match[s].ambiguous \/ (v \in open /\ s \in scripts \cap window[v].scripts))
    BY <2>2, <2>3 DEF Evidence
  <2>7. next \in [Script -> Evidence]
    BY <2>4
  <2> HIDE DEF next
  <2>5. /\ window'[v].stage = window[v].stage /\ window'[v].after = window[v].after
        /\ window'[v].scripts = window[v].scripts
        /\ window'[v].match = next
        /\ window'[v] \in [stage : {"new", "open", "closed"}, after : Nat,
                           scripts : SUBSET Script, match : [Script -> Evidence]]
    BY <2>1, <2>6, <2>7
  <2> QED
    BY <2>4, <2>5
<1>6. ReportTypes'
  <2>1. window' \in [Window -> [stage : {"new", "open", "closed"}, after : Nat,
                                scripts : SUBSET Script, match : [Script -> Evidence]]]
    <3>1. window'[w] \in [stage : {"new", "open", "closed"}, after : Nat,
                          scripts : SUBSET Script, match : [Script -> Evidence]]
      BY <1>2, <1>3 DEF ReportTypes
    <3>2. window' = [v \in Window |-> window'[v]]
      BY DEF Subscribe
    <3> QED
      BY <1>5, <3>1, <3>2
  <2> QED
    BY <1>1, <2>1 DEF ReportTypes
<1>7. WaitsOnce' /\ ClaimsHeld'
  BY <1>1 DEF WaitsOnce, ClaimsHeld
<1>8. WindowsSee'
  <2>1. \A c \in started : c.serial <= sequence /\ ~(c.serial > sequence)
    BY DEF WindowsSee, ReportTypes, Candidates
  <2>2. sequence <= sequence
    BY DEF ReportTypes
  <2> QED
    BY <1>1, <1>2, <1>5, <2>1, <2>2 DEF WindowsSee
<1>9. HelpersClaimed'
  BY <1>1, <1>3, <1>5 DEF HelpersClaimed
<1>10. SoleEvidence'
  <2> SUFFICES ASSUME NEW v \in Window, window'[v].stage = "open", NEW s \in window'[v].scripts,
                      ~window'[v].match[s].ambiguous
               PROVE  /\ {j \in since'[v] : ItemScript[j] = s} = {window'[v].match[s].item} \ {Nobody}
                      /\ window'[v].match[s].by # Nobody =>
                           hello'[window'[v].match[s].by].item = window'[v].match[s].item
                      /\ \A u \in Window \ {v} : window'[u].stage = "open" => s \notin window'[u].scripts
    BY DEF SoleEvidence
  <2>1. s \in Script
    BY <1>6 DEF ReportTypes
  <2>2. CASE v = w
    <3>1. since'[v] = {} /\ s \in scripts
      BY <1>1, <1>2, <2>2 DEF WindowsSee
    <3>2. \A u \in Window \ {v} : window'[u].stage = "open" => s \notin window'[u].scripts
      BY <1>3, <1>5, <2>1, <2>2, <3>1
    <3> QED
      BY <1>3, <2>1, <2>2, <3>1, <3>2
  <2>3. CASE v # w
    <3>1. /\ window[v].stage = "open" /\ s \in window[v].scripts
          /\ ~window[v].match[s].ambiguous /\ s \notin scripts
      BY <1>5, <2>1, <2>3
    <3>2. s \notin window'[w].scripts
      BY <1>2, <3>1
    <3> QED
      BY <1>1, <1>5, <2>1, <2>3, <3>1, <3>2 DEF SoleEvidence
  <2> QED
    BY <2>2, <2>3
<1> QED
  BY <1>6, <1>7, <1>8, <1>9, <1>10


(* The end of an item changes what windows know of its completion only.    *)
LEMMA CompletedKept ==
    ASSUME ReportInv, NEW i \in Item, Completed(i)
    PROVE  ReportInv'
<1> USE DEF ReportInv
<1>1. told' = [told EXCEPT ![i].ended = TRUE] /\ UNCHANGED <<sequence, hello, since>>
  BY DEF Completed
<1>2. /\ told' \in [Item -> [starts : Nat, ended : BOOLEAN]]
      /\ \A j \in Item : told'[j].ended = (j = i \/ told[j].ended)
  <2>1. told'[i] = [told[i] EXCEPT !.ended = TRUE] /\ told[i] \in [starts : Nat, ended : BOOLEAN]
    BY <1>1 DEF ReportTypes
  <2>2. told'[i] \in [starts : Nat, ended : BOOLEAN] /\ told'[i].ended
    BY <2>1
  <2>3. \A j \in Item : j # i => told'[j] = told[j]
    BY <1>1 DEF ReportTypes
  <2>4. \A j \in Item : told'[j].ended = (j = i \/ told[j].ended)
    BY <2>2, <2>3 DEF ReportTypes
  <2>5. told' = [j \in Item |-> told'[j]]
    BY <1>1 DEF ReportTypes
  <2> QED
    BY <2>2, <2>3, <2>4, <2>5 DEF ReportTypes
<1>3. /\ started' \subseteq started /\ \A c \in started' : c.item # i
      /\ reports' \in [Item -> Reports] /\ \A j \in Item : reports'[j] = reports[j]
  <2>1. CASE reports[i] = NoReport
    <3>1. started' = {c \in started : c.item # i} /\ reports' = [reports EXCEPT ![i] = NoReport]
      BY <2>1 DEF Completed, Forgotten
    <3> QED
      BY <2>1, <3>1 DEF ReportTypes
  <2>2. CASE reports[i] # NoReport
    <3>1. UNCHANGED <<started, reports>>
      BY <2>2 DEF Completed
    <3> QED
      BY <2>2, <3>1 DEF ReportTypes, WaitsOnce
  <2> QED
    BY <2>1, <2>2
<1>4. ASSUME NEW v \in Window
      PROVE  /\ window'[v].stage = window[v].stage /\ window'[v].after = window[v].after
             /\ window'[v].scripts = window[v].scripts
             /\ window'[v] \in [stage : {"new", "open", "closed"}, after : Nat,
                                scripts : SUBSET Script, match : [Script -> Evidence]]
             /\ \A s \in Script :
                  /\ window'[v].match[s].item = window[v].match[s].item
                  /\ window'[v].match[s].by = window[v].match[s].by
                  /\ window'[v].match[s].ambiguous = window[v].match[s].ambiguous
  <2> DEFINE next == [s \in Script |-> IF window[v].match[s].item = i
                                      THEN [window[v].match[s] EXCEPT !.completed = TRUE]
                                      ELSE window[v].match[s]]
  <2>1. window[v] \in [stage : {"new", "open", "closed"}, after : Nat,
                       scripts : SUBSET Script, match : [Script -> Evidence]]
    BY DEF ReportTypes
  <2>2. window'[v] = IF window[v].stage # "open" THEN window[v] ELSE [window[v] EXCEPT !.match = next]
    BY DEF Completed
  <2>3. \A s \in Script : window[v].match[s] \in Evidence
    BY <2>1
  <2>4. \A s \in Script :
          /\ next[s] \in Evidence /\ next[s].item = window[v].match[s].item
          /\ next[s].by = window[v].match[s].by
          /\ next[s].ambiguous = window[v].match[s].ambiguous
    BY <2>3 DEF Evidence
  <2>5. next \in [Script -> Evidence]
    BY <2>4
  <2> HIDE DEF next
  <2>6. CASE window[v].stage # "open"
    BY <2>1, <2>2, <2>6
  <2>7. CASE window[v].stage = "open"
    <3>1. window'[v] = [window[v] EXCEPT !.match = next]
      BY <2>2, <2>7
    <3>2. /\ window'[v].stage = window[v].stage /\ window'[v].after = window[v].after
          /\ window'[v].scripts = window[v].scripts /\ window'[v].match = next
          /\ window'[v] \in [stage : {"new", "open", "closed"}, after : Nat,
                             scripts : SUBSET Script, match : [Script -> Evidence]]
      BY <2>1, <2>5, <3>1
    <3> QED
      BY <2>4, <3>2
  <2> QED
    BY <2>6, <2>7
<1>5. ReportTypes'
  <2>1. window' = [v \in Window |-> window'[v]]
    BY DEF Completed
  <2>2. window' \in [Window -> [stage : {"new", "open", "closed"}, after : Nat,
                                scripts : SUBSET Script, match : [Script -> Evidence]]]
    BY <1>4, <2>1
  <2> QED
    BY <1>1, <1>2, <1>3, <2>2 DEF ReportTypes
<1>6. WaitsOnce' /\ ClaimsHeld'
  BY <1>1, <1>2, <1>3 DEF WaitsOnce, ClaimsHeld, ReportTypes, Candidates
<1>7. WindowsSee' /\ HelpersClaimed'
  BY <1>1, <1>3, <1>4 DEF WindowsSee, HelpersClaimed
<1>8. SoleEvidence'
  <2>1. \A v \in Window : \A s \in window[v].scripts : s \in Script
    BY DEF ReportTypes
  <2> QED
    BY <1>1, <1>4, <2>1 DEF SoleEvidence
<1> QED
  BY <1>5, <1>6, <1>7, <1>8

(* Letting go of an item disturbs no window, and only the claim on it.     *)
LEMMA ForgottenKept ==
    ASSUME ReportInv, NEW i \in Item, Forgotten(i), UNCHANGED <<sequence, told, window, since>>,
           hello' \in [Hello -> [stage : {"new", "claimed", "declined", "aborted", "ended"},
                                 item : Item \cup {Nobody}]],
           \A h \in Hello : /\ hello'[h].item = hello[h].item
                            /\ hello'[h].stage = "new" <=> hello[h].stage = "new"
                            /\ hello'[h].stage = "claimed" => hello[h].stage = "claimed",
           \A h \in Hello : hello'[h].stage = "claimed" /\ hello[h].item = i => told[i].ended
    PROVE  ReportInv'
<1> USE DEF ReportInv
<1>1. started' = {c \in started : c.item # i} /\ reports' = [reports EXCEPT ![i] = NoReport]
  BY DEF Forgotten
<1>2. \A j \in Item : reports'[j] = IF j = i THEN NoReport ELSE reports[j]
  BY <1>1 DEF ReportTypes
<1>3. ReportTypes'
  BY <1>1 DEF ReportTypes, Reports, NoReport
<1>4. WaitsOnce'
  BY <1>1, <1>2 DEF WaitsOnce, ReportTypes, Candidates
<1>5. ClaimsHeld'
  BY <1>2 DEF ClaimsHeld
<1>6. WindowsSee' /\ HelpersClaimed'
  BY <1>1 DEF WindowsSee, HelpersClaimed, ReportTypes, Evidence
<1>7. SoleEvidence'
  <2>1. \A v \in Window : \A s \in window[v].scripts : s \in Script /\ window[v].match[s] \in Evidence
    BY DEF ReportTypes
  <2> QED
    BY <2>1 DEF SoleEvidence, Evidence
<1> QED
  BY <1>3, <1>4, <1>5, <1>6, <1>7

(* Presentation lets go of an item whose end it has shown.                 *)
LEMMA SettleKept ==
    ASSUME ReportInv, NEW i \in Item, Settle(i)
    PROVE  ReportInv'
<1>1. told[i].ended /\ Forgotten(i) /\ UNCHANGED <<sequence, told, hello, window, since>>
  BY DEF Settle
<1> QED
  BY <1>1, ForgottenKept DEF ReportInv, ReportTypes

(* A helper gives up, or its report ends: nothing else is touched.         *)
LEMMA HelperKept ==
    ASSUME ReportInv, NEW h \in Hello, TimeOut(h) \/ EndStream(h)
    PROVE  ReportInv'
<1> USE DEF ReportInv
<1>1. UNCHANGED <<started, reports, sequence, told, window, since>>
  BY DEF TimeOut, EndStream
<1>2. \/ hello[h].stage = "new" /\ hello' = [hello EXCEPT ![h].stage = "declined"]
      \/ hello[h].stage = "claimed" /\ hello' = [hello EXCEPT ![h].stage = "ended"]
  BY DEF TimeOut, EndStream
<1>3. /\ hello' \in [Hello -> [stage : {"new", "claimed", "declined", "aborted", "ended"},
                               item : Item \cup {Nobody}]]
      /\ \A g \in Hello : /\ hello'[g].item = hello[g].item
                          /\ hello'[g].stage = "claimed" => hello[g].stage = "claimed"
                          /\ hello'[g].stage = "new" => hello[g].stage = "new"
  BY <1>2 DEF ReportTypes
<1>4. ReportTypes' /\ WaitsOnce' /\ WindowsSee'
  BY <1>1, <1>3 DEF ReportTypes, WaitsOnce, WindowsSee
<1>5. ClaimsHeld'
  BY <1>1, <1>3 DEF ClaimsHeld
<1>6. \A w \in Window : \A s \in Script : window[w].match[s] \in Evidence
  BY DEF ReportTypes
<1>7. HelpersClaimed'
  BY <1>1, <1>3, <1>6 DEF HelpersClaimed, Evidence
<1>8. SoleEvidence'
  <2>1. \A w \in Window : window[w].scripts \subseteq Script
    BY DEF ReportTypes
  <2> QED
    BY <1>1, <1>3, <1>6, <2>1 DEF SoleEvidence, Evidence
<1> QED
  BY <1>4, <1>5, <1>7, <1>8

(* A live claim is the only one on its item that is not settled.           *)
LEMMA ClaimsOwned == ReportInv => OwnWithdrawn
<1> SUFFICES ASSUME ReportInv, NEW h \in Hello, hello[h].stage = "claimed",
                    reports[hello[h].item].by \notin {h, Nobody}
             PROVE  FALSE
  BY DEF OwnWithdrawn
<1> QED
  BY DEF ReportInv, ClaimsHeld, NoReport


(* The withdrawn claim is the helper's own, unless the item was settled.   *)
LEMMA AbortKept ==
    ASSUME ReportInv, NEW h \in Hello, Abort(h)
    PROVE  ReportInv'
<1> DEFINE i == hello[h].item
<1>1. /\ hello[h].stage = "claimed" /\ hello' = [hello EXCEPT ![h].stage = "aborted"]
      /\ Forgotten(i) /\ UNCHANGED <<sequence, told, window, since>>
  BY DEF Abort
<1>2. hello \in [Hello -> [stage : {"new", "claimed", "declined", "aborted", "ended"},
                           item : Item \cup {Nobody}]] /\ i \in Item
  BY <1>1 DEF ReportInv, ReportTypes, ClaimsHeld
<1>3. /\ hello' \in [Hello -> [stage : {"new", "claimed", "declined", "aborted", "ended"},
                               item : Item \cup {Nobody}]]
      /\ \A g \in Hello : /\ hello'[g].item = hello[g].item
                          /\ hello'[g].stage = "new" <=> hello[g].stage = "new"
                          /\ hello'[g].stage = "claimed" => hello[g].stage = "claimed" /\ g # h
  BY <1>1, <1>2
<1>4. \A g \in Hello : hello'[g].stage = "claimed" /\ hello[g].item = i => told[i].ended
  BY <1>1, <1>3 DEF ReportInv, ClaimsHeld
<1> QED
  BY <1>1, <1>2, <1>3, <1>4, ForgottenKept

(* A window that closes keeps its evidence; the others lose a rival.       *)
LEMMA CloseKept ==
    ASSUME ReportInv, NEW w \in Window, CloseWindow(w)
    PROVE  ReportInv'
<1> USE DEF ReportInv
<1>1. window' = [window EXCEPT ![w].stage = "closed"] /\ UNCHANGED <<started, reports, sequence, told, hello, since>>
  BY DEF CloseWindow
<1>2. ReportTypes'
  BY <1>1 DEF ReportTypes
<1>3. \A v \in Window :
        /\ window'[v].stage = (IF v = w THEN "closed" ELSE window[v].stage)
        /\ window'[v].after = window[v].after /\ window'[v].scripts = window[v].scripts
        /\ window'[v].match = window[v].match
  BY <1>1 DEF ReportTypes
<1>4. WaitsOnce' /\ ClaimsHeld' /\ WindowsSee' /\ HelpersClaimed'
  BY <1>1, <1>3 DEF WaitsOnce, ClaimsHeld, WindowsSee, HelpersClaimed
<1>5. SoleEvidence'
  BY <1>1, <1>3 DEF SoleEvidence
<1> QED
  BY <1>2, <1>4, <1>5

(* Every step of the observer keeps the invariant.                         *)
LEMMA ReportsStep == ReportInv /\ [ReportNext]_reportVars => ReportInv'
<1> SUFFICES ASSUME ReportInv, [ReportNext]_reportVars PROVE ReportInv'
  OBVIOUS
<1>1. ASSUME NEW i \in Item, Start(i) \/ Completed(i) \/ Settle(i) PROVE ReportInv'
  BY <1>1, StartKept, CompletedKept, SettleKept
<1>2. ASSUME NEW h \in Hello, Claim(h) \/ TimeOut(h) \/ Abort(h) \/ EndStream(h) PROVE ReportInv'
  BY <1>2, ClaimKept, HelperKept, AbortKept
<1>3. ASSUME NEW w \in Window, CloseWindow(w) PROVE ReportInv'
  BY <1>3, CloseKept
<1>4. ASSUME NEW w \in Window, NEW scripts \in SUBSET Script \ {{}}, NEW twice \in SUBSET Script,
             Subscribe(w, scripts, twice)
      PROVE  ReportInv'
  BY <1>4, SubscribeKept
<1>5. CASE UNCHANGED reportVars
  BY <1>5 DEF reportVars, ReportInv, ReportTypes, WaitsOnce, ClaimsHeld, WindowsSee,
              HelpersClaimed, SoleEvidence
<1> QED
  BY <1>1, <1>2, <1>3, <1>4, <1>5 DEF ReportNext

(* The invariant holds in every state.                                     *)
LEMMA ReportsAlways == ReportSpec => []ReportInv
<1> QED
  BY ReportsBegin, ReportsStep, PTL DEF ReportSpec

-----------------------------------------------------------------------------
(* Evidence a window does not call ambiguous is of the only item of its    *)
(* script that started while it was open, and names the helper that has    *)
(* claimed that very item (subscription.go, retain and Subscribe).         *)
THEOREM EvidenceSole == ReportSpec => []SoleEvidence
<1>1. ReportInv => SoleEvidence
  BY DEF ReportInv
<1> QED
  BY <1>1, ReportsAlways, PTL

(* A helper whose connection fails withdraws its own report and no other's, *)
(* though the withdrawal names only the item (observation.go, Abort).      *)
THEOREM WithdrawsOwn == ReportSpec => []OwnWithdrawn
<1> QED
  BY ClaimsOwned, ReportsAlways, PTL
=============================================================================
