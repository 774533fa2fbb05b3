--------------------------- MODULE ConsoleProofs ---------------------------
(***************************************************************************)
(* What the dashboard promises, for any number of workers, any mounted     *)
(* screens, any handlers and faults: TypeOK, ScreenCatchesUp,              *)
(* PageReadsForward and SecondRescueOnlyByRace of Console.                 *)
(*                                                                         *)
(* Consistent is the inductive invariant under all four: what a worker has *)
(* left is work of some handler, no screen is ahead of the tables, and the *)
(* manager's requests are accounted for, as commands, as workers that mark *)
(* an absence and as rescues.  A screen that catches up is told, reading,  *)
(* or shown (Announced) once every commit has been announced to it, and    *)
(* until then a worker has the event (NoneForgotten), for every ending     *)
(* announces what is not listed as unannounced (EndingsOf).  A page reads  *)
(* forward because the numbers of a commit are above every number read so  *)
(* far and a page reads the offers after the case.                         *)
(***************************************************************************)
EXTENDS Console, FiniteSetTheorems, SequenceTheorems, TLAPS

\* What a handler does in one step, and what a worker holds.
Effect == [tables : SUBSET Table, event : EventName \cup {"none"}]

WorkerRow == [left : Seq(Effect), kind : DOMAIN Effects \cup {"none"}, seen : Nat]

\* The number of the last commit of every table, or of what was read of it.
Numbers == [Table -> Nat]

\* A step is a commit, without an event, or an event.
LEMMA EffectKinds ==
  /\ \A tables \in SUBSET Table : Commits(tables) \in Effect /\ Commits(tables).event = "none"
                                  /\ Commits(tables).tables = tables
  /\ \A event \in EventName : Emits(event) \in Effect /\ Emits(event).event = event
BY DEF Commits, Emits, Effect, EventName

\* Every commit is a number that its tables did not have.
LEMMA WrittenIsNew ==
  ASSUME db \in Numbers, NEW tables
  PROVE  /\ Written(tables) \in Numbers
         /\ \A t \in Table : db[t] \in Nat /\ db[t] <= Written(tables)[t]
         /\ \A t \in Table : t \in tables => Written(tables)[t] = db[t] + 1
         /\ \A t \in Table : t \notin tables => Written(tables)[t] = db[t]
BY DEF Written, Numbers

-----------------------------------------------------------------------------
\* The endings.  A commit of a handler is in the list of Unannounced for a screen that
\* reads it, or the handler has an event for that screen after it.

TellsAfter(left, i, q) ==
  \E j \in i + 1 .. Len(left) : left[j].event # "none" /\ q \in Keys(left[j].event)

Kept(left, kind, i) ==
  left[i].event = "none" =>
    \A q \in Screens :
      (Reads(q) \cap left[i].tables # {} /\ ~ Unannounced(kind, left[i].tables, q)) => TellsAfter(left, i, q)

Promises(left, kind) == \A i \in 1 .. Len(left) : Kept(left, kind, i)

\* The events that invalidate every screen, and the others.
Broad == EventName \ {"MESSAGE_RECEIVED", "MESSAGE_SENT", "APPROVAL_REQUESTED", "APPROVAL_DECIDED"}

LEMMA ReadsIsTheUnion ==
  ASSUME NEW q \in Screens
  PROVE  /\ ReadOrder[q] \in Seq(SUBSET Table)
         /\ Len(ReadOrder[q]) \in Nat \ {0}
         /\ \A j \in 1 .. Len(ReadOrder[q]) : ReadOrder[q][j] \subseteq Reads(q)
         /\ \A t \in Reads(q) : \E j \in 1 .. Len(ReadOrder[q]) : t \in ReadOrder[q][j]
<1>1. /\ ListRescues \in Seq(SUBSET Table) /\ ListRescues # << >>
      /\ GetRescue \in Seq(SUBSET Table) /\ GetRescue # << >>
      /\ ListApprovals \in Seq(SUBSET Table) /\ ListApprovals # << >>
      /\ ListShifts \in Seq(SUBSET Table) /\ ListShifts # << >>
      /\ ListConversations \in Seq(SUBSET Table) /\ ListConversations # << >>
  BY DEF ListRescues, GetRescue, ListApprovals, ListShifts, ListConversations, Table
<1>2. ReadOrder[q] \in Seq(SUBSET Table) /\ ReadOrder[q] # << >>
  <2>1. q \in {"rescues", "rescue", "approvals", "shifts", "conversations"}
    BY KindsAssumption DEF Screen
  <2>2. QED BY <1>1, <2>1 DEF ReadOrder
<1>3. Len(ReadOrder[q]) \in Nat \ {0} /\ DOMAIN ReadOrder[q] = 1 .. Len(ReadOrder[q])
  BY <1>2, EmptySeq, LenProperties
<1>4. QED BY <1>2, <1>3 DEF Reads

LEMMA KeysOf ==
  /\ \A event \in Broad : event # "none" /\ Keys(event) = Screen
  /\ \A event \in {"APPROVAL_REQUESTED", "APPROVAL_DECIDED"} :
       event # "none" /\ Keys(event) = Screen \ {"conversations"}
  /\ \A event \in {"MESSAGE_RECEIVED", "MESSAGE_SENT"} : event # "none" /\ Keys(event) = {"conversations"}
BY DEF Broad, EventName, Keys, Screen

\* Messages are read by the conversations alone.
LEMMA MessagesAreConversations ==
  ASSUME NEW q \in Screens, "messages" \in Reads(q)
  PROVE  q = "conversations"
<1>1. q \in {"rescues", "rescue", "approvals", "shifts", "conversations"}
  BY KindsAssumption DEF Screen
<1>2. \E j \in 1 .. Len(ReadOrder[q]) : "messages" \in ReadOrder[q][j]
  BY ReadsIsTheUnion
<1>3. /\ ReadOrder["rescues"] = ListRescues /\ ReadOrder["rescue"] = GetRescue
      /\ ReadOrder["approvals"] = ListApprovals /\ ReadOrder["shifts"] = ListShifts
  BY DEF ReadOrder
<1>4. \A j \in 1 .. Len(ListRescues) : "messages" \notin ListRescues[j]
  BY DEF ListRescues
<1>5. \A j \in 1 .. Len(GetRescue) : "messages" \notin GetRescue[j]
  BY DEF GetRescue
<1>6. \A j \in 1 .. Len(ListApprovals) : "messages" \notin ListApprovals[j]
  BY DEF ListApprovals
<1>7. \A j \in 1 .. Len(ListShifts) : "messages" \notin ListShifts[j]
  BY DEF ListShifts
<1>8. QED BY <1>1, <1>2, <1>3, <1>4, <1>5, <1>6, <1>7

\* An effect that leaves nobody behind by itself, and one that tells all who must be told
\* of an earlier one.
Fine(a, kind) == a.event # "none" \/ \A q \in Screens : Unannounced(kind, a.tables, q)

Covers(b, a, kind) ==
  \/ b.event \in Broad
  \/ b.event \in {"MESSAGE_RECEIVED", "MESSAGE_SENT"} /\ a.tables = {"messages"}
  \/ b.event \in {"APPROVAL_REQUESTED", "APPROVAL_DECIDED"} /\ kind \in {"request", "late_acceptance", "reject"}

LEMMA ReasonsToKeep ==
  ASSUME NEW left, NEW kind, NEW i
  PROVE  /\ Fine(left[i], kind) => Kept(left, kind, i)
         /\ \A j \in i + 1 .. Len(left) : Covers(left[j], left[i], kind) => Kept(left, kind, i)
<1>1. Screens \subseteq Screen
  BY KindsAssumption
<1>2. Fine(left[i], kind) => Kept(left, kind, i)
  BY DEF Fine, Kept
<1>3. ASSUME NEW j \in i + 1 .. Len(left), left[j].event \in Broad PROVE Kept(left, kind, i)
  BY <1>1, <1>3, KeysOf DEF Kept, TellsAfter
<1>4. ASSUME left[i].tables = {"messages"},
             NEW j \in i + 1 .. Len(left), left[j].event \in {"MESSAGE_RECEIVED", "MESSAGE_SENT"}
      PROVE  Kept(left, kind, i)
  <2>1. \A q \in Screens : Reads(q) \cap left[i].tables # {} => q = "conversations"
    BY <1>4, MessagesAreConversations
  <2>2. left[j].event # "none" /\ "conversations" \in Keys(left[j].event)
    BY <1>4, KeysOf
  <2>3. QED BY <2>1, <2>2 DEF Kept, TellsAfter
<1>5. ASSUME kind \in {"request", "late_acceptance", "reject"},
             NEW j \in i + 1 .. Len(left), left[j].event \in {"APPROVAL_REQUESTED", "APPROVAL_DECIDED"}
      PROVE  Kept(left, kind, i)
  <2>1. \A q \in Screens : ~ Unannounced(kind, left[i].tables, q) => q # "conversations"
    BY <1>5 DEF Unannounced
  <2>2. left[j].event # "none" /\ \A q \in Screens : q # "conversations" => q \in Keys(left[j].event)
    BY <1>1, <1>5, KeysOf
  <2>3. QED BY <2>1, <2>2 DEF Kept, TellsAfter
<1>6. QED BY <1>2, <1>3, <1>4, <1>5 DEF Covers

Ending(left, kind) == left \in Seq(Effect) /\ left # << >> /\ Promises(left, kind)

LEMMA OneEffect ==
  ASSUME NEW kind, NEW a \in Effect,
         Fine(a, kind)
  PROVE  Ending(<<a>>, kind)
<1>. DEFINE left == <<a>>
<1>1. left \in Seq(Effect) /\ left # << >> /\ Len(left) = 1 /\ left[1] = a
  OBVIOUS
<1>. HIDE DEF left
<1>2. Kept(left, kind, 1)
  BY <1>1, ReasonsToKeep
<1>3. QED BY <1>1, <1>2 DEF Ending, Promises, left

LEMMA TwoEffects ==
  ASSUME NEW kind, NEW a \in Effect, NEW b \in Effect,
         Fine(a, kind) \/ Covers(b, a, kind),
         Fine(b, kind)
  PROVE  Ending(<<a, b>>, kind)
<1>. DEFINE left == <<a, b>>
<1>1. left \in Seq(Effect) /\ left # << >> /\ Len(left) = 2 /\ left[1] = a /\ left[2] = b
  OBVIOUS
<1>. HIDE DEF left
<1>2. Kept(left, kind, 1)
  BY <1>1, ReasonsToKeep
<1>3. Kept(left, kind, 2)
  BY <1>1, ReasonsToKeep
<1>4. QED BY <1>1, <1>2, <1>3 DEF Ending, Promises, left

LEMMA ThreeEffects ==
  ASSUME NEW kind, NEW a \in Effect, NEW b \in Effect, NEW c \in Effect,
         Fine(a, kind) \/ Covers(b, a, kind) \/ Covers(c, a, kind),
         Fine(b, kind) \/ Covers(c, b, kind),
         Fine(c, kind)
  PROVE  Ending(<<a, b, c>>, kind)
<1>. DEFINE left == <<a, b, c>>
<1>1. left \in Seq(Effect) /\ left # << >> /\ Len(left) = 3
      /\ left[1] = a /\ left[2] = b /\ left[3] = c
  OBVIOUS
<1>. HIDE DEF left
<1>2. Kept(left, kind, 1)
  BY <1>1, ReasonsToKeep
<1>3. Kept(left, kind, 2)
  BY <1>1, ReasonsToKeep
<1>4. Kept(left, kind, 3)
  BY <1>1, ReasonsToKeep
<1>5. QED BY <1>1, <1>2, <1>3, <1>4 DEF Ending, Promises, left

LEMMA FourEffects ==
  ASSUME NEW kind, NEW a \in Effect, NEW b \in Effect, NEW c \in Effect, NEW d \in Effect,
         Fine(a, kind) \/ Covers(b, a, kind) \/ Covers(c, a, kind) \/ Covers(d, a, kind),
         Fine(b, kind) \/ Covers(c, b, kind) \/ Covers(d, b, kind),
         Fine(c, kind) \/ Covers(d, c, kind),
         Fine(d, kind)
  PROVE  Ending(<<a, b, c, d>>, kind)
<1>. DEFINE left == <<a, b, c, d>>
<1>1. left \in Seq(Effect) /\ left # << >> /\ Len(left) = 4
      /\ left[1] = a /\ left[2] = b /\ left[3] = c /\ left[4] = d
  OBVIOUS
<1>. HIDE DEF left
<1>2. Kept(left, kind, 1)
  BY <1>1, ReasonsToKeep
<1>3. Kept(left, kind, 2)
  BY <1>1, ReasonsToKeep
<1>4. Kept(left, kind, 3)
  BY <1>1, ReasonsToKeep
<1>5. Kept(left, kind, 4)
  BY <1>1, ReasonsToKeep
<1>6. QED BY <1>1, <1>2, <1>3, <1>4, <1>5 DEF Ending, Promises, left

LEMMA FiveEffects ==
  ASSUME NEW kind, NEW a \in Effect, NEW b \in Effect, NEW c \in Effect, NEW d \in Effect, NEW e \in Effect,
         Fine(a, kind) \/ Covers(b, a, kind) \/ Covers(c, a, kind) \/ Covers(d, a, kind) \/ Covers(e, a, kind),
         Fine(b, kind) \/ Covers(c, b, kind) \/ Covers(d, b, kind) \/ Covers(e, b, kind),
         Fine(c, kind) \/ Covers(d, c, kind) \/ Covers(e, c, kind),
         Fine(d, kind) \/ Covers(e, d, kind),
         Fine(e, kind)
  PROVE  Ending(<<a, b, c, d, e>>, kind)
<1>. DEFINE left == <<a, b, c, d, e>>
<1>1. left \in Seq(Effect) /\ left # << >> /\ Len(left) = 5
      /\ left[1] = a /\ left[2] = b /\ left[3] = c /\ left[4] = d /\ left[5] = e
  OBVIOUS
<1>. HIDE DEF left
<1>2. Kept(left, kind, 1)
  BY <1>1, ReasonsToKeep
<1>3. Kept(left, kind, 2)
  BY <1>1, ReasonsToKeep
<1>4. Kept(left, kind, 3)
  BY <1>1, ReasonsToKeep
<1>5. Kept(left, kind, 4)
  BY <1>1, ReasonsToKeep
<1>6. Kept(left, kind, 5)
  BY <1>1, ReasonsToKeep
<1>7. QED BY <1>1, <1>2, <1>3, <1>4, <1>5, <1>6 DEF Ending, Promises, left

LEMMA NamedCommits ==
  /\ \A c \in {Cases, Offers, Wave, Outcome, Requested, Decided, Shift, Message, Notice,
             Commits({"cases", "offers", "messages", "audit"})} : c \in Effect /\ c.event = "none"
  /\ Shift.tables = {"shifts"} /\ Message.tables = {"messages"} /\ Notice.tables = {"audit"}
  /\ \A c \in {Cases, Offers, Requested, Shift} : c.tables # {"messages"}
BY EffectKinds DEF Cases, Offers, Wave, Outcome, Requested, Decided, Shift, Message, Notice, Table

LEMMA NamedEvents ==
  /\ \A event \in EventName : Emits(event) \in Effect /\ \A kind : Fine(Emits(event), kind)
  /\ \A event \in Broad : event \in EventName /\ \A a, kind : Covers(Emits(event), a, kind)
  /\ Broad = {"RESCUE_OPENED", "OFFERS_SENT", "OFFER_ACCEPTED", "OFFER_DECLINED", "CASE_COVERED",
              "CASE_ESCALATED", "CASE_CLOSED"}
  /\ {"MESSAGE_RECEIVED", "MESSAGE_SENT", "APPROVAL_REQUESTED", "APPROVAL_DECIDED"} \subseteq EventName
<1>1. Broad = {"RESCUE_OPENED", "OFFERS_SENT", "OFFER_ACCEPTED", "OFFER_DECLINED", "CASE_COVERED",
               "CASE_ESCALATED", "CASE_CLOSED"}
      /\ {"MESSAGE_RECEIVED", "MESSAGE_SENT", "APPROVAL_REQUESTED", "APPROVAL_DECIDED"} \subseteq EventName
  BY DEF Broad, EventName
<1>2. \A event \in EventName : Emits(event).event = event /\ Emits(event) \in Effect /\ event # "none"
  BY EffectKinds DEF EventName
<1>3. Broad \subseteq EventName
  BY DEF Broad
<1>4. QED BY <1>1, <1>2, <1>3 DEF Fine, Covers

\* Every ending has something to do and leaves nobody behind but those that are listed.
LEMMA EndingsOf ==
  \A kind \in DOMAIN Effects : Ending(Effects[kind], kind)
<1>. DEFINE Does(kind) == Ending(Effects[kind], kind)
<1>1. Does("report")
  <2>1. Effects["report"] = <<Cases, Emits("RESCUE_OPENED"), Message, Emits("MESSAGE_SENT")>>
    BY DEF Effects
  <2>2. /\ Covers(Emits("RESCUE_OPENED"), Cases, "report")
        /\ Fine(Emits("RESCUE_OPENED"), "report")
        /\ Fine(Emits("MESSAGE_SENT"), "report")
    BY NamedEvents
  <2>3. Covers(Emits("MESSAGE_SENT"), Message, "report")
    BY NamedCommits, EffectKinds DEF Fine, Covers, Unannounced, EventName
  <2>4. Cases \in Effect /\ Emits("RESCUE_OPENED") \in Effect /\ Message \in Effect
        /\ Emits("MESSAGE_SENT") \in Effect
    BY NamedCommits, NamedEvents
  <2>5. QED BY <2>1, <2>2, <2>3, <2>4, FourEffects
<1>2. Does("report_unanswered")
  <2>1. Effects["report_unanswered"] = <<Cases, Emits("RESCUE_OPENED")>>
    BY DEF Effects
  <2>2. QED BY <2>1, TwoEffects, NamedCommits, NamedEvents
<1>3. Does("confirm")
  <2>1. Effects["confirm"] = <<Shift, Commits({"cases", "offers", "messages", "audit"}),
                               Emits("OFFERS_SENT")>>
    BY DEF Effects
  <2>2. QED BY <2>1, ThreeEffects, NamedCommits, NamedEvents
<1>4. Does("confirm_nobody")
  <2>1. Effects["confirm_nobody"] = <<Shift, Outcome, Emits("CASE_ESCALATED")>>
    BY DEF Effects
  <2>2. QED BY <2>1, ThreeEffects, NamedCommits, NamedEvents
<1>5. Does("confirm_deferred")
  <2>1. Effects["confirm_deferred"] = <<Shift, Cases>>
    BY DEF Effects
  <2>2. Fine(Shift, "confirm_deferred") /\ Fine(Cases, "confirm_deferred")
    BY NamedCommits, EffectKinds DEF Fine, Covers, Unannounced, EventName
  <2>3. QED BY <2>1, <2>2, TwoEffects, NamedCommits, NamedEvents
<1>6. Does("absence")
  <2>1. Effects["absence"] = <<Cases, Emits("RESCUE_OPENED"), Shift, Commits({"cases", "offers",
                               "messages", "audit"}), Emits("OFFERS_SENT")>>
    BY DEF Effects
  <2>2. /\ Covers(Emits("OFFERS_SENT"), Cases, "absence")
        /\ Fine(Emits("RESCUE_OPENED"), "absence")
        /\ Covers(Emits("OFFERS_SENT"), Shift, "absence")
        /\ Covers(Emits("OFFERS_SENT"), Commits({"cases", "offers", "messages", "audit"}), "absence")
        /\ Fine(Emits("OFFERS_SENT"), "absence")
    BY NamedEvents
  <2>3. Cases \in Effect /\ Emits("RESCUE_OPENED") \in Effect /\ Shift \in Effect
        /\ Commits({"cases", "offers", "messages", "audit"}) \in Effect /\ Emits("OFFERS_SENT") \in Effect
    BY NamedCommits, NamedEvents
  <2>4. QED BY <2>1, <2>2, <2>3, FiveEffects
<1>7. Does("absence_nobody")
  <2>1. Effects["absence_nobody"] = <<Cases, Emits("RESCUE_OPENED"), Shift, Outcome,
                                      Emits("CASE_ESCALATED")>>
    BY DEF Effects
  <2>2. /\ Covers(Emits("CASE_ESCALATED"), Cases, "absence_nobody")
        /\ Fine(Emits("RESCUE_OPENED"), "absence_nobody")
        /\ Covers(Emits("CASE_ESCALATED"), Shift, "absence_nobody")
        /\ Covers(Emits("CASE_ESCALATED"), Outcome, "absence_nobody")
        /\ Fine(Emits("CASE_ESCALATED"), "absence_nobody")
    BY NamedEvents
  <2>3. Cases \in Effect /\ Emits("RESCUE_OPENED") \in Effect /\ Shift \in Effect
        /\ Outcome \in Effect /\ Emits("CASE_ESCALATED") \in Effect
    BY NamedCommits, NamedEvents
  <2>4. QED BY <2>1, <2>2, <2>3, FiveEffects
<1>8. Does("absence_deferred")
  <2>1. Effects["absence_deferred"] = <<Cases, Emits("RESCUE_OPENED"), Shift, Cases>>
    BY DEF Effects
  <2>2. /\ Covers(Emits("RESCUE_OPENED"), Cases, "absence_deferred")
        /\ Fine(Emits("RESCUE_OPENED"), "absence_deferred")
    BY NamedEvents
  <2>3. Fine(Shift, "absence_deferred") /\ Fine(Cases, "absence_deferred")
    BY NamedCommits, EffectKinds DEF Fine, Covers, Unannounced, EventName
  <2>4. Cases \in Effect /\ Emits("RESCUE_OPENED") \in Effect /\ Shift \in Effect
    BY NamedCommits, NamedEvents
  <2>5. QED BY <2>1, <2>2, <2>3, <2>4, FourEffects
<1>9. Does("accept")
  <2>1. Effects["accept"] = <<Outcome, Emits("OFFER_ACCEPTED"), Emits("CASE_COVERED"), Shift>>
    BY DEF Effects
  <2>2. /\ Covers(Emits("CASE_COVERED"), Outcome, "accept")
        /\ Fine(Emits("OFFER_ACCEPTED"), "accept")
        /\ Fine(Emits("CASE_COVERED"), "accept")
    BY NamedEvents
  <2>3. Fine(Shift, "accept")
    BY NamedCommits, EffectKinds DEF Fine, Covers, Unannounced, EventName
  <2>4. Outcome \in Effect /\ Emits("OFFER_ACCEPTED") \in Effect
        /\ Emits("CASE_COVERED") \in Effect /\ Shift \in Effect
    BY NamedCommits, NamedEvents
  <2>5. QED BY <2>1, <2>2, <2>3, <2>4, FourEffects
<1>10. Does("failure")
  <2>1. Effects["failure"] = <<Outcome, Emits("OFFER_ACCEPTED"), Emits("CASE_COVERED"), Cases,
                               Emits("CASE_ESCALATED")>>
    BY DEF Effects
  <2>2. /\ Covers(Emits("CASE_ESCALATED"), Outcome, "failure")
        /\ Fine(Emits("OFFER_ACCEPTED"), "failure")
        /\ Fine(Emits("CASE_COVERED"), "failure")
        /\ Covers(Emits("CASE_ESCALATED"), Cases, "failure")
        /\ Fine(Emits("CASE_ESCALATED"), "failure")
    BY NamedEvents
  <2>3. Outcome \in Effect /\ Emits("OFFER_ACCEPTED") \in Effect
        /\ Emits("CASE_COVERED") \in Effect /\ Cases \in Effect /\ Emits("CASE_ESCALATED") \in Effect
    BY NamedCommits, NamedEvents
  <2>4. QED BY <2>1, <2>2, <2>3, FiveEffects
<1>11. Does("request")
  <2>1. Effects["request"] = <<Requested, Emits("APPROVAL_REQUESTED")>>
    BY DEF Effects
  <2>2. Covers(Emits("APPROVAL_REQUESTED"), Requested, "request")
    BY NamedCommits, EffectKinds DEF Fine, Covers, Unannounced, EventName
  <2>3. QED BY <2>1, <2>2, TwoEffects, NamedCommits, NamedEvents
<1>12. Does("late_acceptance")
  <2>1. Effects["late_acceptance"] = <<Requested, Emits("APPROVAL_REQUESTED"), Notice>>
    BY DEF Effects
  <2>2. Covers(Emits("APPROVAL_REQUESTED"), Requested, "late_acceptance") /\ Fine(Notice, "late_acceptance")
    BY NamedCommits, EffectKinds DEF Fine, Covers, Unannounced, EventName
  <2>3. QED BY <2>1, <2>2, ThreeEffects, NamedCommits, NamedEvents
<1>13. Does("close_out")
  <2>1. Effects["close_out"] = <<Offers, Message, Emits("MESSAGE_SENT")>>
    BY DEF Effects
  <2>2. Fine(Offers, "close_out") /\ Covers(Emits("MESSAGE_SENT"), Message, "close_out")
    BY NamedCommits, EffectKinds DEF Fine, Covers, Unannounced, EventName
  <2>3. QED BY <2>1, <2>2, ThreeEffects, NamedCommits, NamedEvents
<1>14. Does("close_out_unanswered")
  <2>1. Effects["close_out_unanswered"] = <<Offers>>
    BY DEF Effects
  <2>2. Fine(Offers, "close_out_unanswered")
    BY NamedCommits, EffectKinds DEF Fine, Covers, Unannounced, EventName
  <2>3. QED BY <2>1, <2>2, OneEffect, NamedCommits, NamedEvents
<1>15. Does("decline")
  <2>1. Effects["decline"] = <<Offers, Emits("OFFER_DECLINED")>>
    BY DEF Effects
  <2>2. QED BY <2>1, TwoEffects, NamedCommits, NamedEvents
<1>16. Does("withdraw")
  <2>1. Effects["withdraw"] = <<Cases, Shift, Wave, Emits("OFFERS_SENT")>>
    BY DEF Effects
  <2>2. /\ Covers(Emits("OFFERS_SENT"), Cases, "withdraw")
        /\ Covers(Emits("OFFERS_SENT"), Shift, "withdraw")
        /\ Covers(Emits("OFFERS_SENT"), Wave, "withdraw")
        /\ Fine(Emits("OFFERS_SENT"), "withdraw")
    BY NamedEvents
  <2>3. Cases \in Effect /\ Shift \in Effect /\ Wave \in Effect /\ Emits("OFFERS_SENT") \in Effect
    BY NamedCommits, NamedEvents
  <2>4. QED BY <2>1, <2>2, <2>3, FourEffects
<1>17. Does("withdraw_nobody")
  <2>1. Effects["withdraw_nobody"] = <<Cases, Shift, Notice, Emits("CASE_ESCALATED"), Notice>>
    BY DEF Effects
  <2>2. /\ Covers(Emits("CASE_ESCALATED"), Cases, "withdraw_nobody")
        /\ Covers(Emits("CASE_ESCALATED"), Shift, "withdraw_nobody")
        /\ Covers(Emits("CASE_ESCALATED"), Notice, "withdraw_nobody")
        /\ Fine(Emits("CASE_ESCALATED"), "withdraw_nobody")
    BY NamedEvents
  <2>3. Fine(Notice, "withdraw_nobody")
    BY NamedCommits, EffectKinds DEF Fine, Covers, Unannounced, EventName
  <2>4. Cases \in Effect /\ Shift \in Effect /\ Notice \in Effect
        /\ Emits("CASE_ESCALATED") \in Effect
    BY NamedCommits, NamedEvents
  <2>5. QED BY <2>1, <2>2, <2>3, <2>4, FiveEffects
<1>18. Does("withdraw_deferred")
  <2>1. Effects["withdraw_deferred"] = <<Cases, Shift, Offers>>
    BY DEF Effects
  <2>2. Fine(Cases, "withdraw_deferred") /\ Fine(Shift, "withdraw_deferred") /\ Fine(Offers, "withdraw_deferred")
    BY NamedCommits, EffectKinds DEF Fine, Covers, Unannounced, EventName
  <2>3. QED BY <2>1, <2>2, ThreeEffects, NamedCommits, NamedEvents
<1>19. Does("approve")
  <2>1. Effects["approve"] = <<Decided, Emits("APPROVAL_DECIDED"), Emits("CASE_COVERED"), Shift>>
    BY DEF Effects
  <2>2. /\ Covers(Emits("CASE_COVERED"), Decided, "approve")
        /\ Fine(Emits("APPROVAL_DECIDED"), "approve")
        /\ Fine(Emits("CASE_COVERED"), "approve")
    BY NamedEvents
  <2>3. Fine(Shift, "approve")
    BY NamedCommits, EffectKinds DEF Fine, Covers, Unannounced, EventName
  <2>4. Decided \in Effect /\ Emits("APPROVAL_DECIDED") \in Effect
        /\ Emits("CASE_COVERED") \in Effect /\ Shift \in Effect
    BY NamedCommits, NamedEvents
  <2>5. QED BY <2>1, <2>2, <2>3, <2>4, FourEffects
<1>20. Does("reject")
  <2>1. Effects["reject"] = <<Decided, Emits("APPROVAL_DECIDED")>>
    BY DEF Effects
  <2>2. Covers(Emits("APPROVAL_DECIDED"), Decided, "reject")
    BY NamedCommits, EffectKinds DEF Fine, Covers, Unannounced, EventName
  <2>3. QED BY <2>1, <2>2, TwoEffects, NamedCommits, NamedEvents
<1>21. Does("cancel")
  <2>1. Effects["cancel"] = <<Decided, Emits("APPROVAL_DECIDED"), Emits("CASE_CLOSED")>>
    BY DEF Effects
  <2>2. QED BY <2>1, ThreeEffects, NamedCommits, NamedEvents
<1>22. Does("wave")
  <2>1. Effects["wave"] = <<Wave, Emits("OFFERS_SENT")>>
    BY DEF Effects
  <2>2. QED BY <2>1, TwoEffects, NamedCommits, NamedEvents
<1>23. Does("wave_deferred")
  <2>1. Effects["wave_deferred"] = <<Offers>>
    BY DEF Effects
  <2>2. Fine(Offers, "wave_deferred")
    BY NamedCommits, EffectKinds DEF Fine, Covers, Unannounced, EventName
  <2>3. QED BY <2>1, <2>2, OneEffect, NamedCommits, NamedEvents
<1>24. Does("escalate")
  <2>1. Effects["escalate"] = <<Cases, Emits("CASE_ESCALATED"), Notice>>
    BY DEF Effects
  <2>2. Fine(Notice, "escalate")
    BY NamedCommits, EffectKinds DEF Fine, Covers, Unannounced, EventName
  <2>3. QED BY <2>1, <2>2, ThreeEffects, NamedCommits, NamedEvents
<1>25. Does("approval_timeout")
  <2>1. Effects["approval_timeout"] = <<Requested>>
    BY DEF Effects
  <2>2. Fine(Requested, "approval_timeout")
    BY NamedCommits, EffectKinds DEF Fine, Covers, Unannounced, EventName
  <2>3. QED BY <2>1, <2>2, OneEffect, NamedCommits, NamedEvents
<1>26. Does("close")
  <2>1. Effects["close"] = <<Outcome, Emits("CASE_CLOSED")>>
    BY DEF Effects
  <2>2. QED BY <2>1, TwoEffects, NamedCommits, NamedEvents
<1>27. Does("message")
  <2>1. Effects["message"] = <<Message, Emits("MESSAGE_RECEIVED"), Message, Emits("MESSAGE_SENT")>>
    BY DEF Effects
  <2>2. /\ Fine(Emits("MESSAGE_RECEIVED"), "message")
        /\ Fine(Emits("MESSAGE_SENT"), "message")
    BY NamedEvents
  <2>3. Covers(Emits("MESSAGE_SENT"), Message, "message")
    BY NamedCommits, EffectKinds DEF Fine, Covers, Unannounced, EventName
  <2>4. Message \in Effect /\ Emits("MESSAGE_RECEIVED") \in Effect
        /\ Emits("MESSAGE_SENT") \in Effect
    BY NamedCommits, NamedEvents
  <2>5. QED BY <2>1, <2>2, <2>3, <2>4, FourEffects
<1>28. Does("message_unanswered")
  <2>1. Effects["message_unanswered"] = <<Message, Emits("MESSAGE_RECEIVED")>>
    BY DEF Effects
  <2>2. Covers(Emits("MESSAGE_RECEIVED"), Message, "message_unanswered")
    BY NamedCommits, EffectKinds DEF Fine, Covers, Unannounced, EventName
  <2>3. QED BY <2>1, <2>2, TwoEffects, NamedCommits, NamedEvents
<1>29. DOMAIN Effects =
        {"report", "report_unanswered", "confirm", "confirm_nobody", "confirm_deferred",
         "absence", "absence_nobody", "absence_deferred", "accept", "failure", "request",
         "late_acceptance", "close_out", "close_out_unanswered", "decline", "withdraw",
         "withdraw_nobody", "withdraw_deferred", "approve", "reject", "cancel", "wave",
         "wave_deferred", "escalate", "approval_timeout", "close", "message",
         "message_unanswered"}
  BY DEF Effects
<1>30. \A kind \in DOMAIN Effects : Does(kind)
  <2>. HIDE DEF Does
  <2>. QED BY <1>1, <1>2, <1>3, <1>4, <1>5, <1>6, <1>7, <1>8, <1>9, <1>10, <1>11, <1>12, <1>13, <1>14,
              <1>15, <1>16, <1>17, <1>18, <1>19, <1>20, <1>21, <1>22, <1>23, <1>24, <1>25, <1>26, <1>27,
              <1>28, <1>29
<1>31. QED BY <1>30

LEMMA EffectsAreSequences ==
  \A kind \in DOMAIN Effects : Effects[kind] \in Seq(Effect) /\ Effects[kind] # << >>
BY EndingsOf DEF Ending

\* Marking an absence: the commit that opens the rescue comes first.
LEMMA MarkingOpensFirst ==
  \A kind \in Marks : /\ kind \in DOMAIN Effects
                      /\ Effects[kind] \in Seq(Effect)
                      /\ Len(Effects[kind]) \in Nat \ {0}
                      /\ Head(Effects[kind]).event = "none"
<1>1. Marks \subseteq DOMAIN Effects
  BY DEF Effects, Marks
<1>2. \A kind \in Marks : Head(Effects[kind]) = Cases
  BY DEF Effects, Marks
<1>3. QED BY <1>1, <1>2, EffectsAreSequences, NamedCommits, EmptySeq, LenProperties

-----------------------------------------------------------------------------
\* The inductive form of TypeOK: what the processes hold and what the tables hold, and the
\* account of the manager's requests.

ProcessesOK ==
  /\ worker \in [Workers -> WorkerRow]
  /\ \A w \in Workers : worker[w].left = << >> => worker[w] = Free
  /\ socket \in {"offline", "subscribed", "live"}
  /\ frames \in Seq(EventName)
  /\ socket = "offline" => frames = << >>

FetchRow == [next : Nat, got : Numbers]

NumbersOK ==
  /\ db \in Numbers
  /\ page \in [Screens -> Numbers]
  /\ fetch \in [Screens -> FetchRow]
  /\ \A q \in Screens : \A t \in Table : page[q][t] <= db[t] /\ fetch[q].got[t] <= db[t]

\* The workers that mark an absence, and those of them that have not opened the rescue yet.
Marking == {w \in Workers : worker[w].kind \in Marks}
Unopened == {w \in Marking : worker[w].left = Effects[worker[w].kind]}

\* Every request waits as a command or is being carried out; the ones that opened a rescue
\* and the ones that still may, taken together, are requests made.  A command that was
\* redelivered after its rescue had been opened finds it and opens nothing.
DeskOK ==
  /\ clicks \in Nat /\ commands \in Nat /\ rescues \in Nat
  /\ \A w \in Marking :
       /\ worker[w].left = Effects[worker[w].kind] \/ Len(worker[w].left) < Len(Effects[worker[w].kind])
       /\ rescues = 0 => worker[w].left = Effects[worker[w].kind]
  /\ commands + Cardinality(Marking) <= clicks
  /\ rescues + Cardinality(Unopened) + (IF rescues = 0 THEN commands ELSE 0) <= clicks

\* Who marks an absence saw no rescue when it looked, so the second rescue was a race.
LookedBefore ==
  /\ raced \in BOOLEAN
  /\ \A w \in Marking : worker[w].seen = 0
  /\ rescues > 1 => raced

Consistent == ProcessesOK /\ NumbersOK /\ DeskOK /\ LookedBefore
-----------------------------------------------------------------------------
LEMMA TailOfWork ==
  ASSUME NEW S, NEW s \in Seq(S), s # << >>
  PROVE  /\ Len(s) \in Nat \ {0} /\ Head(s) \in S /\ Tail(s) \in Seq(S)
         /\ Len(Tail(s)) = Len(s) - 1
         /\ Len(s) > 1 => Tail(s) # << >>
<1>1. Len(s) \in Nat \ {0} /\ Head(s) \in S /\ Tail(s) \in Seq(S) /\ Len(Tail(s)) = Len(s) - 1
  BY HeadTailProperties, EmptySeq
<1>2. ASSUME Tail(s) = << >> PROVE ~(Len(s) > 1)
  <2>1. Len(Tail(s)) = 0
    BY <1>2, EmptySeq
  <2>2. QED BY <2>1, <1>1
<1>3. QED BY <1>1, <1>2

LEMMA FreeIsARow == Free \in WorkerRow /\ Free.left = << >> /\ Free.kind \notin Marks /\ Free.seen = 0
BY EmptySeq DEF Free, WorkerRow, Marks

\* The head of the work of a busy worker is an effect, and what is left after it is work or
\* the end of it.
LEMMA BusyWorker ==
  ASSUME ProcessesOK, NEW w \in Workers, worker[w] # Free
  PROVE  /\ worker[w] \in WorkerRow
         /\ worker[w].left \in Seq(Effect) /\ worker[w].left # << >>
         /\ Head(worker[w].left) \in Effect
         /\ Len(worker[w].left) \in Nat \ {0}
         /\ Tail(worker[w].left) \in Seq(Effect)
         /\ Len(Tail(worker[w].left)) = Len(worker[w].left) - 1
<1>1. worker[w] \in WorkerRow /\ worker[w].left \in Seq(Effect) /\ worker[w].left # << >>
  BY DEF ProcessesOK, WorkerRow
<1>2. QED BY <1>1, TailOfWork

\* After an effect a worker is free or has one effect less, and nobody else has moved.
LEMMA AfterEffectMoves ==
  ASSUME ProcessesOK, NEW w \in Workers, worker[w] # Free, AfterEffect(w)
  PROVE  /\ worker' \in [Workers -> WorkerRow]
         /\ \A u \in Workers : worker'[u].left = << >> => worker'[u] = Free
         /\ \A u \in Workers \ {w} : worker'[u] = worker[u]
         /\ \/ worker'[w] = Free
            \/ /\ worker'[w].left = Tail(worker[w].left)
               /\ worker'[w].kind = worker[w].kind /\ worker'[w].seen = worker[w].seen
<1>1. worker \in [Workers -> WorkerRow]
  BY DEF ProcessesOK
<1>2. CASE Len(worker[w].left) = 1 /\ worker' = [worker EXCEPT ![w] = Free]
  BY <1>1, <1>2, FreeIsARow DEF ProcessesOK
<1>3. CASE Len(worker[w].left) > 1 /\ worker' = [worker EXCEPT ![w].left = Tail(@)]
  <2>1. /\ worker' = [u \in Workers |-> worker'[u]]
        /\ worker'[w] = [worker[w] EXCEPT !.left = Tail(worker[w].left)]
        /\ \A u \in Workers \ {w} : worker'[u] = worker[u]
    BY <1>1, <1>3
  <2>2. worker[w] \in WorkerRow /\ Tail(worker[w].left) \in Seq(Effect)
        /\ Tail(worker[w].left) # << >>
    BY <1>3, BusyWorker, TailOfWork
  <2>3. worker'[w] \in WorkerRow /\ worker'[w].left = Tail(worker[w].left)
        /\ worker'[w].kind = worker[w].kind /\ worker'[w].seen = worker[w].seen
    BY <2>1, <2>2 DEF WorkerRow
  <2>4. worker' \in [Workers -> WorkerRow]
    BY <1>1, <2>1, <2>3
  <2>5. QED BY <2>1, <2>2, <2>3, <2>4 DEF ProcessesOK
<1>4. QED BY <1>2, <1>3 DEF AfterEffect

-----------------------------------------------------------------------------
\* What most actions leave alone.

LEMMA MarkersAreFinite ==
  /\ IsFiniteSet(Marking) /\ Cardinality(Marking) \in Nat
  /\ IsFiniteSet(Unopened) /\ Cardinality(Unopened) \in Nat
<1>1. Marking \subseteq Workers /\ Unopened \subseteq Workers
  BY DEF Marking, Unopened
<1>2. QED BY <1>1, WorkersAssumption, FS_Subset, FS_CardinalityType

\* The desk is as before when nobody who marks an absence has moved and nobody has begun.
LEMMA DeskFrame ==
  ASSUME DeskOK, LookedBefore, UNCHANGED Desk,
         Marking' = Marking, \A w \in Marking : worker'[w] = worker[w]
  PROVE  DeskOK' /\ LookedBefore'
<1>1. Unopened' = Unopened
  BY DEF Unopened
<1>2. clicks' = clicks /\ commands' = commands /\ rescues' = rescues /\ raced' = raced
  BY DEF Desk
<1>3. DeskOK'
  BY <1>1, <1>2 DEF DeskOK
<1>4. LookedBefore'
  BY <1>2 DEF LookedBefore
<1>5. QED BY <1>3, <1>4

\* A step of a worker whose handler is not the mark of an absence.
LEMMA OtherWorker ==
  ASSUME DeskOK, LookedBefore, UNCHANGED Desk, NEW w \in Workers,
         worker[w].kind \notin Marks, worker'[w].kind \notin Marks,
         \A u \in Workers \ {w} : worker'[u] = worker[u]
  PROVE  DeskOK' /\ LookedBefore'
<1>1. \A u \in Workers : worker'[u].kind \in Marks <=> worker[u].kind \in Marks
  OBVIOUS
<1>2. Marking' = Marking
  BY <1>1 DEF Marking
<1>3. \A u \in Marking : worker'[u] = worker[u]
  BY DEF Marking
<1>4. QED BY <1>2, <1>3, DeskFrame

\* A step of a worker that marks an absence: it is over, or it goes on past its beginning.
LEMMA MarkerGoesOn ==
  ASSUME ProcessesOK, DeskOK, LookedBefore, NEW w \in Marking, AfterEffect(w)
  PROVE  /\ Marking' \subseteq Marking
         /\ Unopened' \subseteq Unopened \ {w}
         /\ Cardinality(Marking') <= Cardinality(Marking)
         /\ Cardinality(Unopened') <= Cardinality(Unopened)
         /\ w \in Unopened => Cardinality(Unopened') <= Cardinality(Unopened) - 1
         /\ Cardinality(Marking') \in Nat /\ Cardinality(Unopened') \in Nat
         /\ \A u \in Marking' : /\ worker'[u].seen = 0
                                /\ \/ worker'[u].left = Effects[worker'[u].kind]
                                   \/ Len(worker'[u].left) < Len(Effects[worker'[u].kind])
<1>1. w \in Workers /\ worker[w].kind \in Marks /\ worker[w] # Free
  BY FreeIsARow DEF Marking
<1>2. /\ \A u \in Workers \ {w} : worker'[u] = worker[u]
      /\ \/ worker'[w] = Free
         \/ /\ worker'[w].left = Tail(worker[w].left)
            /\ worker'[w].kind = worker[w].kind /\ worker'[w].seen = worker[w].seen
  BY <1>1, AfterEffectMoves
<1>3. Marking' \subseteq Marking
  BY <1>1, <1>2 DEF Marking
<1>4. w \in Marking' => /\ worker'[w].left = Tail(worker[w].left)
                        /\ worker'[w].kind = worker[w].kind
                        /\ worker'[w].seen = worker[w].seen
  BY <1>1, <1>2, FreeIsARow DEF Marking
<1>5. Len(Tail(worker[w].left)) < Len(Effects[worker[w].kind]) /\ Tail(worker[w].left) # Effects[worker[w].kind]
  <2>1. Len(worker[w].left) \in Nat /\ Len(Tail(worker[w].left)) = Len(worker[w].left) - 1
    BY <1>1, BusyWorker
  <2>2. Len(Effects[worker[w].kind]) \in Nat /\ Len(worker[w].left) <= Len(Effects[worker[w].kind])
    BY <1>1, <2>1, MarkingOpensFirst DEF DeskOK
  <2>. DEFINE n == Len(worker[w].left) rest == Tail(worker[w].left) full == Effects[worker[w].kind]
  <2>3. n \in Nat /\ Len(rest) = n - 1 /\ Len(full) \in Nat /\ n <= Len(full)
    BY <2>1, <2>2
  <2>. HIDE DEF n, rest, full
  <2>4. Len(rest) < Len(full) /\ rest # full
    BY <2>3
  <2>5. QED BY <2>4 DEF rest, full
<1>6. Unopened' \subseteq Unopened \ {w}
  BY <1>2, <1>3, <1>4, <1>5 DEF Unopened, Marking
<1>7. \A u \in Marking' : /\ worker'[u].seen = 0
                          /\ \/ worker'[u].left = Effects[worker'[u].kind]
                             \/ Len(worker'[u].left) < Len(Effects[worker'[u].kind])
  <2>. SUFFICES ASSUME NEW u \in Marking'
                PROVE  /\ worker'[u].seen = 0
                       /\ \/ worker'[u].left = Effects[worker'[u].kind]
                          \/ Len(worker'[u].left) < Len(Effects[worker'[u].kind])
    OBVIOUS
  <2>1. CASE u = w
    BY <2>1, <1>4, <1>5 DEF LookedBefore
  <2>2. CASE u # w
    <3>1. worker'[u] = worker[u] /\ u \in Marking
      BY <2>2, <1>2, <1>3 DEF Marking
    <3>2. QED BY <3>1 DEF LookedBefore, DeskOK
  <2>3. QED BY <2>1, <2>2
<1>8. /\ Cardinality(Marking') <= Cardinality(Marking) /\ Cardinality(Marking') \in Nat
      /\ Cardinality(Unopened') <= Cardinality(Unopened) /\ Cardinality(Unopened') \in Nat
  BY <1>3, <1>6, MarkersAreFinite, FS_Subset, FS_CardinalityType
<1>9. w \in Unopened => Cardinality(Unopened') <= Cardinality(Unopened) - 1
  <2>. SUFFICES ASSUME w \in Unopened PROVE Cardinality(Unopened') <= Cardinality(Unopened) - 1
    OBVIOUS
  <2>1. Cardinality(Unopened \ {w}) = Cardinality(Unopened) - 1 /\ IsFiniteSet(Unopened \ {w})
    BY MarkersAreFinite, FS_RemoveElement
  <2>2. Cardinality(Unopened') <= Cardinality(Unopened \ {w})
    BY <1>6, <2>1, FS_Subset
  <2>3. QED BY <2>1, <2>2
<1>10. QED BY <1>3, <1>6, <1>7, <1>8, <1>9

-----------------------------------------------------------------------------
\* The workers.

LEMMA StartsWork ==
  ASSUME ProcessesOK, rescues \in Nat, NEW w \in Workers, NEW kind \in DOMAIN Effects, Starts(w, kind)
  PROVE  /\ worker' \in [Workers -> WorkerRow]
         /\ \A u \in Workers : worker'[u].left = << >> => worker'[u] = Free
         /\ \A u \in Workers \ {w} : worker'[u] = worker[u]
         /\ worker'[w].left = Effects[kind] /\ worker'[w].kind = kind /\ worker'[w].seen = rescues
<1>1. worker \in [Workers -> WorkerRow]
  BY DEF ProcessesOK
<1>. DEFINE work == Effects[kind]
<1>2. work \in Seq(Effect) /\ work # << >>
  BY EffectsAreSequences
<1>3. worker' = [worker EXCEPT ![w] = [left |-> work, kind |-> kind, seen |-> rescues]]
  BY DEF Starts
<1>. HIDE DEF work
<1>4. worker'[w] = [left |-> work, kind |-> kind, seen |-> rescues]
      /\ \A u \in Workers \ {w} : worker'[u] = worker[u]
  BY <1>1, <1>3
<1>5. worker'[w] \in WorkerRow /\ worker'[w].left = work /\ worker'[w].kind = kind /\ worker'[w].seen = rescues
  BY <1>2, <1>4 DEF WorkerRow
<1>6. worker' \in [Workers -> WorkerRow]
  BY <1>1, <1>3, <1>4, <1>5
<1>7. \A u \in Workers : worker'[u].left = << >> => worker'[u] = Free
  BY <1>2, <1>4, <1>5 DEF ProcessesOK
<1>8. QED BY <1>4, <1>5, <1>6, <1>7 DEF work

LEMMA HandleKeeps ==
  ASSUME Consistent, NEW w \in Workers, NEW kind \in Kinds \ Marks, Handle(w, kind)
  PROVE  Consistent'
<1>1. kind \in DOMAIN Effects /\ kind \notin Marks
  BY KindsAssumption
<1>2. rescues \in Nat
  BY DEF Consistent, DeskOK
<1>3. /\ worker' \in [Workers -> WorkerRow]
      /\ \A u \in Workers : worker'[u].left = << >> => worker'[u] = Free
      /\ \A u \in Workers \ {w} : worker'[u] = worker[u]
      /\ worker'[w].kind = kind
  BY <1>1, <1>2, StartsWork DEF Handle, Consistent
<1>4. ProcessesOK'
  BY <1>3 DEF Handle, Consistent, ProcessesOK
<1>5. NumbersOK'
  BY DEF Handle, Consistent, NumbersOK
<1>6. DeskOK' /\ LookedBefore'
  <2>1. worker[w].kind \notin Marks
    BY FreeIsARow DEF Handle
  <2>2. UNCHANGED Desk
    BY DEF Handle
  <2>3. QED BY <1>1, <1>3, <2>1, <2>2, OtherWorker DEF Consistent
<1>7. QED BY <1>4, <1>5, <1>6 DEF Consistent

\* Taking up the command: the work of marking begins where no rescue was seen, otherwise
\* the command is dropped.
LEMMA MarkAbsenceKeeps ==
  ASSUME Consistent, NEW w \in Workers, MarkAbsence(w)
  PROVE  Consistent'
<1>0. ProcessesOK /\ NumbersOK /\ DeskOK /\ LookedBefore
  BY DEF Consistent
<1>1. NumbersOK'
  BY <1>0 DEF MarkAbsence, NumbersOK
<1>2. /\ clicks' = clicks /\ rescues' = rescues /\ raced' = raced /\ commands' = commands - 1
      /\ clicks \in Nat /\ rescues \in Nat /\ commands \in Nat /\ commands > 0
      /\ socket' = socket /\ frames' = frames
  BY <1>0 DEF MarkAbsence, DeskOK
<1>3. w \notin Marking /\ w \notin Unopened
  BY FreeIsARow DEF MarkAbsence, Marking, Unopened
<1>4. CASE MayMark
  <2>1. rescues = 0 /\ \E kind \in Kinds \cap Marks : Starts(w, kind)
    BY <1>4 DEF MarkAbsence, MayMark
  <2>2. PICK kind \in Marks : Starts(w, kind) /\ kind \in DOMAIN Effects
    BY <2>1, MarkingOpensFirst
  <2>3. /\ worker' \in [Workers -> WorkerRow]
        /\ \A u \in Workers : worker'[u].left = << >> => worker'[u] = Free
        /\ \A u \in Workers \ {w} : worker'[u] = worker[u]
        /\ worker'[w].left = Effects[kind] /\ worker'[w].kind = kind /\ worker'[w].seen = 0
    BY <1>0, <1>2, <2>1, <2>2, StartsWork
  <2>4. ProcessesOK'
    BY <1>0, <1>2, <2>3 DEF ProcessesOK
  <2>5. Marking' = Marking \cup {w} /\ Unopened' = Unopened \cup {w}
    BY <1>3, <2>2, <2>3 DEF Marking, Unopened
  <2>6. Cardinality(Marking') = Cardinality(Marking) + 1 /\ Cardinality(Unopened') = Cardinality(Unopened) + 1
    BY <1>3, <2>5, MarkersAreFinite, FS_AddElement
  <2>7. \A u \in Marking' : worker'[u].seen = 0 /\ worker'[u].left = Effects[worker'[u].kind]
    BY <1>0, <2>1, <2>2, <2>3, <2>5 DEF DeskOK, LookedBefore, Marking
  <2>8. DeskOK'
    <3>1. /\ commands + Cardinality(Marking) <= clicks
          /\ rescues + Cardinality(Unopened) + commands <= clicks
      BY <1>0, <2>1 DEF DeskOK
    <3>2. /\ commands' + Cardinality(Marking') <= clicks'
          /\ rescues' + Cardinality(Unopened') + commands' <= clicks'
      BY <1>2, <2>6, <3>1, MarkersAreFinite
    <3>3. commands' \in Nat /\ rescues' = 0
      BY <1>2, <2>1
    <3>4. QED BY <1>2, <2>7, <3>2, <3>3 DEF DeskOK
  <2>9. LookedBefore'
    BY <1>0, <1>2, <2>1, <2>7 DEF LookedBefore
  <2>10. QED BY <1>1, <2>4, <2>8, <2>9 DEF Consistent
<1>5. CASE ~MayMark
  <2>1. worker' = worker
    BY <1>5 DEF MarkAbsence
  <2>2. Marking' = Marking /\ Unopened' = Unopened
    BY <2>1 DEF Marking, Unopened
  <2>3. ProcessesOK' /\ LookedBefore'
    BY <1>0, <1>2, <2>1, <2>2 DEF ProcessesOK, LookedBefore
  <2>4. DeskOK'
    <3>1. /\ commands' + Cardinality(Marking') <= clicks'
          /\ rescues' + Cardinality(Unopened') + (IF rescues' = 0 THEN commands' ELSE 0) <= clicks'
      BY <1>0, <1>2, <2>2, MarkersAreFinite DEF DeskOK
    <3>2. commands' \in Nat
      BY <1>2
    <3>3. QED BY <1>0, <1>2, <2>1, <2>2, <3>1, <3>2 DEF DeskOK
  <2>5. QED BY <1>1, <2>3, <2>4 DEF Consistent
<1>6. QED BY <1>4, <1>5

LEMMA PostAbsenceKeeps ==
  ASSUME Consistent, PostAbsence
  PROVE  Consistent'
<1>0. ProcessesOK /\ NumbersOK /\ DeskOK /\ LookedBefore
  BY DEF Consistent
<1>1. Marking' = Marking /\ Unopened' = Unopened /\ worker' = worker
  BY DEF PostAbsence, Marking, Unopened
<1>2. ProcessesOK' /\ NumbersOK' /\ LookedBefore'
  BY <1>0, <1>1 DEF PostAbsence, ProcessesOK, NumbersOK, LookedBefore
<1>3. DeskOK'
  <2>1. /\ clicks' = clicks + 1 /\ commands' = commands + 1 /\ rescues' = rescues
        /\ clicks \in Nat /\ commands \in Nat /\ rescues \in Nat
    BY <1>0 DEF PostAbsence, DeskOK
  <2>2. /\ commands' + Cardinality(Marking') <= clicks'
        /\ rescues' + Cardinality(Unopened') + (IF rescues' = 0 THEN commands' ELSE 0) <= clicks'
    BY <1>0, <1>1, <2>1, MarkersAreFinite DEF DeskOK
  <2>3. clicks' \in Nat /\ commands' \in Nat
    BY <2>1
  <2>4. QED BY <1>0, <1>1, <2>1, <2>2, <2>3 DEF DeskOK
<1>4. QED BY <1>2, <1>3 DEF Consistent

\* The numbers of a commit, and nothing else about them, change.
LEMMA CommitNumbers ==
  ASSUME NumbersOK, NEW tables, db' = Written(tables), UNCHANGED <<page, fetch>>
  PROVE  NumbersOK'
<1>1. db \in Numbers
  BY DEF NumbersOK
<1>2. db' \in Numbers /\ \A t \in Table : db[t] \in Nat /\ db[t] <= db'[t]
  BY <1>1, WrittenIsNew
<1>3. \A t \in Table : db[t] \in Nat /\ db'[t] \in Nat /\ db[t] <= db'[t]
  BY <1>2 DEF Numbers
<1>4. \A q \in Screens : \A t \in Table : page[q][t] <= db'[t] /\ fetch[q].got[t] <= db'[t]
  <2>. SUFFICES ASSUME NEW q \in Screens, NEW t \in Table
                PROVE  page[q][t] <= db'[t] /\ fetch[q].got[t] <= db'[t]
    OBVIOUS
  <2>1. page[q] \in Numbers /\ fetch[q].got \in Numbers
    BY DEF NumbersOK, FetchRow
  <2>2. page[q][t] \in Nat /\ fetch[q].got[t] \in Nat
    BY <2>1 DEF Numbers
  <2>3. page[q][t] <= db[t] /\ fetch[q].got[t] <= db[t]
    BY DEF NumbersOK
  <2>4. QED BY <2>2, <2>3, <1>3
<1>5. QED BY <1>2, <1>4 DEF NumbersOK

\* The first commit of a mark opens the rescue: one request fewer that may, one more that did.
LEMMA CommitKeeps ==
  ASSUME Consistent, NEW w \in Workers, Commit(w)
  PROVE  Consistent'
<1>0. ProcessesOK /\ NumbersOK /\ DeskOK /\ LookedBefore /\ worker[w] # Free /\ AfterEffect(w)
  BY DEF Consistent, Commit
<1>. DEFINE tables == Head(worker[w].left).tables
<1>1. NumbersOK'
  BY <1>0, CommitNumbers DEF Commit
<1>2. /\ worker' \in [Workers -> WorkerRow]
      /\ \A u \in Workers : worker'[u].left = << >> => worker'[u] = Free
      /\ \A u \in Workers \ {w} : worker'[u] = worker[u]
      /\ worker'[w] = Free \/ worker'[w].kind = worker[w].kind
  BY <1>0, AfterEffectMoves
<1>3. ProcessesOK'
  BY <1>0, <1>2 DEF Commit, ProcessesOK
<1>4. clicks' = clicks /\ commands' = commands /\ OnDesk(w, tables)
  BY DEF Commit
<1>5. CASE worker[w].kind \notin Marks
  <2>1. UNCHANGED Desk
    BY <1>4, <1>5 DEF OnDesk, Desk
  <2>2. worker'[w].kind \notin Marks
    BY <1>2, <1>5, FreeIsARow
  <2>3. DeskOK' /\ LookedBefore'
    BY <1>0, <1>2, <1>5, <2>1, <2>2, OtherWorker
  <2>4. QED BY <1>1, <1>3, <2>3 DEF Consistent
<1>6. CASE worker[w].kind \in Marks
  <2>1. w \in Marking /\ worker[w].seen = 0
    BY <1>0, <1>6 DEF Marking, LookedBefore
  <2>2. /\ Cardinality(Marking') <= Cardinality(Marking)
        /\ Cardinality(Unopened') <= Cardinality(Unopened)
        /\ w \in Unopened => Cardinality(Unopened') <= Cardinality(Unopened) - 1
        /\ Cardinality(Marking') \in Nat /\ Cardinality(Unopened') \in Nat
        /\ \A u \in Marking' : /\ worker'[u].seen = 0
                               /\ \/ worker'[u].left = Effects[worker'[u].kind]
                                  \/ Len(worker'[u].left) < Len(Effects[worker'[u].kind])
    BY <1>0, <2>1, MarkerGoesOn
  <2>3. /\ rescues' = IF worker[w].left = Effects[worker[w].kind] THEN rescues + 1 ELSE rescues
        /\ raced' = (raced \/ (rescues' # rescues /\ rescues # worker[w].seen))
    BY <1>4, <1>6 DEF OnDesk
  <2>4. rescues \in Nat /\ clicks \in Nat /\ commands \in Nat /\ raced \in BOOLEAN
    BY <1>0 DEF DeskOK, LookedBefore
  <2>5. worker[w].left = Effects[worker[w].kind] <=> w \in Unopened
    BY <2>1 DEF Unopened
  <2>6. rescues' \in Nat /\ rescues' # 0 /\ rescues' >= rescues
        /\ rescues' + Cardinality(Unopened') <= rescues + Cardinality(Unopened)
    <3>1. CASE w \in Unopened
      BY <2>2, <2>3, <2>4, <2>5, <3>1, MarkersAreFinite
    <3>2. CASE w \notin Unopened
      <4>1. rescues # 0
        BY <1>0, <2>1, <3>2 DEF DeskOK, Unopened
      <4>2. rescues' = rescues
        BY <2>3, <2>5, <3>2
      <4>3. QED BY <2>2, <2>4, <4>1, <4>2, MarkersAreFinite
    <3>3. QED BY <3>1, <3>2
  <2>7. DeskOK'
    <3>1. /\ commands + Cardinality(Marking) <= clicks
          /\ rescues + Cardinality(Unopened) <= clicks
      BY <1>0, <2>4, MarkersAreFinite DEF DeskOK
    <3>2. /\ commands' + Cardinality(Marking') <= clicks'
          /\ rescues' + Cardinality(Unopened') <= clicks'
      BY <1>4, <2>2, <2>4, <2>6, <3>1, MarkersAreFinite
    <3>3. rescues' + Cardinality(Unopened') + (IF rescues' = 0 THEN commands' ELSE 0) <= clicks'
      BY <2>2, <2>6, <3>2
    <3>4. QED BY <1>4, <2>2, <2>4, <2>6, <3>2, <3>3 DEF DeskOK
  <2>8. LookedBefore'
    <3>1. raced' \in BOOLEAN
      BY <2>3
    <3>2. ASSUME rescues' > 1 PROVE raced'
      <4>1. CASE rescues' = rescues
        <5>1. raced
          BY <1>0, <3>2, <4>1 DEF LookedBefore
        <5>2. QED BY <2>3, <5>1
      <4>2. CASE rescues' # rescues
        <5>1. rescues # worker[w].seen
          BY <2>1, <2>3, <2>4, <3>2, <4>2
        <5>2. QED BY <2>3, <4>2, <5>1
      <4>3. QED BY <4>1, <4>2
    <3>3. QED BY <2>2, <3>1, <3>2 DEF LookedBefore
  <2>9. QED BY <1>1, <1>3, <2>7, <2>8 DEF Consistent
<1>7. QED BY <1>5, <1>6

\* A worker that has not opened its rescue has a commit before it, not an event.
LEMMA PublishKeeps ==
  ASSUME Consistent, NEW w \in Workers, Publish(w)
  PROVE  Consistent'
<1>0. ProcessesOK /\ NumbersOK /\ DeskOK /\ LookedBefore /\ worker[w] # Free /\ AfterEffect(w)
  BY DEF Consistent, Publish
<1>. DEFINE event == Head(worker[w].left).event
<1>1. NumbersOK'
  BY <1>0 DEF Publish, NumbersOK
<1>2. /\ worker' \in [Workers -> WorkerRow]
      /\ \A u \in Workers : worker'[u].left = << >> => worker'[u] = Free
      /\ \A u \in Workers \ {w} : worker'[u] = worker[u]
      /\ worker'[w] = Free \/ worker'[w].kind = worker[w].kind
  BY <1>0, AfterEffectMoves
<1>3. event \in EventName /\ UNCHANGED Desk /\ socket' = socket
  <2>1. Head(worker[w].left) \in Effect
    BY <1>0, BusyWorker
  <2>2. QED BY <2>1 DEF Publish, Effect
<1>4. frames' \in Seq(EventName) /\ (socket' = "offline" => frames' = << >>)
  <2>1. CASE socket # "offline" /\ frames' = Append(frames, event)
    BY <1>0, <1>3, <2>1, AppendProperties DEF ProcessesOK
  <2>2. CASE frames' = frames
    BY <1>0, <1>3, <2>2 DEF ProcessesOK
  <2>3. QED BY <2>1, <2>2 DEF Publish
<1>5. ProcessesOK'
  BY <1>0, <1>2, <1>3, <1>4 DEF ProcessesOK
<1>6. CASE worker[w].kind \notin Marks
  <2>1. worker'[w].kind \notin Marks
    BY <1>2, <1>6, FreeIsARow
  <2>2. DeskOK' /\ LookedBefore'
    BY <1>0, <1>2, <1>3, <1>6, <2>1, OtherWorker
  <2>3. QED BY <1>1, <1>5, <2>2 DEF Consistent
<1>7. CASE worker[w].kind \in Marks
  <2>1. w \in Marking /\ worker[w].left # Effects[worker[w].kind]
    BY <1>7, MarkingOpensFirst DEF Marking, Publish
  <2>2. /\ Cardinality(Marking') <= Cardinality(Marking)
        /\ Cardinality(Unopened') <= Cardinality(Unopened)
        /\ Cardinality(Marking') \in Nat /\ Cardinality(Unopened') \in Nat
        /\ \A u \in Marking' : /\ worker'[u].seen = 0
                               /\ \/ worker'[u].left = Effects[worker'[u].kind]
                                  \/ Len(worker'[u].left) < Len(Effects[worker'[u].kind])
    BY <1>0, <2>1, MarkerGoesOn
  <2>3. /\ clicks' = clicks /\ commands' = commands /\ rescues' = rescues /\ raced' = raced
        /\ rescues \in Nat /\ clicks \in Nat /\ commands \in Nat /\ rescues # 0
    BY <1>0, <1>3, <2>1 DEF DeskOK, Desk
  <2>4. DeskOK'
    <3>1. /\ commands' + Cardinality(Marking') <= clicks'
          /\ rescues' + Cardinality(Unopened') + (IF rescues' = 0 THEN commands' ELSE 0) <= clicks'
      BY <1>0, <2>2, <2>3, MarkersAreFinite DEF DeskOK
    <3>2. QED BY <2>2, <2>3, <3>1 DEF DeskOK
  <2>5. LookedBefore'
    BY <1>0, <2>2, <2>3 DEF LookedBefore
  <2>6. QED BY <1>1, <1>5, <2>4, <2>5 DEF Consistent
<1>8. QED BY <1>6, <1>7

\* A worker that dies gives its command back, or does not.
LEMMA CrashKeeps ==
  ASSUME Consistent, NEW w \in Workers, Crash(w)
  PROVE  Consistent'
<1>0. ProcessesOK /\ NumbersOK /\ DeskOK /\ LookedBefore
  BY DEF Consistent
<1>1. NumbersOK'
  BY <1>0 DEF Crash, NumbersOK
<1>2. /\ worker' \in [Workers -> WorkerRow]
      /\ worker'[w] = Free /\ \A u \in Workers \ {w} : worker'[u] = worker[u]
  BY <1>0, FreeIsARow DEF Crash, ProcessesOK
<1>3. ProcessesOK'
  BY <1>0, <1>2 DEF Crash, ProcessesOK
<1>4. Marking' = Marking \ {w} /\ Unopened' = Unopened \ {w}
  BY <1>2, FreeIsARow DEF Marking, Unopened
<1>5. /\ clicks' = clicks /\ rescues' = rescues /\ raced' = raced
      /\ clicks \in Nat /\ rescues \in Nat /\ commands \in Nat
  BY <1>0 DEF Crash, DeskOK
<1>6. \A u \in Marking' : /\ worker'[u] = worker[u] /\ u \in Marking
  BY <1>2, <1>4 DEF Marking
<1>7. LookedBefore'
  BY <1>0, <1>5, <1>6 DEF LookedBefore
<1>8. commands' \in Nat /\ commands' + Cardinality(Marking') <= clicks'
      /\ rescues' + Cardinality(Unopened') + (IF rescues' = 0 THEN commands' ELSE 0) <= clicks'
  <2>1. /\ Cardinality(Marking') = IF w \in Marking THEN Cardinality(Marking) - 1 ELSE Cardinality(Marking)
        /\ Cardinality(Unopened') = IF w \in Unopened THEN Cardinality(Unopened) - 1 ELSE Cardinality(Unopened)
    BY <1>4, MarkersAreFinite, FS_RemoveElement
  <2>2. /\ commands + Cardinality(Marking) <= clicks
        /\ rescues + Cardinality(Unopened) + (IF rescues = 0 THEN commands ELSE 0) <= clicks
    BY <1>0 DEF DeskOK
  <2>3. CASE w \in Marking
    <3>1. commands' = commands \/ commands' = commands + 1
      BY <1>5 DEF Crash
    <3>2. rescues = 0 => w \in Unopened
      BY <1>0, <2>3 DEF DeskOK, Unopened
    <3>3. QED BY <1>5, <2>1, <2>2, <2>3, <3>1, <3>2, MarkersAreFinite
  <2>4. CASE w \notin Marking
    <3>1. commands' = commands /\ w \notin Unopened
      BY <1>5, <2>4 DEF Crash, Marking, Unopened
    <3>2. QED BY <1>5, <2>1, <2>2, <2>4, <3>1, MarkersAreFinite
  <2>5. QED BY <2>3, <2>4
<1>9. DeskOK'
  BY <1>0, <1>5, <1>6, <1>8 DEF DeskOK
<1>10. QED BY <1>1, <1>3, <1>7, <1>9 DEF Consistent
-----------------------------------------------------------------------------
\* The relay and the screens move nothing of the workers and of the desk.

LEMMA WorkersAside ==
  ASSUME Consistent, UNCHANGED <<worker, Desk>>
  PROVE  DeskOK' /\ LookedBefore'
<1>1. Marking' = Marking /\ \A w \in Marking : worker'[w] = worker[w]
  BY DEF Marking
<1>2. UNCHANGED Desk /\ DeskOK /\ LookedBefore
  BY DEF Consistent
<1>3. QED BY <1>1, <1>2, DeskFrame

LEMMA RelayKeeps ==
  ASSUME Consistent, Subscribe \/ Accept \/ Drop
  PROVE  Consistent'
<1>0. ProcessesOK /\ NumbersOK
  BY DEF Consistent
<1>1. UNCHANGED <<worker, Desk>> /\ UNCHANGED <<db, page, fetch>>
  BY DEF Subscribe, Accept, Drop
<1>2. DeskOK' /\ LookedBefore'
  BY <1>1, WorkersAside
<1>3. NumbersOK'
  BY <1>0, <1>1 DEF NumbersOK
<1>4. ProcessesOK'
  BY <1>0, <1>1, EmptySeq DEF Subscribe, Accept, Drop, ProcessesOK
<1>5. QED BY <1>2, <1>3, <1>4 DEF Consistent

LEMMA StartingIsARow == Starting \in FetchRow /\ Starting.next = 1 /\ Starting.got = NoRead
                        /\ NotFetching \in FetchRow /\ NotFetching.next = 0 /\ NotFetching.got = NoRead
                        /\ NoRead \in Numbers /\ \A t \in Table : NoRead[t] = 0
BY DEF Starting, NotFetching, FetchRow, NoRead, Numbers

LEMMA ReceiveKeeps ==
  ASSUME Consistent, Receive
  PROVE  Consistent'
<1>0. ProcessesOK /\ NumbersOK
  BY DEF Consistent
<1>1. UNCHANGED <<worker, Desk>> /\ UNCHANGED <<db, page, socket>> /\ socket = "live"
  BY DEF Receive
<1>2. DeskOK' /\ LookedBefore'
  BY <1>1, WorkersAside
<1>3. \A q \in Screens : fetch'[q] = Starting \/ fetch'[q] = fetch[q]
  BY DEF Receive, Refetch
<1>4. fetch' \in [Screens -> FetchRow]
  BY <1>0, <1>3, StartingIsARow DEF Receive, NumbersOK
<1>5. NumbersOK'
  <2>1. \A q \in Screens : \A t \in Table : fetch'[q].got[t] <= db[t]
    BY <1>0, <1>3, StartingIsARow DEF NumbersOK, Numbers
  <2>2. QED BY <1>0, <1>1, <1>4, <2>1 DEF NumbersOK
<1>6. ProcessesOK'
  <2>1. frames' \in Seq(EventName)
    BY <1>0, HeadTailProperties DEF Receive, ProcessesOK
  <2>2. QED BY <1>0, <1>1, <2>1 DEF ProcessesOK
<1>7. QED BY <1>2, <1>5, <1>6 DEF Consistent

LEMMA FocusKeeps ==
  ASSUME Consistent, NEW q \in Screens, Focus(q)
  PROVE  Consistent'
<1>0. ProcessesOK /\ NumbersOK
  BY DEF Consistent
<1>1. UNCHANGED <<worker, Desk>> /\ UNCHANGED <<db, page, socket, frames>>
  BY DEF Focus
<1>2. DeskOK' /\ LookedBefore' /\ ProcessesOK'
  BY <1>0, <1>1, WorkersAside DEF ProcessesOK
<1>3. fetch' = [fetch EXCEPT ![q] = Starting]
  BY DEF Focus
<1>4. NumbersOK'
  <2>1. fetch' \in [Screens -> FetchRow]
    BY <1>0, <1>3, StartingIsARow DEF NumbersOK
  <2>2. \A p \in Screens : \A t \in Table : fetch'[p].got[t] <= db[t]
    BY <1>0, <1>3, StartingIsARow DEF NumbersOK, Numbers
  <2>3. QED BY <1>0, <1>1, <2>1, <2>2 DEF NumbersOK
<1>5. QED BY <1>2, <1>4 DEF Consistent

\* What a fetch holds after its next statement.
Got(q) == [t \in Table |-> IF t \in ReadOrder[q][fetch[q].next] THEN db[t] ELSE fetch[q].got[t]]

LEMMA GotIsRead ==
  ASSUME NumbersOK, NEW q \in Screens
  PROVE  Got(q) \in Numbers /\ \A t \in Table : Got(q)[t] <= db[t]
<1>1. db \in Numbers /\ fetch[q].got \in Numbers /\ \A t \in Table : fetch[q].got[t] <= db[t]
  BY DEF NumbersOK, FetchRow
<1>2. QED BY <1>1 DEF Got, Numbers

\* A statement: the fetch goes on with what it read, or its result is shown.
LEMMA ReadSteps ==
  ASSUME NumbersOK, NEW q \in Screens, ReadNext(q)
  PROVE  /\ fetch[q].next \in Nat \ {0}
         /\ \/ /\ fetch[q].next = Len(ReadOrder[q])
               /\ page' = [page EXCEPT ![q] = Got(q)] /\ fetch' = [fetch EXCEPT ![q] = NotFetching]
            \/ /\ fetch[q].next # Len(ReadOrder[q])
               /\ page' = page
               /\ fetch' = [fetch EXCEPT ![q] = [next |-> fetch[q].next + 1, got |-> Got(q)]]
<1>1. fetch[q].next \in Nat \ {0}
  BY DEF NumbersOK, FetchRow, ReadNext
<1>2. QED BY <1>1 DEF ReadNext, Got

LEMMA ReadKeeps ==
  ASSUME Consistent, NEW q \in Screens, ReadNext(q)
  PROVE  Consistent'
<1>0. ProcessesOK /\ NumbersOK
  BY DEF Consistent
<1>1. UNCHANGED <<worker, Desk>> /\ UNCHANGED <<db, socket, frames>>
  BY DEF ReadNext
<1>2. DeskOK' /\ LookedBefore' /\ ProcessesOK'
  BY <1>0, <1>1, WorkersAside DEF ProcessesOK
<1>3. Got(q) \in Numbers /\ \A t \in Table : Got(q)[t] <= db[t]
  BY <1>0, GotIsRead
<1>4. CASE page' = [page EXCEPT ![q] = Got(q)] /\ fetch' = [fetch EXCEPT ![q] = NotFetching]
  BY <1>0, <1>1, <1>2, <1>3, <1>4, StartingIsARow DEF Consistent, NumbersOK, Numbers
<1>5. CASE /\ page' = page
           /\ fetch' = [fetch EXCEPT ![q] = [next |-> fetch[q].next + 1, got |-> Got(q)]]
  <2>1. [next |-> fetch[q].next + 1, got |-> Got(q)] \in FetchRow
    BY <1>0, <1>3 DEF NumbersOK, FetchRow
  <2>2. NumbersOK'
    BY <1>0, <1>1, <1>3, <1>5, <2>1 DEF NumbersOK
  <2>3. QED BY <1>2, <2>2 DEF Consistent
<1>6. QED BY <1>0, <1>4, <1>5, ReadSteps

-----------------------------------------------------------------------------
LEMMA InitConsistent == Init => Consistent
<1>. SUFFICES ASSUME Init PROVE Consistent
  OBVIOUS
<1>1. worker \in [Workers -> WorkerRow] /\ \A w \in Workers : worker[w] = Free
  BY FreeIsARow DEF Init
<1>2. ProcessesOK
  BY <1>1, EmptySeq DEF Init, ProcessesOK
<1>3. NumbersOK
  BY StartingIsARow DEF Init, NumbersOK
<1>4. Marking = {} /\ Unopened = {}
  BY <1>1, FreeIsARow DEF Marking, Unopened
<1>5. DeskOK /\ LookedBefore
  <2>1. Cardinality(Marking) = 0 /\ Cardinality(Unopened) = 0
    BY <1>4, FS_EmptySet
  <2>2. clicks = 0 /\ commands = 0 /\ rescues = 0 /\ raced = FALSE
    BY DEF Init
  <2>3. LookedBefore
    <3>1. raced \in BOOLEAN
      BY DEF Init
    <3>2. ~ (rescues > 1)
      BY <2>2
    <3>3. QED BY <1>4, <3>1, <3>2 DEF LookedBefore
  <2>4. commands + Cardinality(Marking) <= clicks
        /\ rescues + Cardinality(Unopened) + (IF rescues = 0 THEN commands ELSE 0) <= clicks
    BY <2>1, <2>2
  <2>5. \A w \in Marking : FALSE
    BY <1>4
  <2>6. clicks \in Nat /\ commands \in Nat /\ rescues \in Nat
    BY <2>2
  <2>7. QED BY <2>3, <2>4, <2>5, <2>6 DEF DeskOK
<1>6. QED BY <1>2, <1>3, <1>5 DEF Consistent

LEMMA StutterKeeps ==
  ASSUME Consistent, UNCHANGED vars
  PROVE  Consistent'
<1>1. UNCHANGED <<db, worker, inputs, socket, frames, page, fetch, clicks, commands, absent, rescues,
                  unseen, missed, joint, raced>>
  BY DEF vars
<1>2. UNCHANGED <<worker, Desk>> /\ ProcessesOK' /\ NumbersOK'
  BY <1>1 DEF Desk, Consistent, ProcessesOK, NumbersOK
<1>3. QED BY <1>2, WorkersAside DEF Consistent

LEMMA StepConsistent == Consistent /\ [Next]_vars => Consistent'
<1>. SUFFICES ASSUME Consistent, [Next]_vars PROVE Consistent'
  OBVIOUS
<1>1. ASSUME NEW w \in Workers, NEW kind \in Kinds \ Marks, Handle(w, kind) PROVE Consistent'
  BY <1>1, HandleKeeps
<1>2. ASSUME NEW w \in Workers, Commit(w) PROVE Consistent'
  BY <1>2, CommitKeeps
<1>3. ASSUME NEW w \in Workers, Publish(w) PROVE Consistent'
  BY <1>3, PublishKeeps
<1>4. ASSUME NEW w \in Workers, Crash(w) PROVE Consistent'
  BY <1>4, CrashKeeps
<1>5. ASSUME NEW w \in Workers, MarkAbsence(w) PROVE Consistent'
  BY <1>5, MarkAbsenceKeeps
<1>6. ASSUME Subscribe \/ Accept \/ Drop PROVE Consistent'
  BY <1>6, RelayKeeps
<1>7. ASSUME Receive PROVE Consistent'
  BY <1>7, ReceiveKeeps
<1>8. ASSUME NEW q \in Screens, Focus(q) PROVE Consistent'
  BY <1>8, FocusKeeps
<1>9. ASSUME NEW q \in Screens, ReadNext(q) PROVE Consistent'
  BY <1>9, ReadKeeps
<1>10. ASSUME PostAbsence PROVE Consistent'
  BY <1>10, PostAbsenceKeeps
<1>11. ASSUME UNCHANGED vars PROVE Consistent'
  BY <1>11, StutterKeeps
<1>12. QED BY <1>1, <1>2, <1>3, <1>4, <1>5, <1>6, <1>7, <1>8, <1>9, <1>10, <1>11 DEF Next

THEOREM ConsistentAlways == Spec => []Consistent
<1>1. Init => Consistent
  BY InitConsistent
<1>2. Consistent /\ [Next]_vars => Consistent'
  BY StepConsistent
<1>3. QED BY <1>1, <1>2, PTL DEF Spec

\* Workers hold effects that some handler has, nothing waits for a socket that is not
\* there, no screen shows a number newer than the tables, and there are never more live
\* rescues, or commands, than the manager made requests: mark_absence looks again, and a
\* command that is delivered again after its rescue was opened opens none.
THEOREM TypeCorrect == Spec => []TypeOK
<1>1. Consistent => TypeOK
  <2>. SUFFICES ASSUME Consistent PROVE TypeOK
    OBVIOUS
  <2>1. ProcessesOK /\ NumbersOK /\ DeskOK
    BY DEF Consistent
  <2>2. \A w \in Workers : worker[w].left \in Seq([tables : SUBSET Table, event : EventName \cup {"none"}])
    BY <2>1 DEF ProcessesOK, WorkerRow, Effect
  <2>3. commands <= clicks /\ rescues <= clicks
    BY <2>1, MarkersAreFinite DEF DeskOK
  <2>4. QED BY <2>1, <2>2, <2>3 DEF TypeOK, ProcessesOK, NumbersOK, Numbers
<1>2. QED BY <1>1, ConsistentAlways, PTL

\* A second rescue of the shift needs two workers that had both looked before either opened
\* one: the second look of mark_absence stops every other repetition, redelivered or asked
\* for twice.
THEOREM SecondRescueIsARace == Spec => []SecondRescueOnlyByRace
<1>1. Consistent => SecondRescueOnlyByRace
  BY DEF Consistent, LookedBefore, SecondRescueOnlyByRace
<1>2. QED BY <1>1, ConsistentAlways, PTL

-----------------------------------------------------------------------------
\* Screens catch up.  Of every screen whose last commit was announced: an event that
\* invalidates it is on its way, or a fetch is under way that has read nothing stale, or it
\* shows the tables.

Fresh(q, got, n) == \A j \in 1 .. n - 1 : \A t \in ReadOrder[q][j] : got[t] = db[t]

Announced(q) ==
  \/ \E i \in DOMAIN frames : q \in Keys(frames[i])
  \/ fetch[q].next \in 1 .. Len(ReadOrder[q]) /\ Fresh(q, fetch[q].got, fetch[q].next)
  \/ fetch[q].next = 0 /\ \A t \in Reads(q) : page[q][t] = db[t]

CatchesUp == \A q \in Screens \ unseen : Announced(q)

\* A screen whose events, page, fetch and tables a step leaves alone is as it was.
LEMMA AnnouncedFrame ==
  ASSUME NEW q \in Screens, Announced(q), UNCHANGED <<frames, page[q], fetch[q]>>,
         \A t \in Reads(q) : db'[t] = db[t]
  PROVE  Announced(q)'
<1>1. CASE \E i \in DOMAIN frames : q \in Keys(frames[i])
  BY <1>1 DEF Announced
<1>2. CASE fetch[q].next \in 1 .. Len(ReadOrder[q]) /\ Fresh(q, fetch[q].got, fetch[q].next)
  <2>1. \A j \in 1 .. fetch[q].next - 1 : ReadOrder[q][j] \subseteq Reads(q)
    BY <1>2, ReadsIsTheUnion
  <2>2. \A j \in 1 .. fetch[q].next - 1 : \A t \in ReadOrder[q][j] : fetch[q].got[t] = db'[t]
    BY <1>2, <2>1 DEF Fresh
  <2>3. QED BY <1>2, <2>2 DEF Announced, Fresh
<1>3. CASE fetch[q].next = 0 /\ \A t \in Reads(q) : page[q][t] = db[t]
  BY <1>3 DEF Announced
<1>4. QED BY <1>1, <1>2, <1>3 DEF Announced

\* A fetch that begins is about to read everything.
LEMMA StartingIsFresh ==
  ASSUME NEW q \in Screens, fetch'[q] = Starting
  PROVE  Announced(q)'
<1>1. fetch'[q].next = 1 /\ fetch'[q].next \in 1 .. Len(ReadOrder[q])
  BY StartingIsARow, ReadsIsTheUnion
<1>2. QED BY <1>1 DEF Announced, Fresh

LEMMA CommitCatchesUp ==
  ASSUME CatchesUp, NEW w \in Workers, Commit(w)
  PROVE  CatchesUp'
<1>. SUFFICES ASSUME NEW q \in Screens, q \notin unseen' PROVE Announced(q)'
  BY DEF CatchesUp
<1>1. q \notin unseen /\ Reads(q) \cap Head(worker[w].left).tables = {}
  BY DEF Commit
<1>2. Reads(q) \subseteq Table
  BY ReadsIsTheUnion, ElementOfSeq
<1>3. \A t \in Reads(q) : db'[t] = db[t]
  BY <1>1, <1>2 DEF Commit, Written
<1>4. UNCHANGED <<frames, page[q], fetch[q]>>
  BY DEF Commit
<1>5. QED BY <1>1, <1>3, <1>4, AnnouncedFrame DEF CatchesUp

\* What is published while the socket is there is on its way to every screen it invalidates.
LEMMA PublishCatchesUp ==
  ASSUME Consistent, CatchesUp, NEW w \in Workers, Publish(w)
  PROVE  CatchesUp'
<1>. DEFINE event == Head(worker[w].left).event
<1>. SUFFICES ASSUME NEW q \in Screens, q \notin unseen' PROVE Announced(q)'
  BY DEF CatchesUp
<1>0. frames \in Seq(EventName) /\ event \in EventName
  <2>1. Head(worker[w].left) \in Effect /\ event # "none"
    BY BusyWorker DEF Publish, Consistent
  <2>2. QED BY <2>1 DEF Effect, Consistent, ProcessesOK
<1>1. db' = db /\ page' = page /\ fetch' = fetch
  BY DEF Publish
<1>2. CASE frames' = Append(frames, event) /\ unseen' = unseen \ Keys(event)
  <2>. HIDE DEF event
  <2>1. /\ Len(frames) \in Nat /\ DOMAIN frames = 1 .. Len(frames)
        /\ DOMAIN frames' = 1 .. Len(frames) + 1
        /\ frames'[Len(frames) + 1] = event
        /\ \A i \in 1 .. Len(frames) : frames'[i] = frames[i]
    BY <1>0, <1>2, AppendProperties, LenProperties
  <2>2. CASE q \in Keys(event)
    <3>1. \E i \in DOMAIN frames' : q \in Keys(frames'[i])
      BY <2>1, <2>2
    <3>2. QED BY <3>1 DEF Announced
  <2>3. CASE q \notin Keys(event)
    <3>1. Announced(q)
      BY <1>2, <2>3 DEF CatchesUp
    <3>2. CASE \E i \in DOMAIN frames : q \in Keys(frames[i])
      <4>1. \E i \in DOMAIN frames' : q \in Keys(frames'[i])
        BY <2>1, <3>2
      <4>2. QED BY <4>1 DEF Announced
    <3>3. CASE ~ \E i \in DOMAIN frames : q \in Keys(frames[i])
      BY <1>1, <3>1, <3>3 DEF Announced, Fresh
    <3>4. QED BY <3>2, <3>3
  <2>4. QED BY <2>2, <2>3
<1>3. CASE frames' = frames /\ unseen' = unseen
  BY <1>1, <1>3, AnnouncedFrame DEF CatchesUp
<1>4. QED BY <1>2, <1>3 DEF Publish

LEMMA DropCatchesUp ==
  ASSUME CatchesUp, Drop
  PROVE  CatchesUp'
<1>. SUFFICES ASSUME NEW q \in Screens, q \notin unseen' PROVE Announced(q)'
  BY DEF CatchesUp
<1>1. q \notin unseen /\ ~ \E i \in DOMAIN frames : q \in Keys(frames[i])
  BY DEF Drop
<1>2. db' = db /\ page' = page /\ fetch' = fetch
  BY DEF Drop
<1>3. QED BY <1>1, <1>2 DEF CatchesUp, Announced, Fresh

LEMMA ReceiveCatchesUp ==
  ASSUME Consistent, CatchesUp, Receive
  PROVE  CatchesUp'
<1>. SUFFICES ASSUME NEW q \in Screens, q \notin unseen' PROVE Announced(q)'
  BY DEF CatchesUp
<1>1. q \notin unseen /\ db' = db /\ page' = page /\ frames' = Tail(frames) /\ frames # << >>
  BY DEF Receive
<1>2. frames \in Seq(EventName)
  BY DEF Consistent, ProcessesOK
<1>3. CASE q \in Keys(Head(frames))
  BY <1>3, StartingIsFresh DEF Receive, Refetch
<1>4. CASE q \notin Keys(Head(frames))
  <2>1. fetch'[q] = fetch[q] /\ Announced(q)
    BY <1>1, <1>4 DEF Receive, CatchesUp
  <2>2. ASSUME NEW i \in DOMAIN frames, q \in Keys(frames[i])
        PROVE  Announced(q)'
    <3>1. /\ Len(frames) \in Nat \ {0} /\ i \in 1 .. Len(frames) /\ Head(frames) = frames[1]
          /\ frames' \in Seq(EventName) /\ Len(frames') = Len(frames) - 1
          /\ \A k \in 1 .. Len(frames') : frames'[k] = frames[k + 1]
      BY <1>1, <1>2, HeadTailProperties, EmptySeq, LenProperties
    <3>2. i # 1
      BY <1>4, <2>2, <3>1
    <3>3. i - 1 \in 1 .. Len(frames') /\ frames'[i - 1] = frames[i]
      BY <3>1, <3>2
    <3>4. i - 1 \in DOMAIN frames' /\ q \in Keys(frames'[i - 1])
      BY <2>2, <3>1, <3>3, LenProperties
    <3>5. QED BY <3>4 DEF Announced
  <2>3. ASSUME ~ \E i \in DOMAIN frames : q \in Keys(frames[i])
        PROVE  Announced(q)'
    BY <1>1, <2>1, <2>3 DEF Announced, Fresh
  <2>4. QED BY <2>2, <2>3
<1>5. QED BY <1>3, <1>4

LEMMA FocusCatchesUp ==
  ASSUME Consistent, CatchesUp, NEW p \in Screens, Focus(p)
  PROVE  CatchesUp'
<1>. SUFFICES ASSUME NEW q \in Screens, q \notin unseen' PROVE Announced(q)'
  BY DEF CatchesUp
<1>1. q \notin unseen /\ db' = db /\ page' = page /\ frames' = frames
      /\ fetch' = [fetch EXCEPT ![p] = Starting] /\ fetch \in [Screens -> FetchRow]
  BY DEF Focus, Consistent, NumbersOK
<1>2. CASE q = p
  BY <1>1, <1>2, StartingIsFresh
<1>3. CASE q # p
  <2>1. UNCHANGED <<frames, page[q], fetch[q]>> /\ Announced(q)
    BY <1>1, <1>3 DEF CatchesUp
  <2>2. QED BY <1>1, <2>1, AnnouncedFrame
<1>4. QED BY <1>2, <1>3

\* A fetch that had read nothing stale reads the next tables as they are; when it has read
\* all of them, the page shows them.
LEMMA ReadCatchesUp ==
  ASSUME Consistent, CatchesUp, NEW p \in Screens, ReadNext(p)
  PROVE  CatchesUp'
<1>. SUFFICES ASSUME NEW q \in Screens, q \notin unseen' PROVE Announced(q)'
  BY DEF CatchesUp
<1>1. /\ q \notin unseen /\ db' = db /\ frames' = frames /\ Announced(q)
      /\ fetch \in [Screens -> FetchRow] /\ page \in [Screens -> Numbers] /\ NumbersOK
  BY DEF ReadNext, Consistent, NumbersOK, CatchesUp
<1>2. CASE q # p
  <2>1. UNCHANGED <<frames, page[q], fetch[q]>>
    BY <1>1, <1>2, ReadSteps
  <2>2. QED BY <1>1, <2>1, AnnouncedFrame
<1>3. CASE q = p /\ \E i \in DOMAIN frames : q \in Keys(frames[i])
  BY <1>1, <1>3 DEF Announced
<1>4. CASE q = p /\ fetch[q].next \in 1 .. Len(ReadOrder[q]) /\ Fresh(q, fetch[q].got, fetch[q].next)
  <2>. DEFINE n == fetch[q].next
  <2>1. n \in Nat \ {0} /\ Len(ReadOrder[q]) \in Nat
    BY <1>4, ReadsIsTheUnion
  <2>2. \A j \in 1 .. n : \A t \in ReadOrder[q][j] : Got(q)[t] = db[t]
    <3>. SUFFICES ASSUME NEW j \in 1 .. n, NEW t \in ReadOrder[q][j] PROVE Got(q)[t] = db[t]
      OBVIOUS
    <3>1. t \in Table
      BY <1>4, <2>1, ReadsIsTheUnion, ElementOfSeq
    <3>2. CASE j = n
      BY <3>1, <3>2 DEF Got
    <3>3. CASE j # n
      <4>1. j \in 1 .. n - 1
        BY <2>1, <3>3
      <4>2. QED BY <1>4, <3>1, <4>1 DEF Fresh, Got
    <3>4. QED BY <3>2, <3>3
  <2>3. CASE /\ n = Len(ReadOrder[q])
             /\ page' = [page EXCEPT ![q] = Got(q)] /\ fetch' = [fetch EXCEPT ![q] = NotFetching]
    <3>1. fetch'[q].next = 0 /\ page'[q] = Got(q)
      BY <1>1, <2>3, StartingIsARow
    <3>2. \A t \in Reads(q) : page'[q][t] = db'[t]
      BY <1>1, <2>2, <2>3, <3>1, ReadsIsTheUnion
    <3>3. QED BY <3>1, <3>2 DEF Announced
  <2>4. CASE /\ n # Len(ReadOrder[q])
             /\ fetch' = [fetch EXCEPT ![q] = [next |-> n + 1, got |-> Got(q)]]
    <3>1. fetch'[q].next = n + 1 /\ fetch'[q].got = Got(q)
      BY <1>1, <2>4
    <3>2. n + 1 \in 1 .. Len(ReadOrder[q]) /\ \A j \in 1 .. (n + 1) - 1 : j \in 1 .. n
      BY <1>4, <2>1, <2>4
    <3>3. QED BY <1>1, <2>2, <3>1, <3>2 DEF Announced, Fresh
  <2>5. QED BY <1>1, <1>4, <2>3, <2>4, ReadSteps
<1>5. CASE q = p /\ fetch[q].next = 0
  BY <1>5 DEF ReadNext
<1>6. QED BY <1>1, <1>2, <1>3, <1>4, <1>5 DEF Announced

LEMMA StepCatchesUp == Consistent /\ CatchesUp /\ [Next]_vars => CatchesUp'
<1>. SUFFICES ASSUME Consistent, CatchesUp, [Next]_vars PROVE CatchesUp'
  OBVIOUS
<1>1. ASSUME NEW w \in Workers, Commit(w) PROVE CatchesUp'
  BY <1>1, CommitCatchesUp
<1>2. ASSUME NEW w \in Workers, Publish(w) PROVE CatchesUp'
  BY <1>2, PublishCatchesUp
<1>3. ASSUME Drop PROVE CatchesUp'
  BY <1>3, DropCatchesUp
<1>4. ASSUME Receive PROVE CatchesUp'
  BY <1>4, ReceiveCatchesUp
<1>5. ASSUME NEW q \in Screens, Focus(q) PROVE CatchesUp'
  BY <1>5, FocusCatchesUp
<1>6. ASSUME NEW q \in Screens, ReadNext(q) PROVE CatchesUp'
  BY <1>6, ReadCatchesUp
<1>7. ASSUME UNCHANGED <<db, frames, page, fetch, unseen>> PROVE CatchesUp'
  BY <1>7 DEF CatchesUp, Announced, Fresh
<1>8. ASSUME NEW w \in Workers, NEW kind \in Kinds \ Marks, Handle(w, kind) PROVE CatchesUp'
  BY <1>7, <1>8 DEF Handle
<1>9. ASSUME Subscribe \/ Accept \/ PostAbsence \/ UNCHANGED vars PROVE CatchesUp'
  BY <1>7, <1>9 DEF Subscribe, Accept, PostAbsence, vars
<1>10. ASSUME NEW w \in Workers, Crash(w) \/ MarkAbsence(w) PROVE CatchesUp'
  BY <1>7, <1>10 DEF Crash, MarkAbsence
<1>11. QED BY <1>1, <1>2, <1>3, <1>4, <1>5, <1>6, <1>8, <1>9, <1>10 DEF Next

-----------------------------------------------------------------------------
\* Of every screen with an unannounced commit that was not missed, some worker still has
\* the event.
NoneForgotten ==
  /\ \A w \in Workers : Promises(worker[w].left, worker[w].kind)
  /\ \A q \in (Screens \cap unseen) \ missed : \E w \in Workers : q \in ToldBy(w)

\* What is promised by a handler is promised by what is left of it.
LEMMA TailPromises ==
  ASSUME NEW left \in Seq(Effect), left # << >>, NEW kind, Promises(left, kind)
  PROVE  /\ Promises(Tail(left), kind)
         /\ \A q \in Screens : \A j \in 2 .. Len(left) :
              left[j].event # "none" /\ q \in Keys(left[j].event) =>
                \E k \in 1 .. Len(Tail(left)) :
                  Tail(left)[k].event # "none" /\ q \in Keys(Tail(left)[k].event)
<1>. DEFINE rest == Tail(left)
<1>1. /\ Len(left) \in Nat \ {0} /\ Len(rest) = Len(left) - 1
      /\ \A k \in 1 .. Len(rest) : rest[k] = left[k + 1]
  BY HeadTailProperties, EmptySeq
<1>. HIDE DEF rest
<1>2. ASSUME NEW j \in 2 .. Len(left) PROVE j - 1 \in 1 .. Len(rest) /\ rest[j - 1] = left[j]
  BY <1>1
<1>3. ASSUME NEW i \in 1 .. Len(rest) PROVE Kept(rest, kind, i)
  <2>1. i + 1 \in 1 .. Len(left) /\ rest[i] = left[i + 1]
    BY <1>1
  <2>2. Kept(left, kind, i + 1)
    BY <2>1 DEF Promises
  <2>3. ASSUME NEW q \in Screens, TellsAfter(left, i + 1, q) PROVE TellsAfter(rest, i, q)
    <3>1. PICK j \in (i + 1) + 1 .. Len(left) : left[j].event # "none" /\ q \in Keys(left[j].event)
      BY <2>3 DEF TellsAfter
    <3>2. j - 1 \in i + 1 .. Len(rest) /\ rest[j - 1] = left[j]
      BY <1>1, <1>2, <3>1
    <3>3. QED BY <3>1, <3>2 DEF TellsAfter
  <2>4. QED BY <2>1, <2>2, <2>3 DEF Kept
<1>4. Promises(rest, kind)
  BY <1>3 DEF Promises
<1>5. QED BY <1>2, <1>4 DEF rest

LEMMA ToldByIts ==
  ASSUME ProcessesOK, NEW w \in Workers, NEW q
  PROVE  q \in ToldBy(w) <=>
           /\ q \in Screens
           /\ \E j \in 1 .. Len(worker[w].left) :
                worker[w].left[j].event # "none" /\ q \in Keys(worker[w].left[j].event)
<1>1. worker[w].left \in Seq(Effect)
  BY DEF ProcessesOK, WorkerRow
<1>2. DOMAIN worker[w].left = 1 .. Len(worker[w].left)
  BY <1>1, LenProperties
<1>3. QED BY <1>2 DEF ToldBy

LEMMA FreeTellsNobody ==
  ASSUME ProcessesOK, NEW w \in Workers, worker[w] = Free
  PROVE  ToldBy(w) = {}
<1>1. Len(worker[w].left) = 0
  BY FreeIsARow, EmptySeq
<1>2. QED BY <1>1, ToldByIts DEF ToldBy

\* After an effect a worker keeps its promises, and has every event it had but the first.
LEMMA AfterEffectTells ==
  ASSUME Consistent, NoneForgotten, NEW w \in Workers, worker[w] # Free, AfterEffect(w), ProcessesOK'
  PROVE  /\ \A u \in Workers : Promises(worker'[u].left, worker'[u].kind)
         /\ \A u \in Workers \ {w} : ToldBy(u)' = ToldBy(u)
         /\ \A q \in Screens : TellsAfter(worker[w].left, 1, q) => q \in ToldBy(w)'
         /\ \A q \in ToldBy(w) : \/ q \in ToldBy(w)'
                                 \/ /\ Head(worker[w].left).event # "none"
                                    /\ q \in Keys(Head(worker[w].left).event)
<1>. DEFINE left == worker[w].left
<1>1. /\ ProcessesOK /\ left \in Seq(Effect) /\ left # << >> /\ Len(left) \in Nat \ {0}
      /\ Head(left) = left[1]
  BY BusyWorker, HeadTailProperties DEF Consistent
<1>2. /\ \A u \in Workers \ {w} : worker'[u] = worker[u]
      /\ \/ worker'[w] = Free /\ Len(left) = 1
         \/ worker'[w].left = Tail(left) /\ worker'[w].kind = worker[w].kind
  <2>1. worker \in [Workers -> WorkerRow]
    BY <1>1 DEF ProcessesOK
  <2>2. CASE Len(left) = 1 /\ worker' = [worker EXCEPT ![w] = Free]
    BY <2>1, <2>2
  <2>3. CASE worker' = [worker EXCEPT ![w].left = Tail(@)]
    BY <2>1, <2>3 DEF WorkerRow
  <2>4. QED BY <2>2, <2>3 DEF AfterEffect
<1>3. \A u \in Workers \ {w} : ToldBy(u)' = ToldBy(u)
  BY <1>2 DEF ToldBy
<1>4. /\ Promises(Tail(left), worker[w].kind)
      /\ \A q \in Screens : \A j \in 2 .. Len(left) :
           left[j].event # "none" /\ q \in Keys(left[j].event) =>
             \E k \in 1 .. Len(Tail(left)) :
               Tail(left)[k].event # "none" /\ q \in Keys(Tail(left)[k].event)
  BY <1>1, TailPromises DEF NoneForgotten
<1>. HIDE DEF left
<1>5. \A q \in Screens : \A j \in 2 .. Len(left) :
        left[j].event # "none" /\ q \in Keys(left[j].event) => q \in ToldBy(w)'
  <2>1. CASE Len(left) = 1
    BY <2>1
  <2>2. CASE worker'[w].left = Tail(left)
    <3>. SUFFICES ASSUME NEW q \in Screens,
                         NEW k \in 1 .. Len(Tail(left)),
                         Tail(left)[k].event # "none", q \in Keys(Tail(left)[k].event)
                  PROVE  q \in ToldBy(w)'
      BY <1>4
    <3>1. Tail(left) \in Seq(Effect)
      BY <1>1, HeadTailProperties
    <3>2. k \in DOMAIN worker'[w].left
      BY <2>2, <3>1, LenProperties
    <3>3. QED BY <2>2, <3>2 DEF ToldBy
  <2>3. QED BY <1>2, <2>1, <2>2
<1>6. \A q \in Screens : TellsAfter(left, 1, q) => q \in ToldBy(w)'
  BY <1>1, <1>5 DEF TellsAfter
<1>7. ASSUME NEW q \in ToldBy(w), q \notin ToldBy(w)'
      PROVE  Head(left).event # "none" /\ q \in Keys(Head(left).event)
  <2>1. q \in Screens /\ \E j \in 1 .. Len(left) : left[j].event # "none" /\ q \in Keys(left[j].event)
    BY <1>1, <1>7, ToldByIts DEF left
  <2>2. PICK j \in 1 .. Len(left) : left[j].event # "none" /\ q \in Keys(left[j].event)
    BY <2>1
  <2>3. j = 1
    BY <1>1, <1>5, <1>7, <2>1, <2>2
  <2>4. QED BY <1>1, <2>2, <2>3
<1>8. \A u \in Workers : Promises(worker'[u].left, worker'[u].kind)
  <2>1. Promises(Free.left, Free.kind)
    BY FreeIsARow, EmptySeq DEF Promises
  <2>2. Promises(worker'[w].left, worker'[w].kind)
    BY <1>2, <1>4, <2>1
  <2>3. QED BY <1>2, <2>2 DEF NoneForgotten
<1>9. QED BY <1>3, <1>6, <1>7, <1>8 DEF left

LEMMA CommitForgetsNone ==
  ASSUME Consistent, Consistent', NoneForgotten, NEW w \in Workers, Commit(w)
  PROVE  NoneForgotten'
<1>. DEFINE left == worker[w].left
<1>1. /\ worker[w] # Free /\ AfterEffect(w) /\ Head(left).event = "none" /\ ProcessesOK'
      /\ left \in Seq(Effect) /\ left # << >> /\ Len(left) \in Nat \ {0} /\ Head(left) = left[1]
  BY BusyWorker, HeadTailProperties DEF Consistent, Commit
<1>2. /\ \A u \in Workers : Promises(worker'[u].left, worker'[u].kind)
      /\ \A u \in Workers : ToldBy(u) \subseteq ToldBy(u)'
      /\ \A q \in Screens : TellsAfter(left, 1, q) => q \in ToldBy(w)'
  BY <1>1, AfterEffectTells
<1>3. Kept(left, worker[w].kind, 1)
  BY <1>1 DEF NoneForgotten, Promises
<1>. SUFFICES ASSUME NEW q \in Screens, q \in unseen', q \notin missed'
              PROVE  \E u \in Workers : q \in ToldBy(u)'
  BY <1>2 DEF NoneForgotten
<1>4. CASE q \in unseen
  <2>1. q \notin missed
    BY DEF Commit
  <2>2. QED BY <1>2, <1>4, <2>1 DEF NoneForgotten
<1>5. CASE q \notin unseen
  <2>1. Reads(q) \cap Head(left).tables # {} /\ ~ Unannounced(worker[w].kind, Head(left).tables, q)
    BY <1>5 DEF Commit
  <2>2. TellsAfter(left, 1, q)
    BY <1>1, <1>3, <2>1 DEF Kept
  <2>3. QED BY <1>2, <2>2
<1>6. QED BY <1>4, <1>5

\* An event that is delivered tells its screens, and one that is lost is missed by them.
LEMMA PublishForgetsNone ==
  ASSUME Consistent, Consistent', NoneForgotten, NEW w \in Workers, Publish(w)
  PROVE  NoneForgotten'
<1>. DEFINE event == Head(worker[w].left).event
<1>1. worker[w] # Free /\ AfterEffect(w) /\ ProcessesOK'
  BY DEF Publish, Consistent
<1>2. /\ \A u \in Workers : Promises(worker'[u].left, worker'[u].kind)
      /\ \A u \in Workers \ {w} : ToldBy(u)' = ToldBy(u)
      /\ \A q \in ToldBy(w) : q \in ToldBy(w)' \/ q \in Keys(event)
  BY <1>1, AfterEffectTells
<1>. SUFFICES ASSUME NEW q \in Screens, q \in unseen', q \notin missed'
              PROVE  \E u \in Workers : q \in ToldBy(u)'
  BY <1>2 DEF NoneForgotten
<1>3. q \in unseen /\ q \notin missed /\ q \notin Keys(event)
  BY DEF Publish
<1>4. QED BY <1>2, <1>3 DEF NoneForgotten

\* The events that die with a worker are missed.
LEMMA CrashForgetsNone ==
  ASSUME Consistent, NoneForgotten, NEW w \in Workers, Crash(w)
  PROVE  NoneForgotten'
<1>1. worker'[w] = Free /\ \A u \in Workers \ {w} : worker'[u] = worker[u]
  BY DEF Crash, Consistent, ProcessesOK
<1>2. \A u \in Workers : Promises(worker'[u].left, worker'[u].kind)
  <2>1. Promises(Free.left, Free.kind)
    BY FreeIsARow, EmptySeq DEF Promises
  <2>2. QED BY <1>1, <2>1 DEF NoneForgotten
<1>3. \A u \in Workers \ {w} : ToldBy(u)' = ToldBy(u)
  BY <1>1 DEF ToldBy
<1>. SUFFICES ASSUME NEW q \in Screens, q \in unseen', q \notin missed'
              PROVE  \E u \in Workers : q \in ToldBy(u)'
  BY <1>2 DEF NoneForgotten
<1>4. q \in unseen /\ q \notin missed /\ q \notin ToldBy(w)
  BY DEF Crash
<1>5. QED BY <1>3, <1>4 DEF NoneForgotten

\* A handler that starts promises what its ending does.
LEMMA StartForgetsNone ==
  ASSUME Consistent, NoneForgotten, NEW w \in Workers, worker[w] = Free,
         NEW kind \in DOMAIN Effects, Starts(w, kind), UNCHANGED <<unseen, missed>>
  PROVE  NoneForgotten'
<1>1. /\ worker'[w].left = Effects[kind] /\ worker'[w].kind = kind
      /\ \A u \in Workers \ {w} : worker'[u] = worker[u]
  BY StartsWork DEF Consistent, DeskOK
<1>2. Promises(Effects[kind], kind)
  BY EndingsOf DEF Ending
<1>3. \A u \in Workers : Promises(worker'[u].left, worker'[u].kind)
  BY <1>1, <1>2 DEF NoneForgotten
<1>4. ToldBy(w) = {} /\ \A u \in Workers \ {w} : ToldBy(u)' = ToldBy(u)
  <2>1. ToldBy(w) = {}
    BY FreeTellsNobody DEF Consistent
  <2>2. \A u \in Workers \ {w} : ToldBy(u)' = ToldBy(u)
    BY <1>1 DEF ToldBy
  <2>3. QED BY <2>1, <2>2
<1>5. QED BY <1>3, <1>4 DEF NoneForgotten

LEMMA StepForgetsNone == Consistent /\ Consistent' /\ NoneForgotten /\ [Next]_vars => NoneForgotten'
<1>. SUFFICES ASSUME Consistent, Consistent', NoneForgotten, [Next]_vars PROVE NoneForgotten'
  OBVIOUS
<1>1. ASSUME NEW w \in Workers, Commit(w) PROVE NoneForgotten'
  BY <1>1, CommitForgetsNone
<1>2. ASSUME NEW w \in Workers, Publish(w) PROVE NoneForgotten'
  BY <1>2, PublishForgetsNone
<1>3. ASSUME NEW w \in Workers, Crash(w) PROVE NoneForgotten'
  BY <1>3, CrashForgetsNone
<1>4. ASSUME NEW w \in Workers, NEW kind \in Kinds \ Marks, Handle(w, kind) PROVE NoneForgotten'
  BY <1>4, KindsAssumption, StartForgetsNone DEF Handle
<1>5. ASSUME UNCHANGED <<worker, unseen, missed>> PROVE NoneForgotten'
  BY <1>5 DEF NoneForgotten, ToldBy
<1>6. ASSUME NEW w \in Workers, MarkAbsence(w) PROVE NoneForgotten'
  <2>1. worker[w] = Free /\ UNCHANGED <<unseen, missed>>
    BY <1>6 DEF MarkAbsence
  <2>2. CASE worker' = worker
    BY <1>5, <2>1, <2>2
  <2>3. CASE \E kind \in Kinds \cap Marks : Starts(w, kind)
    BY <2>1, <2>3, KindsAssumption, StartForgetsNone
  <2>4. QED BY <1>6, <2>2, <2>3 DEF MarkAbsence
<1>7. ASSUME Drop PROVE NoneForgotten'
  <2>1. worker' = worker /\ \A q \in Screens : q \in unseen' /\ q \notin missed' => q \in unseen /\ q \notin missed
    BY <1>7 DEF Drop
  <2>2. QED BY <2>1 DEF NoneForgotten, ToldBy
<1>8. ASSUME Subscribe \/ Accept \/ Receive \/ PostAbsence \/ UNCHANGED vars PROVE NoneForgotten'
  BY <1>5, <1>8 DEF Subscribe, Accept, Receive, PostAbsence, vars
<1>9. ASSUME NEW q \in Screens, Focus(q) \/ ReadNext(q) PROVE NoneForgotten'
  BY <1>5, <1>9 DEF Focus, ReadNext
<1>10. QED BY <1>1, <1>2, <1>3, <1>4, <1>6, <1>7, <1>8, <1>9 DEF Next

\* A screen shows the tables, or it is being read, or an event for it is on its way or
\* still to be published: _emit comes after the commit, onmessage gives up a fetch that may
\* have read before it.  Only a lost event and the commits listed in Unannounced leave a
\* screen behind.
THEOREM ScreensCatchUp == Spec => []ScreenCatchesUp
<1>1. Init => CatchesUp /\ NoneForgotten
  <2>. SUFFICES ASSUME Init PROVE CatchesUp /\ NoneForgotten
    OBVIOUS
  <2>1. \A q \in Screens : Announced(q)
    <3>. TAKE q \in Screens
    <3>1. fetch[q].next = 0 /\ \A t \in Reads(q) : page[q][t] = db[t]
      BY StartingIsARow DEF Init
    <3>2. QED BY <3>1 DEF Announced
  <2>2. NoneForgotten
    <3>1. \A w \in Workers : worker[w].left = << >>
      BY FreeIsARow DEF Init
    <3>2. QED BY <3>1 DEF Init, NoneForgotten, Promises
  <2>3. QED BY <2>1, <2>2 DEF CatchesUp
<1>2. Consistent /\ CatchesUp /\ [Next]_vars => CatchesUp'
  BY StepCatchesUp
<1>3. Consistent /\ Consistent' /\ NoneForgotten /\ [Next]_vars => NoneForgotten'
  BY StepForgetsNone
<1>4. CatchesUp /\ NoneForgotten => ScreenCatchesUp
  <2>. SUFFICES ASSUME CatchesUp, NoneForgotten, NEW q \in Screens \ missed,
                       fetch[q] = NotFetching, ~ \E i \in DOMAIN frames : q \in Keys(frames[i]),
                       ~ \E w \in Workers : q \in ToldBy(w)
                PROVE  \A t \in Reads(q) : page[q][t] = db[t]
    BY DEF ScreenCatchesUp
  <2>1. q \notin unseen
    BY DEF NoneForgotten
  <2>2. fetch[q].next = 0
    BY StartingIsARow
  <2>3. QED BY <2>1, <2>2 DEF CatchesUp, Announced
<1>5. QED BY <1>1, <1>2, <1>3, <1>4, ConsistentAlways, PTL DEF Spec

-----------------------------------------------------------------------------
\* Pages read forward.

JointKnown ==
  \A n \in joint : /\ n.cases \in Nat /\ n.offers \in Nat
                   /\ n.cases <= db["cases"] /\ n.offers <= db["offers"]

\* The page of a rescue reads its timeline after the offers.
FetchReadsForward ==
  \A q \in Screens \cap {"rescue"} : fetch[q].next = 4 =>
    \A n \in joint : fetch[q].got["cases"] >= n.cases => fetch[q].got["offers"] >= n.offers

ReadsForward == JointKnown /\ FetchReadsForward /\ PageReadsForward

LEMMA RescueStatements ==
  /\ Len(ReadOrder["rescues"]) = 2 /\ "offers" \in ReadOrder["rescues"][2]
  /\ Len(ReadOrder["rescue"]) = 4 /\ "offers" \in ReadOrder["rescue"][3]
  /\ "cases" \notin ReadOrder["rescue"][4] /\ "offers" \notin ReadOrder["rescue"][4]
<1>1. ReadOrder["rescues"] = ListRescues /\ ReadOrder["rescue"] = GetRescue
  BY DEF ReadOrder
<1>2. QED BY <1>1 DEF ListRescues, GetRescue

\* The numbers of a new commit are above every number read, so nothing claims to show it.
LEMMA CommitReadsForward ==
  ASSUME Consistent, ReadsForward, NEW w \in Workers, Commit(w)
  PROVE  ReadsForward'
<1>. DEFINE tables == Head(worker[w].left).tables
<1>0. NumbersOK /\ db \in Numbers /\ JointKnown /\ page' = page /\ fetch' = fetch
  BY DEF Consistent, NumbersOK, ReadsForward, Commit
<1>1. "cases" \in Table /\ "offers" \in Table
  BY DEF Table
<1>2. /\ db' = Written(tables)
      /\ joint' = IF {"cases", "offers"} \subseteq tables THEN joint \cup {Both} ELSE joint
  BY DEF Commit
<1>3. \A t \in {"cases", "offers"} : /\ db[t] \in Nat /\ db'[t] \in Nat /\ db[t] <= db'[t]
                                     /\ t \in tables => db'[t] = db[t] + 1
  <2>. HIDE DEF tables
  <2>. QED BY <1>0, <1>1, <1>2, WrittenIsNew DEF Numbers
<1>4. \A n \in joint' : n \in joint \/ (n = Both /\ "cases" \in tables /\ "offers" \in tables)
  BY <1>2
<1>5. JointKnown'
  <2>. SUFFICES ASSUME NEW n \in joint'
                PROVE  /\ n.cases \in Nat /\ n.offers \in Nat
                       /\ n.cases <= db'["cases"] /\ n.offers <= db'["offers"]
    BY DEF JointKnown
  <2>1. CASE n \in joint
    BY <1>0, <1>3, <2>1 DEF JointKnown
  <2>2. CASE n = Both /\ "cases" \in tables /\ "offers" \in tables
    <3>. HIDE DEF tables
    <3>. QED BY <1>3, <2>2 DEF Both
  <2>3. QED BY <1>4, <2>1, <2>2
<1>6. ASSUME NEW x \in Numbers, x["cases"] <= db["cases"], NEW n \in joint', x["cases"] >= n.cases
      PROVE  n \in joint
  <2>1. x["cases"] \in Nat
    BY <1>1 DEF Numbers
  <2>2. n # Both
    BY <1>3, <1>6, <2>1 DEF Both
  <2>3. QED BY <1>4, <2>2
<1>7. PageReadsForward'
  <2>. SUFFICES ASSUME NEW q \in Screens \cap {"rescues", "rescue"}, NEW n \in joint',
                       page[q]["cases"] >= n.cases
                PROVE  page[q]["offers"] >= n.offers
    BY <1>0 DEF PageReadsForward
  <2>1. page[q] \in Numbers /\ page[q]["cases"] <= db["cases"]
    BY <1>0, <1>1 DEF NumbersOK
  <2>2. n \in joint
    BY <1>6, <2>1
  <2>3. QED BY <2>2 DEF ReadsForward, PageReadsForward
<1>8. FetchReadsForward'
  <2>. SUFFICES ASSUME NEW q \in Screens \cap {"rescue"}, fetch[q].next = 4, NEW n \in joint',
                       fetch[q].got["cases"] >= n.cases
                PROVE  fetch[q].got["offers"] >= n.offers
    BY <1>0 DEF FetchReadsForward
  <2>1. fetch[q].got \in Numbers /\ fetch[q].got["cases"] <= db["cases"]
    BY <1>0, <1>1 DEF NumbersOK, FetchRow
  <2>2. n \in joint
    BY <1>6, <2>1
  <2>3. QED BY <2>2 DEF ReadsForward, FetchReadsForward
<1>9. QED BY <1>5, <1>7, <1>8 DEF ReadsForward

\* What a statement that reads the offers has read, and what the timeline leaves as it was.
LEMMA GotReadsForward ==
  ASSUME Consistent, ReadsForward, NEW q \in Screens \cap {"rescues", "rescue"},
         "offers" \in ReadOrder[q][fetch[q].next] \/ (q = "rescue" /\ fetch[q].next = 4),
         NEW n \in joint, Got(q)["cases"] >= n.cases
  PROVE  Got(q)["offers"] >= n.offers
<1>1. "cases" \in Table /\ "offers" \in Table /\ db["offers"] \in Nat
  BY DEF Consistent, NumbersOK, Numbers, Table
<1>2. CASE "offers" \in ReadOrder[q][fetch[q].next]
  <2>1. Got(q)["offers"] = db["offers"]
    BY <1>1, <1>2 DEF Got
  <2>2. QED BY <1>1, <2>1 DEF ReadsForward, JointKnown
<1>3. CASE q = "rescue" /\ fetch[q].next = 4
  <2>1. Got(q)["cases"] = fetch[q].got["cases"] /\ Got(q)["offers"] = fetch[q].got["offers"]
    BY <1>1, <1>3, RescueStatements DEF Got
  <2>2. QED BY <1>3, <2>1 DEF ReadsForward, FetchReadsForward
<1>4. QED BY <1>2, <1>3

\* The offers are read after the case, and nothing of either after them.
LEMMA ReadReadsForward ==
  ASSUME Consistent, ReadsForward, NEW p \in Screens, ReadNext(p)
  PROVE  ReadsForward'
<1>1. NumbersOK /\ db' = db /\ joint' = joint
  BY DEF Consistent, ReadNext
<1>2. JointKnown'
  BY <1>1 DEF ReadsForward, JointKnown
<1>3. CASE /\ fetch[p].next # Len(ReadOrder[p]) /\ page' = page
           /\ fetch' = [fetch EXCEPT ![p] = [next |-> fetch[p].next + 1, got |-> Got(p)]]
  <2>1. PageReadsForward'
    BY <1>1, <1>3 DEF ReadsForward, PageReadsForward
  <2>2. FetchReadsForward'
    <3>. SUFFICES ASSUME NEW q \in Screens \cap {"rescue"}, fetch'[q].next = 4, NEW n \in joint,
                         fetch'[q].got["cases"] >= n.cases
                  PROVE  fetch'[q].got["offers"] >= n.offers
      BY <1>1 DEF FetchReadsForward
    <3>1. CASE q = p
      <4>1. fetch'[q].got = Got(q) /\ fetch[q].next + 1 = 4 /\ fetch[q].next \in Nat
        BY <1>1, <1>3, <3>1 DEF NumbersOK, FetchRow
      <4>2. fetch[q].next = 3
        BY <4>1
      <4>3. "offers" \in ReadOrder[q][fetch[q].next]
        BY <4>2, RescueStatements
      <4>4. QED BY <4>1, <4>3, GotReadsForward
    <3>2. CASE q # p
      BY <1>1, <1>3, <3>2 DEF ReadsForward, FetchReadsForward, NumbersOK
    <3>3. QED BY <3>1, <3>2
  <2>3. QED BY <1>2, <2>1, <2>2 DEF ReadsForward
<1>4. CASE /\ fetch[p].next = Len(ReadOrder[p])
           /\ page' = [page EXCEPT ![p] = Got(p)] /\ fetch' = [fetch EXCEPT ![p] = NotFetching]
  <2>1. PageReadsForward'
    <3>. SUFFICES ASSUME NEW q \in Screens \cap {"rescues", "rescue"}, NEW n \in joint,
                         page'[q]["cases"] >= n.cases
                  PROVE  page'[q]["offers"] >= n.offers
      BY <1>1 DEF PageReadsForward
    <3>1. CASE q = p
      <4>1. page'[q] = Got(q)
        BY <1>1, <1>4, <3>1 DEF NumbersOK
      <4>2. "offers" \in ReadOrder[q][fetch[q].next] \/ (q = "rescue" /\ fetch[q].next = 4)
        BY <1>4, <3>1, RescueStatements
      <4>3. QED BY <4>1, <4>2, GotReadsForward
    <3>2. CASE q # p
      BY <1>1, <1>4, <3>2 DEF ReadsForward, PageReadsForward, NumbersOK
    <3>3. QED BY <3>1, <3>2
  <2>2. FetchReadsForward'
    <3>1. \A q \in Screens : fetch'[q].next = 4 => fetch'[q] = fetch[q]
      BY <1>1, <1>4, StartingIsARow DEF NumbersOK
    <3>2. QED BY <1>1, <3>1 DEF ReadsForward, FetchReadsForward
  <2>3. QED BY <1>2, <2>1, <2>2 DEF ReadsForward
<1>5. QED BY <1>1, <1>3, <1>4, ReadSteps

LEMMA StepReadsForward == Consistent /\ ReadsForward /\ [Next]_vars => ReadsForward'
<1>. SUFFICES ASSUME Consistent, ReadsForward, [Next]_vars PROVE ReadsForward'
  OBVIOUS
<1>1. ASSUME NEW w \in Workers, Commit(w) PROVE ReadsForward'
  BY <1>1, CommitReadsForward
<1>2. ASSUME NEW q \in Screens, ReadNext(q) PROVE ReadsForward'
  BY <1>2, ReadReadsForward
<1>3. ASSUME UNCHANGED <<db, page, joint>>,
             \A q \in Screens : fetch'[q] = fetch[q] \/ fetch'[q] = Starting
      PROVE  ReadsForward'
  <2>1. \A q \in Screens : fetch'[q].next = 4 => fetch'[q] = fetch[q]
    BY <1>3, StartingIsARow
  <2>2. QED BY <1>3, <2>1 DEF ReadsForward, JointKnown, FetchReadsForward, PageReadsForward
<1>4. ASSUME NEW w \in Workers, NEW kind \in Kinds \ Marks, Handle(w, kind) PROVE ReadsForward'
  BY <1>3, <1>4 DEF Handle
<1>5. ASSUME NEW w \in Workers, Publish(w) \/ Crash(w) \/ MarkAbsence(w) PROVE ReadsForward'
  BY <1>3, <1>5 DEF Publish, Crash, MarkAbsence
<1>6. ASSUME Subscribe \/ Accept \/ Drop \/ PostAbsence \/ UNCHANGED vars PROVE ReadsForward'
  BY <1>3, <1>6 DEF Subscribe, Accept, Drop, PostAbsence, vars
<1>7. ASSUME Receive PROVE ReadsForward'
  BY <1>3, <1>7 DEF Receive, Refetch
<1>8. ASSUME NEW q \in Screens, Focus(q) PROVE ReadsForward'
  <2>1. fetch \in [Screens -> FetchRow]
    BY DEF Consistent, NumbersOK
  <2>2. QED BY <1>3, <1>8, <2>1 DEF Focus
<1>9. QED BY <1>1, <1>2, <1>4, <1>5, <1>6, <1>7, <1>8 DEF Next

\* The page of a rescue, and the list of them, never show the outcome of a commit without
\* the offer that was written with it: the offers are read after the case.
THEOREM PagesReadForward == Spec => []PageReadsForward
<1>1. Init => ReadsForward
  BY StartingIsARow DEF Init, ReadsForward, JointKnown, FetchReadsForward, PageReadsForward
<1>2. Consistent /\ ReadsForward /\ [Next]_vars => ReadsForward'
  BY StepReadsForward
<1>3. ReadsForward => PageReadsForward
  BY DEF ReadsForward
<1>4. QED BY <1>1, <1>2, <1>3, ConsistentAlways, PTL DEF Spec
=============================================================================
