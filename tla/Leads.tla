------------------------------- MODULE Leads -------------------------------
(***************************************************************************)
(* Booked leads of one site and the weekly card that tells of them:        *)
(* the WhatsApp webhook (gm/api.py, gm/delivery/whatsapp.py), the leads an *)
(* operator logs, and send_lead_card (gm/delivery/leadcard.py).            *)
(*                                                                         *)
(* The webhook is delivered at least once; recording may fail and is       *)
(* answered 200 all the same.  The card is sent before the transaction of  *)
(* its job commits.                                                        *)
(***************************************************************************)
EXTENDS Http, FiniteSets, FiniteSetsExt

CONSTANTS
  Messages,     \* inbound messages, by external_id
  DaysInWeek,
  Today,        \* bound: days told, from 0
  MaxManual,    \* bound: leads logged by hand
  MaxCards,     \* bound: cards built
  Pinned,       \* weeks a job's payload may pin
  MAX_RETRIES,
  Evidence      \* what the movement line may find: [moves, resolved, score]

ASSUME LeadsAssumption ==
  /\ DaysInWeek \in Nat \ {0} /\ Today \in Nat
  /\ MaxManual \in Nat /\ MaxCards \in Nat /\ Pinned \subseteq Nat /\ MAX_RETRIES \in Nat

VARIABLES
  day,
  connected,    \* the site's whatsapp connection
  written,      \* [the messages people have sent -> the day]
  leads,        \* booked_leads: [id, day]
  due,          \* next_run_at of the weekly schedule, 0 before there is one
  ticks,        \* send_lead_card jobs the schedule has enqueued and nobody has done
  card,         \* the card being made: its phase and its text
  read          \* history: the cards' figures, in the order their rows were read

leadsVars == <<day, connected, written, leads, due, ticks, card, read>>

NoCard == [phase |-> "idle"]

LeadsInit ==
  /\ day = 0 /\ connected = FALSE
  /\ written = << >> /\ leads = {}
  /\ due = 0 /\ ticks = 0 /\ card = NoCard /\ read = <<>>

-----------------------------------------------------------------------------
(* Leads come in *)

Midnight ==
  /\ day < Today /\ day' = day + 1
  /\ UNCHANGED <<connected, written, leads, due, ticks, card, read>>

WeekStartFor(d) == d - (d % DaysInWeek)

\* Strictly the next first day of a week.
FirstRunAt(d) == WeekStartFor(d) + DaysInWeek

\* gm wa-connect, with the weekly schedule of the card.
Connect ==
  /\ connected' = TRUE
  /\ due' = IF due = 0 THEN FirstRunAt(day) ELSE due
  /\ UNCHANGED <<day, written, leads, ticks, card, read>>

Write(m) ==
  /\ m \notin DOMAIN written
  /\ written' = [x \in DOMAIN written \union {m} |-> IF x = m THEN day ELSE written[x]]
  /\ UNCHANGED <<day, connected, leads, due, ticks, card, read>>

\* The first delivery makes the row, with the time of the message.
Recorded(m) ==
  IF \E l \in leads : l.id[1] = m THEN leads
  ELSE leads \union {[id |-> <<m, 0>>, day |-> written[m]]}

\* Each event in a transaction of its own: recorded, or dropped for want of a
\* connection, or failed and logged.
Deliver(m) ==
  /\ m \in DOMAIN written
  /\ \/ connected /\ leads' = Recorded(m)
     \/ UNCHANGED leads
  /\ UNCHANGED <<day, connected, written, due, ticks, card, read>>

\* The webhook answers 200 in any case, and Meta may deliver the message again
\* in any case.
Webhook == \E m \in Messages : Deliver(m)

Manual == {l \in leads : l.id[1] = "manual"}

\* gm lead add: a row for each call, for any day so far.
AddLead ==
  /\ Cardinality(Manual) < MaxManual
  /\ \E on \in 0 .. day :
       leads' = leads \union {[id |-> <<"manual", Cardinality(Manual)>>, day |-> on]}
  /\ UNCHANGED <<day, connected, written, due, ticks, card, read>>

-----------------------------------------------------------------------------
(* The card *)

Booked(from, until) == Cardinality({l \in leads : from <= l.day /\ l.day < until})

\* Mutant: the week before loses its first day.
WeekStatsShort(ws) ==
  [week |-> ws, booked |-> Booked(ws, ws + DaysInWeek),
   prev |-> Booked(ws - DaysInWeek + 1, ws)]

WeekStats(ws) ==
  [week |-> ws, booked |-> Booked(ws, ws + DaysInWeek), prev |-> Booked(ws - DaysInWeek, ws)]

Trend(stats) ==
  IF stats.booked > stats.prev THEN "up" ELSE IF stats.booked < stats.prev THEN "down" ELSE "flat"

\* The best climb, else the best entry, else a resolved finding, else the
\* score of the last receipt; a fall in rank is never told.
DeltaLine(e) ==
  LET Ranked == {m \in e.moves : m.last > 0}
      Gains  == {m.first - m.last : m \in {x \in Ranked : x.first > x.last}}
      Enters == {m.last : m \in {x \in Ranked : x.first = 0}}
  IN  CASE Gains # {}               -> <<"climbed", Max(Gains)>>
        [] Gains = {} /\ Enters # {} -> <<"entered", Min(Enters)>>
        [] OTHER -> IF e.resolved THEN <<"resolved", 1>>
                    ELSE IF e.score # "none" THEN <<"score", e.score>> ELSE <<"nothing yet", 0>>

\* Missed ticks are one.
Tick ==
  /\ 0 < due /\ due <= day
  /\ ticks' = ticks + 1
  /\ due' = due + DaysInWeek * (1 + (day - due) \div DaysInWeek)
  /\ UNCHANGED <<day, connected, written, leads, card, read>>

\* The rows are read in one transaction.
Build(by, ws) ==
  /\ card = NoCard /\ connected /\ Len(read) < MaxCards
  /\ \E e \in Evidence :
       LET text == WeekStats(ws) IN
       /\ card' = [phase |-> "built", by |-> by, text |-> text, trend |-> Trend(text),
                   line |-> DeltaLine(e)]
       /\ read' = Append(read, [stats |-> text, by |-> by, on |-> day])
  /\ UNCHANGED <<day, connected, written, leads, due, ticks>>

\* send_lead_card: the week is the payload's, or that of the clock.  The
\* schedule's payload is empty.
BuildScheduled == ticks > 0 /\ Build("schedule", WeekStartFor(day))
BuildPinned    == \E ws \in Pinned : Build("payload", WeekStartFor(ws))

\* gm lead card --send: no job, and no trail.
BuildByHand == Build("operator", WeekStartFor(day))

SendCard ==
  /\ card.phase = "built"
  /\ \E call \in Calls(MAX_RETRIES) :
       Result(call) = "ok" /\ card' = [card EXCEPT !.phase = "sent"]
  /\ UNCHANGED <<day, connected, written, leads, due, ticks, read>>

\* The trail, a cost event of nothing, commits with the job.
CommitCard ==
  /\ card.phase = "sent" /\ card' = NoCard
  /\ ticks' = IF card.by = "schedule" THEN ticks - 1 ELSE ticks
  /\ UNCHANGED <<day, connected, written, leads, due, read>>

\* Whatever has reached the buyer, the job is tried again, or dead.
AbortCard ==
  /\ card # NoCard /\ card' = NoCard
  /\ ticks' \in (IF card.by = "schedule" THEN {ticks, ticks - 1} ELSE {ticks})
  /\ UNCHANGED <<day, connected, written, leads, due, read>>

LeadsNext ==
  \/ Midnight \/ Connect \/ AddLead \/ Tick
  \/ Webhook \/ \E m \in Messages : Write(m)
  \/ BuildScheduled \/ BuildPinned \/ BuildByHand \/ SendCard \/ CommitCard \/ AbortCard

LeadsSpec == LeadsInit /\ [][LeadsNext]_leadsVars

-----------------------------------------------------------------------------
(* Properties *)

\* The figures of the cards add up.  Read later, a week never has fewer leads;
\* what one card calls this week's count the card of the next week calls last
\* week's, plus what came in late; however often Meta delivers a message it
\* is counted once, and nobody is counted who has not written or been logged
\* (whatsapp.py 301-315, leadcard.py 101-139).
CardsAddUp ==
  /\ \A i, j \in DOMAIN read :
       i < j =>
         LET then == read[i].stats
             now  == read[j].stats
         IN  /\ then.week = now.week => then.booked <= now.booked
             /\ then.week + DaysInWeek = now.week => then.booked <= now.prev
  /\ Cardinality(leads) <= Cardinality(DOMAIN written) + Cardinality(Manual)

\* What the comment on the first tick promises: "D1 weeks are Mon-start, so the
\* first card covers a full tracked week" (schedules.py 59-61).  The card of
\* the tick tells of the week that begins with it (leadcard.py 410-418).
FirstCardCoversAFullWeek ==
  \A i \in DOMAIN read :
    (read[i].by = "schedule" /\ \A j \in 1 .. i - 1 : read[j].by # "schedule")
      => read[i].stats.week + DaysInWeek <= read[i].on
=============================================================================
