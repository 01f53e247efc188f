--------------------------- MODULE MonthlyReceipts ---------------------------
(***************************************************************************)
(* The monthly receipt of one site: its schedules row                      *)
(* (gm/core/schedules.py), the scheduler's ticks (gm/infra/scheduler.py),  *)
(* the thin assemble_receipt_monthly job and the receipts it leads to      *)
(* (gm/delivery/receipts.py, gm receipt of gm/cli.py).                     *)
(*                                                                         *)
(* Days are numbered from the 1st of the month the schedule is created in, *)
(* which is month 1; the day of a tick begins at its 06:00.  The queue     *)
(* runs a job at least once, at any time after it was enqueued.            *)
(***************************************************************************)
EXTENDS Integers, FiniteSets

CONSTANTS
  Every,        \* MONTHLY, in days
  StartMonths,  \* calendar months (1..12) a schedule may be created in
  \* Bounds of the model:
  LastMonth,    \* months counted
  MaxLate,      \* ticks the scheduler may serve after their day
  MaxByHand,    \* receipts the operator runs
  MaxBacklog    \* jobs waiting when a day ends

ASSUME ReceiptsAssumption ==
  /\ Every \in Nat \ {0}
  /\ StartMonths \subseteq 1..12
  /\ LastMonth \in Nat \ {0, 1}
  /\ MaxLate \in Nat /\ MaxByHand \in Nat /\ MaxBacklog \in Nat

Months == 1..LastMonth

VARIABLES
  first,      \* the calendar: the day number of the 1st of each month
  date,
  next,       \* next_run_at
  monthly,    \* created_at of the assemble_receipt_monthly jobs still to run
  keys,       \* periods whose `receipt:{site}:{period}' key is in the jobs table
  receipts,   \* assemble_receipt jobs still to run, by period
  delta,      \* site_deltas by period: "none", "partial" or "final"
  \* history: ticks enqueued, ticks served late, periods assembled by a job,
  \* receipts run by hand
  ticked, late, assembled, byHand

receiptsVars == <<first, date, next, monthly, keys, receipts, delta,
                  ticked, late, assembled, byHand>>

-----------------------------------------------------------------------------
(* The calendar *)

\* Days of a year before the 1st of its calendar month c.
DaysBefore(c, leap) ==
  (CASE c = 1 -> 0    [] c = 2 -> 31   [] c = 3 -> 59   [] c = 4 -> 90
     [] c = 5 -> 120  [] c = 6 -> 151  [] c = 7 -> 181  [] c = 8 -> 212
     [] c = 9 -> 243  [] c = 10 -> 273 [] c = 11 -> 304 [] c = 12 -> 334)
  + (IF leap /\ c > 2 THEN 1 ELSE 0)

\* Days before the k-th month from a January on, from 0; all years of a
\* behaviour are leap years or none is.
DayNumber(k, leap) ==
  (k \div 12) * (IF leap THEN 366 ELSE 365) + DaysBefore((k % 12) + 1, leap)

\* Month 1 is the calendar month start.
Calendar(start, leap) ==
  [m \in 1..(LastMonth + 1) |->
     1 + DayNumber(start + m - 2, leap) - DayNumber(start - 1, leap)]

Ended(p) == first[p + 1] <= date

MonthOf(d) == CHOOSE m \in Months : first[m] <= d /\ d < first[m + 1]

\* Mutants: the period follows the clock; it is the month under way; it is
\* the month a cadence ago.
PriorToNow(created) == MonthOf(date) - 1
UnderWay(created) == MonthOf(created)
CadenceAgo(created) == MonthOf(IF created > Every THEN created - Every ELSE 1)

\* The calendar month before created_at.
PriorPeriod(created) == MonthOf(created) - 1

-----------------------------------------------------------------------------
\* first_run_at: the 1st of next month.
FirstReceiptAt == first[2]

ReceiptsInit ==
  /\ \E start \in StartMonths, leap \in BOOLEAN : first = Calendar(start, leap)
  /\ date = 1
  /\ next = FirstReceiptAt
  /\ monthly = {}
  /\ keys = {}
  /\ receipts = {}
  /\ delta = [m \in Months |-> "none"]
  /\ ticked = 0 /\ late = 0 /\ byHand = 0
  /\ assembled = {}

\* run_due: the first tick of the lattice past now.
Collapsed == next + Every * (((date - next) \div Every) + 1)

Sweep ==
  /\ next <= date
  /\ late' = IF next < date THEN late + 1 ELSE late
  /\ next' = Collapsed
  /\ monthly' = monthly \union {date}
  /\ ticked' = ticked + 1
  /\ UNCHANGED <<first, date, keys, receipts, delta, assembled, byHand>>

\* handle_assemble_receipt_monthly; the job runs again if its worker was lost
\* after the commit.
RunMonthly(created) ==
  LET p == PriorPeriod(created) IN
  /\ created \in monthly
  /\ keys' = keys \union {p}
  /\ receipts' = IF p \in keys THEN receipts ELSE receipts \union {p}
  /\ monthly' \in {monthly, monthly \ {created}}
  /\ UNCHANGED <<first, date, next, delta, ticked, late, assembled, byHand>>

\* assemble_site_receipt: what the tables hold of the period today.
Assemble(p) ==
  delta' = [delta EXCEPT ![p] = IF Ended(p) THEN "final" ELSE "partial"]

RunReceipt(p) ==
  /\ p \in receipts
  /\ Assemble(p)
  /\ receipts' \in {receipts, receipts \ {p}}
  /\ assembled' = assembled \union {p}
  /\ UNCHANGED <<first, date, next, monthly, keys, ticked, late, byHand>>

\* gm receipt --period, the current month by default.
ReceiptByHand(p) ==
  /\ byHand < MaxByHand
  /\ first[p] <= date
  /\ byHand' = byHand + 1
  /\ Assemble(p)
  /\ UNCHANGED <<first, date, next, monthly, keys, receipts, ticked, late, assembled>>

NextDay ==
  /\ date + 1 < first[LastMonth + 1]
  /\ (next <= date) => (late < MaxLate)
  /\ Cardinality(monthly) + Cardinality(receipts) <= MaxBacklog
  /\ date' = date + 1
  /\ UNCHANGED <<first, next, monthly, keys, receipts, delta, ticked, late,
                 assembled, byHand>>

ReceiptsNext ==
  \/ Sweep
  \/ \E created \in monthly : RunMonthly(created)
  \/ \E p \in receipts : RunReceipt(p)
  \/ \E p \in Months : ReceiptByHand(p)
  \/ NextDay

ReceiptsSpec == ReceiptsInit /\ [][ReceiptsNext]_receiptsVars

-----------------------------------------------------------------------------
(* Properties *)

ReceiptsTypeOK ==
  /\ date \in 1..(first[LastMonth + 1] - 1)
  /\ next \in Nat
  /\ \A created \in monthly : created \in 1..date
  /\ receipts \subseteq keys /\ keys \subseteq Months
  /\ assembled \subseteq keys
  /\ delta \in [Months -> {"none", "partial", "final"}]

\* A receipt the schedule delivered shows its whole month, whatever the
\* operator ran by hand before or after and however late the jobs ran.
DeliveredIsFinal == \A p \in assembled : delta[p] = "final"

\* However often a monthly job runs, and in whichever month, one tick leads
\* to at most one period.
RetriesPinThePeriod == Cardinality(keys) <= ticked

\* Months passed over: earlier than one that has its key, without one.
PassedOver == {p \in Months : p \notin keys /\ \E q \in keys : p < q /\ \E o \in keys : o < p}

\* While every tick is served on its day, the 30 days of the cadence step
\* over a whole month only where it is shorter than they are: the month passed
\* over is the one before a February.
GapOnlyBeforeFebruary ==
  late = 0 /\ monthly = {} =>
    \A p \in PassedOver : first[p + 2] - first[p + 1] < Every

\* `a long outage produces one receipt, and the operator runs the explicit
\* gm receipt verb for any months in between' (schedules.py:15-18): without
\* an outage there are no months in between.
NoGapWithoutOutage == late = 0 /\ monthly = {} => PassedOver = {}

=============================================================================
