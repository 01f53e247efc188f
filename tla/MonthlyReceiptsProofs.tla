------------------------ MODULE MonthlyReceiptsProofs ------------------------
(* Proofs about the monthly receipt, for any cadence and start month, any     *)
(* number of months, late ticks, receipts by hand and waiting jobs.           *)
EXTENDS MonthlyReceipts, FiniteSetTheorems, TLAPS

-----------------------------------------------------------------------------
(* The inductive invariant *)

\* Months follow each other.
CalendarInv ==
  /\ first \in [1..(LastMonth + 1) -> Nat]
  /\ first[1] = 1
  /\ \A m, n \in 1..(LastMonth + 1) : m < n => first[m] < first[n]

\* Each day told is in a month, and a tick comes after the month it began in.
ClockInv ==
  /\ date \in Nat \ {0} /\ date < first[LastMonth + 1]
  /\ \A d \in 1..date : \E m \in Months : first[m] <= d /\ d < first[m + 1]
  /\ next \in Nat /\ first[2] <= next
  /\ ticked \in Nat /\ late \in Nat

JobsInv ==
  \A created \in monthly :
    created \in 1..date /\ first[2] <= created /\ created < next

\* A period has its key when it is over.
KeysInv ==
  /\ keys \subseteq Months /\ receipts \subseteq keys /\ assembled \subseteq keys
  /\ delta \in [Months -> {"none", "partial", "final"}]
  /\ \A p \in keys : Ended(p) /\ first[p + 1] < next

\* The periods that have their key or will have it.
Underway == keys \union {PriorPeriod(created) : created \in monthly}

OnePeriodPerTick == IsFiniteSet(Underway) /\ Cardinality(Underway) <= ticked

\* Ticks served on their day miss no month as long as the cadence.
CadenceInv ==
  late = 0 =>
    \A m \in 2..LastMonth :
      first[m + 1] <= next /\ first[m + 1] - first[m] >= Every => m - 1 \in Underway

IInv == /\ CalendarInv /\ ClockInv /\ JobsInv /\ KeysInv
        /\ DeliveredIsFinal /\ OnePeriodPerTick /\ CadenceInv

-----------------------------------------------------------------------------
(* The calendar *)

\* The table of a year ascends, and a year is longer than its table.
LEMMA TableAscends ==
  ASSUME NEW leap \in BOOLEAN
  PROVE  /\ \A c \in 1..12 : DaysBefore(c, leap) \in 0..335
         /\ \A c, e \in 1..12 : c < e => DaysBefore(c, leap) < DaysBefore(e, leap)
BY DEF DaysBefore

\* Later months begin later.
LEMMA NumbersAscend ==
  ASSUME NEW leap \in BOOLEAN, NEW k \in Nat, NEW l \in Nat, k < l
  PROVE  DayNumber(k, leap) \in Nat /\ DayNumber(k, leap) < DayNumber(l, leap)
<1>. DEFINE year == IF leap THEN 366 ELSE 365
            kc == (k % 12) + 1
            lc == (l % 12) + 1
            dk == DaysBefore(kc, leap)
            dl == DaysBefore(lc, leap)
<1>1. kc \in 1..12 /\ lc \in 1..12 /\ k \div 12 \in Nat /\ l \div 12 \in Nat
  OBVIOUS
<1>2. dk \in 0..335 /\ dl \in 0..335 /\ (kc < lc => dk < dl)
  BY <1>1, TableAscends
<1>3. \/ k \div 12 = l \div 12 /\ kc < lc
      \/ k \div 12 + 1 <= l \div 12
  OBVIOUS
<1>4. /\ DayNumber(k, leap) = (k \div 12) * year + dk
      /\ DayNumber(l, leap) = (l \div 12) * year + dl
  BY DEF DayNumber
<1>5. year \in {365, 366}
  OBVIOUS
<1>. HIDE DEF kc, lc, dk, dl, year
<1>6. ASSUME NEW y \in {365, 366}, NEW a \in Nat, NEW b \in Nat, a + 1 <= b
      PROVE  a * y + 336 < b * y
  <2>1. CASE y = 365
    BY <1>6, <2>1
  <2>2. CASE y = 366
    BY <1>6, <2>2
  <2>. QED
    BY <1>6, <2>1, <2>2
<1>7. (k \div 12) * year \in Nat /\ (l \div 12) * year \in Nat
  BY <1>1, <1>5
<1>8. ASSUME NEW a \in Nat, NEW b \in Nat, NEW x \in 0..335, NEW y \in 0..335,
             \/ a = b /\ x < y
             \/ a + 336 < b
      PROVE  a + x \in Nat /\ a + x < b + y
  BY <1>8
<1>9. CASE k \div 12 = l \div 12 /\ kc < lc
  <2>1. (k \div 12) * year = (l \div 12) * year
    BY <1>9
  <2>2. (k \div 12) * year + dk \in Nat /\ (k \div 12) * year + dk < (l \div 12) * year + dl
    BY <1>2, <1>7, <1>8, <1>9, <2>1
  <2>. QED
    BY <1>4, <2>2, Zenon
<1>10. CASE k \div 12 + 1 <= l \div 12
  <2>1. (k \div 12) * year + 336 < (l \div 12) * year
    BY <1>1, <1>5, <1>6, <1>10
  <2>2. (k \div 12) * year + dk \in Nat /\ (k \div 12) * year + dk < (l \div 12) * year + dl
    BY <1>2, <1>7, <1>8, <2>1
  <2>. QED
    BY <1>4, <2>2, Zenon
<1>. QED
  BY <1>3, <1>9, <1>10

\* The calendar of any start month ascends from day 1.
LEMMA CalendarAscends ==
  ASSUME NEW start \in StartMonths, NEW leap \in BOOLEAN, first = Calendar(start, leap)
  PROVE  CalendarInv
<1>1. start \in 1..12 /\ LastMonth \in Nat \ {0, 1}
  BY ReceiptsAssumption
<1>2. \A m \in 1..(LastMonth + 1) :
        /\ start + m - 2 \in Nat /\ start - 1 \in Nat
        /\ start - 1 <= start + m - 2
        /\ first[m] = 1 + DayNumber(start + m - 2, leap) - DayNumber(start - 1, leap)
  BY <1>1 DEF Calendar
<1>3. \A k, l \in Nat : k < l =>
        /\ DayNumber(k, leap) \in Nat
        /\ DayNumber(l, leap) \in Nat
        /\ DayNumber(k, leap) < DayNumber(l, leap)
  <2>1. \A k \in Nat : k < k + 1 /\ k + 1 \in Nat
    OBVIOUS
  <2>. QED
    BY <2>1, NumbersAscend
<1>4. \A k \in Nat : DayNumber(k, leap) \in Nat
  <2>1. \A k \in Nat : k < k + 1 /\ k + 1 \in Nat
    OBVIOUS
  <2>. QED
    BY <1>3, <2>1
<1>5. \A m \in 1..(LastMonth + 1) : first[m] \in Nat
  <2>. SUFFICES ASSUME NEW m \in 1..(LastMonth + 1) PROVE first[m] \in Nat
    OBVIOUS
  <2>1. CASE start - 1 = start + m - 2
    BY <1>2, <1>4, <2>1
  <2>2. CASE start - 1 < start + m - 2
    BY <1>2, <1>3, <1>4, <2>2
  <2>. QED
    BY <1>1, <2>1, <2>2
<1>6. first[1] = 1
  <2>1. 1 \in 1..(LastMonth + 1) /\ start + 1 - 2 = start - 1
    BY <1>1
  <2>. QED
    BY <1>2, <1>4, <2>1
<1>7. \A m, n \in 1..(LastMonth + 1) : m < n => first[m] < first[n]
  <2>. SUFFICES ASSUME NEW m \in 1..(LastMonth + 1), NEW n \in 1..(LastMonth + 1), m < n
                PROVE  first[m] < first[n]
    OBVIOUS
  <2>1. start + m - 2 < start + n - 2
    BY <1>1
  <2>. QED
    BY <1>2, <1>3, <1>4, <2>1
<1>. QED
  BY <1>5, <1>6, <1>7 DEF CalendarInv, Calendar

\* A day that is in some month is in one.
LEMMA MonthsAreDisjoint ==
  ASSUME CalendarInv, NEW d \in Nat,
         NEW m \in Months, first[m] <= d, d < first[m + 1]
  PROVE  MonthOf(d) = m
<1>1. \A n \in Months : first[n] <= d /\ d < first[n + 1] => n = m
  <2>. SUFFICES ASSUME NEW n \in Months, first[n] <= d, d < first[n + 1] PROVE n = m
    OBVIOUS
  <2>0. n \in Nat /\ m \in Nat /\ n \in 1..(LastMonth + 1) /\ m \in 1..(LastMonth + 1)
        /\ n + 1 \in 1..(LastMonth + 1) /\ m + 1 \in 1..(LastMonth + 1)
    BY ReceiptsAssumption DEF Months
  <2>1. \A i \in 1..(LastMonth + 1) : first[i] \in Nat
    BY DEF CalendarInv
  <2>2. ASSUME n < m PROVE FALSE
    <3>1. first[n + 1] <= first[m]
      BY <2>0, <2>1, <2>2 DEF CalendarInv
    <3>. QED
      BY <2>0, <2>1, <3>1
  <2>3. ASSUME m < n PROVE FALSE
    <3>1. first[m + 1] <= first[n]
      BY <2>0, <2>1, <2>3 DEF CalendarInv
    <3>. QED
      BY <2>0, <2>1, <3>1
  <2>. QED
    BY <2>0, <2>2, <2>3
<1>. QED
  BY <1>1 DEF MonthOf

\* The period of a job is the month before the one it was created in.
LEMMA PeriodIsOver ==
  ASSUME CalendarInv, ClockInv, NEW d \in 1..date, first[2] <= d
  PROVE  /\ MonthOf(d) \in Months /\ first[MonthOf(d)] <= d /\ d < first[MonthOf(d) + 1]
         /\ PriorPeriod(d) \in Months /\ PriorPeriod(d) + 1 = MonthOf(d)
<1>1. /\ MonthOf(d) \in Months /\ first[MonthOf(d)] <= d /\ d < first[MonthOf(d) + 1]
  BY DEF ClockInv, MonthOf
<1>2. MonthOf(d) # 1
  <2>1. 1 \in 1..(LastMonth + 1) /\ 2 \in 1..(LastMonth + 1) /\ d \in Nat
    BY ReceiptsAssumption DEF ClockInv
  <2>. QED
    BY <1>1, <2>1 DEF CalendarInv
<1>. QED
  BY <1>1, <1>2, ReceiptsAssumption DEF PriorPeriod, Months

-----------------------------------------------------------------------------
(* The steps, one lemma for each action *)

\* Before the first tick.
LEMMA InitInv == ReceiptsInit => IInv
<1>. SUFFICES ASSUME ReceiptsInit PROVE IInv
  OBVIOUS
<1>1. CalendarInv
  BY CalendarAscends DEF ReceiptsInit
<1>2. LastMonth \in Nat \ {0, 1}
  BY ReceiptsAssumption
<1>3. \A m \in 1..(LastMonth + 1) : first[m] \in Nat
  BY <1>1 DEF CalendarInv
<1>4. 1 \in 1..(LastMonth + 1) /\ 2 \in 1..(LastMonth + 1) /\ LastMonth + 1 \in 1..(LastMonth + 1)
  BY <1>2
<1>5. first[1] < first[2] /\ first[1] < first[LastMonth + 1] /\ first[1] = 1
  BY <1>1, <1>2, <1>4 DEF CalendarInv
<1>6. ClockInv
  <2>1. \A d \in 1..date : first[1] <= d /\ d < first[1 + 1]
    BY <1>3, <1>4, <1>5 DEF ReceiptsInit
  <2>2. 1 \in Months
    BY <1>2 DEF Months
  <2>. QED
    BY <1>3, <1>4, <1>5, <2>1, <2>2 DEF ReceiptsInit, ClockInv, FirstReceiptAt
<1>7. JobsInv /\ KeysInv /\ DeliveredIsFinal
  BY DEF ReceiptsInit, JobsInv, KeysInv, DeliveredIsFinal
<1>8. OnePeriodPerTick
  <2>1. Underway = {}
    BY DEF ReceiptsInit, Underway
  <2>. QED
    BY <2>1, FS_EmptySet DEF ReceiptsInit, OnePeriodPerTick
<1>9. CadenceInv
  <2>. SUFFICES ASSUME NEW m \in 2..LastMonth, first[m + 1] <= next PROVE FALSE
    BY DEF CadenceInv
  <2>1. m + 1 \in 1..(LastMonth + 1) /\ 2 < m + 1
    BY <1>2
  <2>2. first[2] < first[m + 1]
    BY <1>1, <1>4, <2>1 DEF CalendarInv
  <2>. QED
    BY <1>3, <1>4, <2>1, <2>2 DEF ReceiptsInit, FirstReceiptAt
<1>. QED
  BY <1>1, <1>6, <1>7, <1>8, <1>9 DEF IInv

\* Quotient and rest.
LEMMA Division ==
  ASSUME NEW x \in Nat, NEW e \in Nat \ {0}
  PROVE  x \div e \in Nat /\ x = e * (x \div e) + (x % e) /\ x % e \in Nat /\ x % e < e
OBVIOUS

\* The next tick is past today, and a whole number of cadences away.
LEMMA TicksGoOn ==
  ASSUME NEW n \in Nat, NEW d \in Nat, n <= d
  PROVE  LET c == n + Every * (((d - n) \div Every) + 1) IN
         c \in Nat /\ d < c /\ (n = d => c = n + Every)
<1>. DEFINE x == d - n
            k == x \div Every
<1>1. Every \in Nat \ {0} /\ x \in Nat
  BY ReceiptsAssumption
<1>2. /\ k \in Nat /\ x = Every * k + (x % Every)
      /\ x % Every \in Nat /\ x % Every < Every
  BY <1>1, Division
<1>3. Every * (k + 1) = Every * k + Every
  BY <1>1, <1>2
<1>4. x = 0 => k = 0
  BY <1>1
<1>5. Every * k \in Nat /\ (k = 0 => Every * k = 0)
  BY <1>1, <1>2
<1>. HIDE DEF k
<1>6. n + Every * (k + 1) \in Nat /\ d < n + Every * (k + 1)
      /\ (n = d => n + Every * (k + 1) = n + Every)
  BY <1>1, <1>2, <1>3, <1>4, <1>5
<1>. QED
  BY <1>6 DEF k

\* A tick enqueues one job, for the month before.
LEMMA SweepStep == IInv /\ Sweep => IInv'
<1>. SUFFICES ASSUME IInv, Sweep PROVE IInv'
  OBVIOUS
<1>0. /\ CalendarInv /\ ClockInv /\ JobsInv /\ KeysInv
      /\ DeliveredIsFinal /\ OnePeriodPerTick /\ CadenceInv
  BY DEF IInv
<1>1. /\ first' = first /\ date' = date /\ keys' = keys /\ receipts' = receipts
      /\ delta' = delta /\ assembled' = assembled
      /\ monthly' = monthly \union {date} /\ ticked' = ticked + 1 /\ next <= date
  BY DEF Sweep
<1>2. /\ next' \in Nat /\ date < next' /\ (next = date => next' = next + Every)
      /\ next \in Nat /\ date \in Nat
  BY <1>0, TicksGoOn DEF Sweep, Collapsed, ClockInv
<1>3. /\ first[2] \in Nat /\ first[2] <= date /\ date \in 1..date
      /\ \A i \in 1..(LastMonth + 1) : first[i] \in Nat
  BY <1>0, <1>1, <1>2, ReceiptsAssumption DEF ClockInv, CalendarInv
<1>4. /\ MonthOf(date) \in Months /\ first[MonthOf(date)] <= date /\ date < first[MonthOf(date) + 1]
      /\ PriorPeriod(date) \in Months /\ PriorPeriod(date) + 1 = MonthOf(date)
  BY <1>0, <1>3, PeriodIsOver
<1>5. CalendarInv'
  BY <1>0, <1>1 DEF CalendarInv
<1>6. ClockInv'
  <2>1. late' \in Nat
    BY <1>0 DEF Sweep, ClockInv
  <2>. QED
    BY <1>0, <1>1, <1>2, <1>3, <2>1 DEF ClockInv
<1>7. JobsInv'
  BY <1>0, <1>1, <1>2, <1>3 DEF JobsInv
<1>8. KeysInv'
  <2>1. \A p \in keys : first[p + 1] < next'
    <3>. SUFFICES ASSUME NEW p \in keys PROVE first[p + 1] < next'
      OBVIOUS
    <3>1. p + 1 \in 1..(LastMonth + 1) /\ first[p + 1] < next
      BY <1>0, ReceiptsAssumption DEF KeysInv, Months
    <3>. QED
      BY <1>1, <1>2, <1>3, <3>1
  <2>. QED
    BY <1>0, <1>1, <2>1 DEF KeysInv, Ended
<1>9. DeliveredIsFinal'
  BY <1>0, <1>1 DEF DeliveredIsFinal
<1>10. Underway' = Underway \union {PriorPeriod(date)}
  <2>1. \A c \in monthly' : PriorPeriod(c)' = PriorPeriod(c)
    BY <1>1 DEF PriorPeriod, MonthOf
  <2>2. Underway' = keys \union {PriorPeriod(c) : c \in monthly \union {date}}
    BY <1>1, <2>1 DEF Underway
  <2>. QED
    BY <2>2 DEF Underway
<1>11. OnePeriodPerTick'
  <2>0. IsFiniteSet(Underway) /\ Cardinality(Underway) \in Nat
    BY <1>0, FS_CardinalityType DEF OnePeriodPerTick
  <2>1. /\ IsFiniteSet(Underway')
        /\ Cardinality(Underway') <= Cardinality(Underway) + 1
    BY <1>10, <2>0, FS_AddElement
  <2>2. Cardinality(Underway') \in Nat
    BY <2>1, FS_CardinalityType
  <2>. QED
    BY <1>0, <1>1, <2>0, <2>1, <2>2 DEF OnePeriodPerTick, ClockInv
<1>12. CadenceInv'
  <2>. SUFFICES ASSUME late' = 0, NEW m \in 2..LastMonth,
                       first[m + 1] <= next', first[m + 1] - first[m] >= Every
                PROVE  m - 1 \in Underway'
    BY <1>1 DEF CadenceInv
  <2>1. next = date /\ late = 0
    BY <1>0, <1>1, <1>2 DEF Sweep, ClockInv
  <2>2. next' = next + Every /\ Every \in Nat
    BY <1>2, <2>1, ReceiptsAssumption
  <2>3. /\ m \in Months /\ m \in 1..(LastMonth + 1) /\ m + 1 \in 1..(LastMonth + 1)
        /\ first[m] \in Nat /\ first[m + 1] \in Nat
    BY <1>3, ReceiptsAssumption DEF Months
  <2>4. CASE first[m + 1] <= next
    BY <1>0, <1>10, <2>1, <2>4 DEF CadenceInv
  <2>5. CASE next < first[m + 1]
    <3>1. first[m] <= date
      BY <1>2, <2>1, <2>2, <2>3
    <3>2. MonthOf(date) = m
      BY <1>0, <1>2, <2>1, <2>3, <2>5, <3>1, MonthsAreDisjoint
    <3>. QED
      BY <1>10, <3>2 DEF PriorPeriod
  <2>. QED
    BY <1>2, <2>3, <2>4, <2>5
<1>. QED
  BY <1>5, <1>6, <1>7, <1>8, <1>9, <1>11, <1>12 DEF IInv

\* A monthly job, however often it runs, makes its period's key.
LEMMA RunMonthlyStep ==
  ASSUME IInv, NEW created \in monthly, RunMonthly(created)
  PROVE  IInv'
<1>. DEFINE p == PriorPeriod(created)
<1>0. /\ CalendarInv /\ ClockInv /\ JobsInv /\ KeysInv
      /\ DeliveredIsFinal /\ OnePeriodPerTick /\ CadenceInv
  BY DEF IInv
<1>1. /\ first' = first /\ date' = date /\ next' = next /\ delta' = delta
      /\ ticked' = ticked /\ late' = late /\ assembled' = assembled
      /\ keys' = keys \union {p} /\ receipts' \subseteq receipts \union {p}
      /\ monthly' \subseteq monthly /\ monthly \subseteq monthly' \union {created}
  BY DEF RunMonthly
<1>2. created \in 1..date /\ first[2] <= created /\ created < next
  BY <1>0 DEF JobsInv
<1>3. /\ first[MonthOf(created)] <= created /\ p \in Months /\ p + 1 = MonthOf(created)
  BY <1>0, <1>2, PeriodIsOver
<1>4. CalendarInv' /\ ClockInv' /\ JobsInv' /\ DeliveredIsFinal'
  BY <1>0, <1>1 DEF CalendarInv, ClockInv, JobsInv, DeliveredIsFinal
<1>5. KeysInv'
  <2>1. first[p + 1] \in Nat
    BY <1>0, <1>3, ReceiptsAssumption DEF CalendarInv, Months
  <2>2. first[p + 1] <= date /\ first[p + 1] < next
    BY <1>0, <1>2, <1>3, <2>1 DEF ClockInv
  <2>. HIDE DEF p
  <2>. QED
    BY <1>0, <1>1, <1>3, <2>2 DEF KeysInv, Ended
<1>6. Underway' = Underway
  BY <1>1 DEF Underway, PriorPeriod, MonthOf
<1>7. OnePeriodPerTick' /\ CadenceInv'
  BY <1>0, <1>1, <1>6 DEF OnePeriodPerTick, CadenceInv
<1>. QED
  BY <1>4, <1>5, <1>7 DEF IInv

\* What is assembled once the month is over is final.
LEMMA AssembleStep ==
  ASSUME IInv, NEW p \in Months, Assemble(p),
         UNCHANGED <<first, date, next, monthly, keys, ticked, late>>,
         receipts' \subseteq receipts,
         assembled' = assembled \/ (p \in keys /\ assembled' = assembled \union {p})
  PROVE  IInv'
<1>0. /\ CalendarInv /\ ClockInv /\ JobsInv /\ KeysInv
      /\ DeliveredIsFinal /\ OnePeriodPerTick /\ CadenceInv
  BY DEF IInv
<1>1. CalendarInv' /\ ClockInv' /\ JobsInv'
  BY <1>0 DEF CalendarInv, ClockInv, JobsInv
<1>2. KeysInv'
  BY <1>0 DEF KeysInv, Ended, Assemble
<1>3. DeliveredIsFinal'
  BY <1>0 DEF KeysInv, DeliveredIsFinal, Assemble
<1>4. Underway' = Underway
  BY DEF Underway, PriorPeriod, MonthOf
<1>5. OnePeriodPerTick' /\ CadenceInv'
  BY <1>0, <1>4 DEF OnePeriodPerTick, CadenceInv
<1>. QED
  BY <1>1, <1>2, <1>3, <1>5 DEF IInv

\* The day after is in the same month or on the first of the next.
LEMMA NextDayStep == IInv /\ NextDay => IInv'
<1>. SUFFICES ASSUME IInv, NextDay PROVE IInv'
  OBVIOUS
<1>0. /\ CalendarInv /\ ClockInv /\ JobsInv /\ KeysInv
      /\ DeliveredIsFinal /\ OnePeriodPerTick /\ CadenceInv
  BY DEF IInv
<1>1. /\ UNCHANGED <<first, next, monthly, keys, receipts, delta, ticked, late, assembled>>
      /\ date' = date + 1 /\ date + 1 < first[LastMonth + 1] /\ date \in Nat \ {0}
  BY <1>0 DEF NextDay, ClockInv
<1>2. \A i \in 1..(LastMonth + 1) : first[i] \in Nat
  BY <1>0 DEF CalendarInv
<1>3. \E m \in Months : first[m] <= date + 1 /\ date + 1 < first[m + 1]
  <2>1. date \in 1..date
    BY <1>1
  <2>2. PICK m \in Months : first[m] <= date /\ date < first[m + 1]
    BY <1>0, <2>1 DEF ClockInv
  <2>3. m \in 1..(LastMonth + 1) /\ m + 1 \in 1..(LastMonth + 1) /\ m \in 1..LastMonth
    BY ReceiptsAssumption DEF Months
  <2>4. CASE date + 1 < first[m + 1]
    BY <1>1, <1>2, <2>2, <2>3, <2>4
  <2>5. CASE date + 1 = first[m + 1]
    <3>1. m # LastMonth
      BY <1>1, <1>2, <2>3, <2>5
    <3>2. m + 1 \in Months /\ m + 2 \in 1..(LastMonth + 1) /\ m + 1 < m + 2 /\ (m + 1) + 1 = m + 2
      BY <2>3, <3>1, ReceiptsAssumption DEF Months
    <3>3. first[m + 1] < first[(m + 1) + 1]
      BY <1>0, <2>3, <3>2 DEF CalendarInv
    <3>. QED
      BY <1>1, <1>2, <2>3, <2>5, <3>2, <3>3
  <2>. QED
    BY <1>1, <1>2, <2>2, <2>3, <2>4, <2>5
<1>4. CalendarInv' /\ JobsInv' /\ DeliveredIsFinal'
  BY <1>0, <1>1 DEF CalendarInv, JobsInv, DeliveredIsFinal
<1>5. ClockInv'
  <2>1. \A d \in 1..(date + 1) : d \in 1..date \/ d = date + 1
    BY <1>1
  <2>. QED
    BY <1>0, <1>1, <1>3, <2>1 DEF ClockInv
<1>6. KeysInv'
  <2>1. \A p \in keys : first[p + 1] \in Nat /\ first[p + 1] <= date
    BY <1>0, <1>2, ReceiptsAssumption DEF KeysInv, Ended, Months
  <2>2. \A p \in keys : first[p + 1] <= date + 1
    BY <1>1, <2>1
  <2>. QED
    BY <1>0, <1>1, <2>2 DEF KeysInv, Ended
<1>7. Underway' = Underway
  BY <1>1 DEF Underway, PriorPeriod, MonthOf
<1>8. OnePeriodPerTick' /\ CadenceInv'
  BY <1>0, <1>1, <1>7 DEF OnePeriodPerTick, CadenceInv
<1>. QED
  BY <1>4, <1>5, <1>6, <1>8 DEF IInv

\* No step breaks the invariant.
LEMMA NextStep == IInv /\ [ReceiptsNext]_receiptsVars => IInv'
<1>. SUFFICES ASSUME IInv, [ReceiptsNext]_receiptsVars PROVE IInv'
  OBVIOUS
<1>1. ASSUME NEW p \in receipts, RunReceipt(p) PROVE IInv'
  <2>1. p \in keys /\ p \in Months
    BY DEF IInv, KeysInv
  <2>. QED
    BY <1>1, <2>1, AssembleStep DEF RunReceipt
<1>2. ASSUME NEW p \in Months, ReceiptByHand(p) PROVE IInv'
  BY <1>2, AssembleStep DEF ReceiptByHand
<1>3. CASE UNCHANGED receiptsVars
  <2>1. /\ CalendarInv /\ ClockInv /\ JobsInv /\ KeysInv
        /\ DeliveredIsFinal /\ OnePeriodPerTick /\ CadenceInv
    BY DEF IInv
  <2>2. CalendarInv' /\ ClockInv' /\ JobsInv' /\ KeysInv' /\ DeliveredIsFinal'
    BY <1>3, <2>1 DEF receiptsVars, CalendarInv, ClockInv, JobsInv, KeysInv, DeliveredIsFinal, Ended
  <2>3. Underway' = Underway
    BY <1>3 DEF receiptsVars, Underway, PriorPeriod, MonthOf
  <2>4. OnePeriodPerTick' /\ CadenceInv'
    BY <1>3, <2>1, <2>3 DEF receiptsVars, OnePeriodPerTick, CadenceInv
  <2>. QED
    BY <2>2, <2>4 DEF IInv
<1>. QED
  BY <1>1, <1>2, <1>3, SweepStep, RunMonthlyStep, NextDayStep DEF ReceiptsNext

-----------------------------------------------------------------------------
(* The theorems *)

\* The invariant holds of every schedule.
THEOREM InductiveInvariant == ReceiptsSpec => []IInv
BY InitInv, NextStep, PTL DEF ReceiptsSpec

\* A receipt the schedule delivered shows its whole month: the job's period is
\* the month before its created_at, which is over (receipts.py, schedules.py).
THEOREM DeliveredReceiptsAreFinal == ReceiptsSpec => []DeliveredIsFinal
<1>1. IInv => DeliveredIsFinal
  BY DEF IInv
<1>. QED
  BY <1>1, InductiveInvariant, PTL

\* A retry finds the period of the first attempt, in whatever month it runs:
\* one tick leads to at most one period.
THEOREM OnePeriodATick == ReceiptsSpec => []RetriesPinThePeriod
<1>1. ASSUME IInv PROVE RetriesPinThePeriod
  <2>1. IsFiniteSet(Underway) /\ Cardinality(Underway) <= ticked /\ ticked \in Nat
    BY <1>1 DEF IInv, OnePeriodPerTick, ClockInv
  <2>2. keys \subseteq Underway
    BY DEF Underway
  <2>3. Cardinality(keys) <= Cardinality(Underway) /\ IsFiniteSet(keys)
    BY <2>1, <2>2, FS_Subset
  <2>4. Cardinality(keys) \in Nat /\ Cardinality(Underway) \in Nat
    BY <2>1, <2>3, FS_CardinalityType
  <2>. QED
    BY <2>1, <2>3, <2>4 DEF RetriesPinThePeriod
<1>. QED
  BY <1>1, InductiveInvariant, PTL

\* Ticks served on their day pass over no month that is as long as the cadence.
THEOREM OnlyShortMonthsArePassedOver == ReceiptsSpec => []GapOnlyBeforeFebruary
<1>1. ASSUME IInv PROVE GapOnlyBeforeFebruary
  <2>0. CalendarInv /\ ClockInv /\ KeysInv /\ CadenceInv
    BY <1>1 DEF IInv
  <2>. SUFFICES ASSUME late = 0, monthly = {}, NEW p \in PassedOver
                PROVE  first[p + 2] - first[p + 1] < Every
    BY DEF GapOnlyBeforeFebruary
  <2>1. PICK q \in keys, o \in keys : p < q /\ o < p
    BY DEF PassedOver
  <2>2. /\ p \in Months /\ p \notin keys /\ q \in Months /\ o \in Months
        /\ LastMonth \in Nat /\ Every \in Nat
    BY <2>0, ReceiptsAssumption DEF PassedOver, KeysInv
  <2>3. /\ p + 1 \in 2..LastMonth /\ (p + 1) - 1 = p /\ (p + 1) + 1 = p + 2 /\ p + 2 <= q + 1
        /\ p + 1 \in 1..(LastMonth + 1) /\ p + 2 \in 1..(LastMonth + 1)
        /\ q + 1 \in 1..(LastMonth + 1)
    BY <2>1, <2>2 DEF Months
  <2>4. first[p + 1] \in Nat /\ first[p + 2] \in Nat /\ first[q + 1] \in Nat
    BY <2>0, <2>3 DEF CalendarInv
  <2>5. first[p + 2] <= first[q + 1]
    BY <2>0, <2>3, <2>4 DEF CalendarInv
  <2>6. first[q + 1] < next /\ next \in Nat
    BY <2>0 DEF KeysInv, ClockInv
  <2>7. Underway = keys
    BY DEF Underway
  <2>8. ~(first[p + 2] - first[p + 1] >= Every)
    BY <2>0, <2>2, <2>3, <2>4, <2>5, <2>6, <2>7 DEF CadenceInv
  <2>. QED
    BY <2>2, <2>4, <2>8
<1>. QED
  BY <1>1, InductiveInvariant, PTL
=============================================================================
