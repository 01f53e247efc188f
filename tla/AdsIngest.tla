----------------------------- MODULE AdsIngest -----------------------------
(***************************************************************************)
(* The spend of a site's ad accounts, ads_daily: the trailing window that  *)
(* pull_ads_daily (gm/intel/ads_ingest.py) pulls anew from each connected  *)
(* channel (gm/connections/ads.py), and the paid-media lines that a        *)
(* receipt makes of it (roas_lines of gm/delivery/receipts.py).            *)
(*                                                                         *)
(* A pull is one transaction over all channels under READ COMMITTED: the   *)
(* delete of a window sees the rows that are committed when it begins, and *)
(* waits for the transactions that are deleting some of them.  There is no *)
(* unique key on ads_daily.  Pulls overlap when a lease is lost, and with  *)
(* the operator's `gm ads pull --now'.                                     *)
(***************************************************************************)
EXTENDS Http, FiniteSets, FiniteSetsExt

CONSTANTS
  Channels,      \* sequence of the channels, in the order they are read
  Pullers,
  Figures,       \* [channels -> what it may report of a day: [spend, currency]]
  NoFigure,      \* it reports no row of the day
  Windows,       \* days a pull may cover, DEFAULT_WINDOW_DAYS among them
  LastAdDay,     \* bound: days told, from 1
  MaxPulls,      \* bound: pulls begun
  MaxRestated,   \* bound: restatements
  HttpRetries,
  Consults       \* booked consults a receipt may count

ASSUME AdsAssumption ==
  /\ Windows \subseteq Nat \ {0} /\ LastAdDay \in Nat /\ MaxPulls \in Nat
  /\ MaxRestated \in Nat /\ HttpRetries \in Nat /\ Consults \subseteq Nat
  /\ DOMAIN Channels \subseteq Nat /\ IsFiniteSet(DOMAIN Channels)
  /\ \A i, j \in DOMAIN Channels : Channels[i] = Channels[j] => i = j
  /\ \A i \in DOMAIN Channels : \A f \in Figures[Channels[i]] : f.spend \in Nat

VARIABLES
  adDay,
  platform,    \* [channels -> [days -> what it reports now]]
  restated,
  adsRows,     \* ads_daily: [channel, date, figure, pull]
  links,       \* [channels -> connections.status, "none" without a row]
  pulls,       \* [Pullers -> the pull it is in]
  begun,       \* pulls begun so far
  latest,      \* history: [channels -> [days -> {what the last committed pull
               \*          of the day was told}, {} before there is one]]
  mixed        \* history: [channel, date] whose deletes have overlapped

adsVars == <<adDay, platform, restated, adsRows, links, pulls, begun, latest, mixed>>

AdDays == 1 .. LastAdDay
Names == {Channels[i] : i \in DOMAIN Channels}
Reports(c) == Figures[c] \union {NoFigure}
NoPull == [phase |-> "idle"]

AdsInit ==
  /\ adDay = 1 /\ restated = 0 /\ begun = 0
  /\ platform = [c \in Names |-> [d \in AdDays |-> NoFigure]]
  /\ adsRows = {} /\ mixed = {}
  /\ links = [c \in Names |-> "none"]
  /\ pulls = [p \in Pullers |-> NoPull]
  /\ latest = [c \in Names |-> [d \in AdDays |-> {}]]

-----------------------------------------------------------------------------
(* The platforms and the operator *)

\* A day ends with what has been spent on it.
DayEnds ==
  /\ adDay < LastAdDay /\ adDay' = adDay + 1
  /\ platform' \in {[c \in Names |-> [platform[c] EXCEPT ![adDay] = told[c]]] :
                     told \in {t \in [Names -> UNION {Figures[c] : c \in Names} \union {NoFigure}] :
                                \A c \in Names : t[c] \in Reports(c)}}
  /\ UNCHANGED <<restated, adsRows, links, pulls, begun, latest, mixed>>

Restate(c, d) ==
  /\ restated < MaxRestated /\ d < adDay /\ restated' = restated + 1
  /\ \E f \in Reports(c) : platform' = [platform EXCEPT ![c][d] = f]
  /\ UNCHANGED <<adDay, adsRows, links, pulls, begun, latest, mixed>>

\* A pull that has found the connection broken holds its row until it ends.
Marking(c) == \E p \in Pullers : pulls[p] # NoPull /\ c \in pulls[p].broken

\* gm ads connect.
ConnectAds(c) ==
  /\ ~Marking(c) /\ links[c] # "ok"
  /\ links' = [links EXCEPT ![c] = "ok"]
  /\ UNCHANGED <<adDay, platform, restated, adsRows, pulls, begun, latest, mixed>>

-----------------------------------------------------------------------------
(* pull_ads_daily *)

\* Whole days, the last of them yesterday.
WindowRange(days, today) == (today - days) .. (today - 1)

\* The readers are those of the connections that are ok now.
BeginPull(p) ==
  /\ pulls[p] = NoPull /\ begun < MaxPulls
  /\ LET readers == {i \in DOMAIN Channels : links[Channels[i]] = "ok"} IN
     /\ readers # {}
     /\ \E days \in Windows :
          pulls' = [pulls EXCEPT ![p] =
            [phase |-> "reading", todo |-> readers, told |-> << >>,
             window |-> WindowRange(days, adDay) \intersect AdDays,
             doomed |-> {}, written |-> {}, done |-> {}, broken |-> {}, clash |-> {}, id |-> begun + 1]]
  /\ begun' = begun + 1
  /\ UNCHANGED <<adDay, platform, restated, adsRows, links, latest, mixed>>

Pulling(p, phase) == pulls[p] # NoPull /\ pulls[p].phase = phase
Turn(p) == Min(pulls[p].todo)
Channel(p) == Channels[Turn(p)]

Rows(c, window, told, id) ==
  {[channel |-> c, date |-> d, figure |-> told[d], pull |-> id] :
     d \in {x \in window : told[x] # NoFigure}}

\* What a reader returns of a window, Google's in one answer and Meta's page by
\* page: spend per day and campaign, added up here.
DailyRows(c, window) == [d \in window |-> platform[c][d]]

\* The report comes, or is refused for good and the connection marked.
ReadReport(p) ==
  /\ Pulling(p, "reading") /\ pulls[p].todo # {}
  /\ \E call \in Calls(HttpRetries) :
       \/ /\ Result(call) = "ok"
          /\ pulls' = [pulls EXCEPT ![p].phase = "told",
                         ![p].told = DailyRows(Channel(p), pulls[p].window)]
       \/ /\ Result(call) = "refused" /\ ~Marking(Channel(p))
          /\ pulls' = [pulls EXCEPT ![p].broken = @ \union {Channel(p)}, ![p].todo = @ \ {Turn(p)}]
  /\ UNCHANGED <<adDay, platform, restated, adsRows, links, begun, latest, mixed>>

\* Mutant: only the days that the report tells of are deleted.
DoomedReported(c, window, told) ==
  {r \in adsRows : r.channel = c /\ r.date \in window /\ told[r.date] # NoFigure}

\* The whole window goes, the days the report no longer tells of included.
Doomed(c, window, told) == {r \in adsRows : r.channel = c /\ r.date \in window}

Replacing(q, c) == pulls[q] # NoPull /\ (c \in pulls[q].done \/ (pulls[q].phase = "deleting" /\ Channel(q) = c))

\* The delete begins: it is for the rows that are committed now.
BeginDelete(p) ==
  /\ Pulling(p, "told")
  /\ LET c     == Channel(p)
         Clash(q) == {<<c, d>> : d \in pulls[p].window \intersect pulls[q].window}
         others   == {q \in Pullers \ {p} : Replacing(q, c)}
     IN  pulls' = [q \in Pullers |->
           IF q = p THEN [pulls[p] EXCEPT !.phase = "deleting",
                            !.doomed = @ \union Doomed(c, pulls[p].window, pulls[p].told),
                            !.clash = @ \union UNION {Clash(o) : o \in others}]
           ELSE IF q \in others THEN [pulls[q] EXCEPT !.clash = @ \union Clash(q)] ELSE pulls[q]]
  /\ UNCHANGED <<adDay, platform, restated, adsRows, links, begun, latest, mixed>>

\* Rows that another transaction is deleting are waited for.
Locked(p) == \E q \in Pullers \ {p} :
  /\ pulls[q] # NoPull
  /\ \E r \in pulls[p].doomed \intersect pulls[q].doomed : r \in adsRows /\ r.channel \in pulls[q].done

Insert(p) ==
  /\ Pulling(p, "deleting") /\ ~Locked(p)
  /\ LET u == pulls[p] IN
     pulls' = [pulls EXCEPT ![p].phase = "reading", ![p].todo = @ \ {Turn(p)},
                 ![p].done = @ \union {Channel(p)},
                 ![p].written = @ \union Rows(Channel(p), u.window, u.told, u.id)]
  /\ UNCHANGED <<adDay, platform, restated, adsRows, links, begun, latest, mixed>>

CommitPull(p) ==
  /\ Pulling(p, "reading") /\ pulls[p].todo = {}
  /\ LET u == pulls[p]
         Written(c, d) == {r.figure : r \in {x \in u.written : x.channel = c /\ x.date = d}}
         ToldOf(c, d)  == IF Written(c, d) = {} THEN {NoFigure} ELSE Written(c, d)
         covered == u.done \X u.window
     IN  /\ adsRows' = (adsRows \ u.doomed) \union u.written
         /\ links' = [c \in Names |-> IF c \in u.broken THEN "broken" ELSE links[c]]
         /\ latest' = [c \in Names |-> [d \in AdDays |->
                         IF <<c, d>> \in covered THEN ToldOf(c, d) ELSE latest[c][d]]]
         /\ mixed' = (mixed \ covered) \union (u.clash \intersect covered)
  /\ pulls' = [pulls EXCEPT ![p] = NoPull]
  /\ UNCHANGED <<adDay, platform, restated, begun>>

\* A channel that stays busy takes the whole pull with it, the slices of the
\* others and the broken mark included; so does a crash.
AbortPull(p) ==
  /\ pulls[p] # NoPull /\ pulls' = [pulls EXCEPT ![p] = NoPull]
  /\ UNCHANGED <<adDay, platform, restated, adsRows, links, begun, latest, mixed>>

AdsNext ==
  \/ DayEnds
  \/ \E c \in Names : ConnectAds(c) \/ \E d \in AdDays : Restate(c, d)
  \/ \E p \in Pullers : \/ BeginPull(p) \/ ReadReport(p) \/ BeginDelete(p) \/ Insert(p)
                        \/ CommitPull(p) \/ AbortPull(p)

AdsSpec == AdsInit /\ [][AdsNext]_adsVars

-----------------------------------------------------------------------------
(* The paid-media lines of a receipt *)

Spend(rows) == MapThenSumSet(LAMBDA r : r.figure.spend, rows)

RoasPeriod(rows, booked) ==
  LET lines == {<<r.channel, r.figure.currency>> : r \in rows}
      Line(l) == [channel |-> l[1], currency |-> l[2],
                  spend |-> Spend({r \in rows : r.channel = l[1] /\ r.figure.currency = l[2]})]
      currencies == {l[2] : l \in lines}
  IN  [status  |-> IF lines = {} THEN "no_spend_recorded" ELSE "ok",
       lines   |-> {Line(l) : l \in lines},
       blended |-> IF lines # {} /\ booked > 0 /\ Cardinality(currencies) = 1
                   THEN {[spend |-> MapThenSumSet(LAMBDA x : x.spend, {Line(l) : l \in lines}),
                          consults |-> booked]}
                   ELSE {}]  \* not computable

RoasLines(start, end, booked) ==
  LET Period(from, until) ==
        RoasPeriod({r \in adsRows : from <= r.date /\ r.date < until}, booked)
  IN  IF \A c \in Names : links[c] = "none" THEN [Period(start, end) EXCEPT !.status = "awaiting_ad_account"]
      ELSE Period(start, end)

-----------------------------------------------------------------------------
(* Properties *)

Told(c, d) == latest[c][d] \ {NoFigure}
SpendTold(c, d) == MapThenSumSet(LAMBDA f : f.spend, Told(c, d))

\* The rows of a day are what its last pull was told, neither doubled nor left
\* over from an earlier one, unless the deletes of two pulls have overlapped.
SliceIsTheLastPull ==
  \A c \in Names, d \in AdDays :
    <<c, d>> \notin mixed =>
      LET stored == {r \in adsRows : r.channel = c /\ r.date = d} IN
      {r.figure : r \in stored} = Told(c, d) /\ Cardinality(stored) = Cardinality(Told(c, d))

\* The spend a receipt tells of a day is what the last pull of that day was
\* told, in each channel and currency, neither doubled nor left over from an
\* earlier pull -- unless the deletes of two pulls have overlapped.  No cost
\* per consult adds up currencies (ads_ingest.py 47-94, receipts.py 435-488).
SpendIsTheLastPull ==
  /\ SliceIsTheLastPull
  /\ \A booked \in Consults :
       \A blended \in RoasLines(1, adDay, booked).blended :
         /\ Cardinality({r.figure.currency : r \in adsRows}) = 1
         /\ mixed = {} =>
              blended.spend = MapThenSumSet(LAMBDA x : SpendTold(x[1], x[2]), Names \X AdDays)
=============================================================================
