----------------------------- MODULE MCMeasurement -----------------------------
(* What is measured for one site: Search Console, the ad accounts, the booked *)
(* leads with their weekly card, and the calendar of the monthly receipts.    *)
(* What is modelled of them shares no row, so a behaviour runs one of them    *)
(* and the others stand still.                                                *)
EXTENDS GscIngest, AdsIngest, Leads, MonthlyReceipts, TLC

VARIABLE part

CONSTANTS p1, p2

vars == <<part, gscVars, adsVars, leadsVars, receiptsVars>>

\* Search Console: a window of two days, batches of two, two workers.
Offsets == <<3, 2>>

\* Two accounts: one bills in dirhams, the other in dollars.
BothChannels == <<"google_ads", "meta_ads">>
Spent(amount, currency) == [spend |-> amount, currency |-> currency]
Reported == [google_ads |-> {Spent(5, "AED")},
             meta_ads   |-> {Spent(3, "USD")}]

\* A climb, and a week whose only news is a resolved finding and the score.
Found == {[moves |-> {[first |-> 5, last |-> 3]}, resolved |-> TRUE, score |-> "none"],
          [moves |-> {[first |-> 3, last |-> 5]}, resolved |-> FALSE, score |-> "down"]}

Init ==
  /\ part \in {"gsc", "ads", "leads", "receipts"}
  /\ GscInit /\ AdsInit /\ LeadsInit /\ ReceiptsInit
  \* The calendar is one for all but the receipts.
  /\ part # "receipts" => first = Calendar(2, FALSE)

Next ==
  \/ part = "gsc"      /\ GscNext      /\ UNCHANGED <<part, adsVars, leadsVars, receiptsVars>>
  \/ part = "ads"      /\ AdsNext      /\ UNCHANGED <<part, gscVars, leadsVars, receiptsVars>>
  \/ part = "leads"    /\ LeadsNext    /\ UNCHANGED <<part, gscVars, adsVars, receiptsVars>>
  \/ part = "receipts" /\ ReceiptsNext /\ UNCHANGED <<part, gscVars, adsVars, leadsVars>>

Spec == Init /\ [][Next]_vars

Symmetry == Permutations(Runs) \union Permutations({p1, p2})
================================================================================
