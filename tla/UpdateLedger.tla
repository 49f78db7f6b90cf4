---------------------------- MODULE UpdateLedger ----------------------------
(***************************************************************************)
(* What the fire-update log promises its readers: one publication compares *)
(* the mapping it shows with everything shown before, announces what is    *)
(* new of the interesting fires, and moves the baseline, all at once.      *)
(* UpdateJournal shows that the journal of fire_updates.py provides this.  *)
(***************************************************************************)
EXTENDS Naturals, Sequences

CONSTANTS Perimeter,  \* mapped observations (their signatures)
          Fire,       \* fires
          FireOf,     \* the fire each observation belongs to
          Month       \* the months a publication can be completed in

VARIABLES ledger,     \* the announcements, in order
          baseline    \* what completed publications have acknowledged

Init == ledger = << >> /\ baseline = {}

\* What a publication of `shown` announces while `interesting` are ranked.
News(shown, interesting) ==
  {p \in shown \ baseline : FireOf[p] \in interesting}

Publish(shown, interesting, m) ==
  /\ baseline' = baseline \cup shown
  /\ ledger' = IF News(shown, interesting) = {} THEN ledger
               ELSE Append(ledger, [month |-> m, news |-> News(shown, interesting)])

Next == \E shown \in SUBSET Perimeter, interesting \in SUBSET Fire, m \in Month :
          Publish(shown, interesting, m)

Spec == Init /\ [][Next]_<<ledger, baseline>>

\* Whatever was announced is acknowledged, and no observation twice.
AnnouncedOnce ==
  /\ \A i \in DOMAIN ledger : ledger[i].news \subseteq baseline
  /\ \A i, j \in DOMAIN ledger : i # j => ledger[i].news \cap ledger[j].news = {}
=============================================================================
