--------------------------- MODULE HourlyUpdates ---------------------------
(***************************************************************************)
(* What automatic cost sharing promises for one consent: it picks an hour,  *)
(* completes it only once the facts of that hour are in the ledger, and     *)
(* goes on with the very next hour.  Only a new consent starts elsewhere.   *)
(* No lock, write, Recorder job, reload or crash is visible here.           *)
(***************************************************************************)
EXTENDS Integers

CONSTANT None

VARIABLES consent,   \* revision of the document that holds the consent
          hour,      \* the hour to complete next, or None
          recorded   \* hours whose facts the ledger of this consent holds

vars == <<consent, hour, recorded>>

Init == consent = 0 /\ hour = None /\ recorded = {}

Records == recorded \subseteq recorded' /\ hour' = hour

Begins == hour = None /\ hour' \in Nat /\ recorded' = recorded

Completes == hour \in recorded /\ hour' = hour + 1 /\ recorded' = recorded

Renews == consent' > consent /\ hour' = None

Next == Renews \/ (consent' = consent /\ (Records \/ Begins \/ Completes))

Spec == Init /\ [][Next]_vars
=============================================================================
