--------------------------- MODULE DeliveryProofs ---------------------------
(***************************************************************************)
(* Delivery: the records of a report to several targets are truthful, and    *)
(* what is handed over is current, for any number of sends, targets and      *)
(* changes around them.  EmailNative: attempts are announced once, and the    *)
(* issue tells what the newest report met, for any number of reports and      *)
(* setups.                                                                 *)
(***************************************************************************)
EXTENDS EmailNative, SequenceTheorems, TLAPS

(***************************************************************************)
(* Sends.                                                                  *)
(***************************************************************************)
Preparing == {"compose", "reread", "confirm", "recheck", "load", "draft"}

Things == {"row", "schedules", "service", "smtp", "policy", "facts"}

Outcomes == {"preparation_failed"} \cup HandoffOutcomes

SendStates ==
  [path : {"none", "schedule", "manual", "press", "digest"}, turn : Nat, at : Nat,
   stale : SUBSET Things, outcome : {"none"} \cup Outcomes]

StepOf(r) == Steps(r.path, r.turn)[r.at]

(* An active send is somewhere in the turn of one of its targets, or, if it is *)
(* a batch, before the first one.                                             *)
Placed(r) ==
  /\ r \in SendStates
  /\ r.at > 0 =>
       /\ r.path # "none"
       /\ r.turn \in 0..Len(Selected(r.path))
       /\ r.turn = 0 => r.path \in Batches
       /\ r.at \in 1..Len(Steps(r.path, r.turn))

(* The targets of the first turns of a send. *)
First(r, n) == {Selected(r.path)[i] : i \in 1..n}

Handoff(s, target) == [send |-> s, target |-> target]

(* What an active send has handed over and recorded: every target before this  *)
(* turn was accepted, no later one was touched.                               *)
InTurn(s, r, entries, messages) ==
  r.at > 0 =>
    /\ \A a \in entries : a.send = s => a.outcome = "accepted" /\ a.target \in First(r, r.turn - 1)
    /\ \A h \in messages : h.send = s => h.target \in First(r, r.turn)
    /\ StepOf(r) = "record" => r.outcome \in Outcomes
    /\ r.turn > 0 =>
         (Handoff(s, Selected(r.path)[r.turn]) \in messages <=>
            \/ StepOf(r) = "handoff"
            \/ StepOf(r) = "record" /\ r.outcome # "preparation_failed")

(* A schedule that was edited before this validation read it again has ended   *)
(* the send; an edit since then shows in the revision.                        *)
RowChecked(r) ==
  /\ r.at > 0 /\ r.path \in {"schedule", "press"} /\ StepOf(r) = "recheck"
  /\ "row" \in r.stale
  => "schedules" \in r.stale

DeliveryInv ==
  /\ send \in [Sends -> SendStates]
  /\ \A a \in log : a.send \in Sends /\ send[a.send].path # "none"
  /\ \A h \in handed : h.send \in Sends /\ send[h.send].path # "none" /\ h = Handoff(h.send, h.target)
  /\ \A s \in Sends : Placed(send[s]) /\ InTurn(s, send[s], log, handed) /\ RowChecked(send[s])
  /\ BatchTruthful

-----------------------------------------------------------------------------
(* The steps of a turn *)

Sending == {"schedule", "manual", "press", "digest"}

(* A turn with a target prepares, hands over and records; the turn before the  *)
(* first target only prepares.                                                *)
LEMMA StepsFacts ==
  ASSUME NEW path \in Sending, NEW turn \in Nat, turn = 0 => path \in Batches
  PROVE  /\ Len(Steps(path, turn)) \in Nat /\ Len(Steps(path, turn)) >= 2
         /\ \A i \in 1..Len(Steps(path, turn)) :
              /\ Steps(path, turn)[i] \in Preparing \cup {"handoff", "record"}
              /\ Steps(path, turn)[i] = "record" <=> turn > 0 /\ i = Len(Steps(path, turn))
              /\ Steps(path, turn)[i] = "handoff" <=> turn > 0 /\ i = Len(Steps(path, turn)) - 1
         /\ Steps(path, turn)[1] \in Preparing
<1>1. CASE path = "schedule" /\ turn = 0
  BY <1>1 DEF Steps, Preparing
<1>2. CASE path = "schedule" /\ turn > 0
  BY <1>2 DEF Steps, Preparing
<1>3. CASE path = "manual" /\ turn = 0
  BY <1>3 DEF Steps, Preparing
<1>4. CASE path = "manual" /\ turn > 0
  BY <1>4 DEF Steps, Preparing
<1>5. CASE path = "press"
  BY <1>5 DEF Steps, Preparing, Batches
<1>6. CASE path = "digest"
  BY <1>6 DEF Steps, Preparing, Batches
<1> QED BY <1>1, <1>2, <1>3, <1>4, <1>5, <1>6 DEF Sending

(* Both paths that name a schedule read it again right before they ask the     *)
(* service, and a handoff follows the last validation.                        *)
LEMMA ValidationFacts ==
  ASSUME NEW path \in Sending, NEW turn \in Nat, turn = 0 => path \in Batches
  PROVE  /\ path \in {"schedule", "press"} =>
              /\ Steps(path, turn)[1] # "recheck"
              /\ \A i \in 1..(Len(Steps(path, turn)) - 1) :
                   Steps(path, turn)[i + 1] = "recheck" => Steps(path, turn)[i] \in {"reread", "confirm"}
         /\ turn > 0 =>
              /\ Len(Steps(path, turn)) >= 3
              /\ Steps(path, turn)[Len(Steps(path, turn)) - 2] = IF path = "digest" THEN "confirm" ELSE "recheck"
<1>1. CASE path = "schedule" /\ turn = 0
  BY <1>1 DEF Steps
<1>2. CASE path = "schedule" /\ turn > 0
  BY <1>2 DEF Steps
<1>3. CASE path = "manual" /\ turn = 0
  BY <1>3 DEF Steps
<1>4. CASE path = "manual" /\ turn > 0
  BY <1>4 DEF Steps
<1>5. CASE path = "press"
  BY <1>5 DEF Steps, Batches
<1>6. CASE path = "digest"
  BY <1>6 DEF Steps, Batches
<1> QED BY <1>1, <1>2, <1>3, <1>4, <1>5, <1>6 DEF Sending

(* No target is selected twice. *)
LEMMA SelectedFacts ==
  ASSUME NEW path
  PROVE  /\ Len(Selected(path)) \in Nat /\ Len(Selected(path)) > 0
         /\ DOMAIN Selected(path) = 1..Len(Selected(path))
         /\ \A i, j \in 1..Len(Selected(path)) : Selected(path)[i] = Selected(path)[j] => i = j
<1>1. CASE path \in Batches
  <2>1. Channels \in Seq(STRING) /\ Len(Channels) \in Nat /\ Len(Channels) > 0 /\ DOMAIN Channels = 1..Len(Channels)
    BY DeliveryAssumption, EmptySeq
  <2> QED BY <1>1, <2>1, DeliveryAssumption DEF Selected
<1>2. CASE path \notin Batches
  BY <1>2 DEF Selected
<1> QED BY <1>1, <1>2

(* A turn's target is none of the targets before it. *)
LEMMA TargetIsNew ==
  ASSUME NEW r, NEW k \in 1..Len(Selected(r.path))
  PROVE  /\ Selected(r.path)[k] \in First(r, k)
         /\ Selected(r.path)[k] \notin First(r, k - 1)
         /\ First(r, k - 1) \subseteq First(r, k)
<1>1. Len(Selected(r.path)) \in Nat /\ \A i, j \in 1..Len(Selected(r.path)) : Selected(r.path)[i] = Selected(r.path)[j] => i = j
  BY SelectedFacts
<1>2. 1..(k - 1) \subseteq 1..k /\ k \in 1..k /\ \A i \in 1..(k - 1) : i \in 1..Len(Selected(r.path)) /\ i # k
  BY <1>1
<1> QED BY <1>1, <1>2 DEF First

(* Position is the inverse of Channels. *)
LEMMA PositionFacts ==
  ASSUME NEW i \in 1..Len(Channels)
  PROVE  Position(Channels[i]) = i
<1>1. DOMAIN Channels = 1..Len(Channels)
  BY DeliveryAssumption
<1>2. \E k \in DOMAIN Channels : Channels[k] = Channels[i]
  BY <1>1
<1>3. Position(Channels[i]) \in DOMAIN Channels /\ Channels[Position(Channels[i])] = Channels[i]
  BY <1>2 DEF Position
<1> QED BY <1>1, <1>3, DeliveryAssumption

(* Retention only removes entries, a record adds one. *)
LEMMA AppendedFacts ==
  ASSUME NEW kept, NEW s, NEW target, NEW outcome
  PROVE  \E new : /\ new.send = s /\ new.target = target /\ new.outcome = outcome
                  /\ Appended(kept, s, target, outcome) \subseteq kept \cup {new}
<1> DEFINE old == Retained(kept, s)
           new == [send |-> s, target |-> target, outcome |-> outcome,
                   place |-> Max({0} \cup {a.place : a \in old}) + 1]
<1>1. \A k : Retained(k, s) \subseteq k
  BY DEF Retained
<1>2. Appended(kept, s, target, outcome) = Retained(old \cup {new}, s)
  BY DEF Appended
<1> HIDE DEF old
<1>3. Appended(kept, s, target, outcome) \subseteq kept \cup {new}
  BY <1>1, <1>2 DEF old
<1> QED BY <1>3

(* Where a send is, and where its next step is. *)
LEMMA PlaceFacts ==
  ASSUME DeliveryInv, NEW s \in Sends, Active(s)
  PROVE  LET r == send[s] len == Len(Steps(r.path, r.turn)) IN
         /\ r \in SendStates /\ r.path \in Sending /\ r.turn \in Nat
         /\ r.turn = 0 => r.path \in Batches
         /\ r.turn \in 0..Len(Selected(r.path)) /\ len \in Nat /\ len >= 2 /\ r.at \in 1..len
         /\ Step(s) = StepOf(r) /\ Step(s) \in Preparing \cup {"handoff", "record"}
         /\ Step(s) = "record" <=> r.turn > 0 /\ r.at = len
         /\ Step(s) = "handoff" <=> r.turn > 0 /\ r.at = len - 1
<1>1. Placed(send[s]) /\ send[s].at > 0
  BY DEF DeliveryInv, Active
<1>2. send[s] \in SendStates /\ send[s].path \in Sending /\ send[s].turn \in Nat
  BY <1>1 DEF Placed, SendStates, Sending
<1> QED BY <1>1, <1>2, StepsFacts DEF Placed, Step, StepOf

-----------------------------------------------------------------------------
(* Steps of a send *)

(* A step changes one send, and what is handed over and recorded for it. *)
LEMMA UpdateKeeps ==
  ASSUME DeliveryInv, NEW s \in Sends, NEW r,
         send' = [send EXCEPT ![s] = r], r.path # "none",
         r.path = send[s].path \/ send[s].path = "none",
         \A a \in log' : a \in log \/ a.send = s,
         handed \subseteq handed', \A h \in handed' : h \in handed \/ h = Handoff(s, h.target),
         Placed(r), InTurn(s, r, log', handed'), RowChecked(r), BatchTruthful'
  PROVE  DeliveryInv'
<1>1. r \in SendStates /\ send \in [Sends -> SendStates]
  BY DEF Placed, DeliveryInv
<1>2. send' \in [Sends -> SendStates] /\ send'[s] = r /\ \A t \in Sends : t # s => send'[t] = send[t]
  BY <1>1
<1>3. \A a \in log' : a.send \in Sends /\ send'[a.send].path # "none"
  BY <1>2 DEF DeliveryInv
<1>4. \A h \in handed' : h.send \in Sends /\ send'[h.send].path # "none" /\ h = Handoff(h.send, h.target)
  BY <1>2 DEF DeliveryInv, Handoff
<1>5. ASSUME NEW t \in Sends
      PROVE  Placed(send'[t]) /\ InTurn(t, send'[t], log', handed') /\ RowChecked(send'[t])
  <2>1. CASE t = s
    BY <1>2, <2>1
  <2>2. CASE t # s
    <3>1. send'[t] = send[t] /\ Placed(send[t]) /\ InTurn(t, send[t], log, handed) /\ RowChecked(send[t])
      BY <1>2, <2>2 DEF DeliveryInv
    <3>2. \A a \in log' : a.send = t => a \in log
      BY <2>2
    <3>3. \A h \in handed' : h.send = t => h \in handed
      BY <2>2 DEF Handoff
    <3>4. \A target : Handoff(t, target) \in handed' <=> Handoff(t, target) \in handed
      BY <3>3 DEF Handoff
    <3>5. InTurn(t, send[t], log', handed')
      BY <3>1, <3>2, <3>3, <3>4 DEF InTurn
    <3> QED BY <3>1, <3>5
  <2> QED BY <2>1, <2>2
<1> QED BY <1>2, <1>3, <1>4, <1>5 DEF DeliveryInv

(* A send that ended says nothing more about itself. *)
LEMMA EndedFacts ==
  ASSUME DeliveryInv, NEW s \in Sends, Active(s)
  PROVE  \E r : /\ Ended(s) = [send EXCEPT ![s] = r] /\ r.path = send[s].path /\ r.path # "none"
                /\ Placed(r) /\ RowChecked(r)
                /\ \A entries, messages : InTurn(s, r, entries, messages)
<1> DEFINE r == [send[s] EXCEPT !.turn = 0, !.at = 0, !.stale = {}]
<1>1. send[s] \in SendStates /\ send[s].path \in Sending /\ send \in [Sends -> SendStates]
  BY PlaceFacts DEF DeliveryInv
<1>2. r \in SendStates /\ r.path = send[s].path /\ r.at = 0
  BY <1>1 DEF SendStates
<1>3. Ended(s) = [send EXCEPT ![s] = r]
  BY <1>1 DEF Ended
<1> HIDE DEF r
<1>4. Placed(r) /\ RowChecked(r) /\ \A entries, messages : InTurn(s, r, entries, messages)
  BY <1>2 DEF Placed, RowChecked, InTurn
<1> QED BY <1>1, <1>2, <1>3, <1>4 DEF Sending

(* BatchTruthful reads nothing of a send but its path. *)
LEMMA TruthKept ==
  ASSUME DeliveryInv, NEW s \in Sends, NEW r, send' = [send EXCEPT ![s] = r],
         r.path = send[s].path \/ send[s].path = "none", UNCHANGED <<log, handed>>
  PROVE  BatchTruthful'
<1>1. \A h \in handed : send'[h.send].path = send[h.send].path
  BY DEF DeliveryInv
<1> QED BY <1>1 DEF DeliveryInv, BatchTruthful

LEMMA StartsStep ==
  ASSUME DeliveryInv, NEW s \in Sends, Starts(s)
  PROVE  DeliveryInv'
<1>1. PICK path \in Paths, stale \in {{}, {"row"}} :
        send' = [send EXCEPT ![s] = [path |-> path, turn |-> IF path \in Batches THEN 0 ELSE 1, at |-> 1,
                                     stale |-> stale, outcome |-> "none"]]
  BY DEF Starts
<1> DEFINE r == [path |-> path, turn |-> IF path \in Batches THEN 0 ELSE 1, at |-> 1,
                 stale |-> stale, outcome |-> "none"]
<1>2. send[s].path = "none" /\ UNCHANGED <<log, handed>> /\ send' = [send EXCEPT ![s] = r]
  <2>1. send[s].path = "none" /\ UNCHANGED <<log, handed>>
    BY DEF Starts, Unsent
  <2> QED BY <1>1, <2>1, Zenon
<1>3. /\ r \in SendStates /\ r.path \in Sending /\ r.path # "none" /\ r.turn \in Nat /\ r.turn \in 0..1 /\ r.at = 1
      /\ r.turn = 0 => r.path \in Batches
  BY DeliveryAssumption DEF SendStates, Sending, Things
<1> HIDE DEF r
<1>4. /\ Len(Selected(r.path)) \in Nat /\ Len(Selected(r.path)) > 0
      /\ Len(Steps(r.path, r.turn)) \in Nat /\ Len(Steps(r.path, r.turn)) >= 2
      /\ StepOf(r) \in Preparing
      /\ r.path \in {"schedule", "press"} => StepOf(r) # "recheck"
  BY <1>3, SelectedFacts, StepsFacts, ValidationFacts DEF StepOf
<1>5. Placed(r) /\ RowChecked(r)
  BY <1>3, <1>4 DEF Placed, RowChecked
<1>6. (\A a \in log : a.send # s) /\ \A h \in handed : h.send # s
  BY <1>2 DEF DeliveryInv
<1>7. InTurn(s, r, log, handed)
  <2>1. \A target : Handoff(s, target) \notin handed
    BY <1>6 DEF Handoff
  <2>2. StepOf(r) \notin {"handoff", "record"}
    BY <1>4 DEF Preparing
  <2> QED BY <1>6, <2>1, <2>2 DEF InTurn
<1> QED BY <1>2, <1>3, <1>5, <1>7, TruthKept, UpdateKeeps

(* The next step of a send that prepares. *)
LEMMA NextFacts ==
  ASSUME DeliveryInv, NEW s \in Sends, Active(s), Step(s) \notin {"handoff", "record"}
  PROVE  LET q == send[s] IN
         /\ NextTurn(s) \in 0..Len(Selected(q.path)) /\ NextTurn(s) \in Nat
         /\ NextTurn(s) = 0 => q.path \in Batches
         /\ NextAt(s) \in 1..Len(Steps(q.path, NextTurn(s)))
         /\ NextStep(s) \in Preparing \cup {"handoff"}
         /\ NextTurn(s) = q.turn \/ (q.turn = 0 /\ NextTurn(s) = 1 /\ NextStep(s) \in Preparing)
         /\ NextStep(s) = "handoff" =>
              /\ NextTurn(s) = q.turn /\ q.turn > 0
              /\ Step(s) = IF q.path = "digest" THEN "confirm" ELSE "recheck"
         /\ q.path \in {"schedule", "press"} /\ NextStep(s) = "recheck" => Step(s) \in {"reread", "confirm"}
<1> DEFINE q == send[s]
           len == Len(Steps(q.path, q.turn))
<1>1. /\ q \in SendStates /\ q.path \in Sending /\ q.turn \in Nat
      /\ q.turn = 0 => q.path \in Batches
      /\ q.turn \in 0..Len(Selected(q.path)) /\ len \in Nat /\ len >= 2 /\ q.at \in 1..len
      /\ Step(s) = StepOf(q) /\ Step(s) \in Preparing
      /\ ~(q.turn > 0 /\ q.at = len) /\ ~(q.turn > 0 /\ q.at = len - 1)
  BY PlaceFacts
<1>2. Len(Selected(q.path)) \in Nat /\ Len(Selected(q.path)) > 0
  BY SelectedFacts
<1>3. CASE q.at = len
  <2>1. q.turn = 0 /\ NextTurn(s) = 1 /\ NextAt(s) = 1 /\ q.path \in Batches
    BY <1>1, <1>3 DEF NextTurn, NextAt, TurnEnds
  <2>2. /\ Len(Steps(q.path, 1)) \in Nat /\ Len(Steps(q.path, 1)) >= 2 /\ Steps(q.path, 1)[1] \in Preparing
        /\ q.path \in {"schedule", "press"} => Steps(q.path, 1)[1] # "recheck"
    BY <1>1, StepsFacts, ValidationFacts
  <2>3. NextStep(s) = Steps(q.path, 1)[1]
    BY <2>1 DEF NextStep
  <2> QED BY <1>2, <2>1, <2>2, <2>3 DEF Preparing
<1>4. CASE q.at # len
  <2>1. NextTurn(s) = q.turn /\ NextAt(s) = q.at + 1 /\ q.at \in 1..(len - 1) /\ q.at + 1 \in 1..len
    BY <1>1, <1>4 DEF NextTurn, NextAt, TurnEnds
  <2>2. NextStep(s) = Steps(q.path, q.turn)[q.at + 1] /\ Step(s) = Steps(q.path, q.turn)[q.at]
    BY <1>1, <2>1 DEF NextStep, StepOf
  <2>3. /\ NextStep(s) \in Preparing \cup {"handoff", "record"}
        /\ NextStep(s) = "record" <=> q.turn > 0 /\ q.at + 1 = len
        /\ NextStep(s) = "handoff" <=> q.turn > 0 /\ q.at + 1 = len - 1
    BY <1>1, <2>1, <2>2, StepsFacts
  <2>4. NextStep(s) \in Preparing \cup {"handoff"}
    BY <1>1, <2>1, <2>3
  <2>5. NextStep(s) = "handoff" => q.turn > 0 /\ Step(s) = IF q.path = "digest" THEN "confirm" ELSE "recheck"
    <3> SUFFICES ASSUME NextStep(s) = "handoff"
                 PROVE  q.turn > 0 /\ Step(s) = IF q.path = "digest" THEN "confirm" ELSE "recheck"
      OBVIOUS
    <3>1. q.turn > 0 /\ q.at = len - 2
      BY <1>1, <2>1, <2>3
    <3>2. Steps(q.path, q.turn)[len - 2] = IF q.path = "digest" THEN "confirm" ELSE "recheck"
      BY <1>1, <3>1, ValidationFacts
    <3> QED BY <2>2, <3>1, <3>2
  <2>6. q.path \in {"schedule", "press"} /\ NextStep(s) = "recheck" => Step(s) \in {"reread", "confirm"}
    <3> SUFFICES ASSUME q.path \in {"schedule", "press"}, NextStep(s) = "recheck"
                 PROVE  Step(s) \in {"reread", "confirm"}
      OBVIOUS
    <3>1. \A i \in 1..(len - 1) :
            Steps(q.path, q.turn)[i + 1] = "recheck" => Steps(q.path, q.turn)[i] \in {"reread", "confirm"}
      BY <1>1, ValidationFacts
    <3> QED BY <2>1, <2>2, <3>1
  <2>7. NextAt(s) \in 1..Len(Steps(q.path, NextTurn(s)))
    BY <2>1
  <2> HIDE DEF q, len
  <2>8. /\ NextTurn(s) = q.turn /\ q.turn \in Nat /\ q.turn \in 0..Len(Selected(q.path))
        /\ q.turn = 0 => q.path \in Batches
    BY <1>1, <2>1
  <2> QED BY <2>4, <2>5, <2>6, <2>7, <2>8 DEF q
<1> QED BY <1>3, <1>4

LEMMA AwaitEndsStep ==
  ASSUME DeliveryInv, NEW s \in Sends, AwaitEnds(s)
  PROVE  DeliveryInv'
<1> DEFINE q == send[s]
           r == [send[s] EXCEPT !.turn = NextTurn(s), !.at = NextAt(s), !.stale = Frozen(s)]
           h0 == Handoff(s, Target(s))
<1>1. /\ Active(s) /\ Step(s) \notin {"handoff", "record"} /\ Agrees(s) /\ log' = log
      /\ handed' = IF NextStep(s) = "handoff" THEN handed \cup {h0} ELSE handed
      /\ send \in [Sends -> SendStates]
  BY DEF AwaitEnds, Handoff, DeliveryInv
<1>2. /\ q \in SendStates /\ q.path \in Sending /\ q.turn \in Nat
      /\ q.turn \in 0..Len(Selected(q.path)) /\ Step(s) = StepOf(q)
  BY <1>1, PlaceFacts
<1>3. /\ NextTurn(s) \in 0..Len(Selected(q.path)) /\ NextTurn(s) \in Nat
      /\ NextTurn(s) = 0 => q.path \in Batches
      /\ NextAt(s) \in 1..Len(Steps(q.path, NextTurn(s))) /\ NextAt(s) \in Nat /\ NextAt(s) > 0
      /\ NextStep(s) \in Preparing \cup {"handoff"}
      /\ NextTurn(s) = q.turn \/ (q.turn = 0 /\ NextTurn(s) = 1 /\ NextStep(s) \in Preparing)
      /\ NextStep(s) = "handoff" => NextTurn(s) = q.turn /\ q.turn > 0
      /\ q.path \in {"schedule", "press"} /\ NextStep(s) = "recheck" => Step(s) \in {"reread", "confirm"}
  BY <1>1, NextFacts
<1>4. send' = [send EXCEPT ![s] = r]
  BY <1>1 DEF AwaitEnds
<1>5. Frozen(s) \subseteq q.stale /\ q.stale \subseteq Things
  BY <1>2 DEF Frozen, SendStates
<1>6. /\ r \in SendStates /\ r.path = q.path /\ r.turn = NextTurn(s) /\ r.at = NextAt(s)
      /\ r.stale = Frozen(s) /\ r.outcome = q.outcome
  BY <1>2, <1>3, <1>5 DEF SendStates
<1> HIDE DEF r
<1>7. StepOf(r) = NextStep(s)
  BY <1>6 DEF StepOf, NextStep
<1>8. Placed(r)
  BY <1>2, <1>3, <1>6 DEF Placed, Sending
<1>9. RowChecked(r)
  <2> SUFFICES ASSUME q.path \in {"schedule", "press"}, NextStep(s) = "recheck"
               PROVE  "row" \notin q.stale
    BY <1>5, <1>6, <1>7 DEF RowChecked
  <2> QED BY <1>1, <1>3 DEF Agrees
<1>10. /\ \A a \in log : a.send = s => a.outcome = "accepted" /\ a.target \in First(q, q.turn - 1)
       /\ \A h \in handed : h.send = s => h.target \in First(q, q.turn)
       /\ q.turn > 0 => Handoff(s, Selected(q.path)[q.turn]) \notin handed
  BY <1>1, <1>2 DEF DeliveryInv, InTurn, Active
<1>11. \A k : First(r, k) = First(q, k)
  BY <1>6 DEF First
<1>12. q.turn > 0 => /\ Target(s) \in First(q, q.turn) /\ Target(s) \notin First(q, q.turn - 1)
                     /\ Target(s) = Selected(q.path)[q.turn]
  <2> SUFFICES ASSUME q.turn > 0
               PROVE  /\ Target(s) \in First(q, q.turn) /\ Target(s) \notin First(q, q.turn - 1)
                      /\ Target(s) = Selected(q.path)[q.turn]
    OBVIOUS
  <2>1. q.turn \in 1..Len(Selected(q.path))
    BY <1>2, SelectedFacts
  <2>2. Selected(q.path)[q.turn] \in First(q, q.turn) /\ Selected(q.path)[q.turn] \notin First(q, q.turn - 1)
    BY <2>1, TargetIsNew
  <2> QED BY <2>2 DEF Target
<1>13. CASE NextStep(s) = "handoff"
  <2>1. NextTurn(s) = q.turn /\ q.turn > 0 /\ handed' = handed \cup {h0}
    BY <1>1, <1>3, <1>13
  <2>2. InTurn(s, r, log, handed')
    <3>1. \A h \in handed' : h.send = s => h.target \in First(r, r.turn)
      BY <1>6, <1>10, <1>11, <1>12, <2>1 DEF Handoff
    <3> QED BY <1>6, <1>7, <1>10, <1>11, <1>12, <1>13, <2>1, <3>1 DEF InTurn
  <2>3. \A a \in log : ~(a.send = s /\ a.target = Target(s))
    BY <1>10, <1>12, <2>1
  <2>4. BatchTruthful'
    <3>1. \A t \in Sends : send'[t].path = send[t].path
      BY <1>1, <1>4, <1>6
    <3>2. \A a \in log : Handoff(a.send, a.target) \in handed' <=> Handoff(a.send, a.target) \in handed
      BY <2>1, <2>3 DEF Handoff
    <3>3. ASSUME NEW h \in handed', NEW a \in log,
                 send'[h.send].path \in Batches, a.send = h.send, Position(a.target) < Position(h.target)
          PROVE  a.outcome = "accepted"
      <4>1. CASE h \in handed
        BY <3>1, <3>3, <4>1 DEF DeliveryInv, BatchTruthful
      <4>2. CASE h = h0
        BY <1>10, <3>3, <4>2 DEF Handoff
      <4> QED BY <2>1, <3>3, <4>1, <4>2
    <3>4. \A a \in log : (a.outcome = "preparation_failed") <=> (Handoff(a.send, a.target) \notin handed')
      BY <3>2 DEF DeliveryInv, BatchTruthful, Handoff
    <3>5. \A a, b \in log : a.send = b.send /\ a.target = b.target => a = b
      BY DEF DeliveryInv, BatchTruthful
    <3> QED BY <1>1, <3>3, <3>4, <3>5 DEF BatchTruthful, Handoff
  <2>5. handed \subseteq handed' /\ \A h \in handed' : h \in handed \/ h = Handoff(s, h.target)
    BY <2>1 DEF Handoff
  <2>6. r.path # "none" /\ r.path = q.path /\ \A a \in log' : a \in log
    BY <1>1, <1>2, <1>6 DEF Sending
  <2>7. InTurn(s, r, log', handed')
    BY <1>1, <2>2
  <2> QED BY <1>4, <1>8, <1>9, <2>4, <2>5, <2>6, <2>7, UpdateKeeps
<1>14. CASE NextStep(s) # "handoff"
  <2>1. handed' = handed /\ NextStep(s) \in Preparing
    BY <1>1, <1>3, <1>14
  <2>2. BatchTruthful'
    BY <1>1, <1>4, <1>6, <2>1, TruthKept
  <2>3. InTurn(s, r, log, handed)
    <3>1. CASE NextTurn(s) = q.turn
      BY <1>6, <1>7, <1>10, <1>11, <2>1, <3>1 DEF InTurn, Preparing
    <3>2. CASE q.turn = 0 /\ NextTurn(s) = 1
      <4>1. (\A k \in {-1, 0} : First(q, k) = {}) /\ q.turn - 1 = -1
        BY <3>2 DEF First
      <4>2. (\A a \in log : a.send # s) /\ \A h \in handed : h.send # s
        BY <1>10, <3>2, <4>1
      <4>3. \A target : Handoff(s, target) \notin handed
        BY <4>2 DEF Handoff
      <4> QED BY <1>7, <2>1, <4>2, <4>3 DEF InTurn, Preparing
    <3> QED BY <1>3, <3>1, <3>2
  <2> QED BY <1>1, <1>2, <1>4, <1>6, <1>8, <1>9, <2>1, <2>2, <2>3, UpdateKeeps DEF Sending
<1> QED BY <1>13, <1>14

(* Any step before the handoff may raise. *)
LEMMA PreparationRaisesStep ==
  ASSUME DeliveryInv, NEW s \in Sends, PreparationRaises(s)
  PROVE  DeliveryInv'
<1> DEFINE q == send[s]
           len == Len(Steps(q.path, q.turn))
           r == [send[s] EXCEPT !.at = len, !.outcome = "preparation_failed"]
<1>1. /\ Active(s) /\ Step(s) \notin {"handoff", "record"} /\ UNCHANGED <<log, handed>>
      /\ send' = Raised(s) /\ send \in [Sends -> SendStates]
  BY DEF PreparationRaises, DeliveryInv
<1>2. CASE q.turn = 0
  <2>1. PICK e : /\ Ended(s) = [send EXCEPT ![s] = e] /\ e.path = q.path /\ e.path # "none"
                 /\ Placed(e) /\ RowChecked(e)
                 /\ \A entries, messages : InTurn(s, e, entries, messages)
    BY <1>1, EndedFacts
  <2>2. send' = [send EXCEPT ![s] = e]
    BY <1>1, <1>2, <2>1 DEF Raised
  <2>3. BatchTruthful'
    BY <1>1, <2>1, <2>2, TruthKept
  <2> QED BY <1>1, <2>1, <2>2, <2>3, UpdateKeeps
<1>3. CASE q.turn # 0
  <2>1. /\ q \in SendStates /\ q.path \in Sending /\ q.turn \in Nat /\ q.turn > 0 /\ q.at > 0
        /\ q.turn \in 0..Len(Selected(q.path)) /\ len \in Nat /\ len >= 2
        /\ Step(s) = StepOf(q)
    BY <1>1, <1>3, PlaceFacts DEF Active
  <2>2. send' = [send EXCEPT ![s] = r]
    BY <1>1, <1>3 DEF Raised
  <2>3. /\ r \in SendStates /\ r.path = q.path /\ r.turn = q.turn /\ r.at = len
        /\ r.outcome = "preparation_failed" /\ r.path # "none"
    BY <2>1 DEF SendStates, Outcomes, Sending
  <2> HIDE DEF r
  <2>4. StepOf(r) = "record"
    BY <2>1, <2>3, StepsFacts DEF StepOf
  <2>5. Placed(r) /\ RowChecked(r)
    BY <2>1, <2>3, <2>4 DEF Placed, RowChecked
  <2>6. InTurn(s, q, log, handed) /\ \A k : First(r, k) = First(q, k)
    BY <2>3 DEF DeliveryInv, First
  <2>7. InTurn(s, r, log, handed)
    BY <1>1, <2>1, <2>3, <2>4, <2>6 DEF InTurn, Outcomes
  <2>8. BatchTruthful'
    BY <1>1, <2>2, <2>3, TruthKept
  <2> QED BY <1>1, <2>2, <2>3, <2>5, <2>7, <2>8, UpdateKeeps
<1> QED BY <1>2, <1>3

LEMMA HandoffAnswersStep ==
  ASSUME DeliveryInv, NEW s \in Sends, HandoffAnswers(s)
  PROVE  DeliveryInv'
<1> DEFINE q == send[s]
           len == Len(Steps(q.path, q.turn))
<1>1. /\ Active(s) /\ Step(s) = "handoff" /\ UNCHANGED <<log, handed>>
      /\ send \in [Sends -> SendStates]
  BY DEF HandoffAnswers, DeliveryInv
<1>2. PICK o \in HandoffOutcomes : send' = [send EXCEPT ![s].at = @ + 1, ![s].outcome = o]
  BY DEF HandoffAnswers
<1> DEFINE r == [send[s] EXCEPT !.at = @ + 1, !.outcome = o]
<1>3. /\ q \in SendStates /\ q.path \in Sending /\ q.turn \in Nat /\ q.turn > 0 /\ q.at = len - 1 /\ q.at > 0
      /\ q.turn \in 0..Len(Selected(q.path)) /\ len \in Nat /\ len >= 2
      /\ Step(s) = StepOf(q)
  BY <1>1, PlaceFacts
<1>4. send' = [send EXCEPT ![s] = r]
  BY <1>1, <1>2
<1>5. /\ r \in SendStates /\ r.path = q.path /\ r.turn = q.turn /\ r.at = len
      /\ r.outcome = o /\ r.path # "none"
  <2>1. o \in Outcomes /\ q.at + 1 = len
    BY <1>3 DEF Outcomes
  <2> QED BY <1>3, <2>1 DEF SendStates, Sending
<1> HIDE DEF r
<1>6. StepOf(r) = "record" /\ o \in Outcomes /\ o # "preparation_failed"
  <2>1. StepOf(r) = "record"
    BY <1>3, <1>5, StepsFacts DEF StepOf
  <2> QED BY <2>1 DEF HandoffOutcomes, Outcomes
<1>7. Placed(r) /\ RowChecked(r)
  BY <1>3, <1>5, <1>6 DEF Placed, RowChecked
<1>8. InTurn(s, q, log, handed) /\ \A k : First(r, k) = First(q, k)
  BY <1>5 DEF DeliveryInv, First
<1>9. InTurn(s, r, log, handed)
  BY <1>1, <1>3, <1>5, <1>6, <1>8 DEF InTurn
<1>10. BatchTruthful'
  BY <1>1, <1>4, <1>5, TruthKept
<1> QED BY <1>1, <1>4, <1>5, <1>7, <1>9, <1>10, UpdateKeeps

(* A record for the target of this turn is the first of its target, and says    *)
(* whether the target was handed over.                                        *)
LEMMA RecordTruthful ==
  ASSUME DeliveryInv, NEW s \in Sends, Active(s), Step(s) = "record", handed' = handed,
         \A t \in Sends : send'[t].path = send[t].path,
         log' \in {log, Appended(log, s, Target(s), send[s].outcome)}
  PROVE  /\ BatchTruthful'
         /\ \A a \in log' : \/ a \in log
                            \/ a.send = s /\ a.target = Target(s) /\ a.outcome = send[s].outcome
<1> DEFINE q == send[s]
<1>1. PICK new : /\ new.send = s /\ new.target = Target(s) /\ new.outcome = q.outcome
                 /\ log' \subseteq log \cup {new}
  <2>1. PICK new : /\ new.send = s /\ new.target = Target(s) /\ new.outcome = q.outcome
                   /\ Appended(log, s, Target(s), q.outcome) \subseteq log \cup {new}
    BY ONLY AppendedFacts
  <2>2. log' = log \/ log' = Appended(log, s, Target(s), q.outcome)
    OBVIOUS
  <2>3. log' \subseteq log \cup {new}
    BY <2>1, <2>2, Zenon
  <2> QED BY <2>1, <2>3
<1>2. q.path \in Sending /\ q.turn \in Nat /\ q.turn > 0 /\ q.turn \in 1..Len(Selected(q.path)) /\ Step(s) = StepOf(q)
  BY PlaceFacts, SelectedFacts
<1>3. /\ \A a \in log : a.send = s => a.target \in First(q, q.turn - 1)
      /\ \A h \in handed : h.send = s => h.target \in First(q, q.turn)
      /\ Handoff(s, Target(s)) \in handed <=> q.outcome # "preparation_failed"
  BY <1>2 DEF DeliveryInv, InTurn, Active, Target
<1>4. Target(s) \notin First(q, q.turn - 1) /\ Target(s) = Selected(q.path)[q.turn]
  BY <1>2, TargetIsNew DEF Target
<1>5. \A a \in log : ~(a.send = s /\ a.target = Target(s))
  BY <1>3, <1>4
<1>6. \A a, b \in log' : a.send = b.send /\ a.target = b.target => a = b
  BY <1>1, <1>5 DEF DeliveryInv, BatchTruthful
<1>7. \A a \in log' : (a.outcome = "preparation_failed") <=> (Handoff(a.send, a.target) \notin handed')
  BY <1>1, <1>3 DEF DeliveryInv, BatchTruthful, Handoff
<1>8. ASSUME NEW h \in handed', NEW a \in log',
             send'[h.send].path \in Batches, a.send = h.send, Position(a.target) < Position(h.target)
      PROVE  a.outcome = "accepted"
  <2>1. h \in handed /\ h.send \in Sends /\ send[h.send].path \in Batches
    BY <1>8 DEF DeliveryInv
  <2>2. CASE a \in log
    BY <1>8, <2>1, <2>2 DEF DeliveryInv, BatchTruthful
  <2>3. CASE a = new
    <3>1. h.send = s /\ a.target = Channels[q.turn] /\ Selected(q.path) = Channels
      BY <1>1, <1>4, <1>8, <2>1, <2>3 DEF Selected
    <3>2. PICK i \in 1..q.turn : h.target = Channels[i]
      BY <1>3, <2>1, <3>1 DEF First
    <3>3. q.turn \in 1..Len(Channels) /\ i \in 1..Len(Channels) /\ i <= q.turn
      BY <1>2, <3>1, <3>2, DeliveryAssumption
    <3>4. Position(a.target) = q.turn /\ Position(h.target) = i
      BY <3>1, <3>2, <3>3, PositionFacts
    <3> QED BY <1>8, <3>3, <3>4
  <2> QED BY <1>1, <1>8, <2>2, <2>3
<1> QED BY <1>1, <1>6, <1>7, <1>8 DEF BatchTruthful, Handoff

LEMMA RecordCancelledStep ==
  ASSUME DeliveryInv, NEW s \in Sends, RecordCancelled(s)
  PROVE  DeliveryInv'
<1>1. /\ Active(s) /\ Step(s) = "record" /\ handed' = handed /\ send' = Ended(s)
      /\ log' \in {log, Appended(log, s, Target(s), send[s].outcome)} /\ send \in [Sends -> SendStates]
  BY DEF RecordCancelled, DeliveryInv
<1>2. PICK e : /\ Ended(s) = [send EXCEPT ![s] = e] /\ e.path = send[s].path /\ e.path # "none"
               /\ Placed(e) /\ RowChecked(e)
               /\ \A entries, messages : InTurn(s, e, entries, messages)
  BY <1>1, EndedFacts
<1>3. \A t \in Sends : send'[t].path = send[t].path
  BY <1>1, <1>2
<1>4. BatchTruthful' /\ \A a \in log' : a \in log \/ a.send = s
  BY <1>1, <1>3, RecordTruthful
<1> QED BY <1>1, <1>2, <1>4, UpdateKeeps

LEMMA RecordsStep ==
  ASSUME DeliveryInv, NEW s \in Sends, Records(s)
  PROVE  DeliveryInv'
<1> DEFINE q == send[s]
           next == [send[s] EXCEPT !.turn = @ + 1, !.at = 1, !.outcome = "none", !.stale = @ \ {"smtp"}]
           fail == [send[s] EXCEPT !.turn = @ + 1, !.at = Len(Steps(q.path, q.turn + 1)),
                                   !.outcome = "preparation_failed"]
<1>1. /\ Active(s) /\ Step(s) = "record" /\ handed' = handed /\ send' = AfterRecord(s)
      /\ log' \in {log, Appended(log, s, Target(s), send[s].outcome)} /\ send \in [Sends -> SendStates]
  BY DEF Records, DeliveryInv
<1>2. /\ q \in SendStates /\ q.path \in Sending /\ q.turn \in Nat /\ q.turn > 0
      /\ q.turn \in 1..Len(Selected(q.path)) /\ Len(Selected(q.path)) \in Nat
  BY <1>1, PlaceFacts, SelectedFacts
<1>3. CASE send' = Ended(s)
  <2>1. PICK e : /\ Ended(s) = [send EXCEPT ![s] = e] /\ e.path = q.path /\ e.path # "none"
                 /\ Placed(e) /\ RowChecked(e)
                 /\ \A entries, messages : InTurn(s, e, entries, messages)
    BY <1>1, EndedFacts
  <2>2. \A t \in Sends : send'[t].path = send[t].path
    BY <1>1, <1>3, <2>1
  <2>3. BatchTruthful' /\ \A a \in log' : a \in log \/ a.send = s
    BY <1>1, <2>2, RecordTruthful
  <2> QED BY <1>1, <1>3, <2>1, <2>3, UpdateKeeps
<1>4. ASSUME NEW r \in {next, fail}, send' = [send EXCEPT ![s] = r], q.outcome = "accepted",
             q.turn < Len(Selected(q.path))
      PROVE  DeliveryInv'
  <2> DEFINE k == q.turn + 1
             len == Len(Steps(q.path, k))
  <2>1. /\ k \in 1..Len(Selected(q.path)) /\ k \in Nat /\ k > 0 /\ k - 1 = q.turn
        /\ len \in Nat /\ len >= 2
        /\ Steps(q.path, k)[1] \in Preparing /\ Steps(q.path, k)[len] = "record"
        /\ q.path \in {"schedule", "press"} => Steps(q.path, k)[1] # "recheck"
    <3>1. k \in 1..Len(Selected(q.path)) /\ k \in Nat /\ k > 0 /\ k - 1 = q.turn
      BY <1>2, <1>4
    <3> HIDE DEF k
    <3>2. len \in Nat /\ len >= 2 /\ Steps(q.path, k)[1] \in Preparing
      BY <1>2, <3>1, StepsFacts
    <3>3. Steps(q.path, k)[len] = "record"
      BY <1>2, <3>1, <3>2, StepsFacts
    <3>4. q.path \in {"schedule", "press"} => Steps(q.path, k)[1] # "recheck"
      BY <1>2, <3>1, ValidationFacts
    <3> QED BY <3>1, <3>2, <3>3, <3>4
  <2>2. /\ r \in SendStates /\ r.path = q.path /\ r.turn = k /\ r.path # "none"
        /\ \/ r.at = 1
           \/ r.at = len /\ r.outcome = "preparation_failed"
    <3>1. CASE r = next
      BY <1>2, <2>1, <3>1 DEF SendStates, Sending
    <3>2. CASE r = fail
      BY <1>2, <2>1, <3>2 DEF SendStates, Outcomes, Sending
    <3> QED BY <1>4, <3>1, <3>2
  <2> HIDE DEF next, fail
  <2>3. /\ StepOf(r) = "record" => r.outcome = "preparation_failed"
        /\ StepOf(r) \in Preparing \cup {"record"}
        /\ q.path \in {"schedule", "press"} => StepOf(r) # "recheck"
    BY <2>1, <2>2 DEF StepOf, Preparing
  <2>4. Placed(r) /\ RowChecked(r)
    BY <2>1, <2>2, <2>3 DEF Placed, RowChecked
  <2>5. \A t \in Sends : send'[t].path = send[t].path
    BY <1>1, <1>4, <2>2
  <2>6. /\ BatchTruthful'
        /\ \A a \in log' : a \in log \/ (a.send = s /\ a.target = Target(s) /\ a.outcome = q.outcome)
    BY <1>1, <2>5, RecordTruthful
  <2>7. /\ \A a \in log : a.send = s => a.outcome = "accepted" /\ a.target \in First(q, q.turn - 1)
        /\ \A h \in handed : h.send = s => h.target \in First(q, q.turn)
    BY <1>1 DEF DeliveryInv, InTurn, Active
  <2>8. /\ First(q, q.turn - 1) \subseteq First(q, q.turn) /\ Target(s) \in First(q, q.turn)
        /\ First(q, q.turn) \subseteq First(q, k) /\ Selected(q.path)[k] \notin First(q, q.turn)
        /\ \A n : First(r, n) = First(q, n)
    BY <1>2, <2>1, <2>2, TargetIsNew DEF Target, First
  <2>9. InTurn(s, r, log', handed')
    <3>1. \A a \in log' : a.send = s => a.outcome = "accepted" /\ a.target \in First(r, r.turn - 1)
      BY <1>4, <2>1, <2>2, <2>6, <2>7, <2>8
    <3>2. \A h \in handed' : h.send = s => h.target \in First(r, r.turn)
      BY <1>1, <2>2, <2>7, <2>8
    <3>3. Handoff(s, Selected(r.path)[r.turn]) \notin handed'
      BY <1>1, <2>2, <2>7, <2>8 DEF Handoff
    <3> QED BY <2>3, <3>1, <3>2, <3>3 DEF InTurn, Outcomes, Preparing
  <2> QED BY <1>1, <1>4, <2>2, <2>4, <2>6, <2>9, UpdateKeeps
<1>5. \/ send' = Ended(s)
      \/ /\ q.outcome = "accepted" /\ q.turn < Len(Selected(q.path))
         /\ send' = [send EXCEPT ![s] = next] \/ send' = [send EXCEPT ![s] = fail]
  BY <1>1 DEF AfterRecord
<1> QED BY <1>3, <1>4, <1>5

(* Something around the sends changes: what shows as an edited schedule shows   *)
(* in the revision.                                                           *)
LEMMA WorldTurnsStep ==
  ASSUME DeliveryInv, WorldTurns
  PROVE  DeliveryInv'
<1>1. PICK x \in Things : send' = TurnedStale(Consequences(x))
  BY DEF WorldTurns, Things
<1> DEFINE xs == Consequences(x)
<1>2. xs \subseteq Things /\ ("row" \in xs => "schedules" \in xs)
  BY DEF Consequences, Things
<1>3. UNCHANGED <<log, handed>> /\ send \in [Sends -> SendStates]
  BY DEF WorldTurns, DeliveryInv
<1> HIDE DEF xs
<1>4. ASSUME NEW s \in Sends
      PROVE  /\ send'[s] \in SendStates /\ send'[s].path = send[s].path
             /\ Placed(send'[s]) /\ InTurn(s, send'[s], log', handed') /\ RowChecked(send'[s])
  <2> DEFINE q == send[s]
             r == [send[s] EXCEPT !.stale = @ \cup xs]
  <2>1. q \in SendStates /\ Placed(q) /\ InTurn(s, q, log, handed) /\ RowChecked(q)
    BY DEF DeliveryInv
  <2>2. CASE ~Active(s)
    BY <1>1, <1>3, <2>1, <2>2 DEF TurnedStale, xs
  <2>3. CASE Active(s)
    <3>1. send'[s] = r
      BY <1>1, <2>3 DEF TurnedStale, xs
    <3>2. /\ r \in SendStates /\ r.path = q.path /\ r.turn = q.turn /\ r.at = q.at
          /\ r.outcome = q.outcome /\ r.stale = q.stale \cup xs
      BY <1>2, <2>1 DEF SendStates
    <3> HIDE DEF r
    <3>3. StepOf(r) = StepOf(q) /\ \A k : First(r, k) = First(q, k)
      BY <3>2 DEF StepOf, First
    <3>4. Placed(r)
      BY <2>1, <3>2 DEF Placed
    <3>5. InTurn(s, r, log, handed)
      BY <2>1, <3>2, <3>3 DEF InTurn
    <3>6. RowChecked(r)
      BY <1>2, <2>1, <3>2, <3>3 DEF RowChecked
    <3> QED BY <1>3, <3>1, <3>2, <3>4, <3>5, <3>6
  <2> QED BY <2>2, <2>3
<1>5. send' \in [Sends -> SendStates]
  BY <1>1, <1>4 DEF TurnedStale
<1>6. BatchTruthful'
  BY <1>3, <1>4 DEF DeliveryInv, BatchTruthful
<1> QED BY <1>3, <1>4, <1>5, <1>6 DEF DeliveryInv

-----------------------------------------------------------------------------
(* Theorems *)

LEMMA DeliveryInitially == DeliveryInit => DeliveryInv
<1> SUFFICES ASSUME DeliveryInit PROVE DeliveryInv
  OBVIOUS
<1>1. Unsent \in SendStates /\ Unsent.at = 0
  BY DEF Unsent, SendStates
<1>2. \A s \in Sends : send[s] = Unsent
  BY DEF DeliveryInit
<1>3. send \in [Sends -> SendStates] /\ log = {} /\ handed = {}
  BY <1>1 DEF DeliveryInit
<1>4. \A s \in Sends : Placed(send[s]) /\ InTurn(s, send[s], log, handed) /\ RowChecked(send[s])
  BY <1>1, <1>2 DEF Placed, InTurn, RowChecked
<1>5. BatchTruthful
  BY <1>3 DEF BatchTruthful
<1> QED BY <1>3, <1>4, <1>5 DEF DeliveryInv

LEMMA DeliveryKept == DeliveryInv /\ [DeliveryNext]_deliveryVars => DeliveryInv'
<1> SUFFICES ASSUME DeliveryInv, [DeliveryNext]_deliveryVars PROVE DeliveryInv'
  OBVIOUS
<1>1. CASE UNCHANGED deliveryVars
  BY <1>1 DEF deliveryVars, DeliveryInv, BatchTruthful
<1>2. CASE WorldTurns
  BY <1>2, WorldTurnsStep
<1>3. CASE RightTurns
  BY <1>3 DEF RightTurns, DeliveryInv, BatchTruthful
<1>4. ASSUME NEW s \in Sends, DeliveryStep(s) PROVE DeliveryInv'
  BY <1>4, StartsStep, AwaitEndsStep, PreparationRaisesStep, HandoffAnswersStep, RecordsStep, RecordCancelledStep
     DEF DeliveryStep
<1> QED BY <1>1, <1>2, <1>3, <1>4 DEF DeliveryNext

(* The inductive invariant of the sends.  *)
THEOREM DeliveryInductive == DeliverySpec => []DeliveryInv
<1> QED BY DeliveryInitially, DeliveryKept, PTL DEF DeliverySpec

(* Each target has at most one record, the records tell whether it was handed  *)
(* over, and a target that was not accepted ends the batch.                    *)
THEOREM BatchTruthfulHolds == DeliverySpec => []BatchTruthful
<1>1. DeliveryInv => BatchTruthful
  BY DEF DeliveryInv
<1> QED BY <1>1, DeliveryInductive, PTL

(* A handoff follows the last validation of its turn. *)
LEMMA HandoffsAreCurrent ==
  ASSUME DeliveryInv, NEW s \in Sends, AwaitEnds(s), NEW h \in handed' \ handed
  PROVE  /\ right /\ "service" \notin send[h.send].stale
         /\ send[h.send].path # "manual" => "row" \notin send[h.send].stale
         /\ Energy(h.send) => send[h.send].stale \cap {"schedules", "facts"} = {}
         /\ h.target = "email" => "smtp" \notin send[h.send].stale
<1> DEFINE q == send[s]
<1>1. /\ Active(s) /\ Step(s) \notin {"handoff", "record"} /\ Agrees(s)
      /\ NextStep(s) = "handoff" /\ h = [send |-> s, target |-> Target(s)]
      /\ Fenced(s, Frozen(s))
      /\ Target(s) = "email" /\ Energy(s) => "smtp" \notin q.stale
  BY DEF AwaitEnds
<1>2. /\ q.path \in Sending /\ q.turn \in Nat /\ NextTurn(s) = q.turn /\ Step(s) = StepOf(q)
      /\ Step(s) = IF q.path = "digest" THEN "confirm" ELSE "recheck"
  BY <1>1, PlaceFacts, NextFacts
<1>3. Frozen(s) = q.stale
  <2>1. ~TurnEnds(s) /\ Step(s) # "compose"
    BY <1>2 DEF NextTurn
  <2> QED BY <2>1 DEF Frozen
<1>4. RowChecked(q) /\ q.at > 0 /\ h.send = s /\ h.target = Target(s)
  BY <1>1 DEF DeliveryInv, Active
<1>5. CASE q.path = "digest"
  BY <1>1, <1>2, <1>4, <1>5 DEF Agrees, Energy
<1>6. CASE q.path # "digest"
  <2>1. right /\ "service" \notin q.stale /\ "facts" \notin q.stale /\ "schedules" \notin q.stale
    BY <1>1, <1>2, <1>3, <1>6 DEF Agrees, Fenced, Energy
  <2>2. q.path \in {"schedule", "press"} => "row" \notin q.stale
    BY <1>2, <1>4, <1>6, <2>1 DEF RowChecked
  <2> QED BY <1>1, <1>2, <1>4, <1>6, <2>1, <2>2 DEF Energy, Sending
<1> QED BY <1>5, <1>6

(* What leaves was allowed and current at that moment.                         *)
THEOREM HandoffCurrentHolds == DeliverySpec => HandoffCurrent
<1> DEFINE Current == handed' # handed =>
             \A h \in handed' \ handed :
               /\ right /\ "service" \notin send[h.send].stale
               /\ send[h.send].path # "manual" => "row" \notin send[h.send].stale
               /\ Energy(h.send) => send[h.send].stale \cap {"schedules", "facts"} = {}
               /\ h.target = "email" => "smtp" \notin send[h.send].stale
<1>1. ASSUME DeliveryInv, [DeliveryNext]_deliveryVars PROVE [Current]_deliveryVars
  <2>1. CASE UNCHANGED deliveryVars
    BY <2>1
  <2>2. CASE WorldTurns \/ RightTurns
    BY <2>2 DEF WorldTurns, RightTurns
  <2>3. ASSUME NEW s \in Sends, DeliveryStep(s) PROVE Current
    <3>1. CASE AwaitEnds(s)
      BY <1>1, <3>1, HandoffsAreCurrent
    <3>2. CASE ~AwaitEnds(s)
      <4>1. handed' = handed
        BY <2>3, <3>2 DEF DeliveryStep, Starts, PreparationRaises, HandoffAnswers, Records, RecordCancelled
      <4> QED BY <4>1
    <3> QED BY <3>1, <3>2
  <2> QED BY <1>1, <2>1, <2>2, <2>3 DEF DeliveryNext
<1> QED BY <1>1, DeliveryInductive, PTL DEF DeliverySpec, HandoffCurrent

(***************************************************************************)
(* The Email coordinator.                                                   *)
(***************************************************************************)

(* `result` is what a refresh has read: any set of attempts. *)
Shaped(n) ==
  n \in [running : BOOLEAN, seen : SUBSET Reports, known : BOOLEAN, requested : BOOLEAN,
         refresh : {"none", "begun", "read"}, initial : BOOLEAN, changed : BOOLEAN,
         result : {n.result}, rows : BOOLEAN, problem : BOOLEAN, stamp : Nat, fresh : BOOLEAN]

(* An announced attempt is recorded, and as long as the history has it this    *)
(* setup has seen it: what left the history does not come back.                *)
AnnouncedStaysSeen ==
  \A k \in Reports : announced[k] = 1 => /\ k \in recorded
                                         /\ native.known /\ k \in Ids(history) => k \in native.seen

(* A refresh holds the Store's lock between its read and its end.               *)
ReadsTheStore == native.refresh = "read" => native.result = history

(* The issue is the problem of this setup; a problem has a report. *)
IssueIsProblem ==
  /\ issue = native.problem
  /\ native.problem => native.stamp > 0

(* A published history that is not older than the report of the stamp has its  *)
(* problem shown.                                                             *)
ProblemTells ==
  native.fresh /\ Pending(history) /\ NewestStamp(history) >= native.stamp => native.problem

StoppedIsEmpty == ~native.running => native.refresh = "none" /\ ~native.problem

NativeInv ==
  /\ Shaped(native) /\ issue \in BOOLEAN /\ configured \in BOOLEAN
  /\ recorded \subseteq Reports /\ Ids(history) \subseteq recorded
  /\ announced \in [Reports -> {0, 1}]
  /\ \A k \in native.seen : announced[k] = 1 \/ k \in excused
  /\ AnnouncedStaysSeen /\ ReadsTheStore /\ IssueIsProblem /\ ProblemTells /\ StoppedIsEmpty

-----------------------------------------------------------------------------
(* What the helpers change of the coordinator *)

LEMMA StatusEventFacts ==
  ASSUME NEW n, Shaped(n)
  PROVE  LET m == StatusEvent(n) IN
         /\ Shaped(m)
         /\ m.running = n.running /\ m.seen = n.seen /\ m.known = n.known /\ m.result = n.result
         /\ m.problem = n.problem /\ m.stamp = n.stamp /\ m.fresh = n.fresh
         /\ m.refresh = "read" => n.refresh = "read"
         /\ ~n.running => m.refresh = n.refresh
<1>1. CASE n.initial \/ ~n.running
  BY <1>1 DEF StatusEvent, Asked
<1>2. CASE ~n.initial /\ n.running /\ n.refresh # "none"
  <2> DEFINE m == [n EXCEPT !.requested = TRUE]
  <2>1. StatusEvent(n) = m
    BY <1>2 DEF StatusEvent, Asked
  <2>2. Shaped(m) /\ m.running = n.running /\ m.seen = n.seen /\ m.known = n.known /\ m.result = n.result
        /\ m.problem = n.problem /\ m.stamp = n.stamp /\ m.fresh = n.fresh /\ m.refresh = n.refresh
    BY DEF Shaped
  <2> HIDE DEF m
  <2> QED BY <2>1, <2>2
<1>3. CASE ~n.initial /\ n.running /\ n.refresh = "none"
  <2> DEFINE m == [n EXCEPT !.refresh = "begun", !.changed = FALSE]
  <2>1. StatusEvent(n) = m
    BY <1>3 DEF StatusEvent, Asked
  <2>2. Shaped(m) /\ m.running = n.running /\ m.seen = n.seen /\ m.known = n.known /\ m.result = n.result
        /\ m.problem = n.problem /\ m.stamp = n.stamp /\ m.fresh = n.fresh /\ m.refresh = "begun"
    BY DEF Shaped
  <2> HIDE DEF m
  <2> QED BY <1>3, <2>1, <2>2
<1> QED BY <1>1, <1>2, <1>3

LEMMA NextRoundFacts ==
  ASSUME NEW n, Shaped(n)
  PROVE  LET m == NextRound(n) IN
         /\ Shaped(m)
         /\ m.running = n.running /\ m.seen = n.seen /\ m.known = n.known
         /\ m.problem = n.problem /\ m.stamp = n.stamp /\ m.fresh = n.fresh
         /\ m.refresh \in {"none", "begun"}
  BY DEF Shaped, NextRound

(* A published result is judged by its newest reports.  *)
LEMMA NewestFacts ==
  ASSUME NEW attempts, Ids(attempts) \subseteq Reports, Newest(attempts) # {}
  PROVE  NewestStamp(attempts) \in Nat /\ NewestStamp(attempts) > 0
<1>1. PICK a \in attempts : NewestStamp(attempts) = StartedAt[a.send]
  BY DEF NewestStamp, Newest
<1>2. a.send \in DOMAIN StartedAt /\ StartedAt \in Seq(Nat \ {0})
  BY <1>1, EmailNativeAssumption, DeliveryAssumption DEF Ids
<1> QED BY <1>1, <1>2

LEMMA JudgedFacts ==
  ASSUME NEW n, Shaped(n), Ids(n.result) \subseteq Reports
  PROVE  LET m == Judged(n)
             kept == Newest(n.result) = {} \/ Older(n) IN
         /\ Shaped(m)
         /\ m.running = n.running /\ m.seen = n.seen /\ m.known = n.known /\ m.refresh = n.refresh
         /\ m.fresh = n.fresh /\ m.result = n.result
         /\ kept => m = n
         /\ ~kept => m.problem = Pending(n.result) /\ m.stamp = NewestStamp(n.result) /\ m.stamp > 0
<1>1. CASE Newest(n.result) = {} \/ Older(n)
  BY <1>1 DEF Judged
<1>2. CASE ~(Newest(n.result) = {} \/ Older(n))
  <2> DEFINE m == [n EXCEPT !.problem = Pending(n.result), !.stamp = NewestStamp(n.result)]
  <2>1. Judged(n) = m
    BY <1>2 DEF Judged
  <2>2. Pending(n.result) \in BOOLEAN /\ NewestStamp(n.result) \in Nat /\ NewestStamp(n.result) > 0
    BY <1>2, NewestFacts DEF Pending
  <2>3. /\ Shaped(m)
        /\ m.running = n.running /\ m.seen = n.seen /\ m.known = n.known /\ m.refresh = n.refresh
        /\ m.fresh = n.fresh /\ m.result = n.result
        /\ m.problem = Pending(n.result) /\ m.stamp = NewestStamp(n.result)
    BY <2>2 DEF Shaped
  <2> HIDE DEF m
  <2> QED BY <1>2, <2>1, <2>2, <2>3
<1> QED BY <1>1, <1>2

-----------------------------------------------------------------------------
(* Steps of the coordinator *)

(* A report is recorded: it was never announced before. *)
LEMMA AttemptRecordedStep ==
  ASSUME NativeInv, AttemptRecorded
  PROVE  NativeInv'
<1>1. PICK r \in Reports \ recorded, o \in {"accepted", "send_failed"} :
        history' = Appended(history, r, "email", o) /\ recorded' = recorded \cup {r}
  BY DEF AttemptRecorded
<1>2. Ids(history') \subseteq Ids(history) \cup {r}
  <2>1. PICK new : new.send = r /\ Appended(history, r, "email", o) \subseteq history \cup {new}
    BY ONLY AppendedFacts
  <2> QED BY <1>1, <2>1 DEF Ids
<1> DEFINE e == StatusEvent(native)
           m == [e EXCEPT !.fresh = FALSE]
<1>3. native' = m /\ UNCHANGED <<issue, configured, announced, excused>> /\ native.refresh # "read"
  BY DEF AttemptRecorded, StoreFree
<1>4. /\ Shaped(e)
      /\ e.running = native.running /\ e.seen = native.seen /\ e.known = native.known
      /\ e.problem = native.problem /\ e.stamp = native.stamp /\ e.refresh # "read"
      /\ ~native.running => e.refresh = native.refresh
  BY <1>3, StatusEventFacts DEF NativeInv
<1> HIDE DEF e
<1>5. /\ Shaped(m) /\ ~m.fresh
      /\ m.running = e.running /\ m.seen = e.seen /\ m.known = e.known
      /\ m.problem = e.problem /\ m.stamp = e.stamp /\ m.refresh = e.refresh
  BY <1>4 DEF Shaped
<1> HIDE DEF m
<1>6. AnnouncedStaysSeen'
  BY <1>1, <1>2, <1>3, <1>4, <1>5 DEF NativeInv, AnnouncedStaysSeen
<1>7. recorded' \subseteq Reports /\ Ids(history') \subseteq recorded'
  BY <1>1, <1>2 DEF NativeInv
<1>8. (ReadsTheStore /\ IssueIsProblem /\ ProblemTells /\ StoppedIsEmpty)'
  BY <1>3, <1>4, <1>5 DEF NativeInv, ReadsTheStore, IssueIsProblem, ProblemTells, StoppedIsEmpty
<1> QED BY <1>3, <1>4, <1>5, <1>6, <1>7, <1>8 DEF NativeInv, Ids

(* Steps that leave the history, the issue and what was seen alone. *)
LEMMA QuietStep ==
  ASSUME NativeInv, UNCHANGED <<history, issue, announced, excused, recorded>>, configured' \in BOOLEAN,
         Shaped(native'), native'.running = native.running, native'.seen = native.seen,
         native'.known = native.known, native'.problem = native.problem, native'.stamp = native.stamp,
         native'.fresh = native.fresh,
         native'.refresh = "read" => native'.result = history,
         ~native.running => native'.refresh = "none"
  PROVE  NativeInv'
<1>1. AnnouncedStaysSeen'
  BY DEF NativeInv, AnnouncedStaysSeen
<1>2. (ReadsTheStore /\ IssueIsProblem /\ ProblemTells /\ StoppedIsEmpty)'
  BY DEF NativeInv, ReadsTheStore, IssueIsProblem, ProblemTells, StoppedIsEmpty
<1>3. /\ issue' \in BOOLEAN /\ recorded' \subseteq Reports /\ Ids(history') \subseteq recorded'
      /\ announced' \in [Reports -> {0, 1}]
      /\ \A k \in native'.seen : announced'[k] = 1 \/ k \in excused'
  BY DEF NativeInv
<1> QED BY <1>1, <1>2, <1>3 DEF NativeInv, Ids

LEMMA ScheduleEditedStep ==
  ASSUME NativeInv, ScheduleEdited
  PROVE  NativeInv'
<1> DEFINE e == StatusEvent(native)
           m == [e EXCEPT !.changed = native.refresh # "none"]
<1>1. /\ native' = m /\ UNCHANGED <<history, issue, announced, excused, recorded>>
      /\ configured' \in BOOLEAN /\ native.refresh # "read"
  BY DEF ScheduleEdited, StoreFree
<1>2. /\ Shaped(e)
      /\ e.running = native.running /\ e.seen = native.seen /\ e.known = native.known
      /\ e.problem = native.problem /\ e.stamp = native.stamp /\ e.fresh = native.fresh /\ e.refresh # "read"
      /\ ~native.running => e.refresh = native.refresh
  BY <1>1, StatusEventFacts DEF NativeInv
<1> HIDE DEF e
<1>3. /\ Shaped(m)
      /\ m.running = e.running /\ m.seen = e.seen /\ m.known = e.known /\ m.fresh = e.fresh
      /\ m.problem = e.problem /\ m.stamp = e.stamp /\ m.refresh = e.refresh
  BY <1>2 DEF Shaped
<1> HIDE DEF m
<1>4. ~native.running => native'.refresh = "none"
  BY <1>1, <1>2, <1>3 DEF NativeInv, StoppedIsEmpty
<1> QED BY <1>1, <1>2, <1>3, <1>4, QuietStep

LEMMA TimerRequestsStep ==
  ASSUME NativeInv, TimerRequests
  PROVE  NativeInv'
<1>1. /\ native' = StatusEvent(native) /\ native.running
      /\ UNCHANGED <<history, issue, configured, announced, excused, recorded>>
  BY DEF TimerRequests, StatusEvent
<1> DEFINE e == StatusEvent(native)
<1>2. /\ Shaped(e) /\ e.result = native.result
      /\ e.running = native.running /\ e.seen = native.seen /\ e.known = native.known
      /\ e.problem = native.problem /\ e.stamp = native.stamp /\ e.fresh = native.fresh
      /\ e.refresh = "read" => native.refresh = "read"
  BY StatusEventFacts DEF NativeInv
<1> HIDE DEF e
<1>3. configured' \in BOOLEAN /\ (native.refresh = "read" => native.result = history)
  BY <1>1 DEF NativeInv, ReadsTheStore
<1> QED BY <1>1, <1>2, <1>3, QuietStep DEF e

LEMMA HomeTurnsStep ==
  ASSUME NativeInv, HomeTurns
  PROVE  NativeInv'
<1> DEFINE m == [native EXCEPT !.changed = TRUE]
<1>1. native' = m /\ UNCHANGED <<history, issue, configured, announced, excused, recorded>> /\ native.running
  BY DEF HomeTurns, NativeInv, StoppedIsEmpty
<1>2. /\ Shaped(m) /\ m.result = native.result /\ m.refresh = native.refresh
      /\ m.running = native.running /\ m.seen = native.seen /\ m.known = native.known
      /\ m.problem = native.problem /\ m.stamp = native.stamp /\ m.fresh = native.fresh
  BY DEF NativeInv, Shaped
<1> HIDE DEF m
<1>3. configured' \in BOOLEAN /\ (native.refresh = "read" => native.result = history)
  BY <1>1 DEF NativeInv, ReadsTheStore
<1> QED BY <1>1, <1>2, <1>3, QuietStep

LEMMA RefreshReadsStep ==
  ASSUME NativeInv, RefreshReads
  PROVE  NativeInv'
<1> DEFINE m == [native EXCEPT !.refresh = "read", !.result = history, !.rows = configured]
<1>1. native' = m /\ UNCHANGED <<history, issue, configured, announced, excused, recorded>> /\ native.running
  BY DEF RefreshReads, NativeInv, StoppedIsEmpty
<1>2. /\ Shaped(m) /\ m.result = history
      /\ m.running = native.running /\ m.seen = native.seen /\ m.known = native.known
      /\ m.problem = native.problem /\ m.stamp = native.stamp /\ m.fresh = native.fresh
  BY DEF NativeInv, Shaped
<1> HIDE DEF m
<1>3. configured' \in BOOLEAN
  BY <1>1 DEF NativeInv
<1> QED BY <1>1, <1>2, <1>3, QuietStep

(* A refresh that is dropped or raises forgets nothing and announces nothing. *)
LEMMA DropsStep ==
  ASSUME NativeInv, Drops \/ RefreshRaises
  PROVE  NativeInv'
<1> DEFINE m == NextRound(native)
<1>1. native' = m /\ UNCHANGED <<history, issue, configured, announced, excused, recorded>> /\ native.running
  BY DEF Drops, Dropped, RefreshRaises, NativeInv, StoppedIsEmpty
<1>2. /\ Shaped(m) /\ m.refresh \in {"none", "begun"}
      /\ m.running = native.running /\ m.seen = native.seen /\ m.known = native.known
      /\ m.problem = native.problem /\ m.stamp = native.stamp /\ m.fresh = native.fresh
  BY NextRoundFacts DEF NativeInv
<1> HIDE DEF m
<1>3. configured' \in BOOLEAN
  BY <1>1 DEF NativeInv
<1> QED BY <1>1, <1>2, <1>3, QuietStep

(* What a published refresh makes of the coordinator. *)
LEMMA PublishedFacts ==
  ASSUME NativeInv, Publishes
  PROVE  LET kept == Newest(history) = {} \/ Older(native) IN
         /\ Shaped(native') /\ native'.running = native.running /\ native'.seen = Ids(history)
         /\ native'.known /\ native'.refresh \in {"none", "begun"}
         /\ kept => issue' = issue /\ native'.problem = native.problem /\ native'.stamp = native.stamp
         /\ ~kept => /\ issue' = Pending(history) /\ native'.problem = Pending(history)
                     /\ native'.stamp = NewestStamp(history) /\ native'.stamp > 0
<1> DEFINE n == [native EXCEPT !.seen = Ids(native.result), !.known = TRUE, !.fresh = TRUE]
           j == Judged(n)
           kept == Newest(history) = {} \/ Older(native)
<1>1. native' = NextRound(j) /\ native.refresh = "read" /\ native.result = history
  BY DEF Publishes, NativeInv, ReadsTheStore
<1>2. issue' = IF kept THEN issue ELSE Pending(history)
  BY <1>1 DEF Publishes
<1>3. Ids(history) \subseteq Reports
  BY DEF NativeInv
<1>4. /\ Shaped(n) /\ n.result = history /\ n.running = native.running /\ n.seen = Ids(history) /\ n.known
      /\ n.problem = native.problem /\ n.stamp = native.stamp
  BY <1>1, <1>3 DEF NativeInv, Shaped
<1> HIDE DEF n
<1>5. Older(n) <=> Older(native)
  BY <1>1, <1>4 DEF Older
<1>6. /\ Shaped(j)
      /\ j.running = n.running /\ j.seen = n.seen /\ j.known = n.known
      /\ kept => j = n
      /\ ~kept => j.problem = Pending(history) /\ j.stamp = NewestStamp(history) /\ j.stamp > 0
  BY <1>3, <1>4, <1>5, JudgedFacts
<1> HIDE DEF j
<1>7. /\ Shaped(native') /\ native'.running = j.running /\ native'.seen = j.seen /\ native'.known = j.known
      /\ native'.problem = j.problem /\ native'.stamp = j.stamp /\ native'.refresh \in {"none", "begun"}
  BY <1>1, <1>6, NextRoundFacts
<1> QED BY <1>2, <1>4, <1>6, <1>7

(* A refresh announces what it had not seen: the lock says that this is still  *)
(* the history, and an announced attempt of the history was seen.             *)
LEMMA PublishesStep ==
  ASSUME NativeInv, Publishes
  PROVE  NativeInv'
<1> DEFINE kept == Newest(history) = {} \/ Older(native)
<1>1. /\ native.refresh = "read" /\ native.result = history /\ native.running
      /\ UNCHANGED <<history, configured, recorded>>
  BY DEF Publishes, NativeInv, ReadsTheStore, StoppedIsEmpty
<1>2. /\ Shaped(native') /\ native'.running = native.running /\ native'.seen = Ids(history)
      /\ native'.known /\ native'.refresh \in {"none", "begun"}
      /\ kept => issue' = issue /\ native'.problem = native.problem /\ native'.stamp = native.stamp
      /\ ~kept => /\ issue' = Pending(history) /\ native'.problem = Pending(history)
                  /\ native'.stamp = NewestStamp(history) /\ native'.stamp > 0
  BY PublishedFacts
<1>3. announced' = [k \in Reports |-> announced[k] + IF k \in Fresh THEN 1 ELSE 0]
  BY DEF Publishes, NativeInv
<1>4. \A k \in Fresh : k \in Ids(history) /\ k \in Reports /\ k \in recorded /\ announced[k] = 0
  BY <1>1 DEF Fresh, Unseen, NativeInv, AnnouncedStaysSeen
<1>5. announced' \in [Reports -> {0, 1}] /\ \A k \in Reports : announced'[k] = 1 <=> announced[k] = 1 \/ k \in Fresh
  BY <1>3, <1>4 DEF NativeInv
<1>6. \A k \in native'.seen : announced'[k] = 1 \/ k \in excused'
  <2>1. excused' = excused \cup IF native.known THEN Unseen \ Fresh ELSE Ids(history)
    BY <1>1 DEF Publishes
  <2>2. native.known => Unseen = Ids(history) \ native.seen
    BY <1>1 DEF Unseen
  <2>3. Ids(history) \subseteq Reports
    BY DEF NativeInv
  <2> QED BY <1>2, <1>5, <2>1, <2>2, <2>3 DEF NativeInv
<1>7. AnnouncedStaysSeen'
  <2>1. Ids(history)' = Ids(history)
    BY <1>1 DEF Ids
  <2> QED BY <1>1, <1>2, <1>4, <1>5, <2>1 DEF NativeInv, AnnouncedStaysSeen
<1>8. /\ issue' = native'.problem /\ issue' \in BOOLEAN
      /\ native'.problem => native'.stamp > 0
  BY <1>2 DEF NativeInv, IssueIsProblem, Pending
<1>9. ProblemTells'
  <2> SUFFICES ASSUME Pending(history), NewestStamp(history) >= native'.stamp PROVE native'.problem
    BY <1>1 DEF ProblemTells, Pending, NewestStamp, Newest
  <2>1. Newest(history) # {} /\ Ids(history) \subseteq Reports
    BY DEF Pending, NativeInv
  <2>2. NewestStamp(history) \in Nat
    BY <2>1, NewestFacts
  <2>3. CASE ~kept
    BY <1>2, <2>3
  <2>4. CASE kept
    <3>1. Older(native) /\ native'.stamp = native.stamp /\ native.stamp \in Nat
      BY <1>2, <2>1, <2>4 DEF NativeInv, Shaped
    <3>2. native.problem
      BY <1>1, <2>2, <3>1 DEF Older
    <3> QED BY <1>2, <2>4, <3>2
  <2> QED BY <2>3, <2>4
<1>10. StoppedIsEmpty' /\ ReadsTheStore'
  BY <1>1, <1>2 DEF StoppedIsEmpty, ReadsTheStore
<1> QED BY <1>1, <1>2, <1>5, <1>6, <1>7, <1>8, <1>9, <1>10 DEF NativeInv, IssueIsProblem, Ids

(* Unloading forgets what was seen and takes the issue away. *)
LEMMA NativeStopsStep ==
  ASSUME NativeInv, NativeStops
  PROVE  NativeInv'
<1>1. native' = NoNative /\ issue' = FALSE /\ UNCHANGED <<history, configured, announced, excused, recorded>>
  BY DEF NativeStops
<1>2. Shaped(NoNative) /\ NoNative.seen = {} /\ ~NoNative.known /\ NoNative.problem = FALSE /\ ~NoNative.fresh
      /\ NoNative.refresh = "none"
  BY DEF Shaped, NoNative
<1>3. native'.seen = {} /\ ~native'.known /\ native'.problem = FALSE /\ ~native'.fresh /\ native'.refresh # "read" /\ issue' = FALSE
  BY <1>1, <1>2
<1>4. AnnouncedStaysSeen'
  BY <1>1, <1>3 DEF NativeInv, AnnouncedStaysSeen
<1>5. (ReadsTheStore /\ IssueIsProblem /\ ProblemTells /\ StoppedIsEmpty)'
  BY <1>1, <1>2, <1>3 DEF NativeInv, ReadsTheStore, IssueIsProblem, ProblemTells, StoppedIsEmpty
<1>6. Shaped(native') /\ issue' \in BOOLEAN
  BY <1>1, <1>2, <1>3
<1>7. UNCHANGED Ids(history)
  BY <1>1 DEF Ids
<1> QED BY <1>1, <1>3, <1>4, <1>5, <1>6, <1>7 DEF NativeInv

LEMMA StartedFacts ==
  LET m == [NoNative EXCEPT !.running = TRUE, !.refresh = "begun", !.initial = TRUE] IN
  /\ Shaped(m) /\ m.running /\ m.seen = {} /\ ~m.known /\ m.problem = FALSE /\ ~m.fresh /\ m.refresh = "begun"
  BY DEF Shaped, NoNative

LEMMA NativeStartsStep ==
  ASSUME NativeInv, NativeStarts
  PROVE  NativeInv'
<1> DEFINE m == [NoNative EXCEPT !.running = TRUE, !.refresh = "begun", !.initial = TRUE]
<1>1. native' = m /\ ~native.running /\ UNCHANGED <<history, issue, configured, announced, excused, recorded>>
  BY DEF NativeStarts
<1>2. Shaped(m) /\ m.running /\ m.seen = {} /\ ~m.known /\ m.problem = FALSE /\ ~m.fresh /\ m.refresh = "begun"
  BY StartedFacts
<1> HIDE DEF m
<1>3. native'.seen = {} /\ ~native'.known /\ native'.problem = FALSE /\ ~native'.fresh /\ native'.refresh # "read" /\ issue' = FALSE
  BY <1>1, <1>2 DEF NativeInv, IssueIsProblem, StoppedIsEmpty, Shaped
<1>4. AnnouncedStaysSeen'
  BY <1>1, <1>3 DEF NativeInv, AnnouncedStaysSeen
<1>5. (ReadsTheStore /\ IssueIsProblem /\ ProblemTells /\ StoppedIsEmpty)'
  BY <1>1, <1>2, <1>3 DEF NativeInv, ReadsTheStore, IssueIsProblem, ProblemTells, StoppedIsEmpty
<1>6. Shaped(native') /\ issue' \in BOOLEAN
  BY <1>1, <1>2, <1>3 DEF NativeInv
<1>7. UNCHANGED Ids(history)
  BY <1>1 DEF Ids
<1> QED BY <1>1, <1>3, <1>4, <1>5, <1>6, <1>7 DEF NativeInv

LEMMA NativeInitially == NativeInit => NativeInv
<1> SUFFICES ASSUME NativeInit PROVE NativeInv
  OBVIOUS
<1> DEFINE m == [NoNative EXCEPT !.running = TRUE, !.refresh = "begun", !.initial = TRUE]
<1>1. /\ native = m /\ issue = FALSE /\ configured \in BOOLEAN /\ recorded = {} /\ history = {}
      /\ announced = [r \in Reports |-> 0]
  BY DEF NativeInit
<1>2. Shaped(m) /\ m.running /\ m.seen = {} /\ ~m.known /\ m.problem = FALSE /\ ~m.fresh /\ m.refresh = "begun"
  BY StartedFacts
<1> HIDE DEF m
<1>3. AnnouncedStaysSeen
  BY <1>1, <1>2 DEF AnnouncedStaysSeen
<1>4. ReadsTheStore /\ IssueIsProblem /\ ProblemTells /\ StoppedIsEmpty
  BY <1>1, <1>2 DEF ReadsTheStore, IssueIsProblem, ProblemTells, StoppedIsEmpty
<1>5. Ids(history) = {}
  BY <1>1 DEF Ids
<1>6. announced \in [Reports -> {0, 1}] /\ native.seen = {} /\ issue \in BOOLEAN /\ Shaped(native)
  BY <1>1, <1>2
<1> QED BY <1>1, <1>3, <1>4, <1>5, <1>6 DEF NativeInv

LEMMA NativeKept == NativeInv /\ [NativeNext]_nativeVars => NativeInv'
<1> SUFFICES ASSUME NativeInv, [NativeNext]_nativeVars PROVE NativeInv'
  OBVIOUS
<1>1. CASE UNCHANGED nativeVars
  BY <1>1 DEF nativeVars, NativeInv, Shaped, AnnouncedStaysSeen, ReadsTheStore, IssueIsProblem, ProblemTells,
              StoppedIsEmpty, Ids, Pending, Newest, NewestStamp
<1>2. CASE NativeNext
  BY <1>2, AttemptRecordedStep, ScheduleEditedStep, TimerRequestsStep, HomeTurnsStep, RefreshReadsStep,
     PublishesStep, DropsStep, NativeStopsStep, NativeStartsStep DEF NativeNext
<1> QED BY <1>1, <1>2

-----------------------------------------------------------------------------

(* Every reachable state of the Email coordinator satisfies its invariant. *)
THEOREM NativeInductive == NativeSpec => []NativeInv
<1> QED BY NativeInitially, NativeKept, PTL DEF NativeSpec

(* No attempt is announced twice, over any number of setups, and none that a   *)
(* refresh took note of is lost.                                              *)
THEOREM AnnouncedOnceHolds == NativeSpec => []AnnouncedOnce
<1>1. NativeInv => AnnouncedOnce
  BY DEF NativeInv, AnnouncedOnce
<1> QED BY <1>1, NativeInductive, PTL

(* While the entities are published, an unsolved problem of the newest report   *)
(* has its issue; without a setup there is none.                              *)
THEOREM IssueTellsHolds == NativeSpec => []IssueTells
<1>1. NativeInv => IssueTells
  BY DEF NativeInv, IssueTells, Published, ProblemTells, IssueIsProblem, StoppedIsEmpty
<1> QED BY <1>1, NativeInductive, PTL

(* Only a report that started later and was accepted everywhere, or the end of  *)
(* the setup, takes the issue away.                                           *)
THEOREM IssueClearsHolds == NativeSpec => IssueClears
<1> DEFINE Solved == issue /\ ~issue' /\ native'.running =>
                       ~Pending(history) /\ NewestStamp(history) > native.stamp
<1>1. NativeInv /\ [NativeNext]_nativeVars => [Solved]_nativeVars
  <2> SUFFICES ASSUME NativeInv, NativeNext, issue, ~issue', native'.running
               PROVE  ~Pending(history) /\ NewestStamp(history) > native.stamp
    OBVIOUS
  <2>1. Publishes
    <3>1. ~NativeStops
      BY DEF NativeStops, NoNative
    <3> QED BY <3>1 DEF NativeNext, AttemptRecorded, ScheduleEdited, TimerRequests, HomeTurns, RefreshReads,
                        Drops, RefreshRaises, NativeStarts
  <2>2. ~(Newest(history) = {} \/ Older(native)) /\ ~Pending(history)
    BY <2>1, PublishedFacts
  <2>3. native.result = history /\ native.problem /\ native.stamp > 0 /\ native.stamp \in Nat
    BY <2>1 DEF Publishes, NativeInv, ReadsTheStore, IssueIsProblem, Shaped
  <2>4. NewestStamp(history) \in Nat
    BY <2>2, NewestFacts DEF NativeInv
  <2> QED BY <2>2, <2>3, <2>4 DEF Older
<1> QED BY <1>1, NativeInductive, PTL DEF NativeSpec, IssueClears
=============================================================================
