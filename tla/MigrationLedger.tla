-------------------------- MODULE MigrationLedger ---------------------------
(***************************************************************************)
(* What the migration tooling promises about one database, whatever its    *)
(* processes do: artifacts are applied one at a time, each on top of its   *)
(* parent, none is ever forgotten, and an attempt whose outcome is open    *)
(* keeps every other attempt out until it is settled.                      *)
(***************************************************************************)
EXTENDS Sequences, Naturals

CONSTANTS Artifact, Parent, AttemptId, Null

VARIABLES
  ledger,    \* the applied artifacts, oldest first
  open       \* attempts without a final outcome

Tip == IF ledger = << >> THEN Null ELSE ledger[Len(ledger)]

Init == ledger = << >> /\ open = {}

Open(k) ==
  /\ open = {}
  /\ open' = {k}
  /\ UNCHANGED ledger

Extend(a) ==
  /\ Parent[a] = Tip
  /\ ledger' = Append(ledger, a)

\* The open attempt leaves its mark in the ledger and is settled, at once or
\* in two steps, or is settled without a mark.
Record(a) == open # {} /\ Extend(a) /\ UNCHANGED open

RecordAndSettle(a) == open # {} /\ Extend(a) /\ open' = {}

Settle == open # {} /\ open' = {} /\ UNCHANGED ledger

Next ==
  \/ \E k \in AttemptId : Open(k)
  \/ \E a \in Artifact : Record(a) \/ RecordAndSettle(a)
  \/ Settle

Spec == Init /\ [][Next]_<<ledger, open>>
=============================================================================
