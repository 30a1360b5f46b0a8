----------------------------- MODULE HarvestLoop -----------------------------
(***************************************************************************)
(* The loop of harvest_review as a state machine: the rows read so far and *)
(* what the loop remembers of them.  Every transcript the conductor can    *)
(* write is a behaviour, so an invariant here is a statement about         *)
(* harvest_review on every transcript, and on every prefix of one.         *)
(***************************************************************************)
EXTENDS Harvest, Sequences

CONSTANTS
  MaxRows, \* bound: rows of a transcript
  Bases,   \* the bases a dispatch may name
  Bodies   \* replies and texts

ASSUME MaxRowsAssumption == MaxRows \in Nat

ASSUME AbsentAssumption ==
  Absent \notin Bodies /\ Absent \notin [base : Bases, head : Heads]

VARIABLES rows, summary

AnyRow ==
  {Result, Wake, Malformed, TurnError}
  \cup {Reply(l, h, x) : l \in Layers, h \in Heads, x \in Bodies}
  \cup {NoReply(l, h) : l \in Layers, h \in Heads}
  \cup {Call(l, base, h) : l \in Layers, base \in Bases, h \in Heads}
  \cup {Text(x) : x \in Bodies}

Init == rows = <<>> /\ summary = EmptySummary

\* One iteration: the next row is read.
Next ==
  /\ Len(rows) < MaxRows
  /\ \E row \in AnyRow :
       /\ rows' = Append(rows, row)
       /\ summary' = ScanRow(summary, row)

Spec == Init /\ [][Next]_<<rows, summary>>

Summaries ==
  [calls       : [Layers -> [base : Bases, head : Heads] \cup {Absent}],
   delivered   : [Layers \X Heads -> Bodies \cup {Absent}],
   no_reply    : SUBSET (Layers \X Heads),
   seen_result : BOOLEAN,
   synthesis   : Bodies \cup {Absent},
   malformed   : BOOLEAN,
   failed      : BOOLEAN]

TypeOK == rows \in Seq(AnyRow) /\ summary \in Summaries

-----------------------------------------------------------------------------
(* Properties *)

\* The one-pass loop of harvest_review remembers exactly what the rows say:
\* superseded dispatches, the last reply per layer and exact head, and a
\* synthesis only after the final activity row.
LoopIsFaithful == LoopMatchesRows(summary, rows)

\* What the proof of LoopIsFaithful rests on: the loop has seen a tool result
\* exactly if some row is one.
LoopInv ==
  /\ TypeOK
  /\ LoopIsFaithful
  /\ summary.seen_result <=> Rows(rows, "result") # {}

\* What the children report is never taken for another head's review: with no
\* collected child answers, every harvested answer is the body of a reply that
\* named the harvested head.
NoStaleReply ==
  Harvestable(summary) =>
    LET h == Harvested(summary, [l \in Layers |-> Absent])
    IN \A l \in DOMAIN h.layers :
         \E i \in DOMAIN rows : rows[i] = Reply(l, h.head, h.layers[l])
=============================================================================
