---------------------------- MODULE ReviewLedger ----------------------------
(***************************************************************************)
(* What the Repository state promises of one branch's review progress,     *)
(* whatever its observers, retries, failures and crashes do: an archive of *)
(* reviewed ranges that only grows, and a reviewed position that moves     *)
(* only to the end of an archived range.  ReviewStore implements it.       *)
(***************************************************************************)
EXTENDS Naturals

CONSTANTS Branches, LastRevision, None

Revisions == 0 .. LastRevision

VARIABLES
  baseline,  \* where enrollment started, None before it
  reviewed,  \* the position up to which the branch counts as reviewed
  archive    \* the reviewed ranges, <<base, head>>

vars == <<baseline, reviewed, archive>>

Init ==
  /\ baseline = [b \in Branches |-> None]
  /\ reviewed = [b \in Branches |-> None]
  /\ archive = [b \in Branches |-> {}]

Enroll(b, r) ==
  /\ reviewed[b] = None
  /\ baseline' = [baseline EXCEPT ![b] = r]
  /\ reviewed' = [reviewed EXCEPT ![b] = r]
  /\ UNCHANGED archive

\* A review of the range from the reviewed position to r is archived.
Archive(b, r) ==
  /\ reviewed[b] # None
  /\ archive' = [archive EXCEPT ![b] = @ \cup {<<reviewed[b], r>>}]
  /\ UNCHANGED <<baseline, reviewed>>

\* Reviewing moves on, to the end of an archived range.
Advance(b, r) ==
  /\ \E a \in archive[b] : a[2] = r
  /\ reviewed' = [reviewed EXCEPT ![b] = r]
  /\ UNCHANGED <<baseline, archive>>

Next ==
  \E b \in Branches, r \in Revisions : Enroll(b, r) \/ Archive(b, r) \/ Advance(b, r)

Spec == Init /\ [][Next]_vars

-----------------------------------------------------------------------------
Covers(b, c) == \E a \in archive[b] : a[1] < c /\ c <= a[2]

\* Every revision between the baseline and the end of an archived range lies
\* in some archived range: the archive has no hole behind any of its ranges.
NoHole ==
  \A b \in Branches : \A a \in archive[b] : \A c \in Revisions :
    baseline[b] < c /\ c <= a[2] => Covers(b, c)

\* The reviewed position is the baseline or the end of an archived range.
ReviewedIsArchived ==
  \A b \in Branches :
    reviewed[b] # baseline[b] => \E a \in archive[b] : a[2] = reviewed[b]

\* The types, and an archive only after enrollment.
LedgerTypeOK ==
  /\ baseline \in [Branches -> Revisions \cup {None}]
  /\ reviewed \in [Branches -> Revisions \cup {None}]
  /\ archive \in [Branches -> SUBSET (Revisions \X Revisions)]
  /\ \A b \in Branches :
       /\ reviewed[b] = None => baseline[b] = None /\ archive[b] = {}
       /\ reviewed[b] # None => baseline[b] # None

\* The inductive invariant: NoHole alone is not, because archiving a range
\* needs the part below its base covered, which ReviewedIsArchived gives.
LedgerInv == LedgerTypeOK /\ ReviewedIsArchived /\ NoHole
=============================================================================
