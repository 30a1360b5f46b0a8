------------------------- MODULE ReviewLedgerProofs -------------------------
(***************************************************************************)
(* The ledger's promise holds in every one of its behaviours: no hole in   *)
(* the archive behind a reviewed position.                                 *)
(***************************************************************************)
EXTENDS ReviewLedger, TLAPS

\* Archiving a range that starts at the reviewed position leaves no hole
\* behind its end: what lies below its base was already covered.
LEMMA ArchiveKeepsNoHole ==
  ASSUME LastRevision \in Nat, None \notin Revisions, LedgerInv,
         NEW b \in Branches, NEW r \in Revisions, Archive(b, r)
  PROVE  NoHole'
<1> DEFINE new == <<reviewed[b], r>>
<1>1. /\ reviewed[b] \in Revisions
      /\ baseline[b] \in Revisions
      /\ archive' = [archive EXCEPT ![b] = archive[b] \cup {new}]
      /\ baseline' = baseline
      /\ archive[b] \subseteq archive'[b]
      /\ new \in archive'[b]
  BY DEF Archive, LedgerInv, LedgerTypeOK
<1> SUFFICES ASSUME NEW e \in Branches, NEW a \in archive'[e], NEW c \in Revisions,
                    baseline[e] < c, c <= a[2]
             PROVE  \E d \in archive'[e] : d[1] < c /\ c <= d[2]
  BY <1>1 DEF NoHole, Covers
<1>2. CASE a \in archive[e]
  <2>1. PICK d \in archive[e] : d[1] < c /\ c <= d[2]
    BY <1>2 DEF LedgerInv, NoHole, Covers
  <2>2. d \in archive'[e]
    BY <1>1, <2>1 DEF LedgerInv, LedgerTypeOK
  <2> QED BY <2>1, <2>2
<1>3. CASE a \notin archive[e]
  <2>1. e = b /\ a = new
    BY <1>1, <1>3 DEF LedgerInv, LedgerTypeOK
  <2>2. CASE reviewed[b] < c
    BY <1>1, <2>1, <2>2
  <2>3. CASE ~(reviewed[b] < c)
    <3>1. c <= reviewed[b] /\ reviewed[b] # baseline[b]
      BY <1>1, <2>1, <2>3 DEF Revisions
    <3>2. PICK f \in archive[b] : f[2] = reviewed[b]
      BY <3>1 DEF LedgerInv, ReviewedIsArchived
    <3>3. PICK d \in archive[b] : d[1] < c /\ c <= d[2]
      BY <2>1, <3>1, <3>2 DEF LedgerInv, NoHole, Covers
    <3> QED BY <1>1, <2>1, <3>3
  <2> QED BY <2>2, <2>3
<1> QED BY <1>2, <1>3

\* One step keeps the inductive invariant.
LEMMA LedgerStep ==
  ASSUME LastRevision \in Nat, None \notin Revisions, LedgerInv, [Next]_vars
  PROVE  LedgerInv'
<1>1. ASSUME NEW b \in Branches, NEW r \in Revisions, Enroll(b, r)
      PROVE  LedgerInv'
  <2>1. LedgerTypeOK'
    BY <1>1 DEF Enroll, LedgerInv, LedgerTypeOK
  <2>2. ReviewedIsArchived'
    BY <1>1 DEF Enroll, LedgerInv, LedgerTypeOK, ReviewedIsArchived
  <2>3. NoHole'
    BY <1>1 DEF Enroll, LedgerInv, LedgerTypeOK, NoHole, Covers
  <2> QED BY <2>1, <2>2, <2>3 DEF LedgerInv
<1>2. ASSUME NEW b \in Branches, NEW r \in Revisions, Archive(b, r)
      PROVE  LedgerInv'
  <2>1. LedgerTypeOK'
    BY <1>2 DEF Archive, LedgerInv, LedgerTypeOK
  <2>2. ReviewedIsArchived'
    BY <1>2 DEF Archive, LedgerInv, LedgerTypeOK, ReviewedIsArchived
  <2>3. NoHole'
    BY <1>2, ArchiveKeepsNoHole
  <2> QED BY <2>1, <2>2, <2>3 DEF LedgerInv
<1>3. ASSUME NEW b \in Branches, NEW r \in Revisions, Advance(b, r)
      PROVE  LedgerInv'
  <2>1. LedgerTypeOK'
    BY <1>3 DEF Advance, LedgerInv, LedgerTypeOK
  <2>2. ReviewedIsArchived'
    BY <1>3 DEF Advance, LedgerInv, LedgerTypeOK, ReviewedIsArchived
  <2>3. NoHole'
    BY <1>3 DEF Advance, LedgerInv, NoHole, Covers
  <2> QED BY <2>1, <2>2, <2>3 DEF LedgerInv
<1>4. CASE UNCHANGED vars
  BY <1>4 DEF vars, LedgerInv, LedgerTypeOK, ReviewedIsArchived, NoHole, Covers
<1> QED BY <1>1, <1>2, <1>3, <1>4 DEF Next

\* In every behaviour of the ledger the reviewed position is the baseline or
\* the end of an archived range, and the archive has no hole behind it.
THEOREM LedgerHasNoHole ==
  ASSUME LastRevision \in Nat, None \notin Revisions
  PROVE  Spec => []LedgerInv
<1>1. Init => LedgerInv
  BY DEF Init, LedgerInv, LedgerTypeOK, ReviewedIsArchived, NoHole
<1>2. LedgerInv /\ [Next]_vars => LedgerInv'
  BY LedgerStep
<1> QED BY <1>1, <1>2, PTL DEF Spec
=============================================================================
