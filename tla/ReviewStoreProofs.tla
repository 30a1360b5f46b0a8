-------------------------- MODULE ReviewStoreProofs --------------------------
(***************************************************************************)
(* For any number of branches, revisions, attempts and concurrent          *)
(* observers: the store's inductive invariant, that the store implements   *)
(* the ledger, and that no commit is swallowed as reviewed.                *)
(***************************************************************************)
EXTENDS ReviewStore, TLAPS

USE BoundsAssumption, DirAssumption, NoneAssumption

\* What a scan's end leaves of the observer's own variables.
LEMMA ScanEndsType ==
  ASSUME TypeOK, NEW o \in Observers, ScanEnds(o)
  PROVE  /\ phase' \in [Observers -> {"idle", "settle", "observe"}]
         /\ view' \in [Observers -> [Branches -> Range \cup {None}]]
         /\ todo' \in [Observers -> SUBSET Branches]
         /\ seen' \in [Observers -> [Branches -> Revisions \cup {None}]]
  BY DEF TypeOK, ScanEnds

\* A record file written by a completion is a record.
LEMMA WithRecordType ==
  ASSUME TypeOK, NEW b \in Branches, NEW r \in Range
  PROVE  /\ WithRecord(b, r) \in [Dirs \X Revisions -> Record \cup {None}]
         /\ RecordPath(b, r.head) \in Dirs \X Revisions
         /\ WithRecord(b, r)[RecordPath(b, r.head)] # None
         /\ \A p \in Dirs \X Revisions :
              \/ WithRecord(b, r)[p] = records[p]
              \/ /\ p = RecordPath(b, r.head)
                 /\ records[p] = None
                 /\ WithRecord(b, r)[p] = [branch |-> b, base |-> r.base, head |-> r.head,
                                           attempts |-> r.attempts]
<1> DEFINE p == RecordPath(b, r.head)
           new == [branch |-> b, base |-> r.base, head |-> r.head, attempts |-> r.attempts]
<1>1. p \in Dirs \X Revisions
  BY DEF RecordPath, Range
<1>2. new \in Record /\ new # None
  BY DEF Range, Record
<1>3. CASE records[p] = None
  <2>1. WithRecord(b, r) = [records EXCEPT ![p] = new]
    BY <1>3 DEF WithRecord
  <2> QED BY <1>1, <1>2, <1>3, <2>1 DEF TypeOK
<1>4. CASE records[p] # None
  <2>1. WithRecord(b, r) = records
    BY <1>4 DEF WithRecord
  <2> QED BY <1>1, <1>4, <2>1 DEF TypeOK
<1> QED BY <1>3, <1>4

\* Every step keeps the types.
LEMMA TypeStep == TypeOK /\ [Next]_vars => TypeOK'
<1> SUFFICES ASSUME TypeOK, [Next]_vars PROVE TypeOK'
  OBVIOUS
<1>1. ASSUME NEW b \in Branches, MoveTip(b) PROVE TypeOK'
  BY <1>1 DEF MoveTip, TypeOK, stateVars, scanVars
<1>2. ASSUME NEW b \in Branches, SeedCursor(b) PROVE TypeOK'
  BY <1>2 DEF SeedCursor, TypeOK, scanVars
<1>3. ASSUME NEW o \in Observers, ReadState(o) PROVE TypeOK'
  BY <1>3 DEF ReadState, TypeOK, stateVars
<1>4. ASSUME NEW o \in Observers, EndScan(o) PROVE TypeOK'
  BY <1>4, ScanEndsType DEF EndScan, TypeOK, stateVars
<1>5. ASSUME NEW o \in Observers, CompleteState(o) PROVE TypeOK'
  <2>1. completing.branch \in Branches /\ completing.range.head \in Revisions
    BY <1>5 DEF CompleteState, HoldsLock, TypeOK, Range
  <2> QED BY <1>5, <2>1 DEF CompleteState, TypeOK, scanVars
<1>6. ASSUME NEW o \in Observers, BeginObserve(o) PROVE TypeOK'
  BY <1>6 DEF BeginObserve, TypeOK, stateVars
<1>7. ASSUME NEW o \in Observers, NEW b \in Branches, RetryAttempt(o, b) PROVE TypeOK'
  <2>1. in_flight' \in [Branches -> Range \cup {None}]
    <3>1. CASE InFlightHead(b, view[o][b].head)
      <4>1. in_flight[b] \in Range
        BY <3>1 DEF InFlightHead, TypeOK
      <4>2. [in_flight[b] EXCEPT !.attempts = in_flight[b].attempts + 1] \in Range
        BY <4>1 DEF Range
      <4> QED BY <1>7, <3>1, <4>1, <4>2 DEF RetryAttempt, TypeOK
    <3>2. CASE ~InFlightHead(b, view[o][b].head)
      BY <1>7, <3>2 DEF RetryAttempt, TypeOK
    <3> QED BY <3>1, <3>2
  <2> QED BY <1>7, <2>1, ScanEndsType DEF RetryAttempt, TypeOK
<1>8. ASSUME NEW o \in Observers, NEW b \in Branches, FailRange(o, b) PROVE TypeOK'
  BY <1>8, ScanEndsType DEF FailRange, InFlightHead, TypeOK
<1>9. ASSUME NEW o \in Observers, NEW b \in Branches, CompleteRecord(o, b) PROVE TypeOK'
  <2>1. view[o][b] \in Range
    BY <1>9 DEF CompleteRecord, TypeOK
  <2>2. records' \in [Dirs \X Revisions -> Record \cup {None}]
    BY <1>9, <2>1, WithRecordType DEF CompleteRecord
  <2> QED BY <1>9, <2>1, <2>2 DEF CompleteRecord, TypeOK, stateVars
<1>10. ASSUME NEW o \in Observers, NEW b \in Branches, CompleteRefused(o, b) PROVE TypeOK'
  <2>1. CASE AlreadyComplete(b, view[o][b])
    <3>1. /\ view' = [view EXCEPT ![o][b] = None]
          /\ UNCHANGED <<tip, seed, cursor, in_flight, last_failure, refused, records,
                         completing, phase, todo, seen>>
      BY <1>10, <2>1 DEF CompleteRefused, stateVars
    <3>2. view' \in [Observers -> [Branches -> Range \cup {None}]]
      BY <3>1 DEF TypeOK
    <3> QED BY <3>1, <3>2 DEF TypeOK
  <2>2. CASE ~AlreadyComplete(b, view[o][b])
    BY <1>10, <2>2, ScanEndsType DEF CompleteRefused, TypeOK, stateVars
  <2> QED BY <2>1, <2>2
<1>11. ASSUME NEW o \in Observers, NEW b \in Branches, RecordObservationFailure(o, b)
       PROVE  TypeOK'
  BY <1>11 DEF RecordObservationFailure, TypeOK
<1>12. ASSUME NEW o \in Observers, NEW b \in Branches, ClearObservationFailure(o, b)
       PROVE  TypeOK'
  BY <1>12 DEF ClearObservationFailure, TypeOK
<1>13. ASSUME NEW o \in Observers, NEW b \in Branches, Admit(o, b) PROVE TypeOK'
  <2>1. in_flight' \in [Branches -> Range \cup {None}]
    <3>1. CASE Admissible(b, seen[o][b])
      <4>1. [base |-> cursor[b], head |-> seen[o][b], attempts |-> 1] \in Range
        BY <1>13, <3>1 DEF Admissible, Admit, TypeOK, Range
      <4> QED BY <1>13, <3>1, <4>1 DEF Admit, TypeOK
    <3>2. CASE ~Admissible(b, seen[o][b])
      BY <1>13, <3>2 DEF Admit, TypeOK
    <3> QED BY <3>1, <3>2
  <2> QED BY <1>13, <2>1 DEF Admit, TypeOK
<1>14. CASE UNCHANGED vars
  BY <1>14 DEF vars, stateVars, scanVars, TypeOK
<1> QED
  BY <1>1, <1>2, <1>3, <1>4, <1>5, <1>6, <1>7, <1>8, <1>9, <1>10, <1>11, <1>12, <1>13, <1>14
     DEF Next

\* The types hold in every behaviour of the store.
THEOREM StoreTypeOK == Spec => []TypeOK
<1>1. Init => TypeOK
  BY DEF Init, TypeOK
<1> QED BY <1>1, TypeStep, PTL DEF Spec

-----------------------------------------------------------------------------
\* The part of the invariant an observer's own steps cannot disturb: a step
\* that leaves the files as they are, and completes nothing new, keeps it.
LEMMA QuietStep ==
  ASSUME StoreInv, TypeOK',
         UNCHANGED <<seed, cursor, in_flight, records>>,
         completing' \in {completing, None}
  PROVE  StoreInv'
<1>1. \A b \in Branches : seed'[b] = None <=> cursor'[b] = None
  BY DEF StoreInv
<1>2. RangeExtendsCursor'
  BY DEF StoreInv, RangeExtendsCursor
<1>3. CursorHasRecord'
  BY DEF StoreInv, CursorHasRecord, RecordPath
<1>4. RecordsFiled'
  BY DEF StoreInv, RecordsFiled, RecordPath
<1>5. CompletingInFlight'
  BY DEF StoreInv, CompletingInFlight, MatchesInFlight, RecordPath
<1> QED BY <1>1, <1>2, <1>3, <1>4, <1>5 DEF StoreInv

\* Enrollment: a branch without a cursor has no range and no completion.
LEMMA SeedStep ==
  ASSUME StoreInv, TypeOK', NEW b \in Branches, SeedCursor(b)
  PROVE  StoreInv'
<1>1. /\ cursor' = [cursor EXCEPT ![b] = tip[b]]
      /\ seed' = [seed EXCEPT ![b] = tip[b]]
      /\ UNCHANGED <<in_flight, records, completing>>
      /\ completing = None
      /\ in_flight[b] = None
      /\ tip[b] # None
      /\ cursor \in [Branches -> Revisions \cup {None}]
      /\ seed \in [Branches -> Revisions \cup {None}]
  BY DEF SeedCursor, Seedable, LockFree, StoreInv, TypeOK
<1>2. \A e \in Branches : seed'[e] = None <=> cursor'[e] = None
  BY <1>1 DEF StoreInv
<1>3. RangeExtendsCursor'
  BY <1>1 DEF StoreInv, RangeExtendsCursor
<1>4. CursorHasRecord'
  BY <1>1 DEF StoreInv, CursorHasRecord, RecordPath
<1>5. RecordsFiled'
  BY <1>1 DEF StoreInv, RecordsFiled, RecordPath
<1>6. CompletingInFlight'
  BY <1>1 DEF CompletingInFlight
<1> QED BY <1>2, <1>3, <1>4, <1>5, <1>6 DEF StoreInv

\* A step of the slot alone, under the lock: the range it leaves in flight
\* must start at the cursor and not be empty.
LEMMA SlotStep ==
  ASSUME StoreInv, TypeOK', NEW b \in Branches, LockFree,
         UNCHANGED <<seed, cursor, records, completing>>,
         \A e \in Branches \ {b} : in_flight'[e] = in_flight[e],
         in_flight'[b] # None =>
           in_flight'[b].base = cursor[b] /\ in_flight'[b].head # cursor[b]
  PROVE  StoreInv'
<1>1. \A e \in Branches : seed'[e] = None <=> cursor'[e] = None
  BY DEF StoreInv
<1>2. RangeExtendsCursor'
  BY DEF StoreInv, RangeExtendsCursor
<1>3. CursorHasRecord'
  BY DEF StoreInv, CursorHasRecord, RecordPath
<1>4. RecordsFiled'
  BY DEF StoreInv, RecordsFiled, RecordPath
<1>5. CompletingInFlight'
  BY DEF CompletingInFlight, LockFree
<1> QED BY <1>1, <1>2, <1>3, <1>4, <1>5 DEF StoreInv

\* The first write of a completion.
LEMMA CompleteRecordStep ==
  ASSUME StoreInv, TypeOK', NEW o \in Observers, NEW b \in Branches, CompleteRecord(o, b)
  PROVE  StoreInv'
<1> DEFINE r == view[o][b]
<1>1. /\ r \in Range
      /\ MatchesInFlight(b, r)
      /\ records' = WithRecord(b, r)
      /\ completing' = [by |-> o, branch |-> b, range |-> r]
      /\ UNCHANGED <<seed, cursor, in_flight>>
  BY DEF CompleteRecord, StoreInv, TypeOK, stateVars
<1>2. /\ records'[RecordPath(b, r.head)] # None
      /\ \A p \in Dirs \X Revisions :
           \/ records'[p] = records[p]
           \/ /\ p = RecordPath(b, r.head)
              /\ records[p] = None
              /\ records'[p] = [branch |-> b, base |-> r.base, head |-> r.head,
                                attempts |-> r.attempts]
  BY <1>1, WithRecordType DEF StoreInv
<1>3. \A e \in Branches : seed'[e] = None <=> cursor'[e] = None
  BY <1>1 DEF StoreInv
<1>4. RangeExtendsCursor'
  BY <1>1 DEF StoreInv, RangeExtendsCursor
<1>5. CursorHasRecord'
  <2> SUFFICES ASSUME NEW e \in Branches, cursor[e] # seed[e]
               PROVE  records'[RecordPath(e, cursor[e])] # None
    BY <1>1 DEF CursorHasRecord, RecordPath
  <2>1. records[RecordPath(e, cursor[e])] # None
    BY DEF StoreInv, CursorHasRecord
  <2>2. RecordPath(e, cursor[e]) \in Dirs \X Revisions
    BY DEF StoreInv, TypeOK, RecordPath
  <2> QED BY <1>2, <2>1, <2>2
<1>6. RecordsFiled'
  <2> SUFFICES ASSUME NEW p \in Dirs \X Revisions, records'[p] # None
               PROVE  p = RecordPath(records'[p].branch, records'[p].head)
    BY DEF RecordsFiled, RecordPath
  <2>1. CASE records'[p] = records[p]
    BY <2>1 DEF StoreInv, RecordsFiled
  <2>2. CASE records'[p] # records[p]
    BY <1>2, <2>2
  <2> QED BY <2>1, <2>2
<1>7. CompletingInFlight'
  BY <1>1, <1>2 DEF CompletingInFlight, MatchesInFlight, RecordPath
<1> QED BY <1>3, <1>4, <1>5, <1>6, <1>7 DEF StoreInv

\* The second write of a completion.
LEMMA CompleteStateStep ==
  ASSUME StoreInv, TypeOK', NEW o \in Observers, CompleteState(o)
  PROVE  StoreInv'
<1> DEFINE b == completing.branch
           h == completing.range.head
<1>1. /\ b \in Branches /\ h \in Revisions
      /\ in_flight[b] # None /\ in_flight[b].head = h /\ cursor[b] # None
      /\ records[RecordPath(b, h)] # None
      /\ cursor' = [cursor EXCEPT ![b] = h]
      /\ in_flight' = [in_flight EXCEPT ![b] = None]
      /\ completing' = None
      /\ UNCHANGED <<seed, records>>
  BY DEF CompleteState, HoldsLock, StoreInv, TypeOK, CompletingInFlight, MatchesInFlight,
         RangeExtendsCursor, Range
<1>2. \A e \in Branches : seed'[e] = None <=> cursor'[e] = None
  BY <1>1 DEF StoreInv, TypeOK
<1>3. RangeExtendsCursor'
  BY <1>1 DEF StoreInv, RangeExtendsCursor, TypeOK
<1>4. CursorHasRecord'
  BY <1>1 DEF StoreInv, CursorHasRecord, RecordPath, TypeOK
<1>5. RecordsFiled'
  BY <1>1 DEF StoreInv, RecordsFiled, RecordPath
<1>6. CompletingInFlight'
  BY <1>1 DEF CompletingInFlight
<1> QED BY <1>2, <1>3, <1>4, <1>5, <1>6 DEF StoreInv

\* Every step keeps the invariant.
LEMMA StoreStep == StoreInv /\ [Next]_vars => StoreInv'
<1> SUFFICES ASSUME StoreInv, [Next]_vars PROVE StoreInv'
  OBVIOUS
<1> TypeOK'
  BY TypeStep DEF StoreInv
<1>1. ASSUME NEW b \in Branches, MoveTip(b) PROVE StoreInv'
  BY <1>1, QuietStep DEF MoveTip, stateVars
<1>2. ASSUME NEW b \in Branches, SeedCursor(b) PROVE StoreInv'
  BY <1>2, SeedStep
<1>3. ASSUME NEW o \in Observers, ReadState(o) PROVE StoreInv'
  BY <1>3, QuietStep DEF ReadState, stateVars
<1>4. ASSUME NEW o \in Observers, EndScan(o) PROVE StoreInv'
  BY <1>4, QuietStep DEF EndScan, stateVars
<1>5. ASSUME NEW o \in Observers, CompleteState(o) PROVE StoreInv'
  BY <1>5, CompleteStateStep
<1>6. ASSUME NEW o \in Observers, BeginObserve(o) PROVE StoreInv'
  BY <1>6, QuietStep DEF BeginObserve, stateVars
<1>7. ASSUME NEW o \in Observers, NEW b \in Branches, RetryAttempt(o, b) PROVE StoreInv'
  <2>1. CASE InFlightHead(b, view[o][b].head)
    <3>1. in_flight[b] \in Range /\ in_flight[b].base = cursor[b] /\ in_flight[b].head # cursor[b]
      BY <2>1 DEF InFlightHead, StoreInv, TypeOK, RangeExtendsCursor
    <3>2. in_flight' = [in_flight EXCEPT ![b].attempts = @ + 1]
      BY <1>7, <2>1 DEF RetryAttempt
    <3>3. /\ \A e \in Branches \ {b} : in_flight'[e] = in_flight[e]
          /\ in_flight'[b].base = cursor[b] /\ in_flight'[b].head # cursor[b]
      BY <3>1, <3>2 DEF StoreInv, TypeOK, Range
    <3> QED BY <1>7, <3>3, SlotStep DEF RetryAttempt
  <2>2. CASE ~InFlightHead(b, view[o][b].head)
    BY <1>7, <2>2, QuietStep DEF RetryAttempt
  <2> QED BY <2>1, <2>2
<1>8. ASSUME NEW o \in Observers, NEW b \in Branches, FailRange(o, b) PROVE StoreInv'
  <2>1. CASE InFlightHead(b, view[o][b].head)
    BY <1>8, <2>1, SlotStep DEF FailRange, StoreInv, TypeOK
  <2>2. CASE ~InFlightHead(b, view[o][b].head)
    BY <1>8, <2>2, QuietStep DEF FailRange
  <2> QED BY <2>1, <2>2
<1>9. ASSUME NEW o \in Observers, NEW b \in Branches, CompleteRecord(o, b) PROVE StoreInv'
  BY <1>9, CompleteRecordStep
<1>10. ASSUME NEW o \in Observers, NEW b \in Branches, CompleteRefused(o, b) PROVE StoreInv'
  BY <1>10, QuietStep DEF CompleteRefused, stateVars
<1>11. ASSUME NEW o \in Observers, NEW b \in Branches, RecordObservationFailure(o, b)
       PROVE  StoreInv'
  BY <1>11, QuietStep DEF RecordObservationFailure
<1>12. ASSUME NEW o \in Observers, NEW b \in Branches, ClearObservationFailure(o, b)
       PROVE  StoreInv'
  BY <1>12, QuietStep DEF ClearObservationFailure
<1>13. ASSUME NEW o \in Observers, NEW b \in Branches, Admit(o, b) PROVE StoreInv'
  <2>1. CASE Admissible(b, seen[o][b])
    <3>1. /\ \A e \in Branches \ {b} : in_flight'[e] = in_flight[e]
          /\ in_flight'[b].base = cursor[b] /\ in_flight'[b].head # cursor[b]
      BY <1>13, <2>1 DEF Admit, Admissible, StoreInv, TypeOK
    <3> QED BY <1>13, <3>1, SlotStep DEF Admit
  <2>2. CASE ~Admissible(b, seen[o][b])
    BY <1>13, <2>2, QuietStep DEF Admit
  <2> QED BY <2>1, <2>2
<1>14. CASE UNCHANGED vars
  BY <1>14, QuietStep DEF vars, stateVars
<1> QED
  BY <1>1, <1>2, <1>3, <1>4, <1>5, <1>6, <1>7, <1>8, <1>9, <1>10, <1>11, <1>12, <1>13, <1>14
     DEF Next

\* The empty store satisfies the invariant.
LEMMA StoreInit == Init => StoreInv
BY DEF Init, StoreInv, TypeOK, RangeExtendsCursor, CursorHasRecord, RecordsFiled,
       CompletingInFlight

\* In every behaviour, for every number of observers: a range in flight starts
\* at the cursor, and the cursor is the baseline or has a record file.
THEOREM StoreInvariant == Spec => []StoreInv
<1> QED BY StoreInit, StoreStep, PTL DEF Spec

-----------------------------------------------------------------------------
\* A new record file adds its range to its branch's archive and to no other.
LEMMA ArchivedGrows ==
  ASSUME TypeOK, NEW p \in Dirs \X Revisions, NEW rec \in Record,
         records[p] = None, records' = [records EXCEPT ![p] = rec]
  PROVE  \A e \in Branches :
           Archived(e)' = IF e = rec.branch THEN Archived(e) \cup {<<rec.base, rec.head>>}
                                            ELSE Archived(e)
<1> SUFFICES ASSUME NEW e \in Branches
             PROVE  Archived(e)' = IF e = rec.branch
                                     THEN Archived(e) \cup {<<rec.base, rec.head>>}
                                     ELSE Archived(e)
  OBVIOUS
<1>1. /\ rec # None
      /\ records'[p] = rec
      /\ \A q \in Dirs \X Revisions : q # p => records'[q] = records[q]
  BY DEF TypeOK
<1>2. RecordedAt(e)' = IF e = rec.branch THEN RecordedAt(e) \cup {p} ELSE RecordedAt(e)
  BY <1>1 DEF RecordedAt
<1>3. p \notin RecordedAt(e)
  BY DEF RecordedAt
<1>4. \A q \in RecordedAt(e) : records'[q] = records[q]
  BY <1>1, <1>3 DEF RecordedAt
<1> QED BY <1>1, <1>2, <1>4 DEF Archived

\* A step that leaves the files and the cursors alone is a ledger stutter.
LEMMA LedgerStutter ==
  ASSUME UNCHANGED <<seed, cursor, records>>
  PROVE  UNCHANGED Ledger!vars
  BY DEF Ledger!vars, Archived, RecordedAt

\* Every step of the store is a step of the ledger or a stutter.
LEMMA LedgerSimulation ==
  ASSUME SeparateDirs, StoreInv, [Next]_vars
  PROVE  [Ledger!Next]_(Ledger!vars)
<1>1. ASSUME NEW b \in Branches, SeedCursor(b) PROVE Ledger!Next
  <2>1. tip[b] \in Ledger!Revisions
    BY DEF StoreInv, TypeOK, Revisions, Ledger!Revisions
  <2>2. Ledger!Enroll(b, tip[b])
    BY <1>1 DEF SeedCursor, Seedable, Ledger!Enroll, Archived, RecordedAt
  <2> QED BY <2>1, <2>2 DEF Ledger!Next
<1>2. ASSUME NEW o \in Observers, NEW b \in Branches, CompleteRecord(o, b)
      PROVE  [Ledger!Next]_(Ledger!vars)
  <2> DEFINE r == view[o][b]
             p == RecordPath(b, r.head)
             rec == [branch |-> b, base |-> r.base, head |-> r.head, attempts |-> r.attempts]
  <2>1. /\ r \in Range
        /\ r.base = cursor[b]
        /\ UNCHANGED <<seed, cursor>>
        /\ records' = WithRecord(b, r)
    BY <1>2 DEF CompleteRecord, MatchesInFlight, StoreInv, TypeOK, RangeExtendsCursor, stateVars
  <2>2. p \in Dirs \X Revisions /\ rec \in Record /\ r.head \in Ledger!Revisions
        /\ cursor[b] # None
    BY <2>1 DEF RecordPath, Range, Record, Revisions, Ledger!Revisions
  <2>3. CASE records[p] = None
    <3>1. records' = [records EXCEPT ![p] = rec]
      BY <2>1, <2>3 DEF WithRecord
    <3>2. \A e \in Branches :
            Archived(e)' = IF e = b THEN Archived(e) \cup {<<cursor[b], r.head>>}
                                    ELSE Archived(e)
      BY <2>1, <2>2, <2>3, <3>1, ArchivedGrows DEF StoreInv
    <3>3. Ledger!Archive(b, r.head)
      BY <2>1, <2>2, <3>2 DEF Ledger!Archive
    <3> QED BY <2>2, <3>3 DEF Ledger!Next
  <2>4. CASE records[p] # None
    <3>1. records' = records
      BY <2>1, <2>4 DEF WithRecord
    <3> QED BY <2>1, <3>1, LedgerStutter
  <2> QED BY <2>3, <2>4
<1>3. ASSUME NEW o \in Observers, CompleteState(o) PROVE Ledger!Next
  <2> DEFINE b == completing.branch
             h == completing.range.head
             p == RecordPath(b, h)
  <2>1. /\ b \in Branches /\ h \in Revisions
        /\ records[p] # None
        /\ cursor' = [cursor EXCEPT ![b] = h]
        /\ UNCHANGED <<seed, records>>
    BY <1>3 DEF CompleteState, HoldsLock, StoreInv, TypeOK, CompletingInFlight, Range
  <2>2. p \in Dirs \X Revisions
    BY <2>1 DEF RecordPath
  <2>3. records[p].branch \in Branches /\ p = <<Dir[records[p].branch], records[p].head>>
    BY <2>1, <2>2 DEF StoreInv, TypeOK, RecordsFiled, Record, RecordPath
  <2>4. records[p].branch = b /\ records[p].head = h
    BY <2>1, <2>3 DEF SeparateDirs, RecordPath
  <2>5. <<records[p].base, h>> \in Archived(b)
    BY <2>1, <2>2, <2>4 DEF Archived, RecordedAt
  <2>6. [e \in Branches |-> Archived(e)]' = [e \in Branches |-> Archived(e)]
    BY <2>1 DEF Archived, RecordedAt
  <2>7. Ledger!Advance(b, h)
    BY <2>1, <2>5, <2>6 DEF Ledger!Advance
  <2> QED BY <2>1, <2>7 DEF Ledger!Next, Ledger!Revisions, Revisions
<1>4. ASSUME NEW b \in Branches, MoveTip(b) PROVE UNCHANGED <<seed, cursor, records>>
  BY <1>4 DEF MoveTip, stateVars
<1>5. ASSUME NEW o \in Observers, ReadState(o) \/ EndScan(o) \/ BeginObserve(o)
      PROVE  UNCHANGED <<seed, cursor, records>>
  BY <1>5 DEF ReadState, EndScan, BeginObserve, stateVars
<1>6. ASSUME NEW o \in Observers, NEW b \in Branches,
             RetryAttempt(o, b) \/ FailRange(o, b) \/ CompleteRefused(o, b)
      PROVE  UNCHANGED <<seed, cursor, records>>
  BY <1>6 DEF RetryAttempt, FailRange, CompleteRefused, stateVars
<1>7. ASSUME NEW o \in Observers, NEW b \in Branches,
             RecordObservationFailure(o, b) \/ ClearObservationFailure(o, b) \/ Admit(o, b)
      PROVE  UNCHANGED <<seed, cursor, records>>
  BY <1>7 DEF RecordObservationFailure, ClearObservationFailure, Admit
<1>8. CASE UNCHANGED vars
  BY <1>8, LedgerStutter DEF vars, stateVars
<1> QED
  BY <1>1, <1>2, <1>3, <1>4, <1>5, <1>6, <1>7, <1>8, LedgerStutter DEF Next

\* The store implements the ledger when no two branches share a directory.
THEOREM StoreImplementsLedger ==
  ASSUME SeparateDirs PROVE Spec => ImplementsLedger
<1>1. Init => Ledger!Init
  BY DEF Init, Ledger!Init, Archived, RecordedAt
<1>2. StoreInv /\ [Next]_vars => [Ledger!Next]_(Ledger!vars)
  BY LedgerSimulation
<1> QED BY <1>1, <1>2, StoreInvariant, PTL DEF Spec, ImplementsLedger, Ledger!Spec

LedgerProofs == INSTANCE ReviewLedgerProofs
  WITH baseline <- seed, reviewed <- cursor, archive <- [b \in Branches |-> Archived(b)]

\* What the ledger's invariant says of the record files.
LEMMA LedgerCovers ==
  ASSUME SeparateDirs, StoreInv, LedgerProofs!LedgerInv
  PROVE  NoCommitSwallowed
<1> SUFFICES ASSUME NEW b \in Branches, cursor[b] # None,
                    NEW c \in Revisions, seed[b] < c, c <= cursor[b]
             PROVE  Covered(b, c)
  BY DEF NoCommitSwallowed
<1>1. cursor[b] \in Revisions /\ seed[b] \in Revisions /\ cursor[b] # seed[b]
  BY DEF StoreInv, TypeOK, Revisions
<1>2. PICK a \in Archived(b) : a[2] = cursor[b]
  BY <1>1 DEF LedgerProofs!LedgerInv, LedgerProofs!ReviewedIsArchived
<1>3. PICK d \in Archived(b) : d[1] < c /\ c <= d[2]
  BY <1>2 DEF LedgerProofs!LedgerInv, LedgerProofs!NoHole, LedgerProofs!Covers,
              LedgerProofs!Revisions, Revisions
<1> QED BY <1>3 DEF Covered

\* No commit is swallowed as reviewed: whatever resets of the branch, failed
\* ranges, crashes and concurrent observers come before, every revision
\* between the baseline and the cursor lies in a range a record reviewed.
THEOREM StoreSwallowsNoCommit == Spec => []NoCommitSwallowed
<1>1. CASE ~SeparateDirs
  <2>1. NoCommitSwallowed
    BY <1>1 DEF NoCommitSwallowed
  <2> QED BY <2>1, PTL
<1>2. CASE SeparateDirs
  <2>1. Ledger!Spec => LedgerProofs!Spec
    BY DEF Ledger!Spec, LedgerProofs!Spec, Ledger!Init, LedgerProofs!Init,
           Ledger!Next, LedgerProofs!Next, Ledger!vars, LedgerProofs!vars,
           Ledger!Enroll, LedgerProofs!Enroll, Ledger!Archive, LedgerProofs!Archive,
           Ledger!Advance, LedgerProofs!Advance, Ledger!Revisions, LedgerProofs!Revisions
  <2>2. LedgerProofs!Spec => []LedgerProofs!LedgerInv
    BY LedgerProofs!LedgerHasNoHole DEF LedgerProofs!Revisions, Revisions
  <2>3. StoreInv /\ LedgerProofs!LedgerInv => NoCommitSwallowed
    BY <1>2, LedgerCovers
  <2>4. Spec => Ledger!Spec
    BY <1>2, StoreImplementsLedger DEF ImplementsLedger
  <2> QED BY <2>1, <2>2, <2>3, <2>4, StoreInvariant, PTL
<1> QED BY <1>1, <1>2

-----------------------------------------------------------------------------
\* A taken slot is kept as it is, re-armed, failed or completed; nothing else.
LEMMA SlotChange ==
  ASSUME StoreInv, [Next]_vars, NEW b \in Branches, in_flight[b] # None
  PROVE  \/ in_flight'[b] = in_flight[b] /\ cursor'[b] = cursor[b]
         \/ /\ in_flight'[b] = [in_flight[b] EXCEPT !.attempts = @ + 1]
            /\ cursor'[b] = cursor[b]
         \/ in_flight'[b] = None /\ cursor'[b] \in {cursor[b], in_flight[b].head}
<1>1. ASSUME NEW e \in Branches, SeedCursor(e)
      PROVE  in_flight'[b] = in_flight[b] /\ cursor'[b] = cursor[b]
  BY <1>1 DEF SeedCursor, Seedable, StoreInv, TypeOK
<1>2. ASSUME NEW o \in Observers, NEW e \in Branches, RetryAttempt(o, e)
      PROVE  /\ cursor'[b] = cursor[b]
             /\ in_flight'[b] \in {in_flight[b], [in_flight[b] EXCEPT !.attempts = @ + 1]}
  BY <1>2 DEF RetryAttempt, StoreInv, TypeOK
<1>3. ASSUME NEW o \in Observers, NEW e \in Branches, FailRange(o, e)
      PROVE  cursor'[b] = cursor[b] /\ in_flight'[b] \in {in_flight[b], None}
  BY <1>3 DEF FailRange, StoreInv, TypeOK
<1>4. ASSUME NEW o \in Observers, CompleteState(o)
      PROVE  \/ in_flight'[b] = in_flight[b] /\ cursor'[b] = cursor[b]
             \/ in_flight'[b] = None /\ cursor'[b] = in_flight[b].head
  BY <1>4 DEF CompleteState, HoldsLock, StoreInv, CompletingInFlight, MatchesInFlight, TypeOK
<1>5. ASSUME NEW o \in Observers, NEW e \in Branches, Admit(o, e)
      PROVE  in_flight'[b] = in_flight[b] /\ cursor'[b] = cursor[b]
  BY <1>5 DEF Admit, Admissible, StoreInv, TypeOK
<1>6. ASSUME \/ \E e \in Branches : MoveTip(e)
             \/ \E o \in Observers : ReadState(o) \/ EndScan(o) \/ BeginObserve(o)
             \/ \E o \in Observers, e \in Branches :
                  \/ CompleteRecord(o, e) \/ CompleteRefused(o, e)
                  \/ RecordObservationFailure(o, e) \/ ClearObservationFailure(o, e)
             \/ UNCHANGED vars
      PROVE  in_flight'[b] = in_flight[b] /\ cursor'[b] = cursor[b]
  BY <1>6 DEF MoveTip, ReadState, EndScan, BeginObserve, CompleteRecord, CompleteRefused,
              RecordObservationFailure, ClearObservationFailure, vars, stateVars
<1> QED BY <1>1, <1>2, <1>3, <1>4, <1>5, <1>6 DEF Next

\* An admitted range never changes under its reviewers, and the cursor leaves
\* its base only for its head.
THEOREM StoreRangeImmutable == Spec => RangeImmutable
<1>1. StoreInv /\ [Next]_vars =>
        [\A b \in Branches :
           in_flight[b] # None =>
             \/ /\ in_flight'[b] # None
                /\ MatchesInFlight(b, in_flight'[b])
                /\ in_flight'[b].attempts >= in_flight[b].attempts
                /\ cursor'[b] = cursor[b]
             \/ /\ in_flight'[b] = None
                /\ cursor'[b] \in {cursor[b], in_flight[b].head}]_vars
  <2> SUFFICES ASSUME StoreInv, [Next]_vars, NEW b \in Branches, in_flight[b] # None
               PROVE  \/ /\ in_flight'[b] # None
                         /\ MatchesInFlight(b, in_flight'[b])
                         /\ in_flight'[b].attempts >= in_flight[b].attempts
                         /\ cursor'[b] = cursor[b]
                      \/ /\ in_flight'[b] = None
                         /\ cursor'[b] \in {cursor[b], in_flight[b].head}
    OBVIOUS
  <2> DEFINE r == in_flight[b]
             s == [r EXCEPT !.attempts = r.attempts + 1]
  <2>1. r \in Range
    BY DEF StoreInv, TypeOK
  <2>2. /\ s \in Range /\ s.base = r.base /\ s.head = r.head
        /\ s.attempts >= r.attempts /\ r.attempts >= r.attempts
    BY <2>1 DEF Range
  <2>3. s # None /\ r # None
    BY <2>1, <2>2
  <2>4. in_flight'[b] = r => MatchesInFlight(b, in_flight'[b])
    BY DEF MatchesInFlight
  <2>5. in_flight'[b] = s => MatchesInFlight(b, in_flight'[b])
    BY <2>2 DEF MatchesInFlight
  <2> QED BY <2>2, <2>3, <2>4, <2>5, SlotChange
<1> QED BY <1>1, StoreInvariant, PTL DEF Spec, RangeImmutable

\* No step replaces a record file that is there.
THEOREM StoreRecordsWriteOnce == Spec => RecordsWriteOnce
<1>1. StoreInv /\ [Next]_vars =>
        [\A p \in Dirs \X Revisions : records[p] # None => records'[p] = records[p]]_vars
  <2> SUFFICES ASSUME StoreInv, [Next]_vars,
                      NEW p \in Dirs \X Revisions, records[p] # None
               PROVE  records'[p] = records[p]
    OBVIOUS
  <2>1. ASSUME NEW o \in Observers, NEW b \in Branches, CompleteRecord(o, b)
        PROVE  records'[p] = records[p]
    <3>1. view[o][b] \in Range /\ records' = WithRecord(b, view[o][b])
      BY <2>1 DEF CompleteRecord, StoreInv, TypeOK
    <3>2. CASE p = RecordPath(b, view[o][b].head)
      BY <3>1, <3>2 DEF WithRecord
    <3>3. CASE p # RecordPath(b, view[o][b].head)
      BY <3>1, <3>3 DEF WithRecord, StoreInv, TypeOK
    <3> QED BY <3>2, <3>3
  <2>2. ASSUME ~ \E o \in Observers, b \in Branches : CompleteRecord(o, b)
        PROVE  records' = records
    BY <2>2 DEF Next, MoveTip, SeedCursor, ReadState, EndScan, CompleteState, BeginObserve,
                RetryAttempt, FailRange, CompleteRefused, RecordObservationFailure,
                ClearObservationFailure, Admit, vars
  <2> QED BY <2>1, <2>2
<1> QED BY <1>1, StoreInvariant, PTL DEF Spec, RecordsWriteOnce

(***************************************************************************)
(* The attempt ceiling, with one observer.                                 *)
(***************************************************************************)
CeilingInv == StoreInv /\ ViewCurrent /\ FailsAtCeiling

\* The end of a scan empties the observer's snapshot.
LEMMA ScanEndsView ==
  ASSUME TypeOK, NEW o \in Observers, ScanEnds(o)
  PROVE  \A b \in Branches : view'[o][b] = None
BY DEF ScanEnds, TypeOK

\* One observer's steps keep every range within the ceiling.
LEMMA CeilingStep ==
  ASSUME NEW o, Observers = {o}, CeilingInv, [Next]_vars
  PROVE  CeilingInv'
<1>0. StoreInv /\ StoreInv' /\ TypeOK /\ TypeOK' /\ ViewCurrent /\ FailsAtCeiling
  BY StoreStep DEF CeilingInv, StoreInv
<1>q. o \in Observers /\ \A q \in Observers : q = o
  OBVIOUS
<1> SUFFICES ViewCurrent' /\ FailsAtCeiling'
  BY <1>0 DEF CeilingInv
<1> USE BoundsAssumption, NoneAssumption
<1>1. CASE UNCHANGED vars
  BY <1>0, <1>1 DEF vars, stateVars, scanVars, ViewCurrent, FailsAtCeiling, HoldsLock
<1>2. ASSUME NEW b \in Branches, MoveTip(b) \/ SeedCursor(b)
      PROVE  ViewCurrent' /\ FailsAtCeiling'
  BY <1>0, <1>2 DEF MoveTip, SeedCursor, stateVars, scanVars, ViewCurrent,
       FailsAtCeiling, HoldsLock
<1>3. CASE ReadState(o)
  <2>1. ~HoldsLock(o) /\ completing' = completing
    BY <1>0, <1>3, <1>q DEF ReadState, ViewCurrent
  <2>2. phase'[o] = "settle" /\ view'[o] = in_flight /\ in_flight' = in_flight
        /\ last_failure' = last_failure
    BY <1>0, <1>3, <1>q DEF ReadState, stateVars, TypeOK
  <2> QED BY <1>0, <1>q, <2>1, <2>2 DEF ViewCurrent, FailsAtCeiling, HoldsLock
<1>4. CASE EndScan(o)
  <2>1. \A b \in Branches : view'[o][b] = None
    BY <1>0, <1>4, <1>q, ScanEndsView DEF EndScan
  <2>2. ~HoldsLock(o)' /\ in_flight' = in_flight /\ last_failure' = last_failure
    BY <1>4, <1>q DEF EndScan, HoldsLock, stateVars
  <2> QED BY <1>0, <1>q, <2>1, <2>2 DEF ViewCurrent, FailsAtCeiling
<1>5. CASE CompleteState(o)
  <2>1. /\ ~HoldsLock(o)' /\ HoldsLock(o) /\ last_failure' = last_failure
        /\ view' = view /\ phase' = phase
        /\ in_flight' = [in_flight EXCEPT ![completing.branch] = None]
    BY <1>5 DEF CompleteState, HoldsLock, scanVars
  <2>2. \A b \in Branches : in_flight'[b] = None \/ in_flight'[b] = in_flight[b]
    BY <1>0, <2>1 DEF TypeOK
  <2>3. \A b \in Branches : b # completing.branch => in_flight'[b] = in_flight[b]
    BY <1>0, <2>1 DEF TypeOK
  <2> QED BY <1>0, <1>q, <2>1, <2>2, <2>3 DEF ViewCurrent, FailsAtCeiling
<1>6. CASE BeginObserve(o)
  BY <1>0, <1>6, <1>q DEF BeginObserve, stateVars, ViewCurrent, FailsAtCeiling, HoldsLock
<1>7. ASSUME NEW b \in Branches, RetryAttempt(o, b)
      PROVE  ViewCurrent' /\ FailsAtCeiling'
  <2>1. \A a \in Branches : view'[o][a] = None
    BY <1>0, <1>7, <1>q, ScanEndsView DEF RetryAttempt
  <2>2. ~HoldsLock(o)' /\ last_failure' = last_failure
    BY <1>7 DEF RetryAttempt, LockFree, HoldsLock
  <2>3. in_flight[b] \in Range /\ in_flight[b].attempts < MaxAttempts
    BY <1>0, <1>7, <1>q DEF RetryAttempt, ViewCurrent, TypeOK
  <2>4. in_flight' = in_flight \/ in_flight' = [in_flight EXCEPT ![b].attempts = @ + 1]
    BY <1>7 DEF RetryAttempt
  <2>5. ASSUME NEW a \in Branches, in_flight'[a] # None
        PROVE  in_flight'[a].attempts <= MaxAttempts
    <3>1. CASE in_flight' = in_flight
      BY <1>0, <2>5, <3>1 DEF FailsAtCeiling
    <3>2. CASE in_flight' = [in_flight EXCEPT ![b].attempts = @ + 1]
      <4>1. CASE a # b
        BY <1>0, <2>5, <3>2, <4>1 DEF FailsAtCeiling, TypeOK
      <4>2. CASE a = b
        <5>1. in_flight'[b].attempts = in_flight[b].attempts + 1
          BY <1>0, <2>3, <3>2 DEF TypeOK, Range
        <5> QED BY <2>3, <4>2, <5>1 DEF Range
      <4> QED BY <4>1, <4>2
    <3> QED BY <2>4, <3>1, <3>2
  <2> QED BY <1>0, <1>q, <2>1, <2>2, <2>5 DEF ViewCurrent, FailsAtCeiling
<1>8. ASSUME NEW b \in Branches, FailRange(o, b)
      PROVE  ViewCurrent' /\ FailsAtCeiling'
  <2>1. \A a \in Branches : view'[o][a] = None
    BY <1>0, <1>8, <1>q, ScanEndsView DEF FailRange
  <2>2. ~HoldsLock(o)'
    BY <1>8 DEF FailRange, LockFree, HoldsLock
  <2>3. in_flight[b] \in Range /\ in_flight[b].attempts = MaxAttempts
    <3>1. in_flight[b] \in Range /\ in_flight[b] # None /\ in_flight[b].attempts >= MaxAttempts
      BY <1>0, <1>8, <1>q DEF FailRange, ViewCurrent, TypeOK
    <3>2. in_flight[b].attempts <= MaxAttempts
      BY <1>0, <3>1 DEF FailsAtCeiling
    <3> QED BY <3>1, <3>2 DEF Range
  <2>4. \A a \in Branches : in_flight'[a] = None \/ in_flight'[a] = in_flight[a]
    BY <1>0, <1>8 DEF FailRange, TypeOK
  <2>5. \A a \in Branches : last_failure'[a] = last_failure[a]
                              \/ last_failure'[a].attempts = MaxAttempts
    BY <1>0, <1>8, <2>3 DEF FailRange, TypeOK
  <2> QED BY <1>0, <1>q, <2>1, <2>2, <2>4, <2>5 DEF ViewCurrent, FailsAtCeiling
<1>9. ASSUME NEW b \in Branches, CompleteRecord(o, b)
      PROVE  ViewCurrent' /\ FailsAtCeiling'
  <2>1. /\ view'[o][b] = None
        /\ \A a \in Branches : view'[o][a] = None \/ view'[o][a] = view[o][a]
    BY <1>0, <1>9, <1>q DEF CompleteRecord, TypeOK
  <2>2. /\ completing'.branch = b /\ phase[o] = "settle" /\ phase' = phase
        /\ in_flight' = in_flight /\ last_failure' = last_failure
    BY <1>0, <1>9, <1>q DEF CompleteRecord, ViewCurrent, stateVars
  <2> QED BY <1>0, <1>q, <2>1, <2>2 DEF ViewCurrent, FailsAtCeiling
<1>10. ASSUME NEW b \in Branches, CompleteRefused(o, b)
       PROVE  ViewCurrent' /\ FailsAtCeiling'
  <2>1. ~HoldsLock(o)' /\ in_flight' = in_flight /\ last_failure' = last_failure
    BY <1>10 DEF CompleteRefused, LockFree, HoldsLock, stateVars
  <2>2. MatchesInFlight(b, view[o][b])
    BY <1>0, <1>10, <1>q DEF CompleteRefused, ViewCurrent, MatchesInFlight
  <2> QED BY <1>10, <2>2 DEF CompleteRefused
<1>11. ASSUME NEW b \in Branches,
              RecordObservationFailure(o, b) \/ ClearObservationFailure(o, b)
       PROVE  ViewCurrent' /\ FailsAtCeiling'
  BY <1>0, <1>11 DEF RecordObservationFailure, ClearObservationFailure, ViewCurrent,
       FailsAtCeiling, HoldsLock
<1>12. ASSUME NEW b \in Branches, Admit(o, b)
       PROVE  ViewCurrent' /\ FailsAtCeiling'
  <2>1. completing' = None /\ view' = view /\ phase' = phase /\ last_failure' = last_failure
    BY <1>12 DEF Admit, LockFree
  <2>2. \A a \in Branches :
          \/ in_flight'[a] = in_flight[a]
          \/ in_flight[a] = None /\ in_flight'[a] # None /\ in_flight'[a].attempts = 1
    BY <1>0, <1>12 DEF Admit, Admissible, TypeOK, Range
  <2>3. \A a \in Branches : view[o][a] # None => in_flight'[a] = in_flight[a]
    BY <1>0, <1>q, <2>2 DEF ViewCurrent
  <2>4. 1 <= MaxAttempts
    OBVIOUS
  <2> QED BY <1>0, <1>q, <2>1, <2>2, <2>3, <2>4 DEF ViewCurrent, FailsAtCeiling, HoldsLock
<1> QED
  BY <1>q, <1>1, <1>2, <1>3, <1>4, <1>5, <1>6, <1>7, <1>8, <1>9, <1>10, <1>11, <1>12 DEF Next

\* With one observer every range fails at the ceiling and none goes past it:
\* the snapshot supervise_failure counts the attempts in cannot be out of date.
THEOREM StoreFailsAtCeiling ==
  ASSUME \E o : Observers = {o}
  PROVE  Spec => []FailsAtCeiling
<1>1. Init => CeilingInv
  BY StoreInit DEF Init, CeilingInv, ViewCurrent, FailsAtCeiling, HoldsLock
<1>2. CeilingInv /\ [Next]_vars => CeilingInv'
  BY CeilingStep
<1>3. CeilingInv => FailsAtCeiling
  BY DEF CeilingInv
<1> QED BY <1>1, <1>2, <1>3, PTL DEF Spec
=============================================================================
