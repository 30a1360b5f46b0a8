----------------------------- MODULE ReviewStore -----------------------------
(***************************************************************************)
(* The durable Repository state of one watched repository                  *)
(* (big_brother/state.rs): per branch a cursor, one in-flight Review range *)
(* and the last failure, in state.json; per completed range one record     *)
(* file.  Its callers are observer processes (the watch service, and a     *)
(* `--once` probe beside it), each working from a snapshot of the state    *)
(* read without the lock, and enrollment.                                  *)
(*                                                                         *)
(* Every store operation runs under the state lock and replaces state.json *)
(* atomically, so it is one action.  The exception is `complete`, which    *)
(* writes two files: CompleteRecord and CompleteState, with the lock held  *)
(* between them (variable completing) and a crash possible there.          *)
(*                                                                         *)
(* A revision is its position in the branch's history.  The tip may move   *)
(* anywhere in that history: a repository without an origin is observed as *)
(* its work tree stands (git.rs, fetch_and_fast_forward).                  *)
(***************************************************************************)
EXTENDS Naturals

CONSTANTS
  Branches,     \* the tracked branches
  Dirs,         \* names of directories under records/
  Dir,          \* sanitize_branch: the directory of each branch
  LastRevision, \* bound on the history: revisions are 0..LastRevision
  MaxAttempts,  \* the profile's attempt ceiling
  Observers,    \* observer processes
  None          \* the absent option

Revisions == 0 .. LastRevision

\* An admitted range; attempts counts the current attempt.
Range == [base : Revisions, head : Revisions, attempts : Nat \ {0}]

\* A record file: the range it reviewed and the branch it claims.
Record == [branch : Branches, base : Revisions, head : Revisions, attempts : Nat \ {0}]

ASSUME BoundsAssumption == LastRevision \in Nat /\ MaxAttempts \in Nat \ {0}

ASSUME DirAssumption == Dir \in [Branches -> Dirs]

ASSUME NoneAssumption ==
  None \notin Revisions /\ None \notin Range /\ None \notin Record

VARIABLES
  tip,          \* external: the head git reports for each branch
  seed,         \* history: the baseline enrollment recorded, None before it
  cursor,       \* BranchState.cursor
  in_flight,    \* BranchState.in_flight
  last_failure, \* BranchState.last_failure (its range and attempts)
  refused,      \* BranchState.last_observation_failure is present
  records,      \* the record file at each path, None where there is none
  completing,   \* the completion holding the lock between its two writes
  phase,        \* where each observer is in its scan
  view,         \* its snapshot's in-flight ranges still to settle
  todo,         \* the branches it has still to observe
  seen          \* the head it has read and not yet admitted

stateVars == <<cursor, in_flight, last_failure, refused>>
scanVars == <<phase, view, todo, seen>>
vars == <<tip, seed, stateVars, records, completing, scanVars>>

TypeOK ==
  /\ tip \in [Branches -> Revisions]
  /\ seed \in [Branches -> Revisions \cup {None}]
  /\ cursor \in [Branches -> Revisions \cup {None}]
  /\ in_flight \in [Branches -> Range \cup {None}]
  /\ last_failure \in [Branches -> Range \cup {None}]
  /\ refused \in [Branches -> BOOLEAN]
  /\ records \in [Dirs \X Revisions -> Record \cup {None}]
  /\ completing \in [by : Observers, branch : Branches, range : Range] \cup {None}
  /\ phase \in [Observers -> {"idle", "settle", "observe"}]
  /\ view \in [Observers -> [Branches -> Range \cup {None}]]
  /\ todo \in [Observers -> SUBSET Branches]
  /\ seen \in [Observers -> [Branches -> Revisions \cup {None}]]

\* The store's files do not exist yet; read_state reads a default state.
Init ==
  /\ tip \in [Branches -> Revisions]
  /\ seed = [b \in Branches |-> None]
  /\ cursor = [b \in Branches |-> None]
  /\ in_flight = [b \in Branches |-> None]
  /\ last_failure = [b \in Branches |-> None]
  /\ refused = [b \in Branches |-> FALSE]
  /\ records = [p \in Dirs \X Revisions |-> None]
  /\ completing = None
  /\ phase = [o \in Observers |-> "idle"]
  /\ view = [o \in Observers |-> [b \in Branches |-> None]]
  /\ todo = [o \in Observers |-> {}]
  /\ seen = [o \in Observers |-> [b \in Branches |-> None]]

\* Mutant: one directory for every branch.
RecordPathShared(b, h) == <<Dir[CHOOSE a \in Branches : TRUE], h>>

\* records_branch_dir(branch)/<head>.json
RecordPath(b, h) == <<Dir[b], h>>

\* acquire_lock succeeds: no completion is between its two writes.
LockFree == completing = None

-----------------------------------------------------------------------------
\* External: a commit, a fetch or an operator's reset moves the branch.
MoveTip(b) ==
  /\ \E r \in Revisions \ {tip[b]} : tip' = [tip EXCEPT ![b] = r]
  /\ UNCHANGED <<seed, stateVars, records, completing, scanVars>>

\* Only a branch with neither cursor nor range takes a baseline.
Seedable(b) == cursor[b] = None /\ in_flight[b] = None

\* seed_cursor: the same revision again is accepted without a write, any
\* other is refused; neither changes anything.
SeedCursor(b) ==
  /\ LockFree
  /\ Seedable(b)
  /\ cursor' = [cursor EXCEPT ![b] = tip[b]]
  /\ seed' = [seed EXCEPT ![b] = tip[b]]
  /\ UNCHANGED <<tip, in_flight, last_failure, refused, records, completing, scanVars>>

-----------------------------------------------------------------------------
(* One scan of an observer (observe_repo): snapshot, settle, observe.       *)

\* The lock-free read of state.json that starts a scan.
ReadState(o) ==
  /\ phase[o] = "idle"
  /\ phase' = [phase EXCEPT ![o] = "settle"]
  /\ view' = [view EXCEPT ![o] = in_flight]
  /\ UNCHANGED <<tip, seed, stateVars, records, completing, todo, seen>>

\* The scan is over: it ran to its end, a range it found is not settled yet,
\* a call failed, or the process died.  A lock the process held goes stale and
\* is reclaimed; a completion cut short between its writes has its record on
\* disk and its range still in flight.
ScanEnds(o) ==
  /\ phase' = [phase EXCEPT ![o] = "idle"]
  /\ view' = [view EXCEPT ![o] = [b \in Branches |-> None]]
  /\ todo' = [todo EXCEPT ![o] = {}]
  /\ seen' = [seen EXCEPT ![o] = [b \in Branches |-> None]]

HoldsLock(o) == completing # None /\ completing.by = o

EndScan(o) ==
  /\ phase[o] # "idle"
  /\ ScanEnds(o)
  /\ completing' = IF HoldsLock(o) THEN None ELSE completing
  /\ UNCHANGED <<tip, seed, stateVars, records>>

\* The store's check of a supervised range: retry_attempt and fail_range
\* compare the head alone.
InFlightHead(b, h) == in_flight[b] # None /\ in_flight[b].head = h

\* Mutant: the ceiling is checked one attempt late.
RetryAttemptPastCeiling(o, b) ==
  /\ LockFree
  /\ view[o][b] # None
  /\ view[o][b].attempts <= MaxAttempts
  /\ in_flight' = IF InFlightHead(b, view[o][b].head)
                    THEN [in_flight EXCEPT ![b].attempts = @ + 1]
                    ELSE in_flight
  /\ ScanEnds(o)
  /\ UNCHANGED <<tip, seed, cursor, last_failure, refused, records, completing>>

\* supervise_failure below the ceiling, as the snapshot counts it.
RetryAttempt(o, b) ==
  /\ LockFree
  /\ view[o][b] # None
  /\ view[o][b].attempts < MaxAttempts
  /\ in_flight' = IF InFlightHead(b, view[o][b].head)
                    THEN [in_flight EXCEPT ![b].attempts = @ + 1]
                    ELSE in_flight
  /\ ScanEnds(o)
  /\ UNCHANGED <<tip, seed, cursor, last_failure, refused, records, completing>>

\* Mutant: giving a range up moves the cursor past it.
FailRangeSwallows(o, b) ==
  /\ LockFree
  /\ view[o][b] # None
  /\ view[o][b].attempts >= MaxAttempts
  /\ InFlightHead(b, view[o][b].head)
  /\ in_flight' = [in_flight EXCEPT ![b] = None]
  /\ last_failure' = [last_failure EXCEPT ![b] = in_flight[b]]
  /\ cursor' = [cursor EXCEPT ![b] = in_flight[b].head]
  /\ ScanEnds(o)
  /\ UNCHANGED <<tip, seed, refused, records, completing>>

\* supervise_failure at the ceiling: the slot clears, the cursor holds.
FailRange(o, b) ==
  /\ LockFree
  /\ view[o][b] # None
  /\ view[o][b].attempts >= MaxAttempts
  /\ IF InFlightHead(b, view[o][b].head)
       THEN /\ in_flight' = [in_flight EXCEPT ![b] = None]
            /\ last_failure' = [last_failure EXCEPT ![b] = in_flight[b]]
       ELSE UNCHANGED <<in_flight, last_failure>>
  /\ ScanEnds(o)
  /\ UNCHANGED <<tip, seed, cursor, refused, records, completing>>

\* Mutant: a completion is checked by its head alone, as a retry is.
MatchesHead(b, r) == InFlightHead(b, r.head)

\* complete accepts exactly the in-flight range.
MatchesInFlight(b, r) ==
  in_flight[b] # None /\ in_flight[b].base = r.base /\ in_flight[b].head = r.head

\* The one legal replay: the state already advanced past this completion.
AlreadyComplete(b, r) == cursor[b] = r.head /\ records[RecordPath(b, r.head)] # None

\* Mutant: a later review of the same head replaces the record.
WithRecordReplaced(b, r) ==
  [records EXCEPT ![RecordPath(b, r.head)] =
     [branch |-> b, base |-> r.base, head |-> r.head, attempts |-> r.attempts]]

\* The record lands first, and never over an existing one.
WithRecord(b, r) ==
  LET p == RecordPath(b, r.head)
  IN IF records[p] = None
       THEN [records EXCEPT ![p] =
               [branch |-> b, base |-> r.base, head |-> r.head, attempts |-> r.attempts]]
       ELSE records

\* complete up to its first write, when the completion is accepted.
CompleteRecord(o, b) ==
  /\ LockFree
  /\ view[o][b] # None
  /\ MatchesInFlight(b, view[o][b])
  /\ records' = WithRecord(b, view[o][b])
  /\ completing' = [by |-> o, branch |-> b, range |-> view[o][b]]
  /\ view' = [view EXCEPT ![o][b] = None]
  /\ UNCHANGED <<tip, seed, stateVars, phase, todo, seen>>

\* complete on a range that is no longer in flight: a replay goes on with the
\* scan, a stray ends it.
CompleteRefused(o, b) ==
  /\ LockFree
  /\ view[o][b] # None
  /\ ~MatchesInFlight(b, view[o][b])
  /\ IF AlreadyComplete(b, view[o][b])
       THEN view' = [view EXCEPT ![o][b] = None] /\ UNCHANGED <<phase, todo, seen>>
       ELSE ScanEnds(o)
  /\ UNCHANGED <<tip, seed, stateVars, records, completing>>

\* Mutant: the slot is not cleared with the cursor's advance.
CompleteStateKeepsSlot(o) ==
  /\ HoldsLock(o)
  /\ cursor' = [cursor EXCEPT ![completing.branch] = completing.range.head]
  /\ completing' = None
  /\ UNCHANGED <<tip, seed, in_flight, last_failure, refused, records, scanVars>>

\* complete, second write: the cursor advances and the slot clears.
CompleteState(o) ==
  /\ HoldsLock(o)
  /\ cursor' = [cursor EXCEPT ![completing.branch] = completing.range.head]
  /\ in_flight' = [in_flight EXCEPT ![completing.branch] = None]
  /\ completing' = None
  /\ UNCHANGED <<tip, seed, last_failure, refused, records, scanVars>>

\* Every range of the snapshot is settled: the scan loads the branches anew.
BeginObserve(o) ==
  /\ phase[o] = "settle"
  /\ ~HoldsLock(o)
  /\ \A b \in Branches : view[o][b] = None
  /\ phase' = [phase EXCEPT ![o] = "observe"]
  /\ todo' = [todo EXCEPT ![o] = {b \in Branches : cursor[b] # None}]
  /\ UNCHANGED <<tip, seed, stateVars, records, completing, view, seen>>

\* fetch_and_fast_forward or branch_head failed for the branch.
RecordObservationFailure(o, b) ==
  /\ LockFree
  /\ b \in todo[o]
  /\ seen[o][b] = None
  /\ refused' = [refused EXCEPT ![b] = TRUE]
  /\ todo' = [todo EXCEPT ![o] = @ \ {b}]
  /\ UNCHANGED <<tip, seed, cursor, in_flight, last_failure, records, completing, phase, view, seen>>

\* The head is read, and the last refusal cleared.
ClearObservationFailure(o, b) ==
  /\ LockFree
  /\ b \in todo[o]
  /\ seen[o][b] = None
  /\ seen' = [seen EXCEPT ![o][b] = tip[b]]
  /\ refused' = [refused EXCEPT ![b] = FALSE]
  /\ UNCHANGED <<tip, seed, cursor, in_flight, last_failure, records, completing, phase, view, todo>>

\* Mutant: a new head preempts the range in review.
AdmissibleBusy(b, h) == cursor[b] # None /\ cursor[b] # h

\* Admission::Admitted is the one outcome of admit that writes;
\* AlreadyReviewed, InReview, Busy and NotSeeded leave the state as it is.
Admissible(b, h) == cursor[b] # None /\ cursor[b] # h /\ in_flight[b] = None

\* admit, with the head this observer read earlier.
Admit(o, b) ==
  /\ LockFree
  /\ b \in todo[o]
  /\ seen[o][b] # None
  /\ in_flight' = IF Admissible(b, seen[o][b])
                    THEN [in_flight EXCEPT ![b] =
                            [base |-> cursor[b], head |-> seen[o][b], attempts |-> 1]]
                    ELSE in_flight
  /\ seen' = [seen EXCEPT ![o][b] = None]
  /\ todo' = [todo EXCEPT ![o] = @ \ {b}]
  /\ UNCHANGED <<tip, seed, cursor, last_failure, refused, records, completing, phase, view>>

-----------------------------------------------------------------------------
Next ==
  \/ \E b \in Branches : MoveTip(b) \/ SeedCursor(b)
  \/ \E o \in Observers :
       ReadState(o) \/ EndScan(o) \/ CompleteState(o) \/ BeginObserve(o)
  \/ \E o \in Observers, b \in Branches :
       \/ RetryAttempt(o, b) \/ FailRange(o, b)
       \/ CompleteRecord(o, b) \/ CompleteRefused(o, b)
       \/ RecordObservationFailure(o, b) \/ ClearObservationFailure(o, b) \/ Admit(o, b)

Spec == Init /\ [][Next]_vars

-----------------------------------------------------------------------------
(* Properties *)

\* A range under review starts where reviewing stopped, and is not empty: no
\* interleaving of admissions, retries, failures and completions leaves a
\* range in flight whose base the cursor has left (state.rs, admit/complete).
RangeExtendsCursor ==
  \A b \in Branches :
    in_flight[b] # None =>
      in_flight[b].base = cursor[b] /\ in_flight[b].head # cursor[b]

\* The cursor rests on evidence: past the baseline there is a record file at
\* the path of the cursor revision, however observers interleave and wherever
\* one dies (ADR 0025: the record persists before the cursor advances).
CursorHasRecord ==
  \A b \in Branches :
    cursor[b] # seed[b] => records[RecordPath(b, cursor[b])] # None

\* No two branches share a record directory.
SeparateDirs == \A a, b \in Branches : Dir[a] = Dir[b] => a = b

\* The paths that hold a record of the branch, and the ranges they review.
RecordedAt(b) == {p \in Dirs \X Revisions : records[p] # None /\ records[p].branch = b}

Archived(b) == {<<records[p].base, records[p].head>> : p \in RecordedAt(b)}

Covered(b, c) == \E a \in Archived(b) : a[1] < c /\ c <= a[2]

\* An unreviewed change is never swallowed as reviewed (ADR 0028): every
\* revision after the baseline and up to the cursor lies in a range some
\* record of the branch reviewed -- also after failed ranges, resets of the
\* branch and completions cut short by a crash.
NoCommitSwallowed ==
  SeparateDirs =>
    \A b \in Branches : cursor[b] # None =>
      \A c \in Revisions : seed[b] < c /\ c <= cursor[b] => Covered(b, c)

\* An admitted range is immutable (ADR 0018): while the slot stays taken its
\* base and head stay, and the attempt count never goes back; the cursor moves
\* only to the head of the range that was in flight, and clears the slot.
RangeImmutable ==
  [][\A b \in Branches :
       in_flight[b] # None =>
         \/ /\ in_flight'[b] # None
            /\ MatchesInFlight(b, in_flight'[b])
            /\ in_flight'[b].attempts >= in_flight[b].attempts
            /\ cursor'[b] = cursor[b]
         \/ /\ in_flight'[b] = None
            /\ cursor'[b] \in {cursor[b], in_flight[b].head}]_vars

\* A record is the delivery source of truth: once a file is there no later
\* completion, retry or crash replaces the review it holds.
RecordsWriteOnce ==
  [][\A p \in Dirs \X Revisions : records[p] # None => records'[p] = records[p]]_vars

\* Every record file lies in its branch's directory under its head.
RecordsFiled ==
  \A p \in Dirs \X Revisions :
    records[p] # None => p = RecordPath(records[p].branch, records[p].head)

\* A completion between its writes is of the range still in flight (the lock
\* keeps every other writer out) and has its record on disk.
CompletingInFlight ==
  completing # None =>
    /\ MatchesInFlight(completing.branch, completing.range)
    /\ records[RecordPath(completing.branch, completing.range.head)] # None

\* The inductive invariant of the store.
StoreInv ==
  /\ TypeOK
  /\ \A b \in Branches : seed[b] = None <=> cursor[b] = None
  /\ RangeExtendsCursor
  /\ CursorHasRecord
  /\ RecordsFiled
  /\ CompletingInFlight

-----------------------------------------------------------------------------
(* The abstract specification: the archive is what the record files say. *)

Ledger == INSTANCE ReviewLedger
  WITH baseline <- seed, reviewed <- cursor, archive <- [b \in Branches |-> Archived(b)]

\* The store implements the ledger: two observers, a crash between the record
\* and the state, a stale retry or failure are all steps the ledger allows.
ImplementsLedger == Ledger!Spec

-----------------------------------------------------------------------------
(* Properties of one observer *)

\* What one observer rests on: while it settles, its snapshot's range is the
\* one in flight, until the completion it is in the middle of.
ViewCurrent ==
  \A o \in Observers :
    /\ HoldsLock(o) => phase[o] = "settle" /\ view[o][completing.branch] = None
    /\ \A b \in Branches :
         view[o][b] # None => phase[o] = "settle" /\ view[o][b] = in_flight[b]

\* With one observer no range spends more attempts than the ceiling, and one
\* that fails has spent exactly that many (supervise_failure).
FailsAtCeiling ==
  \A b \in Branches :
    /\ in_flight[b] # None => in_flight[b].attempts <= MaxAttempts
    /\ last_failure[b] # None => last_failure[b].attempts = MaxAttempts
=============================================================================
