--------------------------- MODULE ObserverProofs ---------------------------
(***************************************************************************)
(* For any layers, revisions, attempt ceiling and number of faults: the    *)
(* observer takes only the store's steps, so what is proved of the store   *)
(* holds of it; its own inductive invariant; and what every record of a    *)
(* review holds.                                                           *)
(***************************************************************************)
EXTENDS Observer, TLAPS

\* The store's theorems, for the observer's instance of it.
SP == INSTANCE ReviewStoreProofs
  WITH Branches <- {Main}, Dirs <- {Main}, Dir <- [b \in {Main} |-> Main],
       Observers <- {Watch}

\* The constants of the observer's store are as the store's proofs need them.
LEMMA StoreAssumptions == SP!BoundsAssumption /\ SP!DirAssumption /\ SP!NoneAssumption
  BY BoundsAssumption, NoneAssumption
     DEF SP!BoundsAssumption, SP!DirAssumption, SP!NoneAssumption, SP!Revisions,
         SP!Range, SP!Record, Revisions, Store!Range, Store!Record, Store!Revisions

\* The store the observer uses is the store of the proofs.
LEMMA SameStore ==
  /\ Store!Init <=> SP!Init
  /\ Store!Next <=> SP!Next
  /\ Store!vars = SP!vars
  /\ Store!StoreInv <=> SP!StoreInv
<1>1. Store!Init <=> SP!Init
  BY DEF Store!Init, SP!Init, Store!Revisions, SP!Revisions
<1>2. Store!vars = SP!vars
  BY DEF Store!vars, SP!vars, Store!stateVars, SP!stateVars, Store!scanVars, SP!scanVars
<1>3. Store!StoreInv <=> SP!StoreInv
  BY DEF Store!StoreInv, SP!StoreInv, Store!TypeOK, SP!TypeOK, Store!RangeExtendsCursor,
         SP!RangeExtendsCursor, Store!CursorHasRecord, SP!CursorHasRecord, Store!RecordsFiled,
         SP!RecordsFiled, Store!CompletingInFlight, SP!CompletingInFlight,
         Store!MatchesInFlight, SP!MatchesInFlight, Store!RecordPath, SP!RecordPath,
         Store!Range, SP!Range, Store!Record, SP!Record, Store!Revisions, SP!Revisions
<1>4. Store!Next <=> SP!Next
  BY DEF Store!Next, SP!Next, Store!MoveTip, SP!MoveTip, Store!SeedCursor, SP!SeedCursor,
         Store!Seedable, SP!Seedable, Store!LockFree, SP!LockFree, Store!ReadState, SP!ReadState,
         Store!EndScan, SP!EndScan, Store!ScanEnds, SP!ScanEnds, Store!HoldsLock, SP!HoldsLock,
         Store!CompleteState, SP!CompleteState, Store!BeginObserve, SP!BeginObserve,
         Store!RetryAttempt, SP!RetryAttempt, Store!InFlightHead, SP!InFlightHead,
         Store!FailRange, SP!FailRange, Store!CompleteRecord, SP!CompleteRecord,
         Store!MatchesInFlight, SP!MatchesInFlight, Store!WithRecord, SP!WithRecord,
         Store!RecordPath, SP!RecordPath, Store!CompleteRefused, SP!CompleteRefused,
         Store!AlreadyComplete, SP!AlreadyComplete,
         Store!RecordObservationFailure, SP!RecordObservationFailure,
         Store!ClearObservationFailure, SP!ClearObservationFailure,
         Store!Admit, SP!Admit, Store!Admissible, SP!Admissible,
         Store!stateVars, SP!stateVars, Store!scanVars, SP!scanVars, Store!Revisions, SP!Revisions
<1> QED BY <1>1, <1>2, <1>3, <1>4

-----------------------------------------------------------------------------
(* The observer uses the store as the store allows.                        *)

\* The observer's scans end as the store's do.
LEMMA EndScanStep == EndScan => Store!Next
  BY DEF EndScan, Store!Next

\* A step that leaves the store and the scan's snapshot alone.
LEMMA StoreStutter ==
  ASSUME UNCHANGED <<storeVars, phase, view, todo, seen>>
  PROVE  UNCHANGED Store!vars
  BY DEF storeVars, Store!vars, Store!stateVars, Store!scanVars

\* Every step of the scan is a step of the store or leaves it as it is.
LEMMA ScanSimulation == Scan => Store!Next \/ UNCHANGED Store!vars
<1> SUFFICES ASSUME Scan PROVE Store!Next \/ UNCHANGED Store!vars
  OBVIOUS
<1>1. CASE StartScan
  BY <1>1 DEF StartScan, Store!Next
<1>2. CASE Unreachable \/ Rewake \/ AwaitWoken \/ ReadFails \/ NotSettled \/ WakeAdmitted
           \/ FinishScan
  BY <1>2, EndScanStep DEF Unreachable, Rewake, AwaitWoken, ReadFails, NotSettled, WakeAdmitted,
                           FinishScan
<1>3. CASE TimedOut \/ ListSessions \/ ReadConductor \/ (\E l \in Layers : ReadChild(l))
           \/ SuperviseHarvest \/ CancelList \/ (\E name \in Names : KillListed(name))
  BY <1>3, StoreStutter DEF TimedOut, ListSessions, ReadConductor, ReadChild, SuperviseHarvest,
                            CancelList, KillListed
<1>4. CASE CompleteReview \/ CompleteState
  BY <1>4 DEF CompleteReview, CompleteState, Store!Next
<1>5. CASE Retry \/ Fail
  BY <1>5 DEF Retry, Fail, Store!Next
<1>6. CASE BeginObserve \/ ObserveRefused \/ ObserveHead \/ AdmitHead
  BY <1>6 DEF BeginObserve, ObserveRefused, ObserveHead, AdmitHead, Store!Next
<1> QED BY <1>1, <1>2, <1>3, <1>4, <1>5, <1>6 DEF Scan

\* So is every step of the environment and the sessions.
LEMMA StoreSimulation == [Next]_vars => [Store!Next]_(Store!vars)
<1> SUFFICES ASSUME [Next]_vars PROVE Store!Next \/ UNCHANGED Store!vars
  OBVIOUS
<1>1. CASE Commit \/ Enroll
  BY <1>1 DEF Commit, Enroll, Store!Next
<1>2. CASE ReEnroll \/ CreateConductor \/ Expire
  BY <1>2, StoreStutter DEF ReEnroll, CreateConductor, Expire, scanVars
<1>3. CASE Scan
  BY <1>3, ScanSimulation
<1>4. CASE ObserverCrashes
  BY <1>4, EndScanStep DEF ObserverCrashes
<1>5. CASE Conductor \/ ConductorFails \/ DaemonRestarts
  BY <1>5, StoreStutter DEF Conductor, ConductorCalls, DispatchReview, ConductorWrites,
                            ConductorFails, DaemonRestarts, envUnchanged, scanVars
<1>6. CASE \E l \in Layers, h \in Revisions : Reviewer(l, h)
  BY <1>6, StoreStutter DEF Reviewer, ReviewerRuns, ReviewerReplies, ReviewerSettlesUnheard,
                            ReviewerDies, ReviewerLeaves, envUnchanged, scanVars
<1>7. CASE UNCHANGED vars
  BY <1>7, StoreStutter DEF vars, scanVars
<1> QED BY <1>1, <1>2, <1>3, <1>4, <1>5, <1>6, <1>7 DEF Next

\* With every interleaving of conductor, reviewers, daemon restarts and crashes
\* of the observer, the observer's use of the state file is the store's.
THEOREM ObserverImplementsStore == Spec => ImplementsStore
<1>1. Init => Store!Init
  BY DEF Init
<1> QED BY <1>1, StoreSimulation, PTL DEF Spec, ImplementsStore, Store!Spec

\* The store's specification and the one of its proofs are the same.
LEMMA SameSpec == Store!Spec => SP!Spec
<1>1. Store!Init => SP!Init
  BY SameStore
<1>2. [Store!Next]_(Store!vars) => [SP!Next]_(SP!vars)
  BY SameStore DEF Store!vars, SP!vars, Store!stateVars, SP!stateVars, Store!scanVars, SP!scanVars
<1> QED BY <1>1, <1>2, PTL DEF Store!Spec, SP!Spec

\* The store's inductive invariant holds under the observer.
THEOREM ObserverStoreInvariant == Spec => []Store!StoreInv
<1>1. SP!Spec => []SP!StoreInv
  BY StoreAssumptions, SP!StoreInvariant, PTL
<1>2. SP!StoreInv => Store!StoreInv
  BY SameStore
<1> QED BY <1>1, <1>2, SameSpec, ObserverImplementsStore, PTL DEF ImplementsStore

\* The watch service never passes a commit off as reviewed: whatever the
\* sessions answer and wherever the service dies, every revision between the
\* baseline and the cursor lies in a range some record reviewed.
THEOREM ObserverSwallowsNoCommit == Spec => []Store!NoCommitSwallowed
<1>1. SP!Spec => []SP!NoCommitSwallowed
  BY StoreAssumptions, SP!StoreSwallowsNoCommit, PTL
<1>2. SP!NoCommitSwallowed => Store!NoCommitSwallowed
  BY DEF SP!NoCommitSwallowed, Store!NoCommitSwallowed, SP!SeparateDirs, Store!SeparateDirs,
         SP!Covered, Store!Covered, SP!Archived, Store!Archived, SP!RecordedAt, Store!RecordedAt,
         SP!Revisions, Store!Revisions
<1> QED BY <1>1, <1>2, SameSpec, ObserverImplementsStore, PTL DEF ImplementsStore

\* One watch service spends no more attempts on a range than the ceiling, and
\* gives up only on one that has spent them all.
THEOREM ObserverFailsAtCeiling == Spec => []Store!FailsAtCeiling
<1>0. \E o : {Watch} = {o}
  OBVIOUS
<1>1. SP!Spec => []SP!FailsAtCeiling
  BY <1>0, StoreAssumptions, SP!StoreFailsAtCeiling, PTL
<1>2. SP!FailsAtCeiling => Store!FailsAtCeiling
  BY DEF SP!FailsAtCeiling, Store!FailsAtCeiling
<1> QED BY <1>1, <1>2, SameSpec, ObserverImplementsStore, PTL DEF ImplementsStore

-----------------------------------------------------------------------------
(* What a row of the conductor's transcript does to what the harvest        *)
(* remembers of it.                                                        *)

\* The transcript's part of the types and of the invariant.
Remembered == summary \in Summaries /\ TranscriptInv

\* A result, a wake, a turn error or a no-reply notice adds no reply, no
\* dispatch and no synthesis; a wake also starts the request anew.
LEMMA QuietRow ==
  ASSUME Remembered, NEW row,
         \/ row \in {H!Result, H!Wake, H!TurnError}
         \/ \E l \in Layers, h \in Revisions : row = H!NoReply(l, h),
         summary' = H!ScanRow(summary, row), sent' \subseteq sent
  PROVE  Remembered'
<1>1. summary \in Summaries
  BY DEF Remembered
<1>2. /\ summary' \in Summaries
      /\ summary'.calls = summary.calls /\ summary'.delivered = summary.delivered
      /\ summary'.synthesis \in {summary.synthesis, None}
  <2>1. CASE row = H!Result
    BY <1>1, <2>1 DEF H!Result, H!ScanRow, Summaries
  <2>2. CASE row = H!Wake
    BY <1>1, <2>2 DEF H!Wake, H!ScanRow, H!ScanCustom, Summaries
  <2>3. CASE row = H!TurnError
    BY <1>1, <2>3 DEF H!TurnError, H!ScanRow, Summaries
  <2>4. CASE \E l \in Layers, h \in Revisions : row = H!NoReply(l, h)
    <3>0. PICK l \in Layers, h \in Revisions : row = H!NoReply(l, h)
      BY <2>4
    <3>1. H!ScanRow(summary, row) =
            [summary EXCEPT !.synthesis = None, !.failed = FALSE,
                            !.no_reply = summary.no_reply \cup {<<l, h>>}]
      BY <3>0 DEF H!NoReply, H!ScanRow
    <3>2. summary.no_reply \cup {<<l, h>>} \in SUBSET (Layers \X Revisions)
      BY <1>1 DEF Summaries
    <3> QED BY <1>1, <3>1, <3>2 DEF Summaries
  <2> QED BY <2>1, <2>2, <2>3, <2>4
<1> QED BY <1>2 DEF Remembered, TranscriptInv, H!Dispatched

\* A reviewer's reply is kept under the head it was sent for.
LEMMA ReplyRow ==
  ASSUME Remembered, NEW l \in Layers, NEW h \in Revisions, NEW body \in Bodies, body.head = h,
         summary' = H!ScanRow(summary, H!Reply(l, h, body)), sent' = sent
  PROVE  Remembered'
<1>1. summary \in Summaries
  BY DEF Remembered
<1>2. H!ScanRow(summary, H!Reply(l, h, body)) =
        [summary EXCEPT !.synthesis = None, !.failed = FALSE, !.delivered[<<l, h>>] = body]
  BY DEF H!Reply, H!ScanRow, H!ScanReply
<1>3. /\ summary' \in Summaries
      /\ summary'.calls = summary.calls /\ summary'.synthesis = None
      /\ summary'.delivered = [summary.delivered EXCEPT ![<<l, h>>] = body]
  <2>1. [summary.delivered EXCEPT ![<<l, h>>] = body] \in [Layers \X Revisions -> Bodies \cup {None}]
    BY <1>1 DEF Summaries
  <2>2. summary' = [summary EXCEPT !.synthesis = None, !.failed = FALSE,
                                   !.delivered = [summary.delivered EXCEPT ![<<l, h>>] = body]]
    BY <1>2
  <2> QED BY <1>1, <2>1, <2>2 DEF Summaries
<1>4. \A k \in Layers, i \in Revisions :
        summary'.delivered[<<k, i>>] # None => summary'.delivered[<<k, i>>].head = i
  <2> SUFFICES ASSUME NEW k \in Layers, NEW i \in Revisions, summary'.delivered[<<k, i>>] # None
               PROVE  summary'.delivered[<<k, i>>].head = i
    OBVIOUS
  <2>1. summary.delivered \in [Layers \X Revisions -> Bodies \cup {None}]
    BY <1>1 DEF Summaries
  <2>2. CASE k = l /\ i = h
    BY <1>3, <2>1, <2>2
  <2>3. CASE ~(k = l /\ i = h)
    <3>1. <<k, i>> # <<l, h>>
      BY <2>3
    <3>2. summary'.delivered[<<k, i>>] = summary.delivered[<<k, i>>]
      BY <1>3, <2>1, <3>1
    <3> QED BY <3>2 DEF Remembered, TranscriptInv
  <2> QED BY <2>2, <2>3
<1> QED BY <1>3, <1>4 DEF Remembered, TranscriptInv, H!Dispatched

\* A dispatch call adds its layer to the dispatched ones.
LEMMA CallRow ==
  ASSUME Remembered, NEW l \in Layers, NEW base \in Revisions, NEW h \in Revisions,
         summary' = H!ScanRow(summary, H!Call(l, base, h)), sent' = sent \cup {l}
  PROVE  Remembered'
<1>1. summary \in Summaries
  BY DEF Remembered
<1>2. [base |-> base, head |-> h] \in [base : Revisions, head : Revisions]
  OBVIOUS
<1>3. H!ScanRow(summary, H!Call(l, base, h)) =
        [summary EXCEPT !.failed = FALSE, !.calls[l] = [base |-> base, head |-> h]]
  BY DEF H!Call, H!ScanRow, H!ScanCall
<1>4. /\ summary' \in Summaries
      /\ summary'.calls = [summary.calls EXCEPT ![l] = [base |-> base, head |-> h]]
      /\ summary'.delivered = summary.delivered /\ summary'.synthesis = summary.synthesis
  <2> DEFINE called == [summary.calls EXCEPT ![l] = [base |-> base, head |-> h]]
  <2>1. called \in [Layers -> [base : Revisions, head : Revisions] \cup {None}]
    BY <1>1, <1>2 DEF Summaries
  <2>2. summary' = [summary EXCEPT !.failed = FALSE, !.calls = called]
    BY <1>3
  <2> HIDE DEF called
  <2>3. /\ summary' \in Summaries
        /\ summary'.calls = called
        /\ summary'.delivered = summary.delivered /\ summary'.synthesis = summary.synthesis
    BY <1>1, <2>1, <2>2 DEF Summaries
  <2> QED BY <2>3 DEF called
<1>5. summary.calls \in [Layers -> [base : Revisions, head : Revisions] \cup {None}]
  BY <1>1 DEF Summaries
<1>6. H!Dispatched(summary)' = H!Dispatched(summary) \cup {l}
  BY <1>2, <1>4, <1>5, NoneAssumption DEF H!Dispatched
<1>7. H!Dispatched(summary) \subseteq Layers
  BY DEF H!Dispatched
<1> QED BY <1>4, <1>6, <1>7 DEF Remembered, TranscriptInv

\* A text adds neither a reply nor a dispatch.
LEMMA TextRow ==
  ASSUME Remembered, NEW t \in Texts,
         summary' = H!ScanRow(summary, H!Text(t)), sent' = sent
  PROVE  Remembered'
<1>1. summary \in Summaries
  BY DEF Remembered
<1>2. /\ summary' \in Summaries
      /\ summary'.calls = summary.calls /\ summary'.delivered = summary.delivered
      /\ summary'.synthesis \in {summary.synthesis, t}
  BY <1>1 DEF H!Text, H!ScanRow, H!ScanText, Summaries
<1>3. H!Dispatched(summary)' = H!Dispatched(summary)
  BY <1>2 DEF H!Dispatched
<1> QED BY <1>2, <1>3 DEF Remembered, TranscriptInv

-----------------------------------------------------------------------------
(* The inductive invariant, in three parts: the sessions, the scan, and the *)
(* records.                                                                *)

SessionTypes ==
  /\ enrolling \in BOOLEAN
  /\ conductor \in {"none", "absent", "idle", "busy"}
  /\ asked \in Store!Range \cup {None}
  /\ sent \subseteq Layers
  /\ calling \in Calls \cup {None}
  /\ child \in [Layers \X Revisions -> [state : ChildStates, attempt : Nat, told : BOOLEAN]]

ScanTypes ==
  /\ at \in {"start", "listed", "children", "cancel", "kill", "completed", "wake"}
  /\ roster \subseteq Names
  /\ unread \subseteq Layers
  /\ answers \in [Layers -> Bodies \cup {None}]
  /\ woken \subseteq Revisions
  /\ expired \in BOOLEAN

ContentTypes ==
  /\ content = [h \in Revisions |-> content[h]]
  /\ \A h \in Revisions :
       content[h] = None \/ \E L \in SUBSET Layers : content[h] \in Reviews(L)

SessionPart == SessionTypes /\ SessionInv /\ Remembered
ScanPart == ScanTypes /\ ScanInv
RecordPart == ContentTypes /\ ArchiveInv

\* The parts make the invariant.
LEMMA Parts ==
  ObserverInv <=> /\ Store!TypeOK /\ SessionPart /\ ScanPart /\ RecordPart
                  /\ faults \in 0 .. MaxFaults
  BY DEF ObserverInv, TypeOK, SessionPart, SessionTypes, Remembered, ScanPart, ScanTypes,
         RecordPart, ContentTypes

\* A step that touches no session, and un-seeds no branch.
LEMMA SessionsQuiet ==
  ASSUME SessionPart, UNCHANGED sessionVars, cursor'[Main] = None => cursor[Main] = None
  PROVE  SessionPart'
<1>1. SessionTypes'
  BY DEF SessionPart, SessionTypes, sessionVars
<1>2. SessionInv'
  BY DEF SessionPart, SessionInv, sessionVars
<1>3. Remembered'
  BY DEF SessionPart, Remembered, TranscriptInv, H!Dispatched, sessionVars
<1> QED BY <1>1, <1>2, <1>3 DEF SessionPart

\* The same for the transcript alone.
LEMMA RememberedQuiet ==
  ASSUME Remembered, UNCHANGED <<summary, sent>> PROVE Remembered'
  BY DEF Remembered, TranscriptInv, H!Dispatched

\* Once a branch has a cursor it keeps one.
LEMMA CursorStays ==
  ASSUME Store!StoreInv, [Store!Next]_(Store!vars), cursor'[Main] = None
  PROVE  cursor[Main] = None
<1> SUFFICES ASSUME cursor[Main] # None PROVE FALSE
  OBVIOUS
<1>1. Store!TypeOK
  BY DEF Store!StoreInv
<1>2. cursor' = cursor => FALSE
  OBVIOUS
<1>3. ~Store!SeedCursor(Main)
  BY DEF Store!SeedCursor, Store!Seedable
<1>4. ~Store!CompleteState(Watch)
  <2> SUFFICES ASSUME Store!CompleteState(Watch) PROVE FALSE
    OBVIOUS
  <2>1. completing \in [by : {Watch}, branch : {Main}, range : Store!Range]
    BY <1>1 DEF Store!CompleteState, Store!HoldsLock, Store!TypeOK
  <2>2. completing.branch = Main /\ completing.range.head \in Revisions
    BY <2>1 DEF Store!Range, Store!Revisions, Revisions
  <2>3. cursor'[Main] = completing.range.head
    BY <1>1, <2>2 DEF Store!CompleteState, Store!TypeOK
  <2> QED BY <2>2, <2>3, NoneAssumption
<1> QED
  BY <1>2, <1>3, <1>4
     DEF Store!Next, Store!MoveTip, Store!ReadState, Store!EndScan, Store!BeginObserve,
         Store!RetryAttempt, Store!FailRange, Store!CompleteRecord, Store!CompleteRefused,
         Store!RecordObservationFailure, Store!ClearObservationFailure, Store!Admit,
         Store!vars, Store!stateVars

\* Creating a child's session, and letting one go.
LEMMA ChildTypes ==
  ASSUME SessionTypes, NEW c \in Layers \X Revisions
  PROVE  /\ NoChild \in [state : ChildStates, attempt : Nat, told : BOOLEAN]
         /\ child[c] \in [state : ChildStates, attempt : Nat, told : BOOLEAN]
         /\ \A x \in [state : ChildStates, attempt : Nat, told : BOOLEAN] :
              [child EXCEPT ![c] = x] \in
                [Layers \X Revisions -> [state : ChildStates, attempt : Nat, told : BOOLEAN]]
  BY DEF SessionTypes, NoChild, ChildStates

\* What a reviewer says is a body, of its own head.
LEMMA BodyType ==
  ASSUME SessionTypes, NEW l \in Layers, NEW h \in Revisions,
         NEW kind \in {"report", "runtime", "narration"}
  PROVE  Body(kind, l, h) \in Bodies /\ Body(kind, l, h).head = h
<1>1. <<l, h>> \in Layers \X Revisions
  OBVIOUS
<1>2. child[<<l, h>>].attempt \in Nat
  BY <1>1, ChildTypes
<1> QED BY <1>2 DEF Body, Bodies

\* The conductor's own steps keep the sessions' part.
LEMMA ConductorStep ==
  ASSUME SessionPart, Conductor \/ ConductorFails
  PROVE  SessionPart'
<1> USE DEF SessionPart
<1>0. UNCHANGED <<cursor, enrolling>>
  BY DEF Conductor, ConductorCalls, DispatchReview, ConductorWrites, ConductorFails, envUnchanged,
         storeVars
<1>1. ASSUME NEW l \in Layers, ConductorCalls(l) PROVE SessionPart'
  <2>1. /\ asked \in Store!Range /\ asked' = asked /\ sent' = sent \cup {l}
        /\ child' = child /\ conductor = "busy" /\ conductor' = "busy"
        /\ calling' = [layer |-> l, range |-> asked]
        /\ summary' = H!ScanRow(summary, H!Call(l, asked.base, asked.head))
    BY <1>1 DEF ConductorCalls, SessionTypes
  <2>2. asked.base \in Revisions /\ asked.head \in Revisions
    BY <2>1 DEF Store!Range, Store!Revisions, Revisions
  <2>3. Remembered'
    BY <2>1, <2>2, CallRow
  <2>4. SessionTypes'
    BY <1>0, <2>1 DEF SessionTypes, Calls
  <2>5. SessionInv'
    BY <1>0, <2>1 DEF SessionInv
  <2> QED BY <2>3, <2>4, <2>5
<1>2. CASE DispatchReview
  <2>1. /\ calling \in Calls /\ calling' = None /\ conductor = "busy" /\ conductor' = "busy"
        /\ UNCHANGED <<asked, sent>>
        /\ summary' = H!ScanRow(summary, H!Result)
    BY <1>2 DEF DispatchReview, SessionTypes
  <2> DEFINE name == <<calling.layer, calling.range.head>>
             new == [state |-> "queued", told |-> FALSE, attempt |-> calling.range.attempts]
  <2>2. name \in Layers \X Revisions /\ calling.range.attempts \in Nat
    BY <2>1 DEF Calls, Store!Range, Store!Revisions, Revisions
  <2>3. new \in [state : ChildStates, attempt : Nat, told : BOOLEAN]
    BY <2>2 DEF ChildStates
  <2>4. child' \in {child, [child EXCEPT ![name] = new]}
    BY <1>2 DEF DispatchReview
  <2>5. child' \in [Layers \X Revisions -> [state : ChildStates, attempt : Nat, told : BOOLEAN]]
    <3> HIDE DEF name, new
    <3> QED BY <2>2, <2>3, <2>4, ChildTypes DEF SessionTypes
  <2>6. SessionTypes'
    BY <1>0, <2>1, <2>5 DEF SessionTypes
  <2>7. SessionInv'
    BY <1>0, <2>1 DEF SessionInv
  <2>8. Remembered'
    BY <2>1, QuietRow
  <2> QED BY <2>6, <2>7, <2>8
<1>3. CASE ConductorWrites
  <2> DEFINE t == [kind |-> IF AllReplied THEN "synthesis" ELSE "awaiting"]
  <2>1. t \in Texts
    BY DEF Texts
  <2>2. /\ conductor = "busy" /\ conductor' = "idle" /\ calling = None
        /\ UNCHANGED <<asked, sent, calling, child>>
        /\ summary' = H!ScanRow(summary, H!Text(t))
    BY <1>3 DEF ConductorWrites
  <2> HIDE DEF t
  <2>3. Remembered'
    BY <2>1, <2>2, TextRow
  <2>4. SessionTypes' /\ SessionInv'
    BY <1>0, <2>2 DEF SessionTypes, SessionInv
  <2> QED BY <2>3, <2>4
<1>4. CASE ConductorFails
  <2>1. /\ conductor = "busy" /\ conductor' = "idle" /\ calling = None
        /\ UNCHANGED <<asked, sent, calling, child>>
        /\ summary' = H!ScanRow(summary, H!TurnError)
    BY <1>4 DEF ConductorFails
  <2>2. Remembered'
    BY <2>1, QuietRow
  <2>3. SessionTypes' /\ SessionInv'
    BY <1>0, <2>1 DEF SessionTypes, SessionInv
  <2> QED BY <2>2, <2>3
<1> QED BY <1>1, <1>2, <1>3, <1>4 DEF Conductor

\* So do the reviewers' steps; a conversation that does not exist has none.
LEMMA ReviewerStep ==
  ASSUME SessionPart, NEW l \in Layers, NEW h \in Revisions, Reviewer(l, h)
  PROVE  SessionPart'
<1> USE DEF SessionPart
<1> DEFINE c == <<l, h>>
           Child == [state : ChildStates, attempt : Nat, told : BOOLEAN]
<1>0. UNCHANGED <<cursor, enrolling, asked, sent, calling>>
  BY DEF Reviewer, ReviewerRuns, ReviewerReplies, ReviewerSettlesUnheard, ReviewerDies,
         ReviewerLeaves, envUnchanged, storeVars
<1>1. c \in Layers \X Revisions
  OBVIOUS
<1>2. child[c] \in Child /\ NoChild \in Child
  BY <1>1, ChildTypes
<1>3. conductor # "none"
  <2> SUFFICES ASSUME conductor = "none" PROVE FALSE
    OBVIOUS
  <2>1. child[c].state = "none" /\ ~child[c].told
    BY <1>1 DEF SessionInv, NoChild
  <2> QED BY <2>1 DEF Reviewer, ReviewerRuns, ReviewerReplies, ReviewerSettlesUnheard,
                      ReviewerDies, ReviewerLeaves, Settled, ChildStates
<1>4. CASE ReviewerRuns(l, h)
  <2>1. PICK s \in {"running", "narrating", "report", "runtime", "silent"} :
          child' = [child EXCEPT ![c].state = s]
    BY <1>4 DEF ReviewerRuns
  <2>2. [child[c] EXCEPT !.state = s] \in Child
    BY <1>2 DEF ChildStates
  <2>3. child' \in [Layers \X Revisions -> Child]
    BY <1>1, <2>1, <2>2, ChildTypes
  <2>4. UNCHANGED <<conductor, summary>>
    BY <1>4 DEF ReviewerRuns
  <2> QED BY <1>0, <1>3, <2>3, <2>4, RememberedQuiet DEF SessionTypes, SessionInv
<1>5. CASE ReviewerReplies(l, h)
  <2> DEFINE kind == child[c].state
  <2>1. /\ kind \in {"report", "runtime"} /\ conductor' = "busy"
        /\ child' = [child EXCEPT ![c].told = TRUE]
        /\ summary' = H!ScanRow(summary, H!Reply(l, h, Body(kind, l, h)))
    BY <1>5 DEF ReviewerReplies
  <2>2. [child[c] EXCEPT !.told = TRUE] \in Child
    BY <1>2
  <2>3. child' \in [Layers \X Revisions -> Child]
    BY <1>1, <2>1, <2>2, ChildTypes
  <2>4. Body(kind, l, h) \in Bodies /\ Body(kind, l, h).head = h
    BY <2>1, BodyType
  <2>5. Remembered'
    BY <1>0, <2>1, <2>4, ReplyRow
  <2> QED BY <1>0, <1>3, <2>1, <2>3, <2>5 DEF SessionTypes, SessionInv
<1>6. CASE ReviewerSettlesUnheard(l, h)
  <2>1. /\ conductor' = "busy"
        /\ child' = [child EXCEPT ![c].told = TRUE]
        /\ summary' = H!ScanRow(summary, H!NoReply(l, h))
    BY <1>6 DEF ReviewerSettlesUnheard
  <2>2. [child[c] EXCEPT !.told = TRUE] \in Child
    BY <1>2
  <2>3. child' \in [Layers \X Revisions -> Child]
    BY <1>1, <2>1, <2>2, ChildTypes
  <2>4. Remembered'
    BY <1>0, <2>1, QuietRow
  <2> QED BY <1>0, <1>3, <2>1, <2>3, <2>4 DEF SessionTypes, SessionInv
<1>7. CASE ReviewerDies(l, h)
  <2>1. /\ calling = None
        /\ conductor' \in {conductor, "busy"}
        /\ child' = [child EXCEPT ![c] = NoChild]
        /\ summary' \in {summary, H!ScanRow(summary, H!Wake)}
    BY <1>7 DEF ReviewerDies
  <2>2. child' \in [Layers \X Revisions -> Child]
    BY <1>1, <1>2, <2>1, ChildTypes
  <2>3. Remembered'
    BY <1>0, <2>1, QuietRow, RememberedQuiet
  <2> QED BY <1>0, <1>3, <2>1, <2>2, <2>3 DEF SessionTypes, SessionInv
<1>8. CASE ReviewerLeaves(l, h)
  <2>1. child' = [child EXCEPT ![c] = NoChild] /\ UNCHANGED <<conductor, summary>>
    BY <1>8 DEF ReviewerLeaves
  <2>2. child' \in [Layers \X Revisions -> Child]
    BY <1>1, <1>2, <2>1, ChildTypes
  <2> QED BY <1>0, <1>3, <2>1, <2>2, RememberedQuiet DEF SessionTypes, SessionInv
<1> QED BY <1>4, <1>5, <1>6, <1>7, <1>8 DEF Reviewer

\* Killing sessions: the children that go are as if they had never been, and
\* a dispatch dies with the conductor's turn.
LEMMA KillStep ==
  ASSUME SessionPart, DaemonRestarts \/ \E name \in Names : KillListed(name)
  PROVE  SessionPart'
<1> USE DEF SessionPart
<1> DEFINE Child == [state : ChildStates, attempt : Nat, told : BOOLEAN]
<1>0. UNCHANGED <<cursor, enrolling, asked, sent, summary>>
  BY DEF DaemonRestarts, KillListed, envUnchanged, storeVars
<1>1. NoChild \in Child
  BY DEF NoChild, ChildStates
<1>2. CASE DaemonRestarts
  <2>1. /\ conductor' = (IF Live THEN "absent" ELSE conductor) /\ calling' = None
        /\ child' = [c \in Layers \X Revisions |-> NoChild]
    BY <1>2 DEF DaemonRestarts
  <2>2. conductor' \in {"none", "absent", "idle", "busy"} /\ (conductor' = "none" <=> conductor = "none")
    BY <2>1 DEF Live, SessionTypes
  <2>3. child' \in [Layers \X Revisions -> Child]
    BY <1>1, <2>1
  <2> QED BY <1>0, <2>1, <2>2, <2>3, RememberedQuiet DEF SessionTypes, SessionInv
<1>3. ASSUME NEW name \in Names, KillListed(name) PROVE SessionPart'
  <2>1. CASE UNCHANGED <<conductor, calling, child>>
    BY <1>0, <2>1, RememberedQuiet DEF SessionTypes, SessionInv
  <2>2. CASE /\ name = ConductorName
             /\ conductor' = (IF Live THEN "absent" ELSE conductor) /\ calling' = None
             /\ child' = child
    BY <1>0, <2>2, RememberedQuiet DEF SessionTypes, SessionInv, Live
  <2>3. CASE /\ name # ConductorName /\ UNCHANGED <<conductor, calling>>
             /\ child' = [child EXCEPT ![name] = NoChild]
    <3>1. name \in Layers \X Revisions
      BY <2>3 DEF Names
    <3>2. child' \in [Layers \X Revisions -> Child]
      BY <1>1, <2>3, <3>1, ChildTypes
    <3>3. conductor = "none" => child' = child
      BY <2>3, <3>1 DEF SessionInv
    <3> QED BY <1>0, <2>3, <3>2, <3>3, RememberedQuiet DEF SessionTypes, SessionInv
  <2> QED BY <1>3, <2>1, <2>2, <2>3 DEF KillListed
<1> QED BY <1>2, <1>3

\* A wake, answered or not, keeps the sessions' part.
LEMMA WakeStep ==
  ASSUME SessionPart, NEW r \in Store!Range, Woken(r) \/ WakeRefused(r), cursor' = cursor
  PROVE  SessionPart'
<1> USE DEF SessionPart
<1>1. CASE conductor # "none" /\ Delivered(r)
  <2>1. /\ conductor' = "busy" /\ asked' = r /\ sent' = {}
        /\ summary' = H!ScanRow(summary, H!Wake)
        /\ UNCHANGED <<enrolling, calling, child>>
    BY <1>1 DEF Delivered
  <2>2. Remembered'
    BY <2>1, QuietRow
  <2> QED BY <1>1, <2>1, <2>2 DEF SessionTypes, SessionInv
<1>2. CASE UNCHANGED sessionVars
  BY <1>2, SessionsQuiet
<1>3. CASE /\ conductor = "absent" /\ conductor' = "idle"
           /\ UNCHANGED <<enrolling, asked, sent, calling, summary, child>>
  BY <1>3, RememberedQuiet DEF SessionTypes, SessionInv
<1> QED BY <1>1, <1>2, <1>3 DEF Woken, WakeRefused

\* Enrollment: a branch is seeded before it has a conductor, and its conductor
\* is created once.
LEMMA EnrollStep ==
  ASSUME Store!TypeOK, SessionPart, Enroll \/ ReEnroll \/ CreateConductor
  PROVE  SessionPart'
<1> USE DEF SessionPart
<1>1. CASE Enroll
  <2>1. /\ cursor[Main] = None /\ cursor' = [cursor EXCEPT ![Main] = tip[Main]]
        /\ enrolling' = TRUE /\ UNCHANGED <<conductor, asked, sent, calling, summary, child>>
    BY <1>1 DEF Enroll, Store!SeedCursor, Store!Seedable
  <2>2. cursor'[Main] # None
    BY <2>1, NoneAssumption DEF Store!TypeOK, Store!Revisions, Revisions
  <2> QED BY <2>1, <2>2, RememberedQuiet DEF SessionTypes, SessionInv
<1>2. CASE ReEnroll
  <2>1. /\ conductor = "none" /\ cursor[Main] = tip[Main] /\ cursor' = cursor
        /\ enrolling' = TRUE /\ UNCHANGED <<conductor, asked, sent, calling, summary, child>>
    BY <1>2 DEF ReEnroll, storeVars
  <2>2. cursor[Main] # None
    BY <2>1, NoneAssumption DEF Store!TypeOK, Store!Revisions, Revisions
  <2> QED BY <2>1, <2>2, RememberedQuiet DEF SessionTypes, SessionInv
<1>3. CASE CreateConductor
  <2>1. /\ enrolling /\ enrolling' = FALSE /\ cursor' = cursor
        /\ conductor' \in {"idle", conductor}
        /\ UNCHANGED <<asked, sent, calling, summary, child>>
    BY <1>3 DEF CreateConductor, storeVars
  <2>2. conductor = "none" /\ cursor[Main] # None /\ calling = None
    BY <2>1 DEF SessionInv
  <2> QED BY <2>1, <2>2, RememberedQuiet DEF SessionTypes, SessionInv
<1> QED BY <1>1, <1>2, <1>3

\* The range a scan settles, and the one it has just admitted, are ranges.
LEMMA RangeTypes ==
  ASSUME Store!TypeOK, ScanInv
  PROVE  /\ at \in {"listed", "children", "cancel", "kill"} => range \in Store!Range
         /\ at = "wake" => in_flight[Main] \in Store!Range
         /\ \A r \in Store!Range : r.head \in Revisions /\ r.base \in Revisions
                                   /\ r.attempts \in Nat \ {0}
<1>1. range \in Store!Range \cup {None} /\ in_flight[Main] \in Store!Range \cup {None}
  BY DEF Store!TypeOK, range
<1>2. at \in {"listed", "children", "cancel", "kill"} => range # None
  BY DEF ScanInv, InSettle
<1>3. at = "wake" => in_flight[Main] # None
  BY DEF ScanInv
<1>4. \A r \in Store!Range : r.head \in Revisions /\ r.base \in Revisions
                             /\ r.attempts \in Nat \ {0}
  BY DEF Store!Range, Store!Revisions, Revisions
<1> QED BY <1>1, <1>2, <1>3, <1>4

\* Every step keeps the sessions' part.
LEMMA SessionStep ==
  ASSUME Store!StoreInv, SessionPart, ScanPart, [Next]_vars
  PROVE  SessionPart'
<1>0. Store!TypeOK /\ ScanInv
  BY DEF Store!StoreInv, ScanPart
<1>c. cursor'[Main] = None => cursor[Main] = None
  BY CursorStays, StoreSimulation
<1>1. CASE Commit \/ Expire \/ ObserverCrashes
  BY <1>1, <1>c, SessionsQuiet DEF Commit, Expire, ObserverCrashes
<1>2. CASE Enroll \/ ReEnroll \/ CreateConductor
  BY <1>0, <1>2, EnrollStep
<1>3. CASE StartScan \/ Unreachable \/ TimedOut \/ ListSessions \/ AwaitWoken \/ ReadConductor
           \/ (\E l \in Layers : ReadChild(l)) \/ ReadFails \/ NotSettled \/ SuperviseHarvest
           \/ CancelList
  BY <1>3, <1>c, SessionsQuiet DEF StartScan, Unreachable, TimedOut, ListSessions, AwaitWoken,
       ReadConductor, ReadChild, ReadFails, NotSettled, SuperviseHarvest, CancelList
<1>4. CASE CompleteReview \/ CompleteState \/ Retry \/ Fail \/ BeginObserve \/ ObserveRefused
           \/ ObserveHead \/ AdmitHead \/ FinishScan
  BY <1>4, <1>c, SessionsQuiet DEF CompleteReview, CompleteState, Retry, Fail, BeginObserve,
       ObserveRefused, ObserveHead, AdmitHead, FinishScan
<1>5. CASE Rewake
  <2>1. range \in Store!Range
    BY <1>0, <1>5, RangeTypes DEF Rewake
  <2>2. (Woken(range) \/ WakeRefused(range)) /\ cursor' = cursor
    BY <1>5 DEF Rewake, EndScan, Store!EndScan, Store!stateVars
  <2> QED BY <2>1, <2>2, WakeStep
<1>6. CASE WakeAdmitted
  <2>1. in_flight[Main] \in Store!Range
    BY <1>0, <1>6, RangeTypes DEF WakeAdmitted
  <2>2. (Woken(in_flight[Main]) \/ WakeRefused(in_flight[Main])) /\ cursor' = cursor
    BY <1>6 DEF WakeAdmitted, EndScan, Store!EndScan, Store!stateVars
  <2> QED BY <2>1, <2>2, WakeStep
<1>7. CASE DaemonRestarts \/ \E name \in Names : KillListed(name)
  BY <1>7, KillStep
<1>8. CASE Conductor \/ ConductorFails
  BY <1>8, ConductorStep
<1>9. CASE \E l \in Layers, h \in Revisions : Reviewer(l, h)
  BY <1>9, ReviewerStep
<1>10. CASE UNCHANGED vars
  BY <1>10, <1>c, SessionsQuiet DEF vars
<1> QED
  BY <1>1, <1>2, <1>3, <1>4, <1>5, <1>6, <1>7, <1>8, <1>9, <1>10 DEF Next, Scan

-----------------------------------------------------------------------------
(* The scan's part.                                                        *)

\* A step that leaves the scan where it is.
LEMMA ScanQuiet ==
  ASSUME ScanPart, UNCHANGED <<at, roster, unread, answers, phase, view, completing, in_flight>>,
         woken' \subseteq Revisions, expired' \in BOOLEAN
  PROVE  ScanPart'
  BY DEF ScanPart, ScanTypes, ScanInv, InSettle, range, NoAnswers

\* A scan that ends, or settles its range, with the lock free.
LEMMA ScanLeavesStep ==
  ASSUME ScanLeaves, completing' = None, woken' \subseteq Revisions, expired' \in BOOLEAN
  PROVE  ScanPart'
  BY DEF ScanLeaves, ScanPart, ScanTypes, ScanInv, NoAnswers

\* Ending a scan frees the lock.
LEMMA EndScanFrees ==
  ASSUME Store!TypeOK, EndScan PROVE ScanLeaves /\ completing' = None
  BY DEF Store!TypeOK, EndScan, Store!EndScan, Store!HoldsLock

\* The sessions' own steps leave the scan where it is.
LEMMA SessionsLeaveScan ==
  ASSUME Conductor \/ ConductorFails \/ DaemonRestarts
           \/ \E l \in Layers, h \in Revisions : Reviewer(l, h)
  PROVE  UNCHANGED envUnchanged
  BY DEF Conductor, ConductorCalls, DispatchReview, ConductorWrites, ConductorFails,
         DaemonRestarts, Reviewer, ReviewerRuns, ReviewerReplies, ReviewerSettlesUnheard,
         ReviewerDies, ReviewerLeaves

\* Every step keeps the scan's part.
LEMMA ScanStep ==
  ASSUME Store!StoreInv, SessionPart, ScanPart, [Next]_vars
  PROVE  ScanPart'
<1>0. Store!TypeOK /\ ScanTypes /\ ScanInv
  BY DEF Store!StoreInv, ScanPart
<1>t. woken \subseteq Revisions /\ expired \in BOOLEAN
  BY <1>0 DEF ScanTypes
<1>1. CASE Commit \/ Enroll
  <2>1. UNCHANGED <<at, roster, unread, answers, phase, view, completing, in_flight, woken, expired>>
    BY <1>1 DEF Commit, Enroll, Store!MoveTip, Store!SeedCursor, Store!stateVars, Store!scanVars
  <2> QED BY <1>t, <2>1, ScanQuiet
<1>2. CASE ReEnroll \/ CreateConductor \/ Expire \/ UNCHANGED vars
  <2>1. UNCHANGED <<at, roster, unread, answers, phase, view, completing, in_flight, woken>>
        /\ expired' \in BOOLEAN
    BY <1>t, <1>2 DEF ReEnroll, CreateConductor, Expire, vars, storeVars, scanVars
  <2> QED BY <1>t, <2>1, ScanQuiet
<1>3. CASE Conductor \/ ConductorFails \/ DaemonRestarts
             \/ \E l \in Layers, h \in Revisions : Reviewer(l, h)
  <2>1. UNCHANGED <<at, roster, unread, answers, phase, view, completing, in_flight, woken, expired>>
    BY <1>3, SessionsLeaveScan DEF envUnchanged, storeVars, scanVars
  <2> QED BY <1>t, <2>1, ScanQuiet
<1>4. CASE StartScan
  <2>1. completing = None
    BY <1>0, <1>4 DEF StartScan, Store!ReadState, ScanInv
  <2>2. ScanLeaves /\ completing' = None /\ UNCHANGED <<woken, expired>>
    BY <1>4, <2>1 DEF StartScan, Store!ReadState
  <2> QED BY <1>t, <2>2, ScanLeavesStep
<1>5. CASE Unreachable \/ AwaitWoken \/ ReadFails \/ NotSettled \/ FinishScan \/ ObserverCrashes
  <2>1. EndScan /\ woken' \in {woken, {}} /\ expired' = expired
    BY <1>5 DEF Unreachable, AwaitWoken, ReadFails, NotSettled, FinishScan, ObserverCrashes
  <2> QED BY <1>0, <1>t, <2>1, EndScanFrees, ScanLeavesStep
<1>6. CASE Rewake \/ WakeAdmitted
  <2>1. EndScan /\ expired' = expired
    BY <1>6 DEF Rewake, WakeAdmitted
  <2>2. woken' \subseteq Revisions
    <3>1. CASE Rewake
      <4>1. range.head \in Revisions
        BY <1>0, <3>1, RangeTypes DEF Rewake
      <4> QED BY <1>t, <3>1, <4>1 DEF Rewake
    <3>2. CASE WakeAdmitted
      <4>1. in_flight[Main].head \in Revisions
        BY <1>0, <3>2, RangeTypes DEF WakeAdmitted
      <4> QED BY <1>t, <3>2, <4>1 DEF WakeAdmitted
    <3> QED BY <1>6, <3>1, <3>2
  <2> QED BY <1>0, <1>t, <2>1, <2>2, EndScanFrees, ScanLeavesStep
<1>7. CASE TimedOut
  <2>1. /\ at = "start" /\ at' = "cancel" /\ InSettle
        /\ UNCHANGED <<phase, view, completing, in_flight, roster, unread, answers, woken, expired>>
    BY <1>7 DEF TimedOut, storeVars
  <2> QED BY <1>0, <2>1 DEF ScanPart, ScanTypes, ScanInv, InSettle, range
<1>8. CASE ListSessions
  <2>1. /\ at = "start" /\ at' = "listed" /\ InSettle /\ roster' = Resident
        /\ UNCHANGED <<phase, view, completing, in_flight, unread, answers, woken, expired>>
    BY <1>8 DEF ListSessions, storeVars
  <2>2. roster' \subseteq Names
    BY <2>1 DEF Resident, Names
  <2> QED BY <1>0, <2>1, <2>2 DEF ScanPart, ScanTypes, ScanInv, InSettle, range, NoAnswers
<1>9. CASE ReadConductor
  <2>1. /\ at = "listed"
        /\ \/ at' = "cancel" /\ unread' = unread
           \/ at' = "children" /\ unread' = {l \in Layers : <<l, range.head>> \in roster}
        /\ UNCHANGED <<phase, view, completing, in_flight, roster, answers, woken, expired>>
    BY <1>9 DEF ReadConductor, storeVars
  <2>2. \A l \in Layers : answers[l] = None
    BY <1>0, <2>1 DEF ScanInv, NoAnswers
  <2> QED BY <1>0, <2>1, <2>2 DEF ScanPart, ScanTypes, ScanInv, InSettle, range, NoAnswers
<1>10. ASSUME NEW l \in Layers, ReadChild(l) PROVE ScanPart'
  <2> DEFINE c == child[<<l, range.head>>]
             kind == IF c.state = "narrating" THEN "narration" ELSE c.state
             read == IF c.state \in {"narrating", "report", "runtime"}
                       THEN Body(kind, l, range.head) ELSE None
  <2>1. /\ at = "children" /\ unread' = unread \ {l}
        /\ answers' = [answers EXCEPT ![l] = read]
        /\ UNCHANGED <<at, phase, view, completing, in_flight, roster, woken, expired>>
    BY <1>10 DEF ReadChild, storeVars
  <2>2. range.head \in Revisions
    BY <1>0, <2>1, RangeTypes
  <2>3. c.state \in {"narrating", "report", "runtime"} =>
          /\ Body(kind, l, range.head) \in Bodies
          /\ Body(kind, l, range.head).head = range.head
    <3> SUFFICES ASSUME c.state \in {"narrating", "report", "runtime"}
                 PROVE  /\ Body(kind, l, range.head) \in Bodies
                        /\ Body(kind, l, range.head).head = range.head
      OBVIOUS
    <3>1. kind \in {"report", "runtime", "narration"}
      OBVIOUS
    <3> HIDE DEF kind
    <3> QED BY <2>2, <3>1, BodyType DEF SessionPart
  <2>4. read \in Bodies \cup {None} /\ (read # None => read.head = range.head)
    BY <2>3
  <2> HIDE DEF read
  <2>5. answers' \in [Layers -> Bodies \cup {None}]
    BY <1>0, <2>1, <2>4 DEF ScanTypes
  <2>6. \A k \in Layers : answers'[k] # None => answers'[k].head = range.head
    BY <1>0, <2>1, <2>4 DEF ScanTypes, ScanInv
  <2> QED BY <1>0, <2>1, <2>5, <2>6 DEF ScanPart, ScanTypes, ScanInv, InSettle, range
<1>11. CASE SuperviseHarvest
  <2>1. /\ at = "children" /\ at' = "cancel" /\ unread = {} /\ roster' = {}
        /\ answers' = NoAnswers
        /\ UNCHANGED <<phase, view, completing, in_flight, unread, woken, expired>>
    BY <1>11 DEF SuperviseHarvest, AtHarvest, storeVars
  <2> QED BY <1>0, <2>1 DEF ScanPart, ScanTypes, ScanInv, InSettle, range, NoAnswers
<1>12. CASE CompleteReview
  <2>1. /\ at = "children" /\ at' = "completed" /\ unread = {}
        /\ completing' = [by |-> Watch, branch |-> Main, range |-> range]
        /\ UNCHANGED <<phase, in_flight, roster, unread, answers, woken, expired>>
    BY <1>12 DEF CompleteReview, AtHarvest, Store!CompleteRecord, Store!stateVars, range
  <2>2. range \in Store!Range
    BY <1>0, <2>1, RangeTypes
  <2>3. completing' # None
    BY <2>1, <2>2, NoneAssumption
  <2> QED BY <1>0, <2>1, <2>3 DEF ScanPart, ScanTypes, ScanInv, InSettle
<1>13. CASE CompleteState
  <2>1. ScanLeaves /\ completing' = None /\ woken' \subseteq woken /\ expired' = FALSE
    BY <1>13 DEF CompleteState, Store!CompleteState
  <2> QED BY <1>t, <2>1, ScanLeavesStep
<1>14. CASE CancelList \/ \E name \in Names : KillListed(name)
  <2>1. /\ at \in {"cancel", "kill"} /\ at' = "kill" /\ roster' \subseteq Resident \cup roster
        /\ UNCHANGED <<phase, view, completing, in_flight, unread, answers, woken, expired>>
    BY <1>14 DEF CancelList, KillListed, storeVars
  <2>2. roster' \subseteq Names
    BY <1>0, <2>1 DEF Resident, Names, ScanTypes
  <2> QED BY <1>0, <2>1, <2>2 DEF ScanPart, ScanTypes, ScanInv, InSettle, range
<1>15. CASE Retry \/ Fail
  <2>1. ScanLeaves /\ completing' = None /\ woken' \subseteq woken /\ expired' = FALSE
    BY <1>15 DEF Retry, Fail, Store!RetryAttempt, Store!FailRange, Store!LockFree
  <2> QED BY <1>t, <2>1, ScanLeavesStep
<1>16. CASE BeginObserve \/ ObserveRefused \/ ObserveHead
  <2>1. at = "start" /\ UNCHANGED <<at, roster, unread, answers, completing, woken, expired>>
    BY <1>16 DEF BeginObserve, ObserveRefused, ObserveHead, Store!BeginObserve,
                 Store!RecordObservationFailure, Store!ClearObservationFailure
  <2> QED BY <1>0, <2>1 DEF ScanPart, ScanTypes, ScanInv, NoAnswers
<1>17. CASE AdmitHead
  <2>1. /\ at = "start" /\ at' = (IF in_flight' # in_flight THEN "wake" ELSE "start")
        /\ expired' \in {FALSE, expired}
        /\ UNCHANGED <<roster, unread, answers, completing, woken>>
    BY <1>17 DEF AdmitHead, Store!Admit
  <2>2. in_flight' # in_flight => in_flight'[Main] # None
    <3>1. in_flight' # in_flight =>
            /\ seen[Watch][Main] # None /\ Store!Admissible(Main, seen[Watch][Main])
            /\ in_flight' = [in_flight EXCEPT ![Main] =
                  [base |-> cursor[Main], head |-> seen[Watch][Main], attempts |-> 1]]
      BY <1>17 DEF AdmitHead, Store!Admit
    <3>2. in_flight' # in_flight =>
            [base |-> cursor[Main], head |-> seen[Watch][Main], attempts |-> 1] \in Store!Range
      BY <1>0, <3>1 DEF Store!Admissible, Store!TypeOK, Store!Range
    <3> QED BY <1>0, <3>1, <3>2, NoneAssumption DEF Store!TypeOK
  <2> QED BY <1>0, <1>t, <2>1, <2>2 DEF ScanPart, ScanTypes, ScanInv, NoAnswers
<1> QED
  BY <1>1, <1>2, <1>3, <1>4, <1>5, <1>6, <1>7, <1>8, <1>9, <1>10, <1>11, <1>12, <1>13, <1>14,
     <1>15, <1>16, <1>17 DEF Next, Scan

-----------------------------------------------------------------------------
(* The records' part.                                                      *)

\* A review fit to be the record of head h.
Sound(c, h) ==
  \E L \in SUBSET Layers :
    /\ c \in Reviews(L)
    /\ \A l \in L : c.layers[l].head = h

\* The review of the range a scan completes.
Reviewed ==
  [base |-> harvested.base, attempts |-> range.attempts,
   conclusion |-> harvested.conclusion, layers |-> harvested.layers]

\* What a completed harvest holds: one answer per dispatched layer, each of the
\* range's head although it may come from a reply or from the child itself.
LEMMA HarvestIsSound ==
  ASSUME Store!TypeOK, SessionPart, ScanPart, AtHarvest, H!Harvestable(summary), Complete
  PROVE  /\ Sound(Reviewed, range.head)
         /\ Reviewed.base = range.base /\ Reviewed.attempts = range.attempts
         /\ DOMAIN Reviewed.layers = H!Dispatched(summary)
<1> DEFINE s == summary
           L == H!Dispatched(s)
           first == CHOOSE l \in L : TRUE
           answer(l) == H!AnswerOf(s, answers, l)
<1>0. ScanInv /\ ScanTypes /\ s \in Summaries /\ TranscriptInv
  BY DEF SessionPart, ScanPart, Remembered
<1>1. at = "children" /\ range \in Store!Range
      /\ range.head \in Revisions /\ range.base \in Revisions /\ range.attempts \in Nat \ {0}
  BY <1>0, RangeTypes DEF AtHarvest
<1>2. harvested = [base            |-> s.calls[first].base,
                   head            |-> s.calls[first].head,
                   layers          |-> [l \in L \ harvested.missing_layers |-> answer(l)],
                   missing_layers  |-> {l \in L : answer(l) = None},
                   no_reply_layers |-> harvested.no_reply_layers,
                   conclusion      |-> s.synthesis]
  BY DEF harvested, H!Harvested
<1>3. /\ harvested.base = range.base /\ harvested.head = range.head
      /\ harvested.missing_layers = {}
  BY DEF Complete, OfRange
<1>4. harvested.layers = [l \in L |-> answer(l)] /\ harvested.conclusion = s.synthesis
  BY <1>2, <1>3
<1>5. \A l \in L : answer(l) # None
  BY <1>2, <1>3
<1>6. L \subseteq Layers /\ L # {} /\ s.synthesis # None
  BY DEF H!Harvestable, H!Dispatched
<1>7. \A l \in L : s.calls[l].head = range.head
  <2>1. first \in L
    BY <1>6
  <2>2. \A l \in L : s.calls[l] = s.calls[first]
    BY <2>1 DEF H!Harvestable, H!Agree
  <2>3. s.calls[first].head = range.head
    BY <1>2, <1>3
  <2> QED BY <2>2, <2>3
<1>8. \A l \in L : answer(l) \in Bodies /\ answer(l).head = range.head
  <2> SUFFICES ASSUME NEW l \in L PROVE answer(l) \in Bodies /\ answer(l).head = range.head
    OBVIOUS
  <2>1. l \in Layers /\ <<l, range.head>> \in Layers \X Revisions
    BY <1>1, <1>6
  <2>2. answer(l) = IF s.delivered[<<l, range.head>>] # None
                      THEN s.delivered[<<l, range.head>>] ELSE answers[l]
    BY <1>7 DEF H!AnswerOf
  <2>3. /\ s.delivered[<<l, range.head>>] \in Bodies \cup {None}
        /\ s.delivered[<<l, range.head>>] # None => s.delivered[<<l, range.head>>].head = range.head
    BY <1>0, <1>1, <2>1 DEF Summaries, TranscriptInv
  <2>4. answers[l] \in Bodies \cup {None} /\ (answers[l] # None => answers[l].head = range.head)
    BY <1>0, <1>1, <2>1 DEF ScanTypes, ScanInv
  <2>5. answer(l) # None
    BY <1>5
  <2> HIDE DEF answer
  <2> QED BY <2>2, <2>3, <2>4, <2>5
<1>9. s.synthesis \in Texts
  BY <1>0, <1>6 DEF Summaries
<1>10. L = H!Dispatched(summary)
  OBVIOUS
<1> HIDE DEF answer, L
<1>11. harvested.layers \in [L -> Bodies] /\ DOMAIN harvested.layers = L
  BY <1>4, <1>8
<1>12. Reviewed \in Reviews(L)
  BY <1>1, <1>3, <1>4, <1>9, <1>11 DEF Reviewed, Reviews
<1>13. \A l \in L : Reviewed.layers[l].head = range.head
  BY <1>4, <1>8 DEF Reviewed
<1>14. Sound(Reviewed, range.head)
  BY <1>6, <1>12, <1>13 DEF Sound
<1> QED BY <1>3, <1>10, <1>11, <1>14 DEF Reviewed

\* Only a completion writes a record file.
LEMMA RecordsQuiet ==
  ASSUME [Next]_vars, ~CompleteReview
  PROVE  UNCHANGED <<content, records>>
<1>1. CASE Commit \/ Enroll \/ ReEnroll \/ CreateConductor \/ Expire \/ UNCHANGED vars
  BY <1>1 DEF Commit, Enroll, ReEnroll, CreateConductor, Expire, vars, storeVars, Store!MoveTip,
              Store!SeedCursor
<1>2. CASE Conductor \/ ConductorFails \/ DaemonRestarts
             \/ \E l \in Layers, h \in Revisions : Reviewer(l, h)
  BY <1>2, SessionsLeaveScan DEF envUnchanged, storeVars
<1>3. CASE Unreachable \/ AwaitWoken \/ ReadFails \/ NotSettled \/ FinishScan \/ ObserverCrashes
           \/ Rewake \/ WakeAdmitted
  BY <1>3 DEF Unreachable, AwaitWoken, ReadFails, NotSettled, FinishScan, ObserverCrashes, Rewake,
              WakeAdmitted, EndScan, Store!EndScan
<1>4. CASE StartScan \/ TimedOut \/ ListSessions \/ ReadConductor \/ (\E l \in Layers : ReadChild(l))
           \/ SuperviseHarvest \/ CancelList \/ (\E name \in Names : KillListed(name))
  BY <1>4 DEF StartScan, TimedOut, ListSessions, ReadConductor, ReadChild, SuperviseHarvest,
              CancelList, KillListed, storeVars, Store!ReadState
<1>5. CASE CompleteState \/ Retry \/ Fail \/ BeginObserve \/ ObserveRefused \/ ObserveHead
           \/ AdmitHead
  BY <1>5 DEF CompleteState, Retry, Fail, BeginObserve, ObserveRefused, ObserveHead, AdmitHead,
              Store!CompleteState, Store!RetryAttempt, Store!FailRange, Store!BeginObserve,
              Store!RecordObservationFailure, Store!ClearObservationFailure, Store!Admit
<1> QED BY <1>1, <1>2, <1>3, <1>4, <1>5 DEF Next, Scan

\* A completion writes the store's part of the record and the observer's
\* together, and only where there is none.
LEMMA CompleteReviewWrites ==
  ASSUME Store!StoreInv, SessionPart, ScanPart, RecordPart, CompleteReview
  PROVE  /\ range \in Store!Range /\ range.head \in Revisions
         /\ Sound(Reviewed, range.head) /\ DOMAIN Reviewed.layers = H!Dispatched(summary)
         /\ \/ UNCHANGED <<content, records>>
            \/ /\ content[range.head] = None
               /\ content' = [content EXCEPT ![range.head] = Reviewed]
               /\ records' = [records EXCEPT ![<<Main, range.head>>] =
                                [branch |-> Main, base |-> Reviewed.base, head |-> range.head,
                                 attempts |-> Reviewed.attempts]]
<1>0. Store!TypeOK /\ ScanInv /\ ArchiveInv
  BY DEF Store!StoreInv, ScanPart, RecordPart
<1>1. at = "children" /\ AtHarvest /\ H!Harvestable(summary) /\ Complete
  BY DEF CompleteReview, AtHarvest
<1>2. range \in Store!Range /\ range.head \in Revisions
  BY <1>0, <1>1, RangeTypes
<1>3. /\ Sound(Reviewed, range.head)
      /\ Reviewed.base = range.base /\ Reviewed.attempts = range.attempts
      /\ DOMAIN Reviewed.layers = H!Dispatched(summary)
  BY <1>0, <1>1, HarvestIsSound
<1>4. Store!RecordPath(Main, range.head) = <<Main, range.head>>
  BY DEF Store!RecordPath
<1>5. records' = Store!WithRecord(Main, range)
  BY DEF CompleteReview, Store!CompleteRecord, range
<1>6. CASE records[<<Main, range.head>>] = None
  <2>1. content[range.head] = None
    BY <1>0, <1>2, <1>4, <1>6 DEF ArchiveInv
  <2>2. content' = [content EXCEPT ![range.head] = Reviewed]
    BY <1>4, <1>6 DEF CompleteReview, Reviewed
  <2>3. records' = [records EXCEPT ![<<Main, range.head>>] =
                      [branch |-> Main, base |-> range.base, head |-> range.head,
                       attempts |-> range.attempts]]
    BY <1>4, <1>5, <1>6 DEF Store!WithRecord
  <2> QED BY <1>2, <1>3, <2>1, <2>2, <2>3
<1>7. CASE records[<<Main, range.head>>] # None
  BY <1>2, <1>3, <1>4, <1>5, <1>7 DEF CompleteReview, Store!WithRecord
<1> QED BY <1>6, <1>7

\* A step leaves every review as it is, or writes one sound review where there
\* was none.
LEMMA ContentStep ==
  ASSUME Store!StoreInv, SessionPart, ScanPart, RecordPart, [Next]_vars
  PROVE  /\ content' = [h \in Revisions |-> content'[h]]
         /\ \A h \in Revisions : \/ content'[h] = content[h]
                                 \/ content[h] = None /\ Sound(content'[h], h)
<1>0. ContentTypes
  BY DEF RecordPart
<1>1. CASE UNCHANGED content
  BY <1>0, <1>1 DEF ContentTypes
<1>2. CASE CompleteReview
  <2>1. range.head \in Revisions /\ Sound(Reviewed, range.head)
    BY <1>2, CompleteReviewWrites
  <2>2. CASE content[range.head] = None /\ content' = [content EXCEPT ![range.head] = Reviewed]
    BY <1>0, <2>1, <2>2 DEF ContentTypes
  <2> QED BY <1>1, <1>2, <2>2, CompleteReviewWrites
<1> QED BY <1>1, <1>2, RecordsQuiet

\* A row of the transcript takes no dispatch back.
LEMMA RowKeepsDispatches ==
  ASSUME summary \in Summaries, NEW row,
         \/ row \in {H!Result, H!Wake, H!TurnError}
         \/ \E l \in Layers, h \in Revisions : row = H!NoReply(l, h)
         \/ \E l \in Layers, h \in Revisions : \E x : row = H!Reply(l, h, x)
         \/ \E t : row = H!Text(t)
         \/ \E l \in Layers, base, h \in Revisions : row = H!Call(l, base, h)
  PROVE  H!Dispatched(summary) \subseteq H!Dispatched(H!ScanRow(summary, row))
<1>1. CASE row \in {H!Result, H!Wake, H!TurnError}
  BY <1>1 DEF H!Result, H!Wake, H!TurnError, H!ScanRow, H!ScanCustom, H!Dispatched, Summaries
<1>2. CASE \/ \E l \in Layers, h \in Revisions : row = H!NoReply(l, h)
           \/ \E l \in Layers, h \in Revisions : \E x : row = H!Reply(l, h, x)
           \/ \E t : row = H!Text(t)
  BY <1>2 DEF H!NoReply, H!Reply, H!Text, H!ScanRow, H!ScanReply, H!ScanText, H!Dispatched, Summaries
<1>3. CASE \E l \in Layers, base, h \in Revisions : row = H!Call(l, base, h)
  <2>1. PICK l \in Layers, base \in Revisions, h \in Revisions : row = H!Call(l, base, h)
    BY <1>3
  <2>2. H!ScanRow(summary, row).calls = [summary.calls EXCEPT ![l] = [base |-> base, head |-> h]]
    BY <2>1 DEF H!Call, H!ScanRow, H!ScanCall, Summaries
  <2>3. [base |-> base, head |-> h] # None
    BY NoneAssumption
  <2> QED BY <2>2, <2>3 DEF H!Dispatched, Summaries
<1> QED BY <1>1, <1>2, <1>3

\* So a layer once dispatched stays dispatched, through kills, retries and
\* restarts: the conversation is one transcript for good.
LEMMA DispatchesStay ==
  ASSUME Store!StoreInv, SessionPart, ScanPart, [Next]_vars
  PROVE  H!Dispatched(summary) \subseteq H!Dispatched(summary')
<1>0. summary \in Summaries /\ SessionTypes
  BY DEF SessionPart, Remembered
<1>1. CASE UNCHANGED summary
  BY <1>1
<1>2. CASE summary' = H!ScanRow(summary, H!Wake)
  BY <1>0, <1>2, RowKeepsDispatches
<1>3. CASE Conductor \/ ConductorFails
  <2>1. ASSUME NEW l \in Layers, ConductorCalls(l)
        PROVE  \E base, h \in Revisions : summary' = H!ScanRow(summary, H!Call(l, base, h))
    <3>1. /\ asked \in Store!Range
          /\ summary' = H!ScanRow(summary, H!Call(l, asked.base, asked.head))
      BY <1>0, <2>1 DEF ConductorCalls, SessionTypes
    <3> QED BY <3>1 DEF Store!Range, Store!Revisions, Revisions
  <2>2. DispatchReview => summary' = H!ScanRow(summary, H!Result)
    BY DEF DispatchReview
  <2>3. ConductorWrites => \E t : summary' = H!ScanRow(summary, H!Text(t))
    BY DEF ConductorWrites
  <2>4. ConductorFails => summary' = H!ScanRow(summary, H!TurnError)
    BY DEF ConductorFails
  <2> QED BY <1>0, <1>3, <2>1, <2>2, <2>3, <2>4, RowKeepsDispatches DEF Conductor
<1>4. CASE \E l \in Layers, h \in Revisions : Reviewer(l, h)
  <2>1. PICK l \in Layers, h \in Revisions : Reviewer(l, h)
    BY <1>4
  <2>2. \/ summary' \in {summary, H!ScanRow(summary, H!Wake), H!ScanRow(summary, H!NoReply(l, h))}
        \/ \E x : summary' = H!ScanRow(summary, H!Reply(l, h, x))
    BY <2>1 DEF Reviewer, ReviewerRuns, ReviewerReplies, ReviewerSettlesUnheard, ReviewerDies,
                ReviewerLeaves
  <2> QED BY <1>0, <1>1, <2>2, RowKeepsDispatches
<1>5. CASE Rewake \/ WakeAdmitted
  BY <1>1, <1>2, <1>5 DEF Rewake, WakeAdmitted, Woken, WakeRefused, Delivered, sessionVars
<1>6. CASE Commit \/ Enroll \/ ReEnroll \/ CreateConductor \/ Expire \/ ObserverCrashes
           \/ DaemonRestarts \/ UNCHANGED vars
  BY <1>1, <1>6 DEF Commit, Enroll, ReEnroll, CreateConductor, Expire, ObserverCrashes,
                    DaemonRestarts, vars, sessionVars
<1>7. CASE StartScan \/ Unreachable \/ TimedOut \/ ListSessions \/ AwaitWoken \/ ReadConductor
           \/ (\E l \in Layers : ReadChild(l)) \/ ReadFails \/ NotSettled \/ SuperviseHarvest
           \/ CancelList \/ (\E name \in Names : KillListed(name))
  BY <1>1, <1>7 DEF StartScan, Unreachable, TimedOut, ListSessions, AwaitWoken, ReadConductor,
       ReadChild, ReadFails, NotSettled, SuperviseHarvest, CancelList, KillListed, sessionVars
<1>8. CASE CompleteReview \/ CompleteState \/ Retry \/ Fail \/ BeginObserve \/ ObserveRefused
           \/ ObserveHead \/ AdmitHead \/ FinishScan
  BY <1>1, <1>8 DEF CompleteReview, CompleteState, Retry, Fail, BeginObserve, ObserveRefused,
       ObserveHead, AdmitHead, FinishScan, sessionVars
<1> QED BY <1>3, <1>4, <1>5, <1>6, <1>7, <1>8 DEF Next, Scan

\* Every step keeps the records' part.
LEMMA RecordStep ==
  ASSUME Store!StoreInv, SessionPart, ScanPart, RecordPart, [Next]_vars
  PROVE  RecordPart'
<1>0. Store!TypeOK /\ ContentTypes /\ ArchiveInv
  BY DEF Store!StoreInv, RecordPart
<1>1. ContentTypes'
  BY <1>0, ContentStep DEF ContentTypes, Sound
<1>g. H!Dispatched(summary) \subseteq H!Dispatched(summary')
  BY DispatchesStay
<1>2. CASE UNCHANGED <<content, records>>
  <2>1. \A h \in Revisions : Store!RecordPath(Main, h)' = Store!RecordPath(Main, h)
    BY DEF Store!RecordPath
  <2> QED BY <1>0, <1>1, <1>g, <1>2, <2>1 DEF RecordPart, ArchiveInv
<1>3. CASE CompleteReview /\ ~UNCHANGED <<content, records>>
  <2> DEFINE new == [branch |-> Main, base |-> Reviewed.base, head |-> range.head,
                     attempts |-> Reviewed.attempts]
  <2>1. /\ range.head \in Revisions /\ Sound(Reviewed, range.head)
        /\ DOMAIN Reviewed.layers = H!Dispatched(summary)
        /\ content' = [content EXCEPT ![range.head] = Reviewed]
        /\ records' = [records EXCEPT ![<<Main, range.head>>] = new]
    BY <1>3, CompleteReviewWrites
  <2>2. \E L \in SUBSET Layers : Reviewed \in Reviews(L)
    BY <2>1 DEF Sound
  <2>3. Reviewed # None /\ Reviewed.base \in Revisions /\ Reviewed.attempts \in Nat \ {0}
    BY <2>2, NoneAssumption DEF Reviews
  <2>4. new # None
    <3>1. new \in Store!Record
      BY <2>1, <2>3 DEF Store!Record, Store!Revisions, Revisions
    <3> QED BY <3>1, NoneAssumption
  <2>5. \A h \in Revisions :
          /\ content'[h] = IF h = range.head THEN Reviewed ELSE content[h]
          /\ records'[<<Main, h>>] = IF h = range.head THEN new ELSE records[<<Main, h>>]
    <3> HIDE DEF new
    <3> TAKE h \in Revisions
    <3>1. content'[h] = IF h = range.head THEN Reviewed ELSE content[h]
      BY <1>0, <2>1 DEF ContentTypes
    <3>2. <<Main, h>> \in DOMAIN records
      BY <1>0 DEF Store!TypeOK, Store!Revisions, Revisions
    <3>3. <<Main, h>> = <<Main, range.head>> <=> h = range.head
      OBVIOUS
    <3>4. records'[<<Main, h>>] = IF h = range.head THEN new ELSE records[<<Main, h>>]
      BY <2>1, <3>2, <3>3
    <3> QED BY <3>1, <3>4
  <2>6. new.base = Reviewed.base /\ new.attempts = Reviewed.attempts
    OBVIOUS
  <2> HIDE DEF new
  <2>7. ArchiveInv'
    BY <1>0, <1>g, <2>1, <2>3, <2>4, <2>5, <2>6 DEF ArchiveInv, Store!RecordPath
  <2> QED BY <1>1, <2>7 DEF RecordPart
<1> QED BY <1>2, <1>3, RecordsQuiet

-----------------------------------------------------------------------------
(* The theorems.                                                           *)

\* Every fault is counted, up to the bound.
LEMMA FaultStep ==
  ASSUME faults \in 0 .. MaxFaults, [Next]_vars PROVE faults' \in 0 .. MaxFaults
<1>1. Fault => faults' \in 0 .. MaxFaults
  BY BoundsAssumption DEF Fault
<1>2. NoFault => faults' \in 0 .. MaxFaults
  BY DEF NoFault
<1>3. faults' = faults \/ Fault \/ NoFault
  <2>1. CASE Commit \/ Enroll \/ ReEnroll \/ CreateConductor \/ Expire \/ ObserverCrashes
             \/ UNCHANGED vars
    BY <2>1 DEF Commit, Enroll, ReEnroll, CreateConductor, Expire, ObserverCrashes, vars
  <2>2. CASE Scan
    BY <2>2 DEF Scan, StartScan, Unreachable, TimedOut, ListSessions, Rewake, AwaitWoken,
                ReadConductor, ReadChild, ReadFails, NotSettled, SuperviseHarvest, CompleteReview,
                CompleteState, CancelList, KillListed, Retry, Fail, BeginObserve, ObserveRefused,
                ObserveHead, AdmitHead, WakeAdmitted, FinishScan, Woken, WakeRefused
  <2>3. CASE Conductor \/ ConductorFails \/ DaemonRestarts
               \/ \E l \in Layers, h \in Revisions : Reviewer(l, h)
    BY <2>3 DEF Conductor, ConductorCalls, DispatchReview, ConductorWrites, ConductorFails,
                DaemonRestarts, Reviewer, ReviewerRuns, ReviewerReplies, ReviewerSettlesUnheard,
                ReviewerDies, ReviewerLeaves
  <2> QED BY <2>1, <2>2, <2>3 DEF Next
<1> QED BY <1>1, <1>2, <1>3

\* The invariant holds before enrollment.
LEMMA ObserverInit == Init => ObserverInv
<1> SUFFICES ASSUME Init PROVE ObserverInv
  OBVIOUS
<1>1. Store!TypeOK
  BY DEF Init, Store!Init, Store!TypeOK
<1>2. /\ in_flight[Main] = None /\ cursor[Main] = None /\ completing = None
      /\ \A h \in Revisions : records[Store!RecordPath(Main, h)] = None
  BY DEF Init, Store!Init, Store!RecordPath, Store!Revisions, Revisions
<1>3. summary \in Summaries /\ TranscriptInv
  <2>1. summary = H!EmptySummary
    BY DEF Init
  <2>2. summary \in Summaries
    BY <2>1 DEF H!EmptySummary, Summaries
  <2>3. /\ \A l \in Layers, h \in Revisions : summary.delivered[<<l, h>>] = None
        /\ summary.synthesis = None /\ sent = {}
    BY <2>1 DEF H!EmptySummary, Init
  <2> QED BY <2>2, <2>3 DEF TranscriptInv
<1>4. SessionPart
  BY <1>2, <1>3 DEF Init, SessionPart, SessionTypes, SessionInv, Remembered, NoChild, ChildStates
<1>5. ScanPart
  BY <1>2 DEF Init, ScanPart, ScanTypes, ScanInv, NoAnswers
<1>6. RecordPart
  BY <1>2 DEF Init, RecordPart, ContentTypes, ArchiveInv
<1>7. faults \in 0 .. MaxFaults
  BY BoundsAssumption DEF Init
<1> QED BY <1>1, <1>4, <1>5, <1>6, <1>7, Parts

\* Every step keeps the invariant, given the store's before and after it.
LEMMA ObserverStep ==
  ObserverInv /\ Store!StoreInv /\ Store!StoreInv' /\ [Next]_vars => ObserverInv'
<1> SUFFICES ASSUME ObserverInv, Store!StoreInv, Store!StoreInv', [Next]_vars
             PROVE  ObserverInv'
  OBVIOUS
<1>1. SessionPart /\ ScanPart /\ RecordPart /\ faults \in 0 .. MaxFaults
  BY Parts
<1>2. SessionPart' /\ ScanPart' /\ RecordPart' /\ faults' \in 0 .. MaxFaults
  BY <1>1, SessionStep, ScanStep, RecordStep, FaultStep
<1>3. Store!TypeOK'
  BY DEF Store!StoreInv
<1> QED
  BY <1>2, <1>3 DEF ObserverInv, TypeOK, SessionPart, SessionTypes, Remembered, ScanPart,
                    ScanTypes, RecordPart, ContentTypes

\* The observer's invariant: however the conductor, the reviewers, restarts of
\* the daemon and crashes of the observer interleave with the awaits of a scan,
\* the two parts of a record are of one completion, the lock is held exactly
\* between the two writes, and what a scan has read is of the range it settles.
THEOREM ObserverInvariant == Spec => []ObserverInv
  BY ObserverInit, ObserverStep, ObserverStoreInvariant, PTL DEF Spec

\* Every record on disk is sound.
RecordsSound == \A h \in Revisions : content[h] # None => Sound(content[h], h)

\* No step makes a record unsound.
LEMMA RecordsSoundStep ==
  ObserverInv /\ Store!StoreInv /\ RecordsSound /\ [Next]_vars => RecordsSound'
<1> SUFFICES ASSUME ObserverInv, Store!StoreInv, RecordsSound, [Next]_vars,
                    NEW h \in Revisions, content'[h] # None
             PROVE  Sound(content'[h], h)
  BY DEF RecordsSound, Sound, Reviews, Bodies, Texts, Revisions
<1>1. content'[h] = content[h] \/ Sound(content'[h], h)
  BY Parts, ContentStep
<1> QED BY <1>1 DEF RecordsSound

\* A record's reviews answer its own head.
LEMMA ObserverRecordsSound == Spec => []RecordsSound
<1>1. Init => RecordsSound
  BY DEF Init, RecordsSound
<1> QED
  BY <1>1, RecordsSoundStep, ObserverInvariant, ObserverStoreInvariant, PTL DEF Spec

\* What a sound record says of its layers.
LEMMA SoundRecords ==
  ASSUME RecordsSound PROVE RecordAnswersItsRange
<1> SUFFICES ASSUME NEW h \in Kept
             PROVE  \A l \in DOMAIN content[h].layers : content[h].layers[l].head = h
  BY DEF RecordAnswersItsRange
<1>1. h \in Revisions /\ Sound(content[h], h)
  BY DEF Kept, RecordsSound
<1>2. PICK L \in SUBSET Layers :
        content[h] \in Reviews(L) /\ \A l \in L : content[h].layers[l].head = h
  BY <1>1 DEF Sound
<1>3. DOMAIN content[h].layers = L
  BY <1>2 DEF Reviews
<1> QED BY <1>2, <1>3

\* Every answer in a record reviews the record's own head: neither a reply an
\* earlier range left in the conductor's one transcript nor a child of another
\* head is ever taken for it.
THEOREM ObserverRecordAnswersItsRange == Spec => []RecordAnswersItsRange
  BY SoundRecords, ObserverRecordsSound, PTL

\* Whatever the conductor leaves undispatched, a layer that one record of the
\* conversation has is in every later one.
THEOREM ObserverLayersNeverDropOut == Spec => LayersNeverDropOut
<1> DEFINE Grows == \A g \in Kept, h \in Kept' :
              h \notin Kept => DOMAIN content[g].layers \subseteq DOMAIN content'[h].layers
<1>1. ObserverInv /\ Store!StoreInv /\ [Next]_vars => [Grows]_vars
  <2> SUFFICES ASSUME ObserverInv, Store!StoreInv, [Next]_vars,
                      NEW g \in Kept, NEW h \in Kept', h \notin Kept
               PROVE  DOMAIN content[g].layers \subseteq DOMAIN content'[h].layers
    OBVIOUS
  <2>0. SessionPart /\ ScanPart /\ RecordPart /\ ContentTypes /\ ArchiveInv
    BY Parts DEF RecordPart
  <2>1. /\ g \in Revisions /\ content[g] # None
        /\ h \in Revisions /\ content[h] = None /\ content'[h] # None
    BY DEF Kept, Revisions
  <2>2. DOMAIN content[g].layers \subseteq H!Dispatched(summary)
    BY <2>0, <2>1 DEF ArchiveInv
  <2>3. CompleteReview
    BY <2>1, RecordsQuiet
  <2>4. /\ range.head \in Revisions /\ content' = [content EXCEPT ![range.head] = Reviewed]
        /\ DOMAIN Reviewed.layers = H!Dispatched(summary)
    BY <2>0, <2>1, <2>3, CompleteReviewWrites
  <2>5. content'[h] = Reviewed
    BY <2>0, <2>1, <2>4 DEF ContentTypes
  <2> QED BY <2>2, <2>4, <2>5
<1> QED BY <1>1, ObserverInvariant, ObserverStoreInvariant, PTL DEF Spec, LayersNeverDropOut
=============================================================================
