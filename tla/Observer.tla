------------------------------ MODULE Observer ------------------------------
(***************************************************************************)
(* The watch service (big_brother/observer.rs) against the daemon's        *)
(* sessions: one repository, one tracked branch, one observer process.     *)
(* The store is ReviewStore, its operations taken as they are; the         *)
(* conductor's transcript is kept as the summary Harvest reads it by.      *)
(*                                                                         *)
(* A scan is one step per await: reading the state, listing the sessions,  *)
(* reading the conductor, reading each child, re-reading the conductor and *)
(* deciding, killing, writing.  Between any two of them the conductor and  *)
(* the reviewers run on, the attempt's budget expires, the daemon restarts *)
(* or the observer dies.                                                   *)
(*                                                                         *)
(* The sessions are the environment: what the models behind them write is  *)
(* free, within what the session runtime lets them do.                     *)
(***************************************************************************)
EXTENDS Naturals, FiniteSets

CONSTANTS
  Layers,       \* the profile's review layers
  LastRevision, \* bound: revisions are 0..LastRevision
  MaxAttempts,  \* the profile's attempt ceiling
  MaxFaults,    \* bound: refused calls, turn errors, restarts and crashes
  Obedient,     \* the conductor dispatches every layer anew before it ends a turn
  Budgeted,     \* an attempt's time budget can expire
  None

Main == "main"
Watch == "watch"

VARIABLES
  tip, seed, cursor, in_flight, last_failure, refused, records, completing,
  phase, view, todo, seen, \* the store and the scan, see ReviewStore
  at,         \* the scan's next await within the phase
  roster,     \* the names of the scan's last list; in a cancel, those left to kill
  unread,     \* layers whose resident child the scan has still to read
  answers,    \* the answers collected from the children
  woken,      \* heads this observer process has issued a wake for
  expired,    \* the current attempt's budget is spent
  enrolling,  \* init is between seeding the cursor and creating the conductor
  conductor,  \* the conductor's session: not created, saved, idle, or in a turn
  asked,      \* the range and attempt of the last wake it received
  sent,       \* layers it has dispatched since
  calling,    \* the dispatch call that has no result yet: layer and range
  summary,    \* its transcript
  child,      \* the reviewer session of each layer and head
  content,    \* what the record file of each head holds
  faults      \* faults so far

Revisions == 0 .. LastRevision

Store == INSTANCE ReviewStore
  WITH Branches <- {Main}, Dirs <- {Main}, Dir <- [b \in {Main} |-> Main],
       Observers <- {Watch}

H == INSTANCE Harvest WITH Heads <- Revisions, Absent <- None

storeVars == <<tip, seed, cursor, in_flight, last_failure, refused, records, completing>>
scanVars == <<phase, view, todo, seen, at, roster, unread, answers>>
sessionVars == <<enrolling, conductor, asked, sent, calling, summary, child>>
vars == <<storeVars, scanVars, woken, expired, sessionVars, content, faults>>

NoAnswers == [l \in Layers |-> None]
NoChild == [state |-> "none", attempt |-> 0, told |-> FALSE]

\* The in-flight range of this scan's snapshot.
range == view[Watch][Main]

\* A session's name: the conductor's, or <layer>-<head>.
ConductorName == <<"conductor", 0>>
Names == (Layers \X Revisions) \cup {ConductorName}

\* The conductor's session is resident.
Live == conductor \in {"idle", "busy"}

\* The sessions the daemon lists.
Resident ==
  {name \in Layers \X Revisions : child[name].state # "none"}
  \cup (IF Live THEN {ConductorName} ELSE {})

Body(kind, l, h) == [kind |-> kind, head |-> h, attempt |-> child[<<l, h>>].attempt]

Bodies == [kind : {"report", "runtime", "narration"}, head : Revisions, attempt : Nat]
Texts == [kind : {"awaiting", "synthesis"}]
ChildStates == {"none", "queued", "running", "narrating", "report", "runtime", "silent"}

\* What the harvest remembers of the conductor's transcript (see Harvest).
Summaries ==
  [calls       : [Layers -> [base : Revisions, head : Revisions] \cup {None}],
   delivered   : [Layers \X Revisions -> Bodies \cup {None}],
   no_reply    : SUBSET (Layers \X Revisions),
   seen_result : BOOLEAN,
   synthesis   : Texts \cup {None},
   malformed   : BOOLEAN,
   failed      : BOOLEAN]

\* What the observer writes into a record file, with the answers of the layers L.
Reviews(L) ==
  [base : Revisions, attempts : Nat \ {0}, conclusion : Texts, layers : [L -> Bodies]]

Calls == [layer : Layers, range : Store!Range]

ASSUME BoundsAssumption ==
  LastRevision \in Nat /\ MaxAttempts \in Nat \ {0} /\ MaxFaults \in Nat

ASSUME NoneAssumption ==
  /\ None \notin Revisions /\ None \notin Store!Range /\ None \notin Store!Record
  /\ None \notin [by : {Watch}, branch : {Main}, range : Store!Range]
  /\ None \notin [base : Revisions, head : Revisions]
  /\ None \notin Bodies /\ None \notin Texts /\ None \notin Calls
  /\ \A L \in SUBSET Layers : None \notin Reviews(L)

TypeOK ==
  /\ Store!TypeOK
  /\ at \in {"start", "listed", "children", "cancel", "kill", "completed", "wake"}
  /\ roster \subseteq Names
  /\ unread \subseteq Layers
  /\ answers \in [Layers -> Bodies \cup {None}]
  /\ woken \subseteq Revisions
  /\ expired \in BOOLEAN
  /\ enrolling \in BOOLEAN
  /\ conductor \in {"none", "absent", "idle", "busy"}
  /\ asked \in Store!Range \cup {None}
  /\ sent \subseteq Layers
  /\ calling \in Calls \cup {None}
  /\ summary \in Summaries
  /\ child \in [Layers \X Revisions -> [state : ChildStates, attempt : Nat, told : BOOLEAN]]
  /\ content = [h \in Revisions |-> content[h]]
  /\ \A h \in Revisions :
       content[h] = None \/ \E L \in SUBSET Layers : content[h] \in Reviews(L)
  /\ faults \in 0 .. MaxFaults

Init ==
  /\ Store!Init
  /\ tip[Main] = 0
  /\ at = "start" /\ roster = {} /\ unread = {} /\ answers = NoAnswers
  /\ woken = {} /\ expired = FALSE
  /\ enrolling = FALSE /\ conductor = "none" /\ asked = None /\ sent = {} /\ calling = None
  /\ summary = H!EmptySummary
  /\ child = [c \in Layers \X Revisions |-> NoChild]
  /\ content = [h \in Revisions |-> None]
  /\ faults = 0

-----------------------------------------------------------------------------
(* The environment: git, enrollment, time, and the sessions.               *)

Fault == faults < MaxFaults /\ faults' = faults + 1
NoFault == faults' = faults

\* The tracked branch fast-forwards (ADR 0031).
Commit ==
  /\ Store!MoveTip(Main)
  /\ tip'[Main] = tip[Main] + 1
  /\ UNCHANGED <<at, roster, unread, answers, woken, expired, sessionVars, content, faults>>

\* run_init up to the baseline.
Enroll ==
  /\ Store!SeedCursor(Main)
  /\ enrolling' = TRUE
  /\ UNCHANGED <<at, roster, unread, answers, woken, expired, conductor, asked, sent, calling, summary,
                 child, content, faults>>

\* run_init again, after one that got no conductor: the same baseline is
\* accepted while the branch has not moved on and nothing is in review.
ReEnroll ==
  /\ ~enrolling /\ conductor = "none"
  /\ cursor[Main] = tip[Main] /\ in_flight[Main] = None
  /\ enrolling' = TRUE
  /\ UNCHANGED <<storeVars, scanVars, woken, expired, conductor, asked, sent, calling, summary, child,
                 content, faults>>

\* The rest of run_init: the conductor is created, unless the daemon refuses.
CreateConductor ==
  /\ enrolling
  /\ enrolling' = FALSE
  /\ \/ conductor' = "idle" /\ NoFault
     \/ UNCHANGED conductor /\ Fault
  /\ UNCHANGED <<storeVars, scanVars, woken, expired, asked, sent, calling, summary, child, content>>

\* The attempt's time budget runs out (attempt_expired).
Expire ==
  /\ Budgeted
  /\ in_flight[Main] # None
  /\ ~expired
  /\ expired' = TRUE
  /\ UNCHANGED <<storeVars, scanVars, woken, sessionVars, content, faults>>

envUnchanged == <<storeVars, scanVars, woken, expired, enrolling, content>>

\* The conductor calls dispatch_review for the range it was asked to review,
\* again for a layer whose reviewer is gone without a reply.
ConductorCalls(l) ==
  /\ conductor = "busy" /\ calling = None /\ asked # None
  /\ \/ l \notin sent
     \/ child[<<l, asked.head>>].state = "none" /\ summary.delivered[<<l, asked.head>>] = None
  /\ summary' = H!ScanRow(summary, H!Call(l, asked.base, asked.head))
  /\ calling' = [layer |-> l, range |-> asked]
  /\ sent' = sent \cup {l}
  /\ NoFault
  /\ UNCHANGED <<envUnchanged, conductor, asked, child>>

Settled == {"report", "runtime", "silent"}

\* dispatch_review's result: the reviewer is spawned under <layer>-<head>.  A
\* running child of that name refuses it; a settled one is retired, and while
\* its session is still listed the name may go on finding it.
DispatchReview ==
  /\ conductor = "busy" /\ calling # None
  /\ summary' = H!ScanRow(summary, H!Result)
  /\ LET name == <<calling.layer, calling.range.head>>
         fresh == [child EXCEPT ![name] = [state |-> "queued", told |-> FALSE,
                                           attempt |-> calling.range.attempts]]
     IN \/ child[name].state \in Settled \cup {"none"} /\ child' = fresh
        \/ child[name].state # "none" /\ child' = child
  /\ calling' = None
  /\ NoFault
  /\ UNCHANGED <<envUnchanged, conductor, asked, sent>>

\* Every layer's reply for the asked range is in the transcript.
AllReplied == \A l \in Layers : l \in sent /\ summary.delivered[<<l, asked.head>>] # None

\* The conductor ends its turn with a text: the synthesis once every layer has
\* replied, until then a note that it awaits the reviewers.
ConductorWrites ==
  /\ conductor = "busy" /\ calling = None /\ asked # None
  /\ Obedient => sent = Layers
  /\ summary' = H!ScanRow(summary, H!Text([kind |-> IF AllReplied THEN "synthesis" ELSE "awaiting"]))
  /\ conductor' = "idle"
  /\ NoFault
  /\ UNCHANGED <<envUnchanged, asked, sent, calling, child>>

\* The turn dies on a provider error.
ConductorFails ==
  /\ conductor = "busy" /\ calling = None
  /\ summary' = H!ScanRow(summary, H!TurnError)
  /\ conductor' = "idle"
  /\ Fault
  /\ UNCHANGED <<envUnchanged, asked, sent, calling, child>>

\* A reviewer's turn: it starts after the conductor's turn settles, may write
\* on the way to its report, and settles with a report, a report that its
\* runtime does not start, or an error without text.
ReviewerRuns(l, h) ==
  LET c == child[<<l, h>>]
      Goes(s) == child' = [child EXCEPT ![<<l, h>>].state = s]
  IN /\ \/ c.state = "queued" /\ conductor = "idle" /\ Goes("running") /\ NoFault
        \/ c.state = "running" /\ Goes("narrating") /\ NoFault
        \/ c.state \in {"running", "narrating"} /\ Goes("report") /\ NoFault
        \/ c.state \in {"running", "narrating"} /\ Goes("runtime") /\ Fault
        \/ c.state \in {"running", "narrating"} /\ Goes("silent") /\ Fault
     /\ UNCHANGED <<envUnchanged, conductor, asked, sent, calling, summary>>

\* A settled reviewer sends its report to the conductor, waking it if it is
\* not resident (messaging.rs, handle_send_message).
ReviewerReplies(l, h) ==
  /\ child[<<l, h>>].state \in {"report", "runtime"} /\ ~child[<<l, h>>].told
  /\ calling = None
  /\ summary' = H!ScanRow(summary, H!Reply(l, h, Body(child[<<l, h>>].state, l, h)))
  /\ child' = [child EXCEPT ![<<l, h>>].told = TRUE]
  /\ conductor' = "busy"
  /\ NoFault
  /\ UNCHANGED <<envUnchanged, asked, sent, calling>>

\* The conductor's worker watches its children (rlm_children/lifecycle.rs).  A
\* child that settles without having replied is reported by a no-reply notice,
\* and stays resident with what it wrote.
ReviewerSettlesUnheard(l, h) ==
  /\ child[<<l, h>>].state \in Settled /\ ~child[<<l, h>>].told
  /\ Live /\ calling = None
  /\ summary' = H!ScanRow(summary, H!NoReply(l, h))
  /\ child' = [child EXCEPT ![<<l, h>>].told = TRUE]
  /\ conductor' = "busy"
  /\ IF child[<<l, h>>].state = "silent" THEN NoFault ELSE Fault
  /\ UNCHANGED <<envUnchanged, asked, sent, calling>>

\* A child whose worker dies at work is reported by a failure row, which is
\* not a no-reply notice.
ReviewerDies(l, h) ==
  /\ child[<<l, h>>].state \in ChildStates \ (Settled \cup {"none"})
  /\ calling = None
  /\ summary' = IF Live THEN H!ScanRow(summary, H!Wake) ELSE summary
  /\ conductor' = IF Live THEN "busy" ELSE conductor
  /\ child' = [child EXCEPT ![<<l, h>>] = NoChild]
  /\ Fault
  /\ UNCHANGED <<envUnchanged, asked, sent, calling>>

\* An idle reviewer that has reported leaves the roster.
ReviewerLeaves(l, h) ==
  /\ child[<<l, h>>].told
  /\ child' = [child EXCEPT ![<<l, h>>] = NoChild]
  /\ NoFault
  /\ UNCHANGED <<envUnchanged, conductor, asked, sent, calling, summary>>

\* The daemon restarts: no session is resident, in-memory children are gone;
\* the conductor's transcript is on disk.
DaemonRestarts ==
  /\ Resident # {}
  /\ conductor' = (IF Live THEN "absent" ELSE conductor) /\ calling' = None
  /\ child' = [c \in Layers \X Revisions |-> NoChild]
  /\ Fault
  /\ UNCHANGED <<envUnchanged, asked, sent, summary>>

-----------------------------------------------------------------------------
(* The scan *)

ScanLeaves == at' = "start" /\ roster' = {} /\ unread' = {} /\ answers' = NoAnswers

\* The scan ends here, to be taken up again at the next interval.
EndScan == Store!EndScan(Watch) /\ ScanLeaves

\* The lock-free read of state.json; the attempt's budget is checked next.
StartScan ==
  /\ Store!ReadState(Watch)
  /\ ScanLeaves
  /\ UNCHANGED <<woken, expired, sessionVars, content, faults>>

InSettle == phase[Watch] = "settle" /\ range # None

\* The daemon does not answer: no client for this scan, or no list.
Unreachable ==
  /\ InSettle /\ at = "start"
  /\ EndScan
  /\ Fault
  /\ UNCHANGED <<woken, expired, sessionVars, content>>

\* Mutant: the budget is looked at for a resident conductor only.
TimedOutResident ==
  /\ InSettle /\ at = "start" /\ expired
  /\ IF Live
       THEN at' = "cancel" /\ UNCHANGED <<storeVars, phase, view, todo, seen, roster, unread, answers>>
       ELSE EndScan
  /\ UNCHANGED <<woken, expired, sessionVars, content, faults>>

\* The budget is spent: the attempt is supervised, whatever it has answered.
TimedOut ==
  /\ InSettle /\ at = "start" /\ expired
  /\ at' = "cancel"
  /\ UNCHANGED <<storeVars, phase, view, todo, seen, roster, unread, answers, woken, expired,
                 sessionVars, content, faults>>

\* list_sessions: one roster for the whole attempt to complete.
ListSessions ==
  /\ InSettle /\ at = "start" /\ ~expired
  /\ at' = "listed" /\ roster' = Resident
  /\ UNCHANGED <<storeVars, phase, view, todo, seen, unread, answers, woken, expired,
                 sessionVars, content, faults>>

\* The wake message becomes a row of the conductor's transcript and starts a
\* turn, in the resident session or in one launched from disk.
Delivered(r) ==
  /\ conductor' = "busy"
  /\ asked' = r /\ sent' = {}
  /\ summary' = H!ScanRow(summary, H!Wake)
  /\ UNCHANGED <<enrolling, calling, child>>

\* wake_conductor succeeds.
Woken(r) == conductor # "none" /\ Delivered(r) /\ NoFault

\* wake_conductor fails: there is no such session, or the daemon refuses, or
\* the launch outlives its budget and leaves a session nobody has messaged, or
\* only the answer is lost.
WakeRefused(r) ==
  \/ conductor = "none" /\ NoFault /\ UNCHANGED sessionVars
  \/ /\ conductor # "none" /\ Fault
     /\ \/ UNCHANGED sessionVars
        \/ /\ conductor = "absent" /\ conductor' = "idle"
           /\ UNCHANGED <<enrolling, asked, sent, calling, summary, child>>
        \/ Delivered(r)

\* The conductor is not resident: the attempt's wake is issued, once.  A
\* refused wake gives the quota back.
Rewake ==
  /\ at = "listed" /\ ConductorName \notin roster
  /\ range.head \notin woken
  /\ \/ Woken(range) /\ woken' = woken \cup {range.head}
     \/ WakeRefused(range) /\ UNCHANGED woken
  /\ EndScan
  /\ UNCHANGED <<expired, content>>

AwaitWoken ==
  /\ at = "listed" /\ ConductorName \notin roster
  /\ range.head \in woken
  /\ EndScan
  /\ UNCHANGED <<woken, expired, sessionVars, content, faults>>

\* The conductor's transcript: a turn that died before any dispatch fails the
\* attempt at once.  A session that left since the list ends the scan.
ReadConductor ==
  /\ at = "listed" /\ ConductorName \in roster
  /\ Live
  /\ IF H!TurnDead(summary)
       THEN at' = "cancel" /\ UNCHANGED unread
       ELSE /\ at' = "children"
            /\ unread' = {l \in Layers : <<l, range.head>> \in roster}
  /\ UNCHANGED <<storeVars, phase, view, todo, seen, roster, answers, woken, expired,
                 sessionVars, content, faults>>

\* last_assistant_text of one resident child, settled or not.
ReadChild(l) ==
  LET c == child[<<l, range.head>>]
      kind == IF c.state = "narrating" THEN "narration" ELSE c.state
  IN /\ at = "children" /\ l \in unread
     /\ c.state # "none"
     /\ unread' = unread \ {l}
     /\ answers' = [answers EXCEPT ![l] = IF c.state \in {"narrating", "report", "runtime"}
                                            THEN Body(kind, l, range.head)
                                            ELSE None]
     /\ UNCHANGED <<storeVars, phase, view, todo, seen, at, roster, woken, expired,
                    sessionVars, content, faults>>

\* A session of the list is gone when its messages are asked for.
ReadFails ==
  /\ \/ at = "listed" /\ ConductorName \in roster /\ ~Live
     \/ at = "children" /\ \E l \in unread : child[<<l, range.head>>].state = "none"
     \/ at = "children" /\ unread = {} /\ ~Live
  /\ EndScan
  /\ UNCHANGED <<woken, expired, sessionVars, content, faults>>

AtHarvest == at = "children" /\ unread = {} /\ Live

harvested == H!Harvested(summary, answers)

\* The harvest is of the range in flight.
OfRange == harvested.base = range.base /\ harvested.head = range.head

RuntimeMissing ==
  \E l \in DOMAIN harvested.layers : harvested.layers[l].kind = "runtime"

\* Missing layers with a no-reply notice whose child is no longer listed.
ConfirmedNoReply ==
  {l \in harvested.no_reply_layers : <<l, range.head>> \notin roster}

\* Why a harvested attempt is given up.
AttemptDead == RuntimeMissing \/ ConfirmedNoReply # {}

\* Mutant: a record is taken although a layer's answer is missing.
CompleteAlthoughMissing == OfRange /\ ~RuntimeMissing

\* The harvest yields a record.
Complete == OfRange /\ ~RuntimeMissing /\ harvested.missing_layers = {}

\* The conversation has not settled, or reviews another range: the next scan
\* looks again.
NotSettled ==
  /\ AtHarvest
  /\ H!Harvestable(summary) => ~Complete /\ ~(OfRange /\ AttemptDead)
  /\ EndScan
  /\ UNCHANGED <<woken, expired, sessionVars, content, faults>>

\* A reviewer's runtime did not start, or one is gone without a reply: the
\* attempt is supervised, and what was read for it is dropped.
SuperviseHarvest ==
  /\ AtHarvest /\ H!Harvestable(summary)
  /\ OfRange /\ AttemptDead
  /\ at' = "cancel" /\ roster' = {} /\ answers' = NoAnswers
  /\ UNCHANGED <<storeVars, phase, view, todo, seen, unread, woken, expired, sessionVars,
                 content, faults>>

\* Mutant: the review of a later attempt replaces the record's.
CompleteReviewReplaces ==
  /\ AtHarvest /\ H!Harvestable(summary)
  /\ Complete
  /\ Store!CompleteRecord(Watch, Main)
  /\ content' = [content EXCEPT ![range.head] =
                   [base |-> harvested.base, attempts |-> range.attempts,
                    conclusion |-> harvested.conclusion, layers |-> harvested.layers]]
  /\ at' = "completed"
  /\ UNCHANGED <<roster, unread, answers, woken, expired, sessionVars, faults>>

\* store.complete, first write.
CompleteReview ==
  /\ AtHarvest /\ H!Harvestable(summary)
  /\ Complete
  /\ Store!CompleteRecord(Watch, Main)
  /\ content' = IF records[Store!RecordPath(Main, range.head)] = None
                  THEN [content EXCEPT ![range.head] =
                          [base |-> harvested.base, attempts |-> range.attempts,
                           conclusion |-> harvested.conclusion, layers |-> harvested.layers]]
                  ELSE content
  /\ at' = "completed"
  /\ UNCHANGED <<roster, unread, answers, woken, expired, sessionVars, faults>>

\* store.complete, second write; the wake quota is dropped with the range.
CompleteState ==
  /\ at = "completed"
  /\ Store!CompleteState(Watch)
  /\ woken' = woken \ {completing.range.head}
  /\ expired' = FALSE
  /\ ScanLeaves
  /\ UNCHANGED <<sessionVars, content, faults>>

\* cancel_attempt, its list: the conductor and the layers' children of the
\* range's head.  A list that fails leaves them all.
CancelList ==
  /\ at = "cancel"
  /\ at' = "kill"
  /\ \/ /\ roster' = {name \in Resident : name = ConductorName \/ name[2] = range.head}
        /\ NoFault
     \/ roster' = {} /\ Fault
  /\ UNCHANGED <<storeVars, phase, view, todo, seen, unread, answers, woken, expired,
                 sessionVars, content>>

\* One kill of cancel_attempt, the conductor's before the others.  One that
\* fails is passed over, and so is a session that has gone since the list.
KillListed(name) ==
  /\ at = "kill" /\ name \in roster
  /\ name = ConductorName \/ ConductorName \notin roster
  /\ roster' = roster \ {name}
  /\ \/ /\ conductor' = IF name = ConductorName /\ Live THEN "absent" ELSE conductor
        /\ calling' = IF name = ConductorName THEN None ELSE calling
        /\ child' = IF name = ConductorName THEN child ELSE [child EXCEPT ![name] = NoChild]
        /\ NoFault
     \/ name \in Resident /\ UNCHANGED <<conductor, calling, child>> /\ Fault
  /\ UNCHANGED <<storeVars, phase, view, todo, seen, at, unread, answers, woken, expired,
                 enrolling, asked, sent, summary, content>>

\* Nothing is left to kill: cancel_attempt returns.
Cancelled == at = "kill" /\ roster = {}

\* Mutant: a failed attempt is re-armed however many the range has spent.
RetryUnchecked ==
  /\ Cancelled /\ Store!LockFree
  /\ in_flight' = [in_flight EXCEPT ![Main].attempts = @ + 1]
  /\ Store!ScanEnds(Watch)
  /\ woken' = woken \ {range.head}
  /\ expired' = FALSE
  /\ ScanLeaves
  /\ UNCHANGED <<tip, seed, cursor, last_failure, refused, records, completing, sessionVars,
                 content, faults>>

\* supervise_failure below the ceiling: re-arm, and hand the wake quota back.
Retry ==
  /\ Cancelled
  /\ Store!RetryAttempt(Watch, Main)
  /\ woken' = woken \ {range.head}
  /\ expired' = FALSE
  /\ ScanLeaves
  /\ UNCHANGED <<sessionVars, content, faults>>

\* supervise_failure at the ceiling: the quota is not handed back.
Fail ==
  /\ Cancelled
  /\ Store!FailRange(Watch, Main)
  /\ expired' = FALSE
  /\ ScanLeaves
  /\ UNCHANGED <<woken, sessionVars, content, faults>>

BeginObserve ==
  /\ at = "start"
  /\ Store!BeginObserve(Watch)
  /\ UNCHANGED <<at, roster, unread, answers, woken, expired, sessionVars, content, faults>>

\* The branch's head cannot be updated or read.
ObserveRefused ==
  /\ at = "start"
  /\ Store!RecordObservationFailure(Watch, Main)
  /\ Fault
  /\ UNCHANGED <<at, roster, unread, answers, woken, expired, sessionVars, content>>

ObserveHead ==
  /\ at = "start"
  /\ Store!ClearObservationFailure(Watch, Main)
  /\ UNCHANGED <<at, roster, unread, answers, woken, expired, sessionVars, content, faults>>

\* Mutant: an admitted range is left to the recovery path to be asked.
AdmitHeadSilently ==
  /\ at = "start"
  /\ Store!Admit(Watch, Main)
  /\ expired' = IF in_flight' # in_flight THEN FALSE ELSE expired
  /\ UNCHANGED <<at, roster, unread, answers, woken, sessionVars, content, faults>>

\* admit, on an admitted range followed by its wake.
AdmitHead ==
  /\ at = "start"
  /\ Store!Admit(Watch, Main)
  /\ at' = IF in_flight' # in_flight THEN "wake" ELSE "start"
  /\ expired' = IF in_flight' # in_flight THEN FALSE ELSE expired
  /\ UNCHANGED <<roster, unread, answers, woken, sessionVars, content, faults>>

\* The admitted range's wake; a refused one ends the scan with the range in
\* flight and no quota taken.
WakeAdmitted ==
  /\ at = "wake"
  /\ \/ Woken(in_flight[Main]) /\ woken' = woken \cup {in_flight[Main].head}
     \/ WakeRefused(in_flight[Main]) /\ UNCHANGED woken
  /\ EndScan
  /\ UNCHANGED <<expired, content>>

\* The branch loop is over (the delivery pass is Delivery's).
FinishScan ==
  /\ phase[Watch] = "observe" /\ at = "start" /\ todo[Watch] = {}
  /\ EndScan
  /\ UNCHANGED <<woken, expired, sessionVars, content, faults>>

\* The observer process dies and is started again: the quotas are lost.  One
\* that dies between scans is one that dies right after reading the state.
ObserverCrashes ==
  /\ EndScan
  /\ woken' = {}
  /\ Fault
  /\ UNCHANGED <<expired, sessionVars, content>>

Scan ==
  \/ StartScan \/ Unreachable \/ TimedOut \/ ListSessions \/ Rewake \/ AwaitWoken
  \/ ReadConductor \/ (\E l \in Layers : ReadChild(l)) \/ ReadFails
  \/ NotSettled \/ SuperviseHarvest \/ CompleteReview \/ CompleteState
  \/ CancelList \/ (\E name \in Names : KillListed(name)) \/ Retry \/ Fail
  \/ BeginObserve \/ ObserveRefused \/ ObserveHead \/ AdmitHead \/ WakeAdmitted \/ FinishScan

Conductor == (\E l \in Layers : ConductorCalls(l)) \/ DispatchReview \/ ConductorWrites

Reviewer(l, h) ==
  \/ ReviewerRuns(l, h) \/ ReviewerReplies(l, h) \/ ReviewerSettlesUnheard(l, h)
  \/ ReviewerDies(l, h) \/ ReviewerLeaves(l, h)

Next ==
  \/ Commit \/ Enroll \/ ReEnroll \/ CreateConductor \/ Expire \/ Scan \/ ObserverCrashes
  \/ Conductor \/ ConductorFails \/ DaemonRestarts
  \/ \E l \in Layers, h \in Revisions : Reviewer(l, h)

Spec == Init /\ [][Next]_vars

\* Fairness: the service scans at every interval for as long as it is
\* restarted, and time passes.  Nothing is asked of the sessions.
SupervisedSpec == Spec /\ WF_scanVars(Scan) /\ WF_expired(Expire)

\* Fairness of a healthy review: models and children finish their turns.
HealthySpec ==
  /\ Spec /\ WF_vars(Scan) /\ WF_vars(CreateConductor) /\ WF_vars(Conductor)
  /\ \A l \in Layers, h \in Revisions : WF_vars(Reviewer(l, h))

-----------------------------------------------------------------------------
(* Properties *)

Kept == {h \in Revisions : content[h] # None}

\* Where the scan stands.  While it settles a range its snapshot has it; the
\* lock is held exactly between the two writes; children are read by the
\* roster, and what was read of them is of the range's head.
ScanInv ==
  /\ at \in {"listed", "children", "cancel", "kill"} => InSettle
  /\ at = "completed" <=> completing # None
  /\ at = "completed" => phase[Watch] = "settle"
  /\ at = "wake" => in_flight[Main] # None
  /\ at # "children" => unread = {}
  /\ \A l \in unread : <<l, range.head>> \in roster
  /\ at \in {"start", "listed"} => answers = NoAnswers
  /\ at = "children" => \A l \in Layers : answers[l] # None => answers[l].head = range.head

\* A dispatch is pending only in a running turn, and nothing happens in a
\* conversation before init has created it.
SessionInv ==
  /\ calling # None => conductor = "busy"
  /\ conductor = "none" => child = [c \in Layers \X Revisions |-> NoChild]
  /\ enrolling => conductor = "none"
  /\ cursor[Main] = None => conductor = "none" /\ ~enrolling

\* A reply in the transcript is of the head it was sent for, and the layers of
\* the current request are among the dispatched ones.
TranscriptInv ==
  /\ \A l \in Layers, h \in Revisions :
       summary.delivered[<<l, h>>] # None => summary.delivered[<<l, h>>].head = h
  /\ sent \subseteq H!Dispatched(summary)

\* The observer's part of a record and the store's are of one completion, also
\* when a crash or a retry makes the scan complete the range again; and every
\* layer it has an answer of is still a dispatched one in the transcript.
ArchiveInv ==
  \A h \in Revisions :
    LET r == records[Store!RecordPath(Main, h)]
    IN /\ content[h] = None <=> r = None
       /\ r # None => /\ r.base = content[h].base /\ r.attempts = content[h].attempts
                      /\ DOMAIN content[h].layers \subseteq H!Dispatched(summary)

\* The inductive invariant of the observer, beside the store's.
ObserverInv == TypeOK /\ ScanInv /\ SessionInv /\ TranscriptInv /\ ArchiveInv

\* A record's answers review its own head, whatever earlier ranges left in the
\* conductor's one transcript and in the roster (observer.rs: the exact head
\* discriminates this range's reviewer from the previous range's).
RecordAnswersItsRange ==
  \A h \in Kept : \A l \in DOMAIN content[h].layers : content[h].layers[l].head = h

\* What harvest.rs means by "never a partial record", whatever the conductor
\* leaves undispatched: a layer that one record of the conversation has is in
\* every later one.  Its dispatch stays in the transcript, so a later range is
\* harvested only once that layer is dispatched for it and has answered, across
\* retries, kills and restarts.
LayersNeverDropOut ==
  [][\A g \in Kept, h \in Kept' :
       h \notin Kept => DOMAIN content[g].layers \subseteq DOMAIN content'[h].layers]_vars

\* A range in flight is settled in the end: completed, or failed at the
\* ceiling -- with a conductor that does nothing, kills and wakes that fail,
\* and restarts of the daemon and of the observer (ADR 0028: never waited on
\* forever).
RangeSettles == []<>(in_flight[Main] = None)

\* Without faults, with time enough, and with nothing admitted before init has
\* created the conductor, every head the branch comes to is reviewed, or a
\* later one is.
HeadIsReviewed ==
  [](in_flight[Main] # None => conductor # "none") => \A h \in Revisions :
    (cursor[Main] # None /\ tip[Main] = h) ~> (cursor[Main] # None /\ cursor[Main] >= h)

\* Whatever the sessions, the daemon and the observer process do, the observer
\* uses the store as the store allows: a scan that wakes, harvests, cancels,
\* dies and starts over takes only the store's steps.
ImplementsStore == Store!Spec

\* observer.rs, cancel_attempt and wake_message: a survivor child never answers
\* for the retried range, and a cancelled attempt's answers die with its
\* children.  So a record's answers are those of the attempt it counts.
AnswersOfThisAttempt ==
  \A h \in Kept : \A l \in DOMAIN content[h].layers :
    content[h].layers[l].attempt = content[h].attempts
=============================================================================
