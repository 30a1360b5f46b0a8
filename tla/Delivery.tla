------------------------------ MODULE Delivery ------------------------------
(***************************************************************************)
(* The delivery pass at the end of a scan (big_brother/delivery.rs) over   *)
(* the delivery maps of one repository's record files (state.rs).          *)
(*                                                                         *)
(* A pass reads the records of a branch once, without the lock, and works  *)
(* through that snapshot: a send, then the outcome, computed from the      *)
(* snapshot's entry and written into the file under the lock, channel by   *)
(* channel.  Between the two the observer may die, and another observer (a *)
(* `--once` probe) may be in the middle of its own pass.                   *)
(*                                                                         *)
(* Time is kept as ages, in files and in snapshots alike, that stop at     *)
(* RETRY_AFTER: nothing in the code tells older attempts apart.  Branches  *)
(* and records are taken in any order, since file names are hashes.        *)
(***************************************************************************)
EXTENDS Naturals

CONSTANTS
  Records,     \* the records that may ever be completed, by head
  Branches,    \* the tracked branches
  BranchOf,    \* the branch of each record
  Observers,   \* observer processes
  RETRY_AFTER, \* least age of an attempt before the next one
  MaxCrashes,  \* bound on crashes and busy locks
  MaxRefusals, \* bound on failed sends
  None         \* the absent entry or record

\* The channel names inside record.delivery.
COMMIT_STATUS_CHANNEL == "commit-status"
BARK_CHANNEL == "bark"
Channels == {COMMIT_STATUS_CHANNEL, BARK_CHANNEL}

\* One channel's state on a record, delivered once it has a delivered_at; age is the time since last_attempt_at.
DeliveryState == [status : {"pending", "delivered"}, age : 0 .. RETRY_AFTER]

ASSUME DeliveryBounds ==
  /\ RETRY_AFTER \in Nat
  /\ MaxCrashes \in Nat
  /\ MaxRefusals \in Nat

ASSUME BranchAssumption == BranchOf \in [Records -> Branches]

ASSUME AbsentAssumption == None \notin DeliveryState /\ None \notin Records

VARIABLES
  records,    \* the record files that exist
  delivery,   \* record.delivery of every record, by channel
  keys,       \* the channels configured in the environment
  phase,      \* where each observer is in its pass
  branches,   \* the branches it has still to visit
  left,       \* the records it has read and still to deliver
  snapshot,   \* their delivery maps as it read them
  current,    \* the record it is delivering
  due,        \* the channels of that record still to be sent
  outcome,    \* the result of its last send, None when recorded
  accepted,   \* history: how often each endpoint took each record
  rest,       \* history: age of the last send, recorded or not
  hurried,    \* history: sends before the previous one was RETRY_AFTER old
  overlapped, \* history: 1 once two passes have been under way together
  crashes,    \* passes cut off by a crash or a busy lock
  refusals    \* sends that failed, or whose answer was lost

passVars == <<phase, branches, left, snapshot, current, due, outcome>>
history == <<accepted, rest, hurried, overlapped>>
faults == <<crashes, refusals>>
vars == <<records, delivery, keys, passVars, history, faults>>

Entry == DeliveryState \cup {None}

TypeOK ==
  /\ records \subseteq Records
  /\ delivery \in [Records -> [Channels -> Entry]]
  /\ keys \subseteq Channels
  /\ phase \in [Observers -> {"idle", "pass", "send", "outcome"}]
  /\ branches \in [Observers -> SUBSET Branches]
  /\ left \in [Observers -> SUBSET Records]
  /\ snapshot \in [Observers -> [Records -> [Channels -> Entry]]]
  /\ current \in [Observers -> Records \cup {None}]
  /\ due \in [Observers -> SUBSET Channels]
  /\ outcome \in [Observers -> {"ok", "error", None}]
  /\ accepted \in [Records -> [Channels -> Nat]]
  /\ rest \in [Records -> [Channels -> 0 .. RETRY_AFTER]]
  /\ hurried \in [Records -> [Channels -> Nat]]
  /\ overlapped \in 0 .. 1
  /\ crashes \in 0 .. MaxCrashes
  /\ refusals \in 0 .. MaxRefusals

\* No channel was attempted: the delivery map of a fresh record.
Fresh == [c \in Channels |-> None]

Init ==
  /\ records = {}
  /\ delivery = [r \in Records |-> Fresh]
  /\ keys \in SUBSET Channels
  /\ phase = [o \in Observers |-> "idle"]
  /\ branches = [o \in Observers |-> {}]
  /\ left = [o \in Observers |-> {}]
  /\ snapshot = [o \in Observers |-> [r \in Records |-> Fresh]]
  /\ current = [o \in Observers |-> None]
  /\ due = [o \in Observers |-> {}]
  /\ outcome = [o \in Observers |-> None]
  /\ accepted = [r \in Records |-> [c \in Channels |-> 0]]
  /\ rest = [r \in Records |-> [c \in Channels |-> RETRY_AFTER]]
  /\ hurried = [r \in Records |-> [c \in Channels |-> 0]]
  /\ overlapped = 0
  /\ crashes = 0
  /\ refusals = 0

Delivered(entry) == entry # None /\ entry.status = "delivered"

(***************************************************************************)
(* The environment: reviews complete, keys are added, time passes.         *)
(***************************************************************************)
CompleteReview(r) ==
  /\ r \notin records
  /\ records' = records \cup {r}
  /\ UNCHANGED <<delivery, keys, passVars, history, faults>>

\* The service is restarted with one more channel in its environment.
EnableChannel(c) ==
  /\ c \notin keys
  /\ \A o \in Observers : phase[o] = "idle"
  /\ keys' = keys \cup {c}
  /\ UNCHANGED <<records, delivery, passVars, history, faults>>

Older(age) == IF age < RETRY_AFTER THEN age + 1 ELSE age

AgedEntry(entry) == IF entry = None THEN None ELSE [entry EXCEPT !.age = Older(@)]

Aged(map) == [r \in Records |-> [c \in Channels |-> AgedEntry(map[r][c])]]

Tick ==
  /\ delivery' = Aged(delivery)
  /\ snapshot' = [o \in Observers |-> Aged(snapshot[o])]
  /\ rest' = [r \in Records |-> [c \in Channels |-> Older(rest[r][c])]]
  /\ <<delivery, snapshot, rest>>' # <<delivery, snapshot, rest>>
  /\ UNCHANGED <<records, keys, phase, branches, left, current, due, outcome,
                 accepted, hurried, overlapped, faults>>

(***************************************************************************)
(* A pass.                                                                 *)
(***************************************************************************)
\* deliver_pending begins: the branches are read once, and a pass without
\* channels ends at once.
StartPass(o) ==
  /\ phase[o] = "idle"
  /\ keys # {}
  /\ phase' = [phase EXCEPT ![o] = "pass"]
  /\ branches' = [branches EXCEPT ![o] = Branches]
  /\ overlapped' = IF \E p \in Observers \ {o} : phase[p] # "idle"
                   THEN 1 ELSE overlapped
  /\ UNCHANGED <<records, delivery, keys, left, snapshot, current, due, outcome,
                 accepted, rest, hurried, faults>>

\* One branch's record files, read without the lock.
ReadRecords(o, b) ==
  LET found == {r \in records : BranchOf[r] = b}
  IN
  /\ phase[o] = "pass"
  /\ left[o] = {}
  /\ b \in branches[o]
  /\ branches' = [branches EXCEPT ![o] = @ \ {b}]
  /\ left' = [left EXCEPT ![o] = found]
  /\ snapshot' = [snapshot EXCEPT ![o] =
                    [r \in Records |-> IF r \in found THEN delivery[r] ELSE Fresh]]
  /\ UNCHANGED <<records, delivery, keys, phase, current, due, outcome, history, faults>>

\* Mutant: a delivered channel is attempted again after the pause.
RetryDueAlways(entry) == entry = None \/ entry.age >= RETRY_AFTER

\* Mutant: a failed channel is attempted again by the next scan.
RetryDueAtOnce(entry) == ~Delivered(entry)

\* Mutant: only a channel never attempted is due.
RetryDueOnce(entry) == entry = None

\* Whether a channel's entry is due for a send.
RetryDue(entry) ==
  entry = None \/ (entry.status = "pending" /\ entry.age >= RETRY_AFTER)

\* What is left of record r in pass o: the channels still to be sent, or
\* nothing, and then the record is dropped from the pass.
Continue(o, r, channels) ==
  /\ due' = [due EXCEPT ![o] = channels]
  /\ IF channels = {}
     THEN /\ phase' = [phase EXCEPT ![o] = "pass"]
          /\ current' = [current EXCEPT ![o] = None]
          /\ left' = [left EXCEPT ![o] = @ \ {r}]
          /\ snapshot' = [snapshot EXCEPT ![o][r] = Fresh]
     ELSE /\ phase' = [phase EXCEPT ![o] = "send"]
          /\ current' = [current EXCEPT ![o] = r]
          /\ UNCHANGED <<left, snapshot>>

\* deliver_record begins: now_ms is read once, for both channels.
StartRecord(o, r) ==
  /\ phase[o] = "pass"
  /\ r \in left[o]
  /\ Continue(o, r, {c \in keys : RetryDue(snapshot[o][r][c])})
  /\ UNCHANGED <<records, delivery, keys, branches, outcome, history, faults>>

\* The Commit Status goes first.
NextChannel(channels) ==
  IF COMMIT_STATUS_CHANNEL \in channels THEN COMMIT_STATUS_CHANNEL ELSE BARK_CHANNEL

\* One request: how often the endpoint took it, and what the code saw of it.
Post(o, taken, result) ==
  LET r == current[o]
      c == NextChannel(due[o])
  IN
  /\ phase[o] = "send"
  /\ due[o] # {}
  /\ phase' = [phase EXCEPT ![o] = "outcome"]
  /\ outcome' = [outcome EXCEPT ![o] = result]
  /\ accepted' = [accepted EXCEPT ![r][c] = @ + taken]
  /\ hurried' = IF rest[r][c] < RETRY_AFTER THEN [hurried EXCEPT ![r][c] = @ + 1] ELSE hurried
  /\ rest' = [rest EXCEPT ![r][c] = 0]
  /\ UNCHANGED <<records, delivery, keys, branches, left, snapshot, current, due,
                 overlapped, crashes>>

SendSucceeds(o) == Post(o, 1, "ok") /\ UNCHANGED refusals

\* The request is refused, or taken while its answer times out or is unreadable.
SendFails(o) ==
  /\ refusals < MaxRefusals
  /\ refusals' = refusals + 1
  /\ \E taken \in {0, 1} : Post(o, taken, "error")

\* Mutant: every attempt is stamped as a delivery.
AdvanceStamped(result) ==
  [status |-> "delivered", age |-> 0]

\* DeliveryState::advance; the count of attempts it goes on with is left out.
Advance(result) ==
  [status |-> IF result = "ok" THEN "delivered" ELSE "pending", age |-> 0]

\* record_outcome and update_delivery: the file is read again under the lock
\* and the one channel's entry replaced.
RecordOutcome(o) ==
  LET r == current[o]
      c == NextChannel(due[o])
  IN
  /\ phase[o] = "outcome"
  /\ delivery' = [delivery EXCEPT ![r][c] = Advance(outcome[o])]
  /\ outcome' = [outcome EXCEPT ![o] = None]
  /\ Continue(o, r, due[o] \ {c})
  /\ UNCHANGED <<records, keys, branches, history, faults>>

\* The pass is over and what it held is dropped.
Leave(o) ==
  /\ phase' = [phase EXCEPT ![o] = "idle"]
  /\ branches' = [branches EXCEPT ![o] = {}]
  /\ left' = [left EXCEPT ![o] = {}]
  /\ snapshot' = [snapshot EXCEPT ![o] = [r \in Records |-> Fresh]]
  /\ current' = [current EXCEPT ![o] = None]
  /\ due' = [due EXCEPT ![o] = {}]
  /\ outcome' = [outcome EXCEPT ![o] = None]
  /\ UNCHANGED <<records, delivery, keys, history>>

EndPass(o) ==
  /\ phase[o] = "pass"
  /\ left[o] = {}
  /\ branches[o] = {}
  /\ Leave(o)
  /\ UNCHANGED faults

\* The observer dies, or (in "outcome") update_delivery fails on a busy lock
\* and the pass with it; the next pass starts from the files.
CutShort(o) ==
  /\ phase[o] # "idle"
  /\ crashes < MaxCrashes
  /\ crashes' = crashes + 1
  /\ Leave(o)
  /\ UNCHANGED refusals

PassStep(o) ==
  \/ StartPass(o)
  \/ \E b \in Branches : ReadRecords(o, b)
  \/ \E r \in Records : StartRecord(o, r)
  \/ SendSucceeds(o)
  \/ SendFails(o)
  \/ RecordOutcome(o)
  \/ EndPass(o)

Next ==
  \/ \E r \in Records : CompleteReview(r)
  \/ \E c \in Channels : EnableChannel(c)
  \/ Tick
  \/ \E o \in Observers : PassStep(o) \/ CutShort(o)

Spec == Init /\ [][Next]_vars

\* Passes go on and time passes; the environment owes nothing else.
FairSpec == Spec /\ WF_vars(Tick) /\ \A o \in Observers : WF_vars(PassStep(o))

(***************************************************************************)
(* Properties.                                                             *)
(***************************************************************************)
\* A send made and not yet recorded.
Sent(o, r, c) == phase[o] = "outcome" /\ current[o] = r /\ NextChannel(due[o]) = c

Sending(o) == phase[o] \in {"send", "outcome"}

\* A pass is at a record it has read, and at channels of it.
PassShape ==
  \A o \in Observers :
    /\ phase[o] = "idle" => left[o] = {}
    /\ Sending(o) => current[o] \in left[o] /\ due[o] # {}

\* What a record or a pass holds for delivered was accepted.
Vouched ==
  /\ \A r \in Records, c \in Channels : Delivered(delivery[r][c]) => accepted[r][c] > 0
  /\ \A o \in Observers, r \in Records, c \in Channels :
       Sent(o, r, c) /\ outcome[o] = "ok" => accepted[r][c] > 0

OnePass ==
  \A o, p \in Observers : phase[o] # "idle" /\ phase[p] # "idle" => o = p

\* What a pass has still to look at is in the files as it read it.
SnapshotCurrent ==
  \A o \in Observers : \A r \in left[o] :
    /\ ~(Sending(o) /\ r = current[o]) => snapshot[o][r] = delivery[r]
    /\ Sending(o) /\ r = current[o] =>
         \A c \in due[o] : snapshot[o][r][c] = delivery[r][c] /\ RetryDue(delivery[r][c])

\* Every acceptance but one was paid for by a fault.
AcceptedOnce ==
  \A r \in Records, c \in Channels :
    \/ accepted[r][c] <= crashes + refusals
    \/ /\ accepted[r][c] <= 1 + crashes + refusals
       /\ Delivered(delivery[r][c]) \/ \E o \in Observers : Sent(o, r, c) /\ outcome[o] = "ok"

\* An entry is no older than the last send; a send whose outcome never reached
\* the file cost a crash that no hurried send has used up.
RestAccounted ==
  \A r \in Records, c \in Channels :
    /\ hurried[r][c] <= crashes
    /\ \/ hurried[r][c] < crashes
       \/ \E o \in Observers : Sent(o, r, c)
       \/ /\ delivery[r][c] # None => delivery[r][c].age <= rest[r][c]
          /\ rest[r][c] = RETRY_AFTER \/ ~RetryDue(delivery[r][c])

(* The inductive invariant: whatever overlaps, a record never claims a      *)
(* delivery no endpoint saw; and until two passes overlap, a pass works     *)
(* from a snapshot that is still true of what it has yet to send, and       *)
(* repeated and hurried sends are accounted for by faults.                  *)
DeliveryInv ==
  /\ TypeOK
  /\ PassShape
  /\ Vouched
  /\ overlapped = 0 => OnePass /\ SnapshotCurrent /\ AcceptedOnce /\ RestAccounted

(* While passes do not overlap, whichever process runs them, an endpoint    *)
(* takes a record once, and once more at most for each crash and each send  *)
(* that failed: at-least-once delivery repeats nothing without a cause.     *)
RepeatsHaveCause ==
  overlapped = 0 => \A r \in Records, c \in Channels :
                    accepted[r][c] <= 1 + crashes + refusals

(* While passes do not overlap, a channel is probed before its last send is *)
(* RETRY_AFTER old only when a crash lost that send's outcome: a failure is *)
(* never retried at the scan's own pace.                                    *)
RetriesAreSpaced ==
  overlapped = 0 => \A r \in Records, c \in Channels : hurried[r][c] <= crashes

(* While passes do not overlap, what a record says a channel received the   *)
(* endpoint has received, and never says less again.                        *)
DeliveredIsFinal ==
  [][\A r \in Records, c \in Channels :
       /\ Delivered(delivery'[r][c]) => accepted'[r][c] > 0
       /\ Delivered(delivery[r][c]) /\ overlapped = 0 => Delivered(delivery'[r][c])]_vars

(* With any overlap of passes, crashes and failed sends, as long as these   *)
(* end: every completed record reaches every configured channel for good,   *)
(* records from before the channel was configured included.                 *)
ReachesEveryChannel ==
  \A r \in Records, c \in Channels :
    (r \in records /\ c \in keys) ~> [](Delivered(delivery[r][c]))
=============================================================================
