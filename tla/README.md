# Big Brother: a TLA+ verification project

Big Brother watches git branches and has every new commit range reviewed by a
team of agent sessions. Its own logic is the `big_brother` directory of
`crates/pa-daemon/src`: a durable store, a watch service that scans, and the
conversation protocol between them and the sessions of the daemon. The rest of
the repository (the agent runtime, the model providers, the terminal
interface, the upstream session engine) is the framework it runs on. The
models here are of that core and of the three coordination protocols it stands
on: the directory lock around the store's files, the leases that keep one
process per session file, and the socket paths at which the daemon's processes
are reached.

## The system

| Component | Code | State | Operations |
|---|---|---|---|
| Repository state store | `state.rs` | per branch: cursor, in-flight range, last failure, last observation failure (`state.json`); one record file per completed range | `seed_cursor`, `admit`, `retry_attempt`, `fail_range`, `complete`, `record_/clear_observation_failure`, `update_delivery` |
| Observer | `observer.rs` | the wake quota (in memory), the position in a scan | `scan_once`, `observe_repo`, `try_complete_review`, `supervise_*`, `cancel_attempt`, `wake_conductor` |
| Harvest | `harvest.rs` | none | `harvest_review`, `last_assistant_text` |
| Enrollment | `init.rs` | none of its own | `run_init`: seed the cursor, create the conductor |
| Dispatch tool, prompt | `dispatch.rs`, `prompt.rs` | none | one reviewer session per layer and head |
| Delivery | `delivery.rs` | the record's `delivery` map | `deliver_pending`, `retry_due` |
| Git access, profile, client, queries | `git.rs`, `profile.rs`, `client.rs`, `query.rs` | none | I/O and configuration |
| Directory lock | `pa-core/src/platform/lock_dir.rs`, `refinement/mod.rs`, `settings/storage.rs` | `{file}.lock`, its owner file, the temporary file | acquire, judge and reclaim, `ensure_owned`, release, atomic write |
| Session leases | `lease.rs` | `{key}.lock` with `owner.json`, `{key}.lock.guard`, the count of appends in flight | acquire, append, release, sweep of dead owners, theft of a stale guard |
| Daemon sockets | `socket.rs`, called from `supervisor.rs` and `worker/connection.rs` | the socket file, its cleanup lock, the captured identity | prepare the path, bind, capture, close, exit cleanup |
| Session messaging, child sessions | `messaging.rs`, `rlm_children*` | sessions, child records | `send_message`, settle notices |

How they interact. A scan reads `state.json` without the lock, settles every
in-flight range of that snapshot (harvest, retry or fail), and only if all of
them settled goes on to read the branches' heads, admit new ranges, wake the
conductor and deliver. The conductor is one persistent session per repository:
its transcript is never cut, and holds the dispatches, replies and texts of all
ranges and attempts. Reviewer sessions are named `<layer>-<head>`; they run
after the conductor's turn settles and send their report back as a message. The
store's operations take a lock and replace their file atomically, except
`complete`, which writes two files. A `--once` probe is a second observer.
Delivery closes a scan: it goes through the record files of every branch and
sends what is due. Sessions are hosted by worker processes; a lease gives each
session file one host, and the daemon's supervisor sweeps the leases of workers
that died. The supervisor and the workers each listen on a socket path of their
own, which a dead predecessor's file may still occupy.

What is hard: decisions made from stale snapshots and a stale roster; a crash
between two writes, or between a write and a wake; retries that share names and
a transcript with the attempt they replace; kills and wakes that fail; ranges
that must settle although the sessions do nothing; sends whose outcome is lost;
locks, leases and socket files that are judged in one call and removed by path
in another.
`PROJECT.json` lists these
hazards at their lines.

## Modules

**ReviewStore** is the store under several observer processes. Its variables are
the fields of `BranchState`, the record files by path, and each observer's
place in a scan (`phase`, `view`, `todo`, `seen`), because what the store is
asked depends on when the observer read what. Each operation is one action, as
the lock and the atomic rename make it; `complete` is `CompleteRecord` and
`CompleteState` with the lock held between them, and `EndScan` in between is
the crash. `tip`, `seed` are git's head and the enrolled baseline. A revision
is its position in the branch's history; the tip moves freely, as it may in a
work tree without an origin. Messages, times and revision syntax are left out.

**ReviewLedger** is what the store promises: a baseline, a reviewed position and
an archive of reviewed ranges that only grows; the position moves only to the
end of an archived range. ReviewStore implements it, with the archive read off
the record files.

**Harvest** is `harvest_review` as a fold: a transcript row updates a summary
(last call per layer, replies by layer and head, no-reply notices, the pending
synthesis), and the harvest is a function of the summary and of the answers
collected from resident children. Because the summary is a fold, Observer keeps
the summary as its state instead of an ever longer transcript. A reference
definition reads the rows as a whole (`LoopMatchesRows`). Row bodies are opaque; the marker line
only trims a text and never rejects one (`unwrap_synthesis`), so it does not
appear. **HarvestLoop** is the loop as a state machine: a step reads one row.
Every transcript is a behaviour, so that what holds in all its states holds of
`harvest_review` on every transcript and every prefix of one.

**Observer** composes ReviewStore (one branch, one observer, through `INSTANCE`)
and Harvest with the sessions; that the composition takes only the store's steps
is `ImplementsStore`. What a review says (`content`) is kept beside the store's
record, which knows only its range and attempts. A scan is one action per await: read the state,
list, read the conductor, read each child, re-read and decide, write; to cancel
an attempt, list again and kill one session after the other, the conductor first.
The scan's actions map one to one to the branches of `try_complete_review`,
`supervise_failure` and `observe_repo`. The sessions are the environment: the
conductor calls `dispatch_review`, gets its result and ends its turn with a
text; reviewers narrate, report, fail to start their runtime, fall silent, die
or leave. `Obedient` says whether the conductor follows its prompt in
dispatching every layer before it ends a turn; what it writes is decided by
whether all replies are in. A wake that is reported as failed may have done
nothing, launched a session nobody has messaged (a launch that outlives its
route budget), or been delivered with only its answer lost. Faults (refused calls, turn errors, daemon restarts,
observer crashes, failed kills) are counted against `MaxFaults`. A clock is not
modelled: `expired` says that the current attempt's budget is spent, and may
become true at any time while `Budgeted`.

**Delivery** is `deliver_pending` under several observers. A pass reads the
branches, then per branch a snapshot of the records' delivery maps without the
lock, then takes each record's due channels in the code's order: the send
(`SendSucceeds`, `SendFails`) and its outcome (`RecordOutcome`, which is
`advance` and `update_delivery`) are separate actions, with a crash or a busy
lock possible between them (`CutShort`). A failed send may have been taken by
the endpoint. Time is the age of an attempt, up to `RETRY_AFTER`, since nothing
tells older ones apart. The history variables count what the endpoints took,
sends made early, and whether two passes ever overlapped. Which channels exist
is the set `keys`; it grows (a restart with one more key), and an origin that is
not GitHub is a channel without a key.

**LockDir** is the lock and the read-modify-write it guards, one action per
file-system call. `mode` says whether the lock is an owned one (harness state:
owner file, temporary file with the pid) or an unowned one (the store: empty
directory, one fixed temporary name). `create` is the mkdir, the owner file, the
`set_mtime` and, when one of the last two fails, the removal of both by path
(`Undo`). A regular file may stand in the lock's place (`legacy`), the lock of an
older build; a process of that build (`older`) comes and goes: it opens the file
or creates it, then flocks what it opened, then ends. The guarded file is the set
of processes whose update is in it, or torn. Three history flags name the
schedules the protocol is not proof against: `overtaken`, a lock made or stripped
of its owner file while a rival is between its judgement and its removal;
`exposed`, a live process's unmarked lock that grew stale; `displaced`, a flock
taken on a file that a waiter has probed and not yet removed, or on one that is
gone. `Orderly` is the absence of the first two; `displaced` is a condition only
of what is said about older builds.

**SessionLease** is one lease directory, its guard, and the appends of its
holder, again call by call. `task` says what a process takes the guard for;
`own` is the process's `SessionLease` (none, held, marked released). A guard
records who began to wait for it, because the wait of an acquisition
(`ThroughStale`) outlasts a guard it began with, while the fast budget may end
at any time. `overtaken` and `exposed` have the same meaning for the guard as
for the lock; `late` is a release whose drain deadline passed.

**SocketPath** is one socket path under processes that start, serve, exit and
die, call by call. A socket file is its inode number; `bound` is the file a
process has open, `seen` the `stale_identity` a prepare judges, `mine` the
`bound_socket_identity` captured after the bind. `bind` and `listen` are two
steps, since a connect in between is refused. A connect to a listener may fail
(its backlog is full); the exit's connect alone tells that from a refusal. The
cleanup lock is an owner, and `LoseLock` stands for what LockDir shows can go
wrong with it. `strained` collects what a decision can be misled by:
`saturated` (the last connect of a prepare met a full backlog), `deaf` (a
connect that a removal rests on fell between a bind and its listen), `reused`
(the file system gave a new socket a number that some process still remembers),
`lockLost`, `starved` (the wait for the lock ran out). `Orderly` excludes
`deaf`, `reused` and `lockLost`; `Calm` also `saturated`. An exit takes a dead
process's cleanup lock at once, where the code spares the path until the lock is
stale: more removals than the code has.

**MCReviewStore, MCHarvest, MCObserver, MCDelivery, MCLockDir, MCSessionLease,
MCSocketPath** instantiate these for TLC.

**ReviewStoreProofs, ReviewLedgerProofs, HarvestProofs, ObserverProofs,
DeliveryProofs, LockDirProofs, SessionLeaseProofs, SocketPathProofs** hold the
theorems.

Definitions named as mutants stand directly before the definition they vary;
nothing uses them.

## Runs

Passing:

| Run | Instance | Shows |
|---|---|---|
| `store_observers` | 1 branch, 3 revisions, 2 observers, ceiling 1 | `StoreInv`, `NoCommitSwallowed`, `RangeImmutable`, `RecordsWriteOnce`, and refinement of the ledger, with two observers on stale snapshots, resets of the branch and crashes inside `complete` |
| `store_branches` | 2 branches, 2 revisions, 1 observer, ceiling 2 | the same invariants across branches, and `FailsAtCeiling` |
| `harvest` | up to 4 rows, 2 layers, heads, bases and bodies | the loop equals its reference (`LoopInv`) and takes no stale reply (`NoStaleReply`) |
| `observer_layers` | 2 layers, 2 commits, no faults, free conductor | `LayersNeverDropOut`: a layer that one record has is in every later one |
| `observer_settles` | 1 layer, 1 commit, ceiling 2, 1 fault, free conductor | the scan takes only the store's steps (`ImplementsStore`), a record is of one completion (`ObserverInv`), and a range in flight settles (`RangeSettles`) |
| `observer_healthy` | 1 layer, 3 commits, no faults | `HeadIsReviewed`, `RecordAnswersItsRange` |
| `delivery` | 1 record, 2 channels, 2 observers, 1 crash, 1 failed send | `DeliveryInv`, `RepeatsHaveCause`, `RetriesAreSpaced`, `DeliveredIsFinal`, `ReachesEveryChannel` |
| `lock` | 3 processes, one dead from the start, both kinds of lock, an older build's process that comes and goes | `LockInv`, `OneHolder`, `UpdatesKept`, `DeadLockGoes` |
| `lease` | 3 workers (one dead from the start, one mortal), 1 supervisor | `LeaseInv`, `OneHost`, `NoRowBehindSuccessor`, `LeaseRecovered` |
| `socket` | 3 processes, one mortal, 2 inodes, the path empty, with a dead process's socket or with another file | `SocketInv`, `Reachable`, `OnlyDeadUnlinked`, `SuccessorSurvivesExit`, `PathTaken` |

Violations, each a disagreement between the code and what the repository says
of it (quoted in `PROJECT.json`):

- `observer_stale_answers`: a retried attempt is completed from a reply of the
  cancelled one.
- `lease_steal`: two waiters judge the stale guard of a dead process. The first
  removes it, makes its own and goes on; the second removes that one. Both then
  update the lease, and the second renames away the lease the first has just
  acquired, so that a second worker may host the file. No process is slow here:
  each call follows the one before within the stale window.

### Seen while modelling, without a run

In the store:

- `retry_attempt` and `fail_range` compare the head only: a second observer's late
  retry or failure hits a fresh admission of the same head, which then has fewer
  attempts than the ceiling (`FailsAtCeiling` is for one observer);
- a range that failed at the attempt ceiling is admitted again unchanged by the
  next scan, with a fresh count (`admit` never looks at `last_failure`;
  `profile.rs:36` says that at the ceiling "the range fails loudly instead of
  retrying");
- a crash inside `complete` followed by a timeout at the ceiling leaves a failed
  range that has a record, which delivery then sends (ADR 0029: "produces no
  record and therefore no status");
- a completion whose head already has a record file keeps the old file, of
  another base (ADR 0025: "persists the full Review record before the cursor
  advances");
- `records` says oldest first and sorts by file name.

In the observer and the harvest:

- after a refused wake a resident conductor is waited on for an attempt it was
  never asked for, until the budget ends it (`observer.rs:6` says it "gets its
  wake retried");
- the conductor's note that it awaits reviewers becomes a record's conclusion
  when a scan falls between its first turn and the first reply, because a running
  child's narration counts as its answer and no marker is required
  (`harvest.rs:116` says that such texts "never qualify");
- with a conductor that has never dispatched a layer the record lacks it
  (`harvest.rs:95` says "never a partial record"; layers are those dispatched,
  not the profile's, and only the prompt asks for all of them: `observer.rs:570`
  says of the prompt's marker line that it "alone proved ignorable"). What holds of every conductor is `LayersNeverDropOut`;
- the other side of it: a layer taken out of the profile stays in the transcript
  with its last range, so every later harvest finds two ranges, is refused, and
  the range times out;
- a conductor that survives a failed kill is not woken for the retry, and its
  synthesis of the cancelled attempt settles it; a reviewer that is dispatched
  between `cancel_attempt`'s list and the conductor's kill is not on the list and
  survives too;
- `conductor_turn_dead` never fires again once a transcript holds any dispatch;
- one malformed dispatch call makes every later harvest of that session fail;
- an enrollment whose conductor creation fails cannot be repeated once the
  branch has moved, because the baseline then differs.

In delivery: two overlapping passes (the service and a `--once` probe) may both
send, and a failure recorded by the later one turns a delivered entry back to
pending, so that the record is sent once more; an unsettled range holds up the
delivery of older records, since the scan returns before it (ADR 0029: "every
scan attempts delivery").

In the lock: `acquire_owned_retrying` says "Only a provably dead owner can be
reclaimed", but the second of two waiters that judged a dead owner's lock unlinks
the owner file of, and removes, the lock the first has just made. The probe of an
older build's file closes what it has flocked before the file is removed
(`legacy_flock_held` says that a file nobody guards "can be reclaimed safely"), so
a process of that build can lock the file in between, or one that is already
removed, and hold its lock beside a holder of the directory.

In the leases: a release whose fast budget runs out (a guard left by a dead
process while the releaser, alive, is the recorded owner) leaves the lease in
place until its process exits; `.lock.candidate-*` directories of a process that
died between the two calls are not swept.

At the sockets: a daemon that accepts nothing for the second or two of a rival's
prepare, with its backlog full, loses its path to it (`saturated`;
`socket.rs:63` says "after verifying nothing is listening"), and both run. The
exit connects before it locks, so that on a file system that hands out a freed
inode number at once it can remove the socket of a process that has replaced the
dead file in between (`reused`). After a poisoned capture, an exit whose connect
falls between the successor's bind and its listen removes a file that is about
to be live (`deaf`).

### Bounds

- Revisions: 3 in `store_observers` is the least at which a range can be
  admitted after a reset to an old head and end on an existing record; 2 suffice
  for the questions of the two-branch run. `observer_healthy` has 4, so that a
  conversation carries three ranges or ranges that skip a commit.
- Observers: 2, since every race is between a snapshot and one other writer; the
  theorems hold for any number.
- Attempts: a ceiling of 2 is the least with a retry. In `store_observers` it is
  1, so that two observers there interleave admissions, completions and failures
  but no retries (three revisions with retries are too many states). A stale
  retry by a second observer rests on the theorems, which cover it; with two
  revisions and a ceiling of 2 TLC has also passed the run's properties.
- Layers: 2 is the least at which one layer answers and the other is missing, and
  two ranges the least at which a layer can drop out.
- Faults: one of any kind at any point in `observer_settles`. The same run with
  `MaxFaults = 2` also passes (1.1 million states, four minutes); `ObserverInv` and
  `ImplementsStore` are theorems for any number. `observer_layers` has none, and no
  expiring budget, so that two ranges and two layers fit; faults and retries
  between the two ranges rest on the theorem.
- Delivery: one record, since records are independent of each other within a
  pass; two channels, so that a pass has a send behind it and one before it when
  it is cut short; one crash and one failed send, any of which can fall between
  any two steps of either observer. `RETRY_AFTER` is 1: attempts are recent or
  not. The theorems hold for any of these.
- Lock and lease: a dead process that may have left the lock (the lease, the
  guard) from the start, and two live ones to race for it, is the least for a
  judge, a rival judge and a holder. In `lock` all but the last live process may
  die anywhere, in `lease` one of the workers (`Mortal`). `Tries` is 2, where the
  code has 3: a second rename happens after a reclaim, a third only when a
  rival's lease has come in between again.
- Sockets: one process that serves or exits, one that replaces it, and a third
  that meets either; each lives once, since a restart is a new process. Two inode
  numbers are the least with a successor's file that differs from its
  predecessor's; a bind that finds none but a remembered number is `reused`. The
  theorems hold for any number of either. All processes come to an end, so this
  run does not check for deadlock.
- `MaxRows` 4: two calls or replies that supersede each other, a result and a
  text. It stops its specification, so that run does not check for deadlock
  either; every other run does.

### Fairness

`SupervisedSpec` asks that a scan step that stays possible is taken (the service
loops over scans at an interval and is restarted by its platform) and that time
passes. Nothing is asked of the conductor or the reviewers; faults are finitely
many. `HealthySpec` adds that sessions finish their turns and that `init`, once
begun, goes on: it is the premise "nothing is wrong" under which a head is
reviewed without a retry. `HeadIsReviewed` also assumes that no range is
admitted before the conductor exists; between the two steps of `init` a scan
can admit one, whose wake is then refused.

`Delivery!FairSpec` asks that passes go on and time passes; it is about scans
that reach their end, which `RangeSettles` is for. Nothing is asked of crashes,
keys or completions, and failed sends are finitely many: an endpoint that is
down for ever is reached never. `LockDir!FairSpec` and `SessionLease!FairSpec`
ask that time passes and that live processes take their next call; the lease's
asks it of workers only, not of the supervisor's sweep. That workers keep trying
to open the session is what "recovered" means for a session nobody wants.
`SocketPath!FairSpec` asks that a process that runs takes its next call and that
the grace wait, a loop against a deadline, comes to its end (strong fairness of
`Deadline`, because the loop passes it in every round); no process has to exit.

## Proofs

All are for arbitrary sets of branches, observers, directories, records, layers,
processes, workers and inodes, any history and transcript length, any attempt
ceiling and any number of faults. Every safety property that a passing run checks
is the statement of a theorem.

### The store

The central argument is `StoreInv`, inductive for the store: the range in flight
starts at the cursor and is not empty, the cursor has a record unless it is the
baseline, every record file lies under its own branch directory and head, and a
completion between its writes is of the range still in flight. The last part is
what the lock is for: without it `CompleteState` could advance the cursor for a
range another observer has failed. `StoreInvariant` proves it action by action
(`StoreTypeOK` first); `StoreRangeImmutable` and `StoreRecordsWriteOnce` are
action properties from it.

`StoreSwallowsNoCommit` needs history: that every revision up to the cursor was
in some reviewed range. It is proved on the ledger, whose `LedgerInv`
(`LedgerHasNoHole`) adds that the archive has no hole behind any of its ranges,
and carried to the store through `StoreImplementsLedger`, by simulation under
`StoreInv`. Both assume, as the property itself does, that no two branches share
a record directory (`SeparateDirs`): `sanitize_branch` does not ensure it.

`StoreFailsAtCeiling` is for one observer, and false for two. It needs that the
snapshot `supervise_failure` counts attempts in is current (`ViewCurrent`): what
the observer still has to settle is the range in flight, or the one it is in the
middle of completing.

### The harvest

What a fold computes for every sequence would need an induction over data, which
the provers do not do. HarvestLoop turns it into an induction over steps:
`LoopInv` says that the summary is what the rows say, and a step appends a row to
both. Each field of the summary has a lemma on how its reading of the whole
changes with a row at the end (`RefCallAppend`, `RefDeliveredAppend`,
`RefSynthesisAppend`). The readings speak of the last row of a kind, whose
existence is the one fact that needs well-foundedness (`LastOfIsLast`). `LoopInv`
adds to the agreement that `seen_result` is true exactly if some row is a result;
without it the summary does not determine whether the next text counts.
`MaxRows` is any number, so the theorems are about all transcripts.

### The observer

`ObserverImplementsStore` is by simulation: an action of the scan is the store's
action of the same name with the sessions' variables added, one of a session
leaves the store alone. So the store's theorems hold of the watch service as a
whole, with all its sessions, restarts and crashes (`ObserverStoreInvariant`,
`ObserverSwallowsNoCommit`, `ObserverFailsAtCeiling`, through an instance of
ReviewStoreProofs for the one branch and one observer).

`ObserverInv` is inductive together with the store's invariant. Its parts:
`ScanInv`, what each place in a scan has read and is about to do, and that it is
about the range in flight; `SessionInv`, what a session's state allows (no child
without a conductor, no conductor before the enrollment); `TranscriptInv`, that a
reply lies under the head it was given for, and that the layers of the current
request are dispatched; `ArchiveInv`, that the two parts of a record are of one
completion and that the layers it has are still dispatched ones. The last one
needs `StoreInv`: a scan that completes a range again after a crash between the
writes finds the record in place and must leave both parts as they are.

`ObserverRecordAnswersItsRange` comes from one more invariant, `RecordsSound`:
every record's answers name its head. Only `CompleteReview` writes a review, from
the summary and the collected children, and each source is sound by itself:
replies by `TranscriptInv`, collected answers by `ScanInv`, which follows them
from the await that read them to the one that uses them.

`ObserverLayersNeverDropOut` rests on `ArchiveInv` and on the transcript: no row
takes a dispatch back (`RowKeepsDispatches`), and no kill, restart or retry touches
the transcript (`DispatchesStay`), so the layers of every earlier record are among
the dispatched ones when a later range completes; and a completed harvest has an
answer of each of those (`HarvestIsSound`). Nothing is assumed of the conductor.

### Delivery

`DeliveryInv` has a part that always holds (a pass is at a record it has read;
whatever is recorded or about to be recorded as delivered was accepted) and one
that holds until two passes overlap: there is one pass at most, its snapshot is
true of the channels it has yet to send, and the sends are in balance with the
faults. The balance is what makes `RepeatsHaveCause` inductive: an acceptance
beyond the faults must be visible, in the file or in the pass about to write it
(`AcceptedOnce`); and an early send must have used up a crash (`RestAccounted`).
`DeliveryIsFinal` follows from the snapshot part.

### Sockets

`SocketInv` carries two arguments. The lock: whoever compares an identity and
then removes by name holds it, nobody else removes, and `bind` needs an empty
path, so the file compared is the file removed (`LockedInv`). The judgement: a
connect that was rightly refused says the file is dead, and a dead file comes
back to life only by a bind that is given its number (`JudgedInv` for a prepare,
`ExitInv` for an exit). `ExitInv` does not need that the captured identity is the
process's own, nor that prepares never mistake a full backlog, which is why
`SuccessorSurvives` holds in orderly runs where `DeadUnlinked` does not.
`DaemonReachable` follows from `DeadUnlinked` and from what `bind` needs.

### Lock and lease

`LockInv`, in orderly histories: who owns the directory is its maker, and has its
owner file in it from the write to the release (`OwnerFileInv`); no process that
is past its judgement coexists with an owner (`ReclaimInv`); the holder's copy
equals the file (`FileInv`). In every history, `LegacyInv`: there is no directory
beside a regular lock file, and a flock that was not taken behind a waiter's probe
(`displaced`) keeps the file in place and every waiter short of the removal; from
this and the holder's directory follows the part of `OneHolder` about older
builds. The rest of it and `UpdatesKept` follow from the orderly parts. The argument
for owned locks needs no bound on how slow a holder is; for unowned ones that is
`exposed`.

`LeaseInv` is the same idea one level up: `GuardInv` says the process inside the
guard made the guard that stands and nobody is about to steal it, `OwnerInv` that
a lease about to be renamed away is a dead owner's or the releaser's. `AppendInv`
carries the fence: a row past its check has its lease, or a release that has not
drained yet. `lease_steal` shows that `overtaken` cannot be dropped from the
condition.

The constants' assumptions are stated where they are declared and evaluated by
every run of their module.

### Only model-checked

The six liveness properties (`RangeSettles`, `HeadIsReviewed`, `ReachesEveryChannel`,
`DeadLockGoes`, `LeaseRecovered`, `PathTaken`: fairness is out of the prover's reach).

## Not modelled

Of the review product: the queries (read-only), the profile and asset files, the
wording of prompts and payloads, the git commands. Of the leases: what
a release flushes, the read-only owner queries, the Windows retries of a busy
rename. Of the sockets: how paths are named, permissions, named pipes, and I/O
errors other than those a race causes. `PROJECT.json` gives the reason for each component.

The rest of the repository, by far its largest part, is the agent framework:
the agent loop, the provider protocols and model tables, the session engine with
its tools and settings, the command line, the terminal interface, the daemon's
supervisor and its update machinery. It is I/O, rendering, tables and protocol
translation for the most part, and the models take from it what the review
product relies on: turns that end or die, sessions that are resident or saved,
messages delivered or refused.

ReviewStore and Delivery take the store's lock as mutual exclusion. LockDir says
when that is so: the store's lock is an unowned one, so a writer must finish
within its stale window, and no two waiters may reclaim one dead process's lock
at once.

## Plan

1. A record and its delivery in one composition of ReviewStore and Delivery, so
   that completions of a reset branch meet deliveries in progress.
2. Proofs: that Observer, with the transcript as a history variable, refines
   HarvestLoop, so that `LoopInv` speaks of the conversations of the sessions.
