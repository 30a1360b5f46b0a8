---------------------------- MODULE SessionLease ----------------------------
(***************************************************************************)
(* The lease of one session file (pa-daemon lease.rs): the directory       *)
(* {key}.lock with its owner.json, the guard directory {key}.lock.guard    *)
(* that serializes its updates, and the fence between a holder's appends   *)
(* and its release.                                                        *)
(*                                                                         *)
(* Workers acquire and release, a supervisor sweeps the leases of dead     *)
(* owners.  Every file-system call is one action.  The guard is an empty   *)
(* directory without an owner: one that is older than STALE_GUARD_AFTER is *)
(* stolen by path, unless the lease's owner is alive.  A process that died *)
(* is told from a new one with its pid by the start identity, so that a    *)
(* process here is a pid with its start.                                   *)
(***************************************************************************)
EXTENDS Naturals

CONSTANTS
  Workers,      \* processes that host the session
  Supervisors,  \* processes that sweep the leases of dead owners
  Gone,         \* workers that died before, of which one may have left things
  Mortal,       \* processes that may die
  Tries,        \* renames in one acquisition
  None          \* no lease, no guard

Processes == Workers \cup Supervisors

ASSUME LeaseAssumption ==
  /\ Gone \subseteq Workers
  /\ Mortal \subseteq Processes
  /\ Workers \cap Supervisors = {}
  /\ Tries \in Nat \ {0}
  /\ None \notin Processes
  /\ None \notin [by : Processes, age : {"fresh", "stale"}, seen : SUBSET Processes]

VARIABLES
  lease,     \* the owner recorded in the lease directory
  guard,     \* the guard directory: its maker, its age, who began to wait for it
  pc,        \* where each process is
  task,      \* what it takes the guard for
  own,       \* its SessionLease: none, held, or marked released
  tries,     \* renames of this acquisition
  app,       \* its appending thread: none, counted in, or past the check
  overtaken, \* history: 1 once a guard was made between a rival's judgement and theft
  exposed,   \* history: 1 once a live process's guard was stale with no live owner
  late       \* history: 1 once a release went on without its append

vars == <<lease, guard, pc, task, own, tries, app, overtaken, exposed, late>>

Guard == [by : Processes, age : {"fresh", "stale"}, seen : SUBSET Processes]

\* Waiting for the guard, and inside it.
Outside == {"idle", "drain", "guard", "again", "met", "judge", "steal", "dead"}
Inside == {"rename", "look", "match", "away", "unguard"}

TypeOK ==
  /\ lease \in Processes \cup {None}
  /\ guard \in Guard \cup {None}
  /\ pc \in [Processes -> Outside \cup Inside]
  /\ task \in [Processes -> {"none", "acquire", "release", "sweep"}]
  /\ own \in [Processes -> {"none", "held", "released"}]
  /\ tries \in [Processes -> 0 .. Tries]
  /\ app \in [Processes -> {"none", "counted", "writing"}]
  /\ overtaken \in 0 .. 1
  /\ exposed \in 0 .. 1
  /\ late \in 0 .. 1

Made(p) == [by |-> p, age |-> "fresh", seen |-> {}]

Init ==
  /\ lease \in Gone \cup {None}
  /\ guard \in {Made(p) : p \in Gone} \cup {None}
  /\ pc = [p \in Processes |-> IF p \in Gone THEN "dead" ELSE "idle"]
  /\ task = [p \in Processes |-> "none"]
  /\ own = [p \in Processes |-> "none"]
  /\ tries = [p \in Processes |-> 0]
  /\ app = [p \in Processes |-> "none"]
  /\ overtaken = 0
  /\ exposed = 0
  /\ late = 0

Alive(p) == pc[p] # "dead"

\* owner_alive: a recorded owner that runs.
LiveOwner == lease # None /\ Alive(lease)

\* lease_reclaimable
Reclaimable == ~LiveOwner

\* The guard of a process that is still at work has become anyone's.
Exposure == guard # None /\ guard.age = "stale" /\ Alive(guard.by) /\ ~LiveOwner

\* What every step keeps an eye on.
Watch == exposed' = IF Exposure' THEN 1 ELSE exposed

Goto(p, place) == pc' = [pc EXCEPT ![p] = place]

\* The call returns.
End(p) ==
  /\ Goto(p, "idle")
  /\ task' = [task EXCEPT ![p] = "none"]
  /\ tries' = [tries EXCEPT ![p] = 0]

Begin(p, work, place) == Goto(p, place) /\ task' = [task EXCEPT ![p] = work]

(***************************************************************************)
(* with_lease_guard.                                                       *)
(***************************************************************************)
\* The action under the guard.
Entry(work) == IF work = "acquire" THEN "rename" ELSE IF work = "release" THEN "match" ELSE "look"

MakeGuard(p) ==
  /\ pc[p] \in {"guard", "again"}
  /\ guard = None
  /\ guard' = Made(p)
  /\ Goto(p, Entry(task[p]))
  /\ overtaken' = IF \E q \in Processes \ {p} : pc[q] \in {"judge", "steal"} THEN 1 ELSE overtaken
  /\ UNCHANGED <<lease, task, own, tries, app, late>>

\* EEXIST; an acquisition that meets a guard on its first attempt has its whole
\* wait before it.
MeetGuard(p) ==
  /\ pc[p] \in {"guard", "again"}
  /\ guard # None
  /\ guard' = [guard EXCEPT !.seen = IF pc[p] = "guard" /\ task[p] = "acquire" THEN @ \cup {p} ELSE @]
  /\ Goto(p, "met")
  /\ UNCHANGED <<lease, task, own, tries, app, overtaken, late>>

\* The fast budget runs out at any moment.  The wait of an acquisition
\* outlasts a guard it began with, and the retries of the slack after that
\* steal such a guard unless the lease's owner is alive.
BudgetSpent(p) ==
  \/ task[p] # "acquire"
  \/ guard = None
  \/ guard # None /\ p \notin guard.seen
  \/ guard # None /\ guard.age = "stale" /\ LiveOwner

\* A release that gives up leaves the lease in place.
GiveUp(p) ==
  /\ pc[p] = "met"
  /\ BudgetSpent(p)
  /\ End(p)
  /\ own' = [own EXCEPT ![p] = "none"]
  /\ app' = [app EXCEPT ![p] = IF @ = "counted" THEN "none" ELSE @]
  /\ UNCHANGED <<lease, guard, overtaken, late>>

\* Mutant of StatGuard: the age of the guard is not looked at.
StatGuardAgeless(p) ==
  /\ pc[p] = "met"
  /\ Goto(p, IF guard # None THEN "judge" ELSE "again")
  /\ UNCHANGED <<lease, guard, task, own, tries, app, overtaken, late>>

\* A guard that is not stale, or is gone, is tried again.
StatGuard(p) ==
  /\ pc[p] = "met"
  /\ Goto(p, IF guard # None /\ guard.age = "stale" THEN "judge" ELSE "again")
  /\ UNCHANGED <<lease, guard, task, own, tries, app, overtaken, late>>

\* Mutant of JudgeGuard: a stale guard is stolen whoever owns the lease.
JudgeGuardBlind(p) ==
  /\ pc[p] = "judge"
  /\ Goto(p, "steal")
  /\ UNCHANGED <<lease, guard, task, own, tries, app, overtaken, late>>

\* Mutant of JudgeGuard: a guard is left to its maker for good.
JudgeGuardNever(p) ==
  /\ pc[p] = "judge"
  /\ Goto(p, "again")
  /\ UNCHANGED <<lease, guard, task, own, tries, app, overtaken, late>>

\* The lease's owner stands in for the guard's.
JudgeGuard(p) ==
  /\ pc[p] = "judge"
  /\ Goto(p, IF LiveOwner THEN "again" ELSE "steal")
  /\ UNCHANGED <<lease, guard, task, own, tries, app, overtaken, late>>

Steal(p) ==
  /\ pc[p] = "steal"
  /\ guard' = None
  /\ Goto(p, "again")
  /\ UNCHANGED <<lease, task, own, tries, app, overtaken, late>>

\* The guard's directory goes by path; a release is over with it.
Unguard(p) ==
  /\ pc[p] = "unguard"
  /\ guard' = None
  /\ End(p)
  /\ own' = [own EXCEPT ![p] = IF task[p] = "release" THEN "none" ELSE @]
  /\ app' = [app EXCEPT ![p] = IF task[p] = "release" /\ @ = "counted" THEN "none" ELSE @]
  /\ UNCHANGED <<lease, overtaken, late>>

(***************************************************************************)
(* acquire_runtime_session_lease and reclaim_dead_owner_leases.            *)
(***************************************************************************)
Acquire(p) ==
  /\ p \in Workers
  /\ pc[p] = "idle"
  /\ own[p] = "none"
  /\ Begin(p, "acquire", "guard")
  /\ UNCHANGED <<lease, guard, own, tries, app, overtaken, late>>

\* The sweep goes through the lease directories there are.
Sweep(p) ==
  /\ p \in Supervisors
  /\ pc[p] = "idle"
  /\ lease # None
  /\ Begin(p, "sweep", "guard")
  /\ UNCHANGED <<lease, guard, own, tries, app, overtaken, late>>

\* The candidate, with its owner in it, is renamed onto a free path.
Rename(p) ==
  /\ pc[p] = "rename"
  /\ tries' = [tries EXCEPT ![p] = @ + 1]
  /\ \/ /\ lease = None
        /\ lease' = p
        /\ own' = [own EXCEPT ![p] = "held"]
        /\ Goto(p, "unguard")
     \/ /\ lease # None
        /\ Goto(p, "look")
        /\ UNCHANGED <<lease, own>>
  /\ UNCHANGED <<guard, task, app, overtaken, late>>

\* read_owner: a live owner is SessionAlreadyActive, or spared by the sweep.
LookOwner(p) ==
  /\ pc[p] = "look"
  /\ Goto(p, IF Reclaimable THEN "away" ELSE "unguard")
  /\ UNCHANGED <<lease, guard, task, own, tries, app, overtaken, late>>

\* reclaim_stale: the directory at the path is renamed away.
ReclaimStale(p) ==
  /\ pc[p] = "away"
  /\ lease' = None
  /\ Goto(p, IF task[p] = "acquire" /\ tries[p] < Tries THEN "rename" ELSE "unguard")
  /\ UNCHANGED <<guard, task, own, tries, app, overtaken, late>>

(***************************************************************************)
(* SessionLease: append and release.                                       *)
(***************************************************************************)
\* append_in_flight is raised before the flag is read.
CountAppend(p) ==
  /\ own[p] # "none"
  /\ Alive(p)
  /\ app[p] = "none"
  /\ app' = [app EXCEPT ![p] = "counted"]
  /\ UNCHANGED <<lease, guard, pc, task, own, tries, overtaken, late>>

CheckAppend(p) ==
  /\ app[p] = "counted"
  /\ app' = [app EXCEPT ![p] = IF own[p] = "held" THEN "writing" ELSE "none"]
  /\ UNCHANGED <<lease, guard, pc, task, own, tries, overtaken, late>>

\* The row lands, and the flight ends.
WriteAppend(p) ==
  /\ app[p] = "writing"
  /\ app' = [app EXCEPT ![p] = "none"]
  /\ UNCHANGED <<lease, guard, pc, task, own, tries, overtaken, late>>

\* release marks the lease first, and is idempotent by that mark.
Release(p) ==
  /\ pc[p] = "idle"
  /\ own[p] = "held"
  /\ own' = [own EXCEPT ![p] = "released"]
  /\ Begin(p, "release", "drain")
  /\ UNCHANGED <<lease, guard, tries, app, overtaken, late>>

\* Mutant of Drain: the release does not wait for the append in flight.
DrainNothing(p) ==
  /\ pc[p] = "drain"
  /\ Goto(p, "guard")
  /\ UNCHANGED <<lease, guard, task, own, tries, app, overtaken, late>>

\* It waits for the appends in flight, up to APPEND_DRAIN_AFTER.
Drain(p) ==
  /\ pc[p] = "drain"
  /\ Goto(p, "guard")
  /\ late' = IF app[p] = "none" THEN late ELSE 1
  /\ UNCHANGED <<lease, guard, task, own, tries, app, overtaken>>

\* Under the guard, only a lease with this token is taken down.
MatchToken(p) ==
  /\ pc[p] = "match"
  /\ Goto(p, IF lease = p THEN "away" ELSE "unguard")
  /\ UNCHANGED <<lease, guard, task, own, tries, app, overtaken, late>>

(***************************************************************************)
(* Time and crashes.                                                       *)
(***************************************************************************)
\* STALE_GUARD_AFTER passes over the guard as it stands.
GrowStale ==
  /\ guard # None
  /\ guard.age = "fresh"
  /\ guard' = [guard EXCEPT !.age = "stale"]
  /\ UNCHANGED <<lease, pc, task, own, tries, app, overtaken, late>>

\* A process stops between two calls.
Crash(p) ==
  /\ p \in Mortal
  /\ Alive(p)
  /\ Begin(p, "none", "dead")
  /\ tries' = [tries EXCEPT ![p] = 0]
  /\ own' = [own EXCEPT ![p] = "none"]
  /\ app' = [app EXCEPT ![p] = "none"]
  /\ UNCHANGED <<lease, guard, overtaken, late>>

\* A step of the thread that acquires, releases or sweeps.
LeaseStep(p) ==
  \/ Acquire(p) \/ Sweep(p) \/ Release(p) \/ Drain(p)
  \/ MakeGuard(p) \/ MeetGuard(p) \/ GiveUp(p) \/ StatGuard(p) \/ JudgeGuard(p) \/ Steal(p) \/ Unguard(p)
  \/ Rename(p) \/ LookOwner(p) \/ ReclaimStale(p) \/ MatchToken(p)

AppendStep(p) == CountAppend(p) \/ CheckAppend(p) \/ WriteAppend(p)

Next ==
  /\ \/ GrowStale
     \/ \E p \in Processes : LeaseStep(p) \/ AppendStep(p) \/ Crash(p)
  /\ Watch

Spec == Init /\ [][Next]_vars

\* Time passes and the workers that want the session keep at it.
FairSpec ==
  /\ Spec
  /\ WF_vars(GrowStale /\ Watch)
  /\ \A p \in Workers : WF_vars(LeaseStep(p) /\ Watch)

(***************************************************************************)
(* Properties.                                                             *)
(***************************************************************************)
\* No theft of a guard overlapped another, and no guard holder at work was
\* suspended for STALE_GUARD_AFTER without a live owner of the lease.
Orderly == overtaken = 0 /\ exposed = 0

(* A process's place, its task and its SessionLease agree.                  *)
TaskInv ==
  \A p \in Processes :
    /\ pc[p] \in {"idle", "dead"} <=> task[p] = "none"
    /\ pc[p] = "rename" => task[p] = "acquire" /\ tries[p] < Tries
    /\ pc[p] \in Outside => tries[p] = 0
    /\ pc[p] \in {"match", "drain"} => task[p] = "release"
    /\ pc[p] = "look" => task[p] # "release"
    /\ task[p] = "acquire" \/ own[p] = "held" => p \in Workers
    /\ own[p] = "released" <=> task[p] = "release"
    /\ own[p] = "held" => pc[p] \in {"idle", "unguard"}

(* A drained release has no append left, and a pending row has its lease.   *)
AppendInv ==
  late = 0 => \A p \in Processes :
                /\ app[p] # "none" => own[p] # "none"
                /\ app[p] = "writing" => own[p] = "held" \/ pc[p] = "drain"

(* The guard serializes: who is inside made the guard that stands, and a    *)
(* waiter on its way to steal one steals it from no one inside.             *)
GuardInv ==
  /\ ~Exposure
  /\ \A p \in Processes : pc[p] \in Inside =>
       /\ guard # None /\ guard.by = p
       /\ \A q \in Processes : /\ pc[q] # "steal"
                               /\ pc[q] = "judge" => guard.age = "stale"

(* A lease about to be renamed away is a dead owner's or the releaser's,    *)
(* and a SessionLease not yet given up is the recorded one.                 *)
OwnerInv ==
  \A p \in Processes :
    /\ pc[p] = "away" => Reclaimable \/ (lease = p /\ task[p] = "release")
    /\ own[p] # "none" => lease = p \/ (own[p] = "released" /\ pc[p] = "unguard")

(* What the properties below rest on: what a process does agrees with what  *)
(* it holds, the guard serializes, and only dead leases go.                 *)
LeaseInv == TypeOK /\ TaskInv /\ AppendInv /\ (Orderly => GuardInv /\ OwnerInv)

(* One process hosts the session: while no theft of the guard overlaps      *)
(* another and no guard is exposed, whatever crashes, a process that has a  *)
(* lease which it has not given up is the recorded owner, so that there is  *)
(* one such process at most.                                                *)
OneHost == Orderly => \A p \in Processes : own[p] = "held" => lease = p

(* No row lands behind a successor: an append past its check is covered by  *)
(* the lease until it has landed, unless the drain's deadline has passed.   *)
NoRowBehindSuccessor ==
  Orderly /\ late = 0 => \A p \in Processes : app[p] = "writing" => lease = p

(* "One process may host one runtime per canonical session file ... and a   *)
(* guard lock serializes lease updates" (lease.rs:1): where no process      *)
(* outstays the guard, the holder of a lease is its recorded owner.         *)
OneHostOfPromptProcesses ==
  exposed = 0 => \A p \in Processes : own[p] = "held" => lease = p

(* A dead owner's lease is not the end of the session: as long as workers   *)
(* try, it is taken down or a live worker has it, even when the owner died  *)
(* inside the guard.                                                        *)
LeaseRecovered == (lease # None /\ ~LiveOwner) ~> (lease = None \/ LiveOwner)
=============================================================================
