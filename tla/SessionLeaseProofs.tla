-------------------------- MODULE SessionLeaseProofs --------------------------
(***************************************************************************)
(* Proofs about SessionLease, for any workers and supervisors, whichever   *)
(* of them die, and any number of tries.                                   *)
(***************************************************************************)
EXTENDS SessionLease, TLAPS

\* The flags of a disorderly lease are never taken back, and an orderly one
\* has no exposed guard.
LEMMA OrderlyBefore ==
  ASSUME TypeOK, Next, Orderly'
  PROVE  Orderly /\ ~Exposure'
<1>1. exposed = 0 /\ ~Exposure'
  BY DEF Next, Watch, Orderly, TypeOK
<1>2. ASSUME NEW p \in Processes, LeaseStep(p) PROVE overtaken = 0
  BY <1>2 DEF LeaseStep, Acquire, Sweep, Release, Drain, MakeGuard, MeetGuard, GiveUp, StatGuard,
       JudgeGuard, Steal, Unguard, Rename, LookOwner, ReclaimStale, MatchToken, Orderly, TypeOK
<1>3. ASSUME NEW p \in Processes, AppendStep(p) \/ Crash(p) PROVE overtaken = 0
  BY <1>3 DEF AppendStep, CountAppend, CheckAppend, WriteAppend, Crash, Orderly
<1>4. CASE GrowStale
  BY <1>1, <1>4 DEF GrowStale, Orderly
<1> QED BY <1>1, <1>2, <1>3, <1>4 DEF Next, Orderly

(***************************************************************************)
(* Types.                                                                  *)
(***************************************************************************)
\* The lease and the guard keep their types.
LEMMA SharedTypes ==
  ASSUME TypeOK, Next
  PROVE  /\ lease' \in Processes \cup {None} /\ guard' \in Guard \cup {None}
         /\ overtaken' \in 0 .. 1 /\ exposed' \in 0 .. 1 /\ late' \in 0 .. 1
<1> DEFINE Goal == /\ lease' \in Processes \cup {None} /\ guard' \in Guard \cup {None}
                   /\ overtaken' \in 0 .. 1 /\ late' \in 0 .. 1
<1>1. exposed' \in 0 .. 1
  BY DEF Next, Watch, TypeOK
<1>2. ASSUME NEW p \in Processes, MakeGuard(p) \/ Steal(p) \/ Unguard(p) PROVE Goal
  BY <1>2 DEF MakeGuard, Steal, Unguard, Made, Guard, TypeOK
<1>3. ASSUME NEW p \in Processes, MeetGuard(p) PROVE Goal
  <2>1. guard \in Guard
    BY <1>3 DEF MeetGuard, TypeOK
  <2>2. \A S \in SUBSET Processes : [guard EXCEPT !.seen = S] \in Guard
    BY <2>1 DEF Guard
  <2>3. guard.seen \in SUBSET Processes
    BY <2>1 DEF Guard
  <2>4. guard' \in Guard
    BY <1>3, <2>2, <2>3 DEF MeetGuard
  <2> QED BY <1>3, <2>4 DEF MeetGuard, TypeOK
<1>4. CASE GrowStale
  <2>1. guard \in Guard
    BY <1>4 DEF GrowStale, TypeOK
  <2>2. [guard EXCEPT !.age = "stale"] \in Guard
    BY <2>1 DEF Guard
  <2>3. guard' \in Guard
    BY <1>4, <2>2 DEF GrowStale
  <2>4. UNCHANGED <<lease, overtaken, late>>
    BY <1>4 DEF GrowStale
  <2> QED BY <1>1, <2>3, <2>4 DEF TypeOK
<1>5. ASSUME NEW p \in Processes,
             \/ Acquire(p) \/ Sweep(p) \/ Release(p) \/ Drain(p) \/ GiveUp(p) \/ StatGuard(p)
             \/ JudgeGuard(p) \/ Rename(p) \/ LookOwner(p) \/ ReclaimStale(p) \/ MatchToken(p)
             \/ AppendStep(p) \/ Crash(p)
      PROVE  Goal
  BY <1>5 DEF Acquire, Sweep, Release, Drain, GiveUp, StatGuard, JudgeGuard, Rename, LookOwner,
       ReclaimStale, MatchToken, AppendStep, CountAppend, CheckAppend, WriteAppend, Crash, TypeOK
<1> QED BY <1>1, <1>2, <1>3, <1>4, <1>5 DEF Next, LeaseStep

\* The places and tasks keep their types.
LEMMA PlaceTypes ==
  ASSUME TypeOK, Next
  PROVE  /\ pc' \in [Processes -> Outside \cup Inside]
         /\ task' \in [Processes -> {"none", "acquire", "release", "sweep"}]
<1> DEFINE Goal == /\ pc' \in [Processes -> Outside \cup Inside]
                   /\ task' \in [Processes -> {"none", "acquire", "release", "sweep"}]
<1>1. ASSUME NEW p \in Processes, NEW place \in Outside \cup Inside, Goto(p, place), UNCHANGED task
      PROVE  Goal
  BY <1>1 DEF Goto, TypeOK
<1>2. ASSUME NEW p \in Processes, NEW place \in Outside \cup Inside, Goto(p, place),
             NEW work \in {"none", "acquire", "release", "sweep"}, task' = [task EXCEPT ![p] = work]
      PROVE  Goal
  BY <1>2 DEF Goto, TypeOK
<1>3. ASSUME NEW p \in Processes,
             \/ Drain(p) \/ MakeGuard(p) \/ MeetGuard(p) \/ StatGuard(p) \/ JudgeGuard(p) \/ Steal(p)
             \/ Rename(p) \/ LookOwner(p) \/ ReclaimStale(p) \/ MatchToken(p)
      PROVE  Goal
  <2>1. \E place \in Outside \cup Inside : Goto(p, place)
    BY <1>3 DEF Drain, MakeGuard, Entry, MeetGuard, StatGuard, JudgeGuard, Steal, Rename, LookOwner,
         ReclaimStale, MatchToken, Outside, Inside
  <2>2. UNCHANGED task
    BY <1>3 DEF Drain, MakeGuard, MeetGuard, StatGuard, JudgeGuard, Steal, Rename, LookOwner,
         ReclaimStale, MatchToken
  <2> QED BY <1>1, <2>1, <2>2
<1>4. ASSUME NEW p \in Processes,
             Acquire(p) \/ Sweep(p) \/ Release(p) \/ GiveUp(p) \/ Unguard(p) \/ Crash(p)
      PROVE  Goal
  <2>1. \E place \in Outside \cup Inside : Goto(p, place)
    BY <1>4 DEF Acquire, Sweep, Release, GiveUp, Unguard, Crash, Begin, End, Outside
  <2>2. \E work \in {"none", "acquire", "release", "sweep"} : task' = [task EXCEPT ![p] = work]
    BY <1>4 DEF Acquire, Sweep, Release, GiveUp, Unguard, Crash, Begin, End
  <2> QED BY <1>2, <2>1, <2>2
<1>5. ASSUME NEW p \in Processes, AppendStep(p) PROVE Goal
  BY <1>5 DEF AppendStep, CountAppend, CheckAppend, WriteAppend, TypeOK
<1>6. CASE GrowStale
  BY <1>6 DEF GrowStale, TypeOK
<1> QED BY <1>3, <1>4, <1>5, <1>6 DEF Next, LeaseStep

\* What a process has keeps its type.
LEMMA OwnTypes ==
  ASSUME TypeOK, TaskInv, Next
  PROVE  /\ own' \in [Processes -> {"none", "held", "released"}]
         /\ tries' \in [Processes -> 0 .. Tries]
         /\ app' \in [Processes -> {"none", "counted", "writing"}]
<1>1. ASSUME NEW p \in Processes, Rename(p)
      PROVE  /\ own' \in [Processes -> {"none", "held", "released"}]
             /\ tries' \in [Processes -> 0 .. Tries]
             /\ app' \in [Processes -> {"none", "counted", "writing"}]
  <2>1. tries[p] + 1 \in 0 .. Tries
    BY <1>1, LeaseAssumption DEF Rename, TaskInv, TypeOK
  <2> QED BY <1>1, <2>1 DEF Rename, TypeOK
<1>2. ASSUME NEW p \in Processes, GiveUp(p) \/ Unguard(p) \/ Crash(p)
      PROVE  /\ own' \in [Processes -> {"none", "held", "released"}]
             /\ tries' \in [Processes -> 0 .. Tries]
             /\ app' \in [Processes -> {"none", "counted", "writing"}]
  <2>1. own' \in [Processes -> {"none", "held", "released"}]
    BY <1>2 DEF GiveUp, Unguard, Crash, TypeOK
  <2>2. tries' \in [Processes -> 0 .. Tries]
    BY <1>2, LeaseAssumption DEF GiveUp, Unguard, Crash, End, TypeOK
  <2>3. app' \in [Processes -> {"none", "counted", "writing"}]
    BY <1>2 DEF GiveUp, Unguard, Crash, TypeOK
  <2> QED BY <2>1, <2>2, <2>3
<1>3. ASSUME NEW p \in Processes,
             \/ Acquire(p) \/ Sweep(p) \/ Release(p) \/ Drain(p) \/ MakeGuard(p) \/ MeetGuard(p)
             \/ StatGuard(p) \/ JudgeGuard(p) \/ Steal(p) \/ LookOwner(p) \/ ReclaimStale(p)
             \/ MatchToken(p) \/ AppendStep(p)
      PROVE  /\ own' \in [Processes -> {"none", "held", "released"}]
             /\ tries' \in [Processes -> 0 .. Tries]
             /\ app' \in [Processes -> {"none", "counted", "writing"}]
  BY <1>3 DEF Acquire, Sweep, Release, Drain, MakeGuard, MeetGuard, StatGuard, JudgeGuard, Steal,
       LookOwner, ReclaimStale, MatchToken, AppendStep, CountAppend, CheckAppend, WriteAppend, TypeOK
<1>4. CASE GrowStale
  BY <1>4 DEF GrowStale, TypeOK
<1> QED BY <1>1, <1>2, <1>3, <1>4 DEF Next, LeaseStep

\* The type invariant is preserved.
LEMMA TypeStep == TypeOK /\ TaskInv /\ Next => TypeOK'
BY SharedTypes, PlaceTypes, OwnTypes DEF TypeOK

(***************************************************************************)
(* The process on its own: its task, its places and its appends.           *)
(***************************************************************************)
\* What TaskInv says of one process.
TaskOf(p) ==
  /\ pc[p] \in {"idle", "dead"} <=> task[p] = "none"
  /\ pc[p] = "rename" => task[p] = "acquire" /\ tries[p] < Tries
  /\ pc[p] \in Outside => tries[p] = 0
  /\ pc[p] \in {"match", "drain"} => task[p] = "release"
  /\ pc[p] = "look" => task[p] # "release"
  /\ task[p] = "acquire" \/ own[p] = "held" => p \in Workers
  /\ own[p] = "released" <=> task[p] = "release"
  /\ own[p] = "held" => pc[p] \in {"idle", "unguard"}

\* What AppendInv says of one process.
AppendOf(p) ==
  late = 0 => /\ app[p] # "none" => own[p] # "none"
              /\ app[p] = "writing" => own[p] = "held" \/ pc[p] = "drain"

\* A step of p leaves the other processes' variables alone.
LEMMA OthersKept ==
  ASSUME TypeOK, TypeOK', NEW p \in Processes, LeaseStep(p) \/ AppendStep(p) \/ Crash(p),
         NEW q \in Processes \ {p}
  PROVE  /\ pc'[q] = pc[q] /\ task'[q] = task[q] /\ own'[q] = own[q]
         /\ tries'[q] = tries[q] /\ app'[q] = app[q] /\ (late' = 0 => late = 0)
<1> USE DEF TypeOK, Goto, Begin, End
<1>1. CASE Acquire(p) \/ Sweep(p) \/ Release(p) \/ Drain(p) \/ MatchToken(p)
  BY <1>1 DEF Acquire, Sweep, Release, Drain, MatchToken
<1>2. CASE MakeGuard(p) \/ MeetGuard(p) \/ GiveUp(p) \/ StatGuard(p) \/ JudgeGuard(p) \/ Steal(p) \/ Unguard(p)
  BY <1>2 DEF MakeGuard, MeetGuard, GiveUp, StatGuard, JudgeGuard, Steal, Unguard
<1>3. CASE Rename(p) \/ LookOwner(p) \/ ReclaimStale(p)
  BY <1>3 DEF Rename, LookOwner, ReclaimStale
<1>4. CASE AppendStep(p) \/ Crash(p)
  BY <1>4 DEF AppendStep, CountAppend, CheckAppend, WriteAppend, Crash
<1> QED BY <1>1, <1>2, <1>3, <1>4 DEF LeaseStep

\* A step of p keeps p's own task and appends in order.
LEMMA SelfKept ==
  ASSUME TypeOK, TypeOK', NEW p \in Processes, LeaseStep(p) \/ AppendStep(p) \/ Crash(p),
         TaskOf(p), AppendOf(p)
  PROVE  TaskOf(p)' /\ AppendOf(p)'
<1> USE DEF TypeOK, Goto, Begin, End, TaskOf, AppendOf, Outside, Inside
<1> USE LeaseAssumption
<1>1. CASE Acquire(p)
  BY <1>1 DEF Acquire
<1>2. CASE Sweep(p)
  BY <1>2 DEF Sweep
<1>3. CASE Release(p)
  BY <1>3 DEF Release
<1>4. CASE Drain(p)
  BY <1>4 DEF Drain
<1>5. CASE MatchToken(p)
  BY <1>5 DEF MatchToken
<1>6. CASE MakeGuard(p)
  BY <1>6 DEF MakeGuard, Entry
<1>7. CASE MeetGuard(p)
  BY <1>7 DEF MeetGuard
<1>8. CASE GiveUp(p)
  BY <1>8 DEF GiveUp
<1>9. CASE StatGuard(p) \/ JudgeGuard(p) \/ Steal(p)
  BY <1>9 DEF StatGuard, JudgeGuard, Steal
<1>10. CASE Unguard(p)
  BY <1>10 DEF Unguard
<1>11. CASE Rename(p)
  BY <1>11 DEF Rename
<1>12. CASE LookOwner(p)
  BY <1>12 DEF LookOwner
<1>13. CASE ReclaimStale(p)
  BY <1>13 DEF ReclaimStale
<1>14. CASE AppendStep(p)
  BY <1>14 DEF AppendStep, CountAppend, CheckAppend, WriteAppend, Alive
<1>15. CASE Crash(p)
  BY <1>15 DEF Crash
<1> QED BY <1>1, <1>2, <1>3, <1>4, <1>5, <1>6, <1>7, <1>8, <1>9, <1>10, <1>11, <1>12, <1>13, <1>14,
           <1>15 DEF LeaseStep

\* Every step keeps every process's task and appends in order.
LEMMA TaskStep ==
  ASSUME TypeOK, TypeOK', TaskInv, AppendInv, Next
  PROVE  TaskInv' /\ AppendInv'
<1>1. \A p \in Processes : TaskOf(p) /\ AppendOf(p)
  BY DEF TaskInv, AppendInv, TaskOf, AppendOf
<1>2. CASE GrowStale
  BY <1>1, <1>2 DEF GrowStale, TaskInv, AppendInv
<1>3. ASSUME NEW p \in Processes, LeaseStep(p) \/ AppendStep(p) \/ Crash(p)
      PROVE  \A q \in Processes : TaskOf(q)' /\ AppendOf(q)'
  <2>1. TaskOf(p)' /\ AppendOf(p)'
    BY <1>1, <1>3, SelfKept
  <2>2. ASSUME NEW q \in Processes \ {p} PROVE TaskOf(q)' /\ AppendOf(q)'
    BY <1>1, <1>3, <2>2, OthersKept DEF TaskOf, AppendOf
  <2> QED BY <2>1, <2>2
<1>4. ASSUME \A q \in Processes : TaskOf(q)' /\ AppendOf(q)' PROVE TaskInv' /\ AppendInv'
  BY <1>4 DEF TaskInv, AppendInv, TaskOf, AppendOf
<1> QED BY <1>2, <1>3, <1>4 DEF Next

(***************************************************************************)
(* The guard.                                                              *)
(***************************************************************************)
\* Two processes are not inside together.
LEMMA OneInside ==
  ASSUME GuardInv, NEW p \in Processes, NEW q \in Processes, pc[p] \in Inside, pc[q] \in Inside
  PROVE  p = q
BY DEF GuardInv

\* A step that leaves the guard to its maker, enters nobody, and makes a
\* thief only of a guard without anyone inside, keeps the guard's invariant.
LEMMA GuardKept ==
  ASSUME TypeOK, TypeOK', GuardInv, ~Exposure', NEW p \in Processes,
         \A q \in Processes \ {p} : pc'[q] = pc[q],
         pc'[p] \in Inside => pc[p] \in Inside,
         guard # None => guard' # None /\ guard'.by = guard.by /\ (guard.age = "stale" => guard'.age = "stale"),
         pc'[p] = "judge" => pc[p] = "judge" \/ (guard # None /\ guard'.age = "stale"),
         pc'[p] = "steal" => \A q \in Processes \ {p} : pc[q] \notin Inside
  PROVE  GuardInv'
<1>1. ASSUME NEW q \in Processes, pc'[q] \in Inside
      PROVE  /\ guard' # None /\ guard'.by = q
             /\ \A r \in Processes : pc'[r] # "steal" /\ (pc'[r] = "judge" => guard'.age = "stale")
  <2>1. pc[q] \in Inside
    BY <1>1
  <2>2. guard # None /\ guard.by = q
    BY <2>1 DEF GuardInv
  <2>3. guard' # None /\ guard'.by = q
    BY <2>2
  <2>4. ASSUME NEW r \in Processes, r # p
        PROVE  pc'[r] # "steal" /\ (pc'[r] = "judge" => guard'.age = "stale")
    BY <2>1, <2>2, <2>4 DEF GuardInv
  <2>5. pc'[p] # "steal"
    BY <1>1, <2>1 DEF Inside
  <2>6. pc'[p] = "judge" => guard'.age = "stale"
    BY <2>1, <2>2 DEF GuardInv
  <2> QED BY <2>3, <2>4, <2>5, <2>6
<1> QED BY <1>1 DEF GuardInv

\* Every step that leaves the lease orderly keeps the guard's invariant.
LEMMA GuardStep ==
  ASSUME TypeOK, TypeOK', TaskInv, GuardInv, Orderly', Next
  PROVE  GuardInv'
<1> USE DEF TypeOK, Inside
<1>0. ~Exposure'
  BY OrderlyBefore
<1>1. CASE GrowStale
  <2>1. guard' # None /\ guard'.by = guard.by /\ guard'.age = "stale" /\ pc' = pc
    BY <1>1, LeaseAssumption DEF GrowStale, Guard
  <2> QED BY <1>0, <1>1, <2>1 DEF GuardInv, GrowStale
<1>2. ASSUME NEW p \in Processes, MakeGuard(p) PROVE GuardInv'
  <2>1. guard' # None /\ guard'.by = p
    BY <1>2, LeaseAssumption DEF MakeGuard, Made, Guard
  <2>2. \A q \in Processes \ {p} : pc'[q] = pc[q] /\ pc[q] \notin {"judge", "steal"}
    BY <1>2 DEF MakeGuard, Goto, Orderly
  <2>3. pc'[p] \in Inside
    BY <1>2 DEF MakeGuard, Goto, Entry
  <2>4. \A q \in Processes : pc[q] \notin Inside
    BY <1>2 DEF MakeGuard, GuardInv
  <2>5. \A q \in Processes : pc'[q] \in Inside => q = p
    BY <2>2, <2>4
  <2>6. \A q \in Processes : pc'[q] \notin {"judge", "steal"}
    BY <2>2, <2>3
  <2> QED BY <1>0, <2>1, <2>5, <2>6 DEF GuardInv
<1>3. ASSUME NEW p \in Processes, MeetGuard(p) PROVE GuardInv'
  <2>1. guard' # None /\ guard'.by = guard.by /\ guard'.age = guard.age
    BY <1>3, LeaseAssumption DEF MeetGuard, Guard
  <2>2. pc'[p] = "met" /\ \A q \in Processes \ {p} : pc'[q] = pc[q]
    BY <1>3 DEF MeetGuard, Goto
  <2> QED BY <1>0, <2>1, <2>2, GuardKept
<1>4. ASSUME NEW p \in Processes, JudgeGuard(p) PROVE GuardInv'
  <2>1. pc'[p] \in {"again", "steal"} /\ guard' = guard /\ \A q \in Processes \ {p} : pc'[q] = pc[q]
    BY <1>4 DEF JudgeGuard, Goto
  <2>2. ASSUME pc'[p] = "steal", NEW q \in Processes, pc[q] \in Inside PROVE FALSE
    <3>1. guard # None /\ guard.by = q /\ guard.age = "stale"
      BY <1>4, <2>2 DEF GuardInv, JudgeGuard
    <3>2. ~LiveOwner
      BY <1>4, <2>2 DEF JudgeGuard, Goto
    <3>3. Alive(q)
      BY <2>2 DEF Alive
    <3> QED BY <3>1, <3>2, <3>3 DEF GuardInv, Exposure
  <2> QED BY <1>0, <2>1, <2>2, GuardKept
<1>5. ASSUME NEW p \in Processes, Steal(p) \/ Unguard(p) PROVE GuardInv'
  <2>1. \A q \in Processes \ {p} : pc'[q] = pc[q] /\ pc[q] \notin Inside
    BY <1>5 DEF Steal, Unguard, End, Goto, GuardInv
  <2>2. pc'[p] \notin Inside
    BY <1>5 DEF Steal, Unguard, End, Goto
  <2> QED BY <1>0, <2>1, <2>2 DEF GuardInv
<1>6. ASSUME NEW p \in Processes, StatGuard(p) PROVE GuardInv'
  <2>1. pc'[p] \in {"again", "judge"} /\ guard' = guard /\ \A q \in Processes \ {p} : pc'[q] = pc[q]
    BY <1>6 DEF StatGuard, Goto
  <2>2. pc'[p] = "judge" => guard # None /\ guard.age = "stale"
    BY <1>6 DEF StatGuard, Goto
  <2> QED BY <1>0, <2>1, <2>2, GuardKept
<1>7. ASSUME NEW p \in Processes,
             \/ Acquire(p) \/ Sweep(p) \/ Release(p) \/ Drain(p) \/ GiveUp(p) \/ Rename(p)
             \/ LookOwner(p) \/ ReclaimStale(p) \/ MatchToken(p) \/ Crash(p)
      PROVE  GuardInv'
  <2>1. guard' = guard /\ \A q \in Processes \ {p} : pc'[q] = pc[q]
    BY <1>7 DEF Acquire, Sweep, Release, Drain, GiveUp, Rename, LookOwner, ReclaimStale, MatchToken,
         Crash, Begin, End, Goto
  <2>2. pc'[p] \notin {"judge", "steal"} /\ (pc'[p] \in Inside => pc[p] \in Inside)
    BY <1>7 DEF Acquire, Sweep, Release, Drain, GiveUp, Rename, LookOwner, ReclaimStale, MatchToken,
         Crash, Begin, End, Goto
  <2> QED BY <1>0, <2>1, <2>2, GuardKept
<1>8. ASSUME NEW p \in Processes, AppendStep(p) PROVE GuardInv'
  BY <1>0, <1>8 DEF AppendStep, CountAppend, CheckAppend, WriteAppend, GuardInv
<1> QED BY <1>1, <1>2, <1>3, <1>4, <1>5, <1>6, <1>7, <1>8 DEF Next, LeaseStep

(***************************************************************************)
(* The lease.                                                              *)
(***************************************************************************)
\* What OwnerInv says of one process.
OwnerOf(p) ==
  /\ pc[p] = "away" => Reclaimable \/ (lease = p /\ task[p] = "release")
  /\ own[p] # "none" => lease = p \/ (own[p] = "released" /\ pc[p] = "unguard")

\* A step that leaves the lease alone can only kill its owner.
LEMMA ReclaimableKept ==
  ASSUME TypeOK, TypeOK', NEW p \in Processes, lease' = lease, Reclaimable,
         \A q \in Processes \ {p} : pc'[q] = pc[q], pc'[p] = "dead" \/ Alive(p)
  PROVE  Reclaimable'
BY LeaseAssumption DEF Reclaimable, LiveOwner, Alive, TypeOK

\* A process at a step is alive.
LEMMA AtWork ==
  ASSUME NEW p \in Processes, LeaseStep(p)
  PROVE  Alive(p)
BY DEF Alive, LeaseStep, Acquire, Sweep, Release, Drain, MakeGuard, MeetGuard, GiveUp, StatGuard,
  JudgeGuard, Steal, Unguard, Rename, LookOwner, ReclaimStale, MatchToken

\* A SessionLease is a live process's.
LEMMA OwnersAlive ==
  ASSUME TypeOK, TaskInv, NEW p \in Processes, own[p] # "none"
  PROVE  Alive(p)
BY DEF TypeOK, TaskInv, Alive

\* A step of p that leaves the lease alone keeps what is said of the others.
LEMMA OthersOwn ==
  ASSUME TypeOK, TypeOK', OwnerInv, NEW p \in Processes, lease' = lease,
         LeaseStep(p) \/ AppendStep(p) \/ Crash(p), pc'[p] = "dead" \/ Alive(p),
         NEW q \in Processes \ {p}
  PROVE  OwnerOf(q)'
<1>1. /\ pc'[q] = pc[q] /\ task'[q] = task[q] /\ own'[q] = own[q]
      /\ \A r \in Processes \ {p} : pc'[r] = pc[r]
  BY OthersKept
<1>2. Reclaimable => Reclaimable'
  BY <1>1, ReclaimableKept
<1> QED BY <1>1, <1>2 DEF OwnerInv, OwnerOf

\* A step of p that leaves the lease alone keeps what is said of p.
LEMMA SelfOwn ==
  ASSUME TypeOK, TypeOK', TaskInv, OwnerInv, NEW p \in Processes, lease' = lease,
         LeaseStep(p) \/ Crash(p), ~ReclaimStale(p), ~(Rename(p) /\ lease = None)
  PROVE  OwnerOf(p)'
<1> USE DEF TypeOK, Goto, Begin, End, OwnerOf
<1>0. OwnerOf(p) /\ TaskOf(p)
  BY DEF OwnerInv, TaskInv, TaskOf
<1>1. CASE Acquire(p) \/ Sweep(p) \/ Release(p) \/ Drain(p)
  BY <1>0, <1>1 DEF Acquire, Sweep, Release, Drain, TaskOf
<1>2. CASE MakeGuard(p) \/ MeetGuard(p) \/ GiveUp(p) \/ StatGuard(p) \/ JudgeGuard(p) \/ Steal(p)
  BY <1>0, <1>2 DEF MakeGuard, Entry, MeetGuard, GiveUp, StatGuard, JudgeGuard, Steal, TaskOf
<1>3. CASE Unguard(p)
  BY <1>0, <1>3 DEF Unguard, TaskOf
<1>4. CASE Rename(p)
  BY <1>0, <1>4 DEF Rename, TaskOf
<1>5. CASE LookOwner(p)
  <2>1. Reclaimable => Reclaimable'
    BY <1>5 DEF LookOwner, Reclaimable, LiveOwner, Alive
  <2> QED BY <1>0, <1>5, <2>1 DEF LookOwner, TaskOf
<1>6. CASE MatchToken(p)
  BY <1>0, <1>6 DEF MatchToken, TaskOf
<1>7. CASE Crash(p)
  BY <1>7 DEF Crash
<1> QED BY <1>1, <1>2, <1>3, <1>4, <1>5, <1>6, <1>7 DEF LeaseStep

\* The rename onto a free path makes p the owner, and there was none.
LEMMA RenameOwn ==
  ASSUME TypeOK, TypeOK', TaskInv, GuardInv, OwnerInv, NEW p \in Processes, Rename(p), lease = None
  PROVE  \A q \in Processes : OwnerOf(q)'
<1>1. pc[p] = "rename" /\ lease' = p /\ pc'[p] = "unguard" /\ own'[p] = "held"
  BY DEF Rename, Goto, TypeOK
<1>2. OwnerOf(p)'
  BY <1>1 DEF OwnerOf
<1>3. ASSUME NEW q \in Processes \ {p} PROVE OwnerOf(q)'
  <2>1. pc'[q] = pc[q] /\ own'[q] = own[q]
    BY OthersKept DEF LeaseStep
  <2>2. pc[q] \notin Inside
    BY <1>1, OneInside DEF Inside
  <2>3. lease # q
    BY LeaseAssumption
  <2> QED BY <2>1, <2>2, <2>3 DEF OwnerInv, OwnerOf, Inside
<1> QED BY <1>2, <1>3

\* What reclaim_stale takes away is no one's but the releaser's.
LEMMA ReclaimOwn ==
  ASSUME TypeOK, TypeOK', TaskInv, GuardInv, OwnerInv, NEW p \in Processes, ReclaimStale(p)
  PROVE  \A q \in Processes : OwnerOf(q)'
<1>1. pc[p] = "away" /\ lease' = None /\ own'[p] = own[p] /\ pc'[p] \in {"rename", "unguard"}
  BY DEF ReclaimStale, Goto, TypeOK
<1>2. OwnerOf(p)'
  <2>1. own[p] # "none" => own[p] = "released" /\ task[p] = "release"
    BY <1>1 DEF TaskInv, TypeOK
  <2>2. task[p] = "release" => pc'[p] = "unguard"
    BY DEF ReclaimStale, Goto, TypeOK
  <2> QED BY <1>1, <2>1, <2>2 DEF OwnerOf
<1>3. ASSUME NEW q \in Processes \ {p} PROVE OwnerOf(q)'
  <2>1. pc'[q] = pc[q] /\ own'[q] = own[q]
    BY OthersKept DEF LeaseStep
  <2>2. pc[q] \notin Inside
    BY <1>1, OneInside DEF Inside
  <2>3. own[q] # "none" => lease = q /\ Alive(q)
    BY <2>2, OwnersAlive DEF OwnerInv, Inside
  <2>4. Reclaimable \/ lease = p
    BY <1>1 DEF OwnerInv
  <2>5. own[q] = "none"
    BY <2>3, <2>4, LeaseAssumption DEF Reclaimable, LiveOwner
  <2> QED BY <2>1, <2>2, <2>5 DEF OwnerOf, Inside
<1> QED BY <1>2, <1>3

\* Every step of an orderly lease keeps what is said of its owner.
LEMMA OwnerStep ==
  ASSUME TypeOK, TypeOK', TaskInv, AppendInv, GuardInv, OwnerInv, Next
  PROVE  OwnerInv'
<1>1. CASE GrowStale
  BY <1>1 DEF GrowStale, OwnerInv, Reclaimable, LiveOwner, Alive
<1>2. ASSUME NEW p \in Processes, LeaseStep(p) \/ Crash(p) PROVE \A q \in Processes : OwnerOf(q)'
  <2>1. CASE ReclaimStale(p)
    BY <2>1, ReclaimOwn
  <2>2. CASE Rename(p) /\ lease = None
    BY <2>2, RenameOwn
  <2>3. CASE ~ReclaimStale(p) /\ ~(Rename(p) /\ lease = None)
    <3>1. lease' = lease
      BY <1>2, <2>3 DEF LeaseStep, Acquire, Sweep, Release, Drain, MakeGuard, MeetGuard, GiveUp,
           StatGuard, JudgeGuard, Steal, Unguard, Rename, LookOwner, MatchToken, Crash
    <3>2. pc'[p] = "dead" \/ Alive(p)
      BY <1>2, AtWork DEF Crash
    <3>3. \A q \in Processes \ {p} : OwnerOf(q)'
      BY <1>2, <3>1, <3>2, OthersOwn
    <3>4. OwnerOf(p)'
      BY <1>2, <2>3, <3>1, SelfOwn
    <3> QED BY <3>3, <3>4
  <2> QED BY <2>1, <2>2, <2>3
<1>3. ASSUME NEW p \in Processes, AppendStep(p) PROVE OwnerInv'
  BY <1>3 DEF AppendStep, CountAppend, CheckAppend, WriteAppend, OwnerInv, Reclaimable, LiveOwner, Alive
<1>4. ASSUME \A q \in Processes : OwnerOf(q)' PROVE OwnerInv'
  BY <1>4 DEF OwnerInv, OwnerOf
<1> QED BY <1>1, <1>2, <1>3, <1>4 DEF Next

(***************************************************************************)
(* The theorems.                                                           *)
(***************************************************************************)
\* The invariant holds before the first acquisition.
LEMMA InitLease == Init => LeaseInv
<1> SUFFICES ASSUME Init PROVE LeaseInv
  OBVIOUS
<1>1. TypeOK
  <2>1. \A p \in Gone : p \in Processes /\ Made(p) \in Guard
    BY LeaseAssumption DEF Made, Guard, Processes
  <2>2. lease \in Processes \cup {None} /\ guard \in Guard \cup {None}
    BY <2>1 DEF Init
  <2>3. pc \in [Processes -> Outside \cup Inside]
    BY DEF Init, Outside
  <2> QED BY <2>2, <2>3, LeaseAssumption DEF Init, TypeOK
<1>2. \A p \in Processes :
        /\ pc[p] \in {"idle", "dead"} /\ task[p] = "none" /\ own[p] = "none"
        /\ tries[p] = 0 /\ app[p] = "none"
  BY DEF Init
<1>3. TaskInv
  BY <1>2 DEF TaskInv
<1>4. AppendInv
  BY <1>2 DEF AppendInv
<1>5. ~Exposure
  BY DEF Init, Exposure, Made
<1>6. GuardInv
  BY <1>2, <1>5 DEF GuardInv, Inside
<1>7. OwnerInv
  BY <1>2 DEF OwnerInv
<1> QED BY <1>1, <1>3, <1>4, <1>6, <1>7 DEF LeaseInv

\* The invariant is inductive.
LEMMA NextLease == LeaseInv /\ [Next]_vars => LeaseInv'
<1> SUFFICES ASSUME LeaseInv, [Next]_vars PROVE LeaseInv'
  OBVIOUS
<1>1. CASE Next
  <2>1. TypeOK /\ TypeOK' /\ TaskInv /\ AppendInv
    BY <1>1, TypeStep DEF LeaseInv
  <2>2. TaskInv' /\ AppendInv'
    BY <1>1, <2>1, TaskStep
  <2>3. ASSUME Orderly' PROVE GuardInv' /\ OwnerInv'
    <3>1. GuardInv /\ OwnerInv
      BY <1>1, <2>1, <2>3, OrderlyBefore DEF LeaseInv
    <3> QED BY <1>1, <2>1, <2>3, <3>1, GuardStep, OwnerStep
  <2> QED BY <2>1, <2>2, <2>3 DEF LeaseInv
<1>2. CASE UNCHANGED vars
  BY <1>2 DEF vars, LeaseInv, TypeOK, TaskInv, AppendInv, Orderly, GuardInv, OwnerInv, Exposure,
       Reclaimable, LiveOwner, Alive
<1> QED BY <1>1, <1>2

(* The lease's inductive invariant holds in every reachable state.          *)
THEOREM LeaseInvariant == Spec => []LeaseInv
<1>1. LeaseInv /\ UNCHANGED vars => LeaseInv'
  BY NextLease
<1> QED BY InitLease, NextLease, <1>1, PTL DEF Spec

(* For any workers, supervisors and deaths, a process that has not given up *)
(* the session's lease is its recorded owner, as long as no two thefts of   *)
(* the guard overlap and no guard is exposed.                               *)
THEOREM LeaseOneHost == Spec => []OneHost
<1>1. LeaseInv => OneHost
  BY DEF LeaseInv, OwnerInv, OneHost
<1> QED BY <1>1, LeaseInvariant, PTL

(* Under the same condition, an append that has passed its check lands      *)
(* before the lease goes, unless a drain's deadline has passed.             *)
THEOREM LeaseNoRowBehindSuccessor == Spec => []NoRowBehindSuccessor
<1>1. LeaseInv => NoRowBehindSuccessor
  <2> SUFFICES ASSUME LeaseInv, Orderly, late = 0, NEW p \in Processes, app[p] = "writing"
               PROVE  lease = p
    BY DEF NoRowBehindSuccessor
  <2>1. own[p] # "none" /\ (own[p] = "held" \/ pc[p] = "drain")
    BY DEF LeaseInv, AppendInv
  <2> QED BY <2>1 DEF LeaseInv, OwnerInv
<1> QED BY <1>1, LeaseInvariant, PTL
=============================================================================
