-------------------------- MODULE SocketPathProofs --------------------------
(***************************************************************************)
(* Proofs about SocketPath, for any processes, whichever of them die, and  *)
(* any inode numbers.                                                      *)
(***************************************************************************)
EXTENDS SocketPath, TLAPS

\* Steps that only move a process.
Move(p) ==
  \/ Stat(p) \/ Probe(p) \/ ProbeLocked(p) \/ Look(p) \/ Knock(p) \/ WaitOn(p) \/ Deadline(p)
  \/ LastLook(p) \/ Listen(p) \/ ExitLook(p)

\* A move changes the place of its process alone.
LEMMA MoveOnly ==
  ASSUME NEW p \in Processes, Move(p)
  PROVE  /\ UNCHANGED <<path, lock, bound, seen, mine, strained>>
         /\ \E place \in Places : Goto(p, place)
<1>1. UNCHANGED <<path, lock, bound, seen, mine, strained>>
  BY DEF Move, Stat, Probe, ProbeLocked, Look, Knock, WaitOn, Deadline, LastLook, Listen, ExitLook
<1>2. \E place \in Places : Goto(p, place)
  BY DEF Move, Stat, Probe, ProbeLocked, Look, Knock, WaitOn, Deadline, LastLook, Listen, ExitLook,
       Connect, Compare, Places, Locked, Judging, Preparing, Exiting
<1> QED BY <1>1, <1>2

\* The steps, with the moves together.
LEMMA Steps ==
  ASSUME Next
  PROVE  \E p \in Processes :
           \/ Move(p) \/ AcquireCleanupLock(p) \/ StatLocked(p) \/ LastKnock(p) \/ Unlink(p)
           \/ Release(p) \/ Bind(p) \/ Capture(p) \/ ExitKnock(p) \/ ExitLock(p) \/ ExitUnlink(p)
           \/ Close(p) \/ AcceptError(p) \/ LockTimeout(p) \/ LoseLock(p) \/ Crash(p)
BY DEF Next, Step, PrepareStep, ServeStep, ExitStep, Move

\* Strain is never taken back.
LEMMA StrainStays ==
  ASSUME Next
  PROVE  strained \subseteq strained'
<1>1. ASSUME NEW p \in Processes,
             \/ Move(p) \/ AcquireCleanupLock(p) \/ StatLocked(p) \/ Unlink(p) \/ Release(p) \/ Capture(p)
             \/ ExitLock(p) \/ ExitUnlink(p) \/ Close(p) \/ AcceptError(p) \/ Crash(p)
      PROVE  strained' = strained
  BY <1>1, MoveOnly DEF AcquireCleanupLock, StatLocked, Unlink, Release, Capture, ExitLock, ExitUnlink,
       Close, AcceptError, Crash
<1>2. ASSUME NEW p \in Processes,
             LastKnock(p) \/ Bind(p) \/ ExitKnock(p) \/ LockTimeout(p) \/ LoseLock(p)
      PROVE  strained \subseteq strained'
  BY <1>2 DEF LastKnock, Bind, ExitKnock, LockTimeout, LoseLock
<1> QED BY <1>1, <1>2, Steps

\* An orderly run was orderly all along, and a calm one calm.
LEMMA OrderlyBefore ==
  ASSUME Next
  PROVE  (Orderly' => Orderly) /\ (Calm' => Calm)
BY StrainStays DEF Orderly, Calm

(***************************************************************************)
(* Types.                                                                  *)
(***************************************************************************)
\* The path, the lock and the strain keep their types.
LEMMA SharedTypes ==
  ASSUME TypeOK, Next
  PROVE  /\ path' \in Inodes \cup {Other, None}
         /\ lock' \in Processes \cup {None}
         /\ strained' \in SUBSET Strains
<1> DEFINE Goal == /\ path' \in Inodes \cup {Other, None}
                   /\ lock' \in Processes \cup {None}
                   /\ strained' \in SUBSET Strains
<1>1. ASSUME NEW p \in Processes, Move(p) PROVE Goal
  BY <1>1, MoveOnly DEF TypeOK
<1>2. ASSUME NEW p \in Processes,
             \/ AcquireCleanupLock(p) \/ StatLocked(p) \/ Unlink(p) \/ Release(p) \/ Capture(p)
             \/ ExitLock(p) \/ ExitUnlink(p) \/ Close(p) \/ AcceptError(p) \/ Crash(p)
      PROVE  Goal
  BY <1>2 DEF AcquireCleanupLock, StatLocked, Unlink, Release, Capture, ExitLock, ExitUnlink,
       Close, AcceptError, Crash, TypeOK
<1>3. ASSUME NEW p \in Processes, LastKnock(p) \/ ExitKnock(p) PROVE Goal
  <2>1. Misjudged(path) \subseteq Strains
    BY DEF Misjudged, Strains
  <2>2. strained' \in SUBSET Strains
    BY <1>3, <2>1 DEF LastKnock, ExitKnock, TypeOK
  <2> QED BY <1>3, <2>2 DEF LastKnock, ExitKnock, TypeOK
<1>4. ASSUME NEW p \in Processes, Bind(p) PROVE Goal
  BY <1>4 DEF Bind, TypeOK, Strains
<1>5. ASSUME NEW p \in Processes, LockTimeout(p) \/ LoseLock(p) PROVE Goal
  BY <1>5 DEF LockTimeout, LoseLock, TypeOK, Strains
<1> QED BY <1>1, <1>2, <1>3, <1>4, <1>5, Steps

\* Every step leaves each process at a place.
LEMMA PlaceTypes ==
  ASSUME TypeOK, Next
  PROVE  pc' \in [Processes -> Places]
<1>1. ASSUME NEW p \in Processes, NEW place \in Places, Goto(p, place)
      PROVE  pc' \in [Processes -> Places]
  BY <1>1 DEF Goto, TypeOK
<1>2. ASSUME NEW p \in Processes,
             \/ AcquireCleanupLock(p) \/ StatLocked(p) \/ LastKnock(p) \/ Unlink(p) \/ Release(p)
             \/ Bind(p) \/ Capture(p)
      PROVE  \E place \in Places : Goto(p, place)
  BY <1>2 DEF AcquireCleanupLock, StatLocked, LastKnock, Unlink, Release, Bind, Capture,
       Places, Locked, Judging, Preparing
<1>3. ASSUME NEW p \in Processes,
             \/ ExitKnock(p) \/ ExitLock(p) \/ ExitUnlink(p) \/ Close(p) \/ AcceptError(p)
             \/ LockTimeout(p) \/ LoseLock(p) \/ Crash(p)
      PROVE  \E place \in Places : Goto(p, place)
  BY <1>3 DEF ExitKnock, ExitLock, ExitUnlink, Close, AcceptError, LockTimeout, LoseLock, Crash, Spare,
       Places, Locked, Exiting
<1> QED BY <1>1, <1>2, <1>3, MoveOnly, Steps

\* What a process has keeps its type.
LEMMA OwnTypes ==
  ASSUME TypeOK, Next
  PROVE  /\ bound' \in [Processes -> Inodes \cup {None}]
         /\ seen' \in [Processes -> Inodes \cup {None}]
         /\ mine' \in [Processes -> Inodes \cup {Other, None}]
<1> DEFINE Goal == /\ bound' \in [Processes -> Inodes \cup {None}]
                   /\ seen' \in [Processes -> Inodes \cup {None}]
                   /\ mine' \in [Processes -> Inodes \cup {Other, None}]
<1>1. ASSUME NEW p \in Processes, Move(p) PROVE Goal
  BY <1>1, MoveOnly DEF TypeOK
<1>2. ASSUME NEW p \in Processes,
             \/ AcquireCleanupLock(p) \/ LastKnock(p) \/ Unlink(p) \/ ExitUnlink(p) \/ LockTimeout(p)
             \/ LoseLock(p)
      PROVE  Goal
  BY <1>2 DEF AcquireCleanupLock, LastKnock, Unlink, ExitUnlink, LockTimeout, LoseLock, TypeOK
<1>3. ASSUME NEW p \in Processes, StatLocked(p) \/ Capture(p) PROVE Goal
  BY <1>3 DEF StatLocked, Capture, TypeOK
<1>4. ASSUME NEW p \in Processes, Bind(p) PROVE Goal
  BY <1>4 DEF Bind, TypeOK
<1>5. ASSUME NEW p \in Processes, ExitKnock(p) \/ ExitLock(p) PROVE Goal
  BY <1>5 DEF ExitKnock, ExitLock, Spare, TypeOK
<1>6. ASSUME NEW p \in Processes, Release(p) \/ Close(p) \/ AcceptError(p) \/ Crash(p) PROVE Goal
  BY <1>6 DEF Release, Close, AcceptError, Crash, TypeOK
<1> QED BY <1>1, <1>2, <1>3, <1>4, <1>5, <1>6, Steps

\* Type correctness is kept.
LEMMA TypeStep ==
  ASSUME TypeOK, Next
  PROVE  TypeOK'
BY SharedTypes, PlaceTypes, OwnTypes DEF TypeOK

(***************************************************************************)
(* Where a process is and what it has.                                     *)
(***************************************************************************)
\* PlaceInv is kept.
LEMMA PlaceStep ==
  ASSUME TypeOK, PlaceInv, Next
  PROVE  PlaceInv'
<1> USE SocketAssumption DEF PlaceInv, TypeOK, Goto
<1>1. ASSUME NEW p \in Processes, Move(p) PROVE PlaceInv'
  BY <1>1, MoveOnly DEF Move, Stat, Probe, ProbeLocked, Look, Knock, WaitOn, Deadline, LastLook, Listen,
       ExitLook, Connect, Compare, Judging, Exiting
<1>2. ASSUME NEW p \in Processes, AcquireCleanupLock(p) \/ LockTimeout(p) \/ LoseLock(p)
      PROVE  PlaceInv'
  BY <1>2 DEF AcquireCleanupLock, LockTimeout, LoseLock, Judging, Exiting
<1>3. ASSUME NEW p \in Processes, StatLocked(p) PROVE PlaceInv'
  BY <1>3 DEF StatLocked, Judging, Exiting
<1>4. ASSUME NEW p \in Processes, LastKnock(p) \/ Unlink(p) \/ ExitUnlink(p) PROVE PlaceInv'
  BY <1>4 DEF LastKnock, Unlink, ExitUnlink, Judging, Exiting
<1>5. ASSUME NEW p \in Processes, Release(p) PROVE PlaceInv'
  BY <1>5 DEF Release, Judging, Exiting
<1>6. ASSUME NEW p \in Processes, Bind(p) PROVE PlaceInv'
  BY <1>6 DEF Bind, Judging, Exiting
<1>7. ASSUME NEW p \in Processes, Capture(p) PROVE PlaceInv'
  BY <1>7 DEF Capture, Judging, Exiting
<1>8. ASSUME NEW p \in Processes, Close(p) \/ AcceptError(p) \/ Crash(p) PROVE PlaceInv'
  BY <1>8 DEF Close, AcceptError, Crash, Judging, Exiting
<1>9. ASSUME NEW p \in Processes, ExitKnock(p) \/ ExitLock(p) PROVE PlaceInv'
  BY <1>9 DEF ExitKnock, ExitLock, Spare, Judging, Exiting
<1> QED BY <1>1, <1>2, <1>3, <1>4, <1>5, <1>6, <1>7, <1>8, <1>9, Steps

\* OtherInv is kept.
LEMMA OtherStep ==
  ASSUME TypeOK, OtherInv, Next
  PROVE  OtherInv'
<1> USE SocketAssumption DEF OtherInv, TypeOK, Goto
<1>1. ASSUME NEW p \in Processes, Move(p) PROVE OtherInv'
  BY <1>1, MoveOnly DEF Move, Stat, Probe, ProbeLocked, Look, Knock, WaitOn, Deadline, LastLook, Listen,
       ExitLook, Connect
<1>2. ASSUME NEW p \in Processes,
             \/ AcquireCleanupLock(p) \/ StatLocked(p) \/ Release(p) \/ LockTimeout(p) \/ LoseLock(p)
             \/ Crash(p)
      PROVE  OtherInv'
  BY <1>2 DEF AcquireCleanupLock, StatLocked, Release, LockTimeout, LoseLock, Crash
<1>3. ASSUME NEW p \in Processes,
             \/ LastKnock(p) \/ Unlink(p) \/ Bind(p) \/ Capture(p) \/ Close(p) \/ AcceptError(p)
             \/ ExitKnock(p) \/ ExitLock(p) \/ ExitUnlink(p)
      PROVE  OtherInv'
  BY <1>3 DEF LastKnock, Unlink, Bind, Capture, Close, AcceptError, ExitKnock, ExitLock, ExitUnlink, Spare
<1> QED BY <1>1, <1>2, <1>3, Steps

(***************************************************************************)
(* The cleanup lock.                                                       *)
(***************************************************************************)
\* While the lock excludes, the file a process is about to remove is the one
\* it compared: nobody else removes it, and bind needs an empty path.
LEMMA LockedStep ==
  ASSUME TypeOK, PlaceInv, LockedInv, Next, Orderly'
  PROVE  LockedInv'
<1> USE SocketAssumption DEF LockedInv, TypeOK, Goto
<1>1. ASSUME NEW p \in Processes, Move(p) PROVE LockedInv'
  BY <1>1, MoveOnly DEF Move, Stat, Probe, ProbeLocked, Look, Knock, WaitOn, Deadline, LastLook, Listen,
       ExitLook, Connect, Compare, Judging, Locked
<1>2. ASSUME NEW p \in Processes, AcquireCleanupLock(p) PROVE LockedInv'
  BY <1>2 DEF AcquireCleanupLock, Free, Alive, Judging, Locked
<1>3. ASSUME NEW p \in Processes, ExitLock(p) PROVE LockedInv'
  BY <1>3 DEF ExitLock, Spare, Free, Alive, Judging, Locked
<1>4. ASSUME NEW p \in Processes, LoseLock(p) PROVE FALSE
  BY <1>4 DEF LoseLock, Orderly
<1>5. ASSUME NEW p \in Processes, StatLocked(p) \/ LastKnock(p) \/ LockTimeout(p) PROVE LockedInv'
  BY <1>5 DEF StatLocked, LastKnock, LockTimeout, Judging, Locked
<1>6. ASSUME NEW p \in Processes, Unlink(p) \/ ExitUnlink(p) PROVE LockedInv'
  BY <1>6 DEF Unlink, ExitUnlink, Judging, Locked
<1>7. ASSUME NEW p \in Processes, Release(p) PROVE LockedInv'
  BY <1>7 DEF Release, Judging, Locked
<1>8. ASSUME NEW p \in Processes, Bind(p) PROVE LockedInv'
  <2>1. CASE path # None
    BY <1>8, <2>1 DEF Bind, Judging, Locked
  <2>2. CASE path = None
    <3>1. \A q \in Processes : pc[q] \notin {"unlink", "exitUnlink"}
      BY <2>2 DEF PlaceInv, Judging, Exiting
    <3> QED BY <1>8, <2>2, <3>1 DEF Bind, Judging, Locked
  <2> QED BY <2>1, <2>2
<1>9. ASSUME NEW p \in Processes, Capture(p) \/ Close(p) \/ AcceptError(p) \/ ExitKnock(p) \/ Crash(p)
      PROVE  LockedInv'
  BY <1>9 DEF Capture, Close, AcceptError, ExitKnock, Spare, Crash, Judging, Locked
<1> QED BY <1>1, <1>2, <1>3, <1>4, <1>5, <1>6, <1>7, <1>8, <1>9, Steps

(***************************************************************************)
(* Judgements that stay true.                                              *)
(***************************************************************************)
\* A file that nobody has open comes to life only by a bind, and an orderly
\* bind takes no number that is remembered.
LEMMA DeadStays ==
  ASSUME TypeOK, Next, Orderly', NEW file \in Inodes \cup {Other},
         file \in Recalled, path' = file, path = file => ~LiveAt(path)
  PROVE  path = file /\ ~LiveAt(path)'
<1> USE SocketAssumption DEF TypeOK
<1>1. path = file
  BY Steps DEF Move, Stat, Probe, ProbeLocked, Look, Knock, WaitOn, Deadline, LastLook, Listen,
       ExitLook, AcquireCleanupLock, StatLocked, LastKnock, Unlink, Release, Bind, Capture, ExitKnock,
       ExitLock, ExitUnlink, Close, AcceptError, LockTimeout, LoseLock, Crash, Orderly
<1>2. \A q \in Processes : bound'[q] \in {bound[q], None}
  <2>1. ASSUME NEW p \in Processes, Move(p) PROVE bound' = bound
    BY <2>1, MoveOnly
  <2>2. ASSUME NEW p \in Processes,
               \/ AcquireCleanupLock(p) \/ StatLocked(p) \/ LastKnock(p) \/ Unlink(p) \/ Release(p)
               \/ Bind(p) \/ Capture(p) \/ ExitKnock(p) \/ ExitLock(p) \/ ExitUnlink(p)
               \/ LockTimeout(p) \/ LoseLock(p)
        PROVE  bound' = bound
    BY <1>1, <2>2 DEF AcquireCleanupLock, StatLocked, LastKnock, Unlink, Release, Bind, Capture,
         ExitKnock, ExitLock, ExitUnlink, LockTimeout, LoseLock
  <2>3. ASSUME NEW p \in Processes, Close(p) \/ AcceptError(p) \/ Crash(p)
        PROVE  \A q \in Processes : bound'[q] \in {bound[q], None}
    BY <2>3 DEF Close, AcceptError, Crash
  <2> QED BY <2>1, <2>2, <2>3, Steps
<1> QED BY <1>1, <1>2 DEF LiveAt

\* ExitInv is kept in an orderly run.
LEMMA ExitInvStep ==
  ASSUME TypeOK, PlaceInv, ExitInv, Next, Orderly'
  PROVE  ExitInv'
<1> SUFFICES ASSUME NEW p \in Processes,
                    pc'[p] \in {"exitLock", "exitLook", "exitUnlink"}, path' = mine'[p]
             PROVE  ~LiveAt(path)'
  BY DEF ExitInv
<1> USE SocketAssumption DEF TypeOK, Goto
<1>1. CASE pc[p] \in {"exitLock", "exitLook", "exitUnlink"}
  <2>1. mine'[p] = mine[p]
    BY <1>1, Steps DEF Move, Stat, Probe, ProbeLocked, Look, Knock, WaitOn, Deadline, LastLook, Listen,
         ExitLook, AcquireCleanupLock, StatLocked, LastKnock, Unlink, Release, Bind, Capture, ExitKnock,
         ExitLock, ExitUnlink, Close, AcceptError, LockTimeout, LoseLock, Crash, Spare
  <2>2. mine[p] \in Inodes \cup {Other} /\ mine[p] \in Recalled
    BY <1>1 DEF PlaceInv, Exiting, Recalled
  <2>3. path = mine[p] => ~LiveAt(path)
    BY <1>1 DEF ExitInv
  <2> QED BY <2>1, <2>2, <2>3, DeadStays
<1>2. CASE pc[p] \notin {"exitLock", "exitLook", "exitUnlink"}
  <2>1. ExitKnock(p)
    BY <1>2, Steps DEF Move, Stat, Probe, ProbeLocked, Look, Knock, WaitOn, Deadline, LastLook, Listen,
         ExitLook, Connect, Compare, AcquireCleanupLock, StatLocked, LastKnock, Unlink, Release, Bind,
         Capture, ExitKnock, ExitLock, ExitUnlink, Close, AcceptError, LockTimeout, LoseLock, Crash, Spare
  <2>2. path' = path /\ bound' = bound /\ ~Answers(path) /\ Misjudged(path) \subseteq strained'
    BY <1>2, <2>1 DEF ExitKnock, Spare
  <2>3. ~LiveAt(path)
    BY <2>2 DEF Misjudged, Orderly
  <2> QED BY <2>2, <2>3 DEF LiveAt
<1> QED BY <1>1, <1>2

\* JudgedInv is kept in a calm run.
LEMMA JudgedInvStep ==
  ASSUME TypeOK, PlaceInv, JudgedInv, Next, Calm'
  PROVE  JudgedInv'
<1> SUFFICES ASSUME NEW p \in Processes, pc'[p] \in {"lastLook", "unlink"}, path' = seen'[p]
             PROVE  ~LiveAt(path)'
  BY DEF JudgedInv
<1> USE SocketAssumption DEF TypeOK, Goto
<1>1. CASE pc[p] \in {"lastLook", "unlink"}
  <2>1. seen'[p] = seen[p]
    BY <1>1, Steps DEF Move, Stat, Probe, ProbeLocked, Look, Knock, WaitOn, Deadline, LastLook, Listen,
         ExitLook, AcquireCleanupLock, StatLocked, LastKnock, Unlink, Release, Bind, Capture, ExitKnock,
         ExitLock, ExitUnlink, Close, AcceptError, LockTimeout, LoseLock, Crash
  <2>2. seen[p] \in Inodes \cup {Other} /\ seen[p] \in Recalled
    BY <1>1 DEF PlaceInv, Judging, Recalled
  <2>3. path = seen[p] => ~LiveAt(path)
    BY <1>1 DEF JudgedInv
  <2> QED BY <2>1, <2>2, <2>3, DeadStays DEF Calm
<1>2. CASE pc[p] \notin {"lastLook", "unlink"}
  <2>1. LastKnock(p)
    BY <1>2, Steps DEF Move, Stat, Probe, ProbeLocked, Look, Knock, WaitOn, Deadline, LastLook, Listen,
         ExitLook, Connect, Compare, AcquireCleanupLock, StatLocked, LastKnock, Unlink, Release, Bind,
         Capture, ExitKnock, ExitLock, ExitUnlink, Close, AcceptError, LockTimeout, LoseLock, Crash, Spare
  <2>2. path' = path /\ bound' = bound /\ Misjudged(path) \subseteq strained'
    BY <1>2, <2>1 DEF LastKnock
  <2>3. ~LiveAt(path)
    BY <2>2 DEF Misjudged, Orderly, Calm
  <2> QED BY <2>2, <2>3 DEF LiveAt
<1> QED BY <1>1, <1>2

(***************************************************************************)
(* The theorems.                                                           *)
(***************************************************************************)
\* The invariant is kept.
LEMMA SocketInvStep ==
  ASSUME SocketInv, [Next]_vars
  PROVE  SocketInv'
<1>1. CASE Next
  <2>1. TypeOK' /\ PlaceInv' /\ OtherInv'
    BY <1>1, TypeStep, PlaceStep, OtherStep DEF SocketInv
  <2>2. ASSUME Orderly' PROVE LockedInv' /\ ExitInv'
    BY <1>1, <2>2, OrderlyBefore, LockedStep, ExitInvStep DEF SocketInv
  <2>3. ASSUME Calm' PROVE JudgedInv'
    BY <1>1, <2>3, OrderlyBefore, JudgedInvStep DEF SocketInv
  <2> QED BY <2>1, <2>2, <2>3 DEF SocketInv
<1>2. CASE UNCHANGED vars
  BY <1>2 DEF vars, SocketInv, TypeOK, PlaceInv, OtherInv, Orderly, Calm, LockedInv, ExitInv, JudgedInv, LiveAt
<1> QED BY <1>1, <1>2

\* Wherever the prepares, binds, exits and crashes of any processes meet, what
\* each of them has judged stays true: the lock makes the file compared the
\* file removed, and an orderly bind revives no remembered file (socket.rs:72-220).
THEOREM SocketInvariant == Spec => []SocketInv
<1>1. Init => SocketInv
  BY SocketAssumption DEF Init, SocketInv, TypeOK, PlaceInv, OtherInv, LockedInv, ExitInv, JudgedInv, LiveAt,
       Places, Locked, Judging, Preparing, Exiting, Strains
<1>2. SocketInv /\ [Next]_vars => SocketInv'
  BY SocketInvStep
<1> QED BY <1>1, <1>2, PTL DEF Spec

\* A file that leaves the path was removed by one of the two unlinks.
LEMMA PathLeaves ==
  ASSUME TypeOK, Next, path # None, path' # path
  PROVE  path' = None /\ \E p \in Processes : Unlink(p) \/ ExitUnlink(p)
<1>1. ASSUME NEW p \in Processes, Move(p) PROVE FALSE
  BY <1>1, MoveOnly
<1>2. ASSUME NEW p \in Processes,
             \/ AcquireCleanupLock(p) \/ StatLocked(p) \/ LastKnock(p) \/ Release(p) \/ Bind(p)
             \/ Capture(p) \/ ExitKnock(p) \/ ExitLock(p) \/ Close(p) \/ AcceptError(p)
             \/ LockTimeout(p) \/ LoseLock(p) \/ Crash(p)
      PROVE  FALSE
  BY <1>2 DEF AcquireCleanupLock, StatLocked, LastKnock, Release, Bind, Capture, ExitKnock, ExitLock,
       Close, AcceptError, LockTimeout, LoseLock, Crash
<1> QED BY <1>1, <1>2, Steps DEF Unlink, ExitUnlink

\* A step that takes a file from the path takes a socket that, in a calm run,
\* no process has open.
LEMMA OnlyDeadStep ==
  ASSUME SocketInv, Next, path # None, path' # path
  PROVE  path # Other /\ (Calm => ~LiveAt(path))
<1> PICK p \in Processes : Unlink(p) \/ ExitUnlink(p)
  BY PathLeaves DEF SocketInv
<1>1. path # Other
  BY DEF Unlink, ExitUnlink, SocketInv, OtherInv
<1>2. ASSUME Calm PROVE ~LiveAt(path)
  <2>1. LockedInv /\ ExitInv /\ JudgedInv
    BY <1>2 DEF SocketInv, Calm
  <2> QED BY <2>1 DEF Unlink, ExitUnlink, LockedInv, ExitInv, JudgedInv
<1> QED BY <1>1, <1>2

\* Only dead socket files leave the path, in every calm run of any processes,
\* although neither bind nor the first stat takes the cleanup lock
\* (unlink_stale_socket, cleanup_socket_path).
THEOREM DeadUnlinked == Spec => OnlyDeadUnlinked
<1>1. SocketInv /\ [Next]_vars => [path # None /\ path' # path =>
        path # Other /\ (Calm => ~LiveAt(path))]_vars
  BY OnlyDeadStep DEF vars
<1> QED BY <1>1, SocketInvariant, PTL DEF Spec, OnlyDeadUnlinked

\* No exit removes a live successor's file, whatever identity it captured and
\* whichever listeners were taken for dead by a prepare
\* (cleanup_socket_path_after_close).
THEOREM SuccessorSurvives == Spec => SuccessorSurvivesExit
<1>1. SocketInv => \A p \in Processes : Orderly /\ ExitUnlink(p) => path = None \/ ~LiveAt(path)
  <2> SUFFICES ASSUME SocketInv, NEW p \in Processes, Orderly, ExitUnlink(p)
               PROVE  ~LiveAt(path)
    OBVIOUS
  <2>1. pc[p] = "exitUnlink" /\ LockedInv /\ ExitInv
    BY DEF ExitUnlink, SocketInv
  <2> QED BY <2>1 DEF LockedInv, ExitInv
<1>2. SocketInv /\ [Next]_vars =>
        [\A p \in Processes : Orderly /\ ExitUnlink(p) => path = None \/ ~LiveAt(path)]_vars
  BY <1>1
<1> QED BY <1>2, SocketInvariant, PTL DEF Spec, SuccessorSurvivesExit

\* Reachable is kept: a live file does not leave the path, and bind needs an
\* empty one.
LEMMA ReachableStep ==
  ASSUME SocketInv, Reachable, [Next]_vars
  PROVE  Reachable'
<1> SUFFICES ASSUME Calm', NEW p \in Processes, bound'[p] # None
             PROVE  path' = bound'[p] /\ \A q \in Processes \ {p} : bound'[q] = None
  BY DEF Reachable
<1> USE SocketAssumption DEF TypeOK
<1>t. TypeOK
  BY DEF SocketInv
<1>1. CASE UNCHANGED vars
  BY <1>1 DEF vars, Reachable, Orderly, Calm
<1>2. CASE Next
  <2>1. Calm
    BY <1>2, OrderlyBefore
  <2>2. CASE \E r \in Processes : bound[r] # None
    <3>1. PICK r \in Processes : bound[r] # None
      BY <2>2
    <3>2. path = bound[r] /\ path # None /\ \A q \in Processes \ {r} : bound[q] = None
      BY <2>1, <3>1 DEF Reachable
    <3>3. path' = path
      BY <1>2, <2>1, <3>2, OnlyDeadStep DEF LiveAt
    <3>4. \A q \in Processes : bound'[q] \in {bound[q], None}
      <4>1. ASSUME NEW q \in Processes, Move(q) PROVE bound' = bound
        BY <4>1, MoveOnly
      <4>2. ASSUME NEW q \in Processes,
                   \/ AcquireCleanupLock(q) \/ StatLocked(q) \/ LastKnock(q) \/ Unlink(q) \/ Release(q)
                   \/ Bind(q) \/ Capture(q) \/ ExitKnock(q) \/ ExitLock(q) \/ ExitUnlink(q)
                   \/ LockTimeout(q) \/ LoseLock(q)
            PROVE  bound' = bound
        BY <3>2, <4>2 DEF AcquireCleanupLock, StatLocked, LastKnock, Unlink, Release, Bind, Capture,
             ExitKnock, ExitLock, ExitUnlink, LockTimeout, LoseLock
      <4>3. ASSUME NEW q \in Processes, Close(q) \/ AcceptError(q) \/ Crash(q)
            PROVE  \A s \in Processes : bound'[s] \in {bound[s], None}
        BY <1>t, <4>3 DEF Close, AcceptError, Crash
      <4> QED BY <1>2, <4>1, <4>2, <4>3, Steps
    <3> QED BY <3>2, <3>3, <3>4
  <2>3. CASE \A r \in Processes : bound[r] = None
    <3>1. \E r \in Processes : Bind(r)
      <4>1. ASSUME NEW r \in Processes, Move(r) PROVE bound' = bound
        BY <4>1, MoveOnly
      <4>2. ASSUME NEW r \in Processes,
                   \/ AcquireCleanupLock(r) \/ StatLocked(r) \/ LastKnock(r) \/ Unlink(r) \/ Release(r)
                   \/ Capture(r) \/ ExitKnock(r) \/ ExitLock(r) \/ ExitUnlink(r) \/ LockTimeout(r)
                   \/ LoseLock(r) \/ Close(r) \/ AcceptError(r) \/ Crash(r)
            PROVE  bound'[p] = None
        BY <1>t, <2>3, <4>2 DEF AcquireCleanupLock, StatLocked, LastKnock, Unlink, Release, Capture,
             ExitKnock, ExitLock, ExitUnlink, LockTimeout, LoseLock, Close, AcceptError, Crash
      <4> QED BY <1>2, <2>3, <4>1, <4>2, Steps
    <3>2. PICK r \in Processes : Bind(r)
      BY <3>1
    <3> QED BY <1>t, <2>3, <3>2 DEF Bind
  <2> QED BY <2>2, <2>3
<1> QED BY <1>1, <1>2

\* Every daemon is reached at its path and serves it alone, in every calm run
\* of any processes that start, exit and die in any order.
THEOREM DaemonReachable == Spec => []Reachable
<1>1. Init => Reachable
  BY DEF Init, Reachable
<1>2. SocketInv /\ Reachable /\ [Next]_vars => Reachable'
  BY ReachableStep
<1> QED BY <1>1, <1>2, SocketInvariant, PTL DEF Spec
=============================================================================
