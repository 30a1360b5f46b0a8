----------------------------- MODULE SocketPath -----------------------------
(***************************************************************************)
(* The socket file of a daemon (pa-daemon socket.rs): how a supervisor or  *)
(* a worker clears its path of a dead predecessor's file, binds it, and    *)
(* takes its own file down when it exits.                                  *)
(*                                                                         *)
(* Processes start on one path at once.  A file is known again by its      *)
(* inode; whether it is in use is only learned by connecting.  The cleanup *)
(* lock is the empty {path}.lock directory of LockDir, here an owner that  *)
(* acquire sets: what LockDir shows can go wrong with it is LoseLock.      *)
(* Neither bind nor the first look at the path takes the lock.             *)
(***************************************************************************)
EXTENDS Naturals

CONSTANTS
  Processes,  \* processes that serve on the path
  Mortal,     \* processes that may die
  Inodes,     \* inode numbers of socket files
  Left,       \* the socket file a dead process may have left
  Other,      \* a file at the path that is not a socket
  None        \* no file, no lock, no identity

ASSUME SocketAssumption ==
  /\ Mortal \subseteq Processes
  /\ Left \in Inodes
  /\ None \notin Processes \cup Inodes
  /\ Other \notin Inodes \cup {None}

VARIABLES
  path,      \* the file at the socket path
  lock,      \* the holder of the cleanup lock
  pc,        \* where each process is
  bound,     \* the socket file each process has bound and not closed
  seen,      \* stale_identity: the file its prepare judges
  mine,      \* bound_socket_identity: what it captured after its bind
  strained   \* history: what went wrong around a decision

vars == <<path, lock, pc, bound, seen, mine, strained>>

\* Under the cleanup lock.
Judging == {"probe2", "look", "knock", "tick", "lastKnock", "lastLook", "unlink"}
Locked == Judging \cup {"stat2", "release", "refuse", "exitLook", "exitUnlink", "exitRelease"}
Preparing == {"stat", "probe", "lock", "bind"}
Exiting == {"exitKnock", "exitLock", "exitLook", "exitUnlink"}
Places == Locked \cup Preparing \cup Exiting \cup {"listen", "capture", "serving", "ended", "dead"}

Strains == {"saturated", "deaf", "reused", "lockLost", "starved"}

TypeOK ==
  /\ path \in Inodes \cup {Other, None}
  /\ lock \in Processes \cup {None}
  /\ pc \in [Processes -> Places]
  /\ bound \in [Processes -> Inodes \cup {None}]
  /\ seen \in [Processes -> Inodes \cup {None}]
  /\ mine \in [Processes -> Inodes \cup {Other, None}]
  /\ strained \in SUBSET Strains

Init ==
  /\ path \in {Left, Other, None}
  /\ lock = None
  /\ pc = [p \in Processes |-> "stat"]
  /\ bound = [p \in Processes |-> None]
  /\ seen = [p \in Processes |-> None]
  /\ mine = [p \in Processes |-> None]
  /\ strained = {}

Alive(p) == pc[p] # "dead"

Goto(p, place) == pc' = [pc EXCEPT ![p] = place]

\* A process has the file at the path open as its listener, or soon will.
LiveAt(file) == file # None /\ \E q \in Processes : bound[q] = file

\* Someone listens: a connect succeeds, unless the backlog is full.
Answers(file) == \E q \in Processes : bound[q] = file /\ pc[q] \in {"capture", "serving"}

\* What a refusal to connect hides: a full backlog, or a bind still on its
\* way to listen.
Misjudged(file) ==
  IF Answers(file) THEN {"saturated"} ELSE IF LiveAt(file) THEN {"deaf"} ELSE {}

(***************************************************************************)
(* The cleanup lock (LockDir::acquire and drop).                           *)
(***************************************************************************)
\* Mutant of Free: the lock of a live process is taken.
FreeAnyway(p) == lock # p

\* Mutant of Free: the lock of a dead process is never reclaimed.
FreeNever(p) == lock = None

\* No lock, or one that goes stale because its maker is dead.
Free(p) == lock # None => ~Alive(lock)

AcquireCleanupLock(p) ==
  /\ pc[p] = "lock"
  /\ Free(p)
  /\ lock' = p
  /\ Goto(p, "stat2")
  /\ UNCHANGED <<path, bound, seen, mine, strained>>

\* acquire_cleanup_lock gives up after LOCK_RETRIES.
LockTimeout(p) ==
  /\ pc[p] = "lock"
  /\ ~Free(p)
  /\ Goto(p, "ended")
  /\ strained' = strained \cup {"starved"}
  /\ UNCHANGED <<path, lock, bound, seen, mine>>

\* A live holder's lock is reclaimed: it outstayed LOCK_STALE_AFTER, or two
\* waiters overlapped.
LoseLock(p) ==
  /\ pc[p] \in {"lock", "exitLock"}
  /\ ~Free(p)
  /\ lock' = p
  /\ Goto(p, IF pc[p] = "lock" THEN "stat2" ELSE "exitLook")
  /\ strained' = strained \cup {"lockLost"}
  /\ UNCHANGED <<path, bound, seen, mine>>

\* The guard is dropped: the directory goes by path.
Release(p) ==
  /\ pc[p] \in {"release", "refuse", "exitRelease"}
  /\ lock' = None
  /\ Goto(p, IF pc[p] = "release" THEN "bind" ELSE "ended")
  /\ seen' = [seen EXCEPT ![p] = None]
  /\ mine' = [mine EXCEPT ![p] = None]
  /\ UNCHANGED <<path, bound, strained>>

(***************************************************************************)
(* prepare_socket_path, before the lock.                                   *)
(***************************************************************************)
Stat(p) ==
  /\ pc[p] = "stat"
  /\ Goto(p, IF path = None THEN "bind" ELSE "probe")
  /\ UNCHANGED <<path, lock, bound, seen, mine, strained>>

\* can_connect: a connect that succeeds in its time, or does not.
Connect(p, yes, no) ==
  \/ Answers(path) /\ Goto(p, yes)
  \/ Goto(p, no)

Probe(p) ==
  /\ pc[p] = "probe"
  /\ Connect(p, "ended", "lock")
  /\ UNCHANGED <<path, lock, bound, seen, mine, strained>>

(***************************************************************************)
(* prepare_locked_socket_path.                                             *)
(***************************************************************************)
StatLocked(p) ==
  /\ pc[p] = "stat2"
  /\ Goto(p, IF path = None THEN "release" ELSE IF path = Other THEN "refuse" ELSE "probe2")
  /\ seen' = [seen EXCEPT ![p] = IF path = Other THEN None ELSE path]
  /\ UNCHANGED <<path, lock, bound, mine, strained>>

ProbeLocked(p) ==
  /\ pc[p] = "probe2"
  /\ Connect(p, "refuse", "look")
  /\ UNCHANGED <<path, lock, bound, seen, mine, strained>>

\* Is the file judged still the one at the path?
Compare(p, same) ==
  IF path = None THEN "release" ELSE IF path = seen[p] THEN same ELSE "refuse"

\* A round of the grace wait: the identity, then a connect.
Look(p) ==
  /\ pc[p] = "look"
  /\ Goto(p, Compare(p, "knock"))
  /\ UNCHANGED <<path, lock, bound, seen, mine, strained>>

Knock(p) ==
  /\ pc[p] = "knock"
  /\ Connect(p, "refuse", "tick")
  /\ UNCHANGED <<path, lock, bound, seen, mine, strained>>

WaitOn(p) ==
  /\ pc[p] = "tick"
  /\ Goto(p, "look")
  /\ UNCHANGED <<path, lock, bound, seen, mine, strained>>

Deadline(p) ==
  /\ pc[p] = "tick"
  /\ Goto(p, "lastKnock")
  /\ UNCHANGED <<path, lock, bound, seen, mine, strained>>

(***************************************************************************)
(* unlink_stale_socket.                                                    *)
(***************************************************************************)
\* Mutant of LastKnock: the grace wait's own connects are trusted.
LastKnockSkipped(p) ==
  /\ pc[p] = "lastKnock"
  /\ Goto(p, "lastLook")
  /\ UNCHANGED <<path, lock, bound, seen, mine, strained>>

\* The connect that the removal rests on.
LastKnock(p) ==
  /\ pc[p] = "lastKnock"
  /\ \/ /\ Answers(path)
        /\ Goto(p, "refuse")
        /\ UNCHANGED strained
     \/ /\ Goto(p, "lastLook")
        /\ strained' = strained \cup Misjudged(path)
  /\ UNCHANGED <<path, lock, bound, seen, mine>>

LastLook(p) ==
  /\ pc[p] = "lastLook"
  /\ Goto(p, Compare(p, "unlink"))
  /\ UNCHANGED <<path, lock, bound, seen, mine, strained>>

\* remove_file removes whatever has the name; without a file it is an error.
Unlink(p) ==
  /\ pc[p] = "unlink"
  /\ path' = None
  /\ Goto(p, IF path = None THEN "refuse" ELSE "release")
  /\ UNCHANGED <<lock, bound, seen, mine, strained>>

(***************************************************************************)
(* Supervisor::run and Worker::serve.                                      *)
(***************************************************************************)
\* Identities that some process will still compare.
Recalled == {seen[q] : q \in Processes} \cup {mine[q] : q \in Processes}

\* bind fails on any file.  The file system hands out the number of an inode
\* that nobody has linked or open.
Bind(p) ==
  /\ pc[p] = "bind"
  /\ \/ /\ path # None
        /\ Goto(p, "ended")
        /\ UNCHANGED <<path, bound, strained>>
     \/ /\ path = None
        /\ \E i \in Inodes :
             /\ ~LiveAt(i)
             /\ path' = i
             /\ bound' = [bound EXCEPT ![p] = i]
             /\ strained' = IF i \in Recalled THEN strained \cup {"reused"} ELSE strained
        /\ Goto(p, "listen")
  /\ UNCHANGED <<lock, seen, mine>>

Listen(p) ==
  /\ pc[p] = "listen"
  /\ Goto(p, "capture")
  /\ UNCHANGED <<path, lock, bound, seen, mine, strained>>

\* socket_identity of the file that has the path by now.
Capture(p) ==
  /\ pc[p] = "capture"
  /\ mine' = [mine EXCEPT ![p] = path]
  /\ Goto(p, "serving")
  /\ UNCHANGED <<path, lock, bound, seen, strained>>

\* accept fails: the listener goes and nothing is cleaned up.
AcceptError(p) ==
  /\ pc[p] = "serving"
  /\ bound' = [bound EXCEPT ![p] = None]
  /\ mine' = [mine EXCEPT ![p] = None]
  /\ Goto(p, "ended")
  /\ UNCHANGED <<path, lock, seen, strained>>

(***************************************************************************)
(* cleanup_socket_path_after_close and cleanup_socket_path.                *)
(***************************************************************************)
\* The listener is closed first.  Without an identity nothing is removed.
Close(p) ==
  /\ pc[p] = "serving"
  /\ bound' = [bound EXCEPT ![p] = None]
  /\ Goto(p, IF mine[p] = None THEN "ended" ELSE "exitKnock")
  /\ UNCHANGED <<path, lock, seen, mine, strained>>

\* The exit leaves the path as it is.
Spare(p) == Goto(p, "ended") /\ mine' = [mine EXCEPT ![p] = None]

\* Mutant of ExitKnock: the exit goes by the identity alone.
ExitKnockSkipped(p) ==
  /\ pc[p] = "exitKnock"
  /\ Goto(p, "exitLock")
  /\ UNCHANGED <<path, lock, bound, seen, mine, strained>>

\* unix_listener_definitely_closed: a full backlog is not a refusal here.
ExitKnock(p) ==
  /\ pc[p] = "exitKnock"
  /\ \/ /\ path = None \/ Answers(path)
        /\ Spare(p)
        /\ UNCHANGED strained
     \/ /\ path # None
        /\ ~Answers(path)
        /\ Goto(p, "exitLock")
        /\ strained' = strained \cup Misjudged(path)
        /\ UNCHANGED mine
  /\ UNCHANGED <<path, lock, bound, seen>>

\* One attempt: contention means that another process sees to the path.
ExitLock(p) ==
  /\ pc[p] = "exitLock"
  /\ \/ /\ path = None \/ ~Free(p)
        /\ Spare(p)
        /\ UNCHANGED lock
     \/ /\ path # None
        /\ Free(p)
        /\ lock' = p
        /\ Goto(p, "exitLook")
        /\ UNCHANGED mine
  /\ UNCHANGED <<path, bound, seen, strained>>

\* Mutant of ExitLook: whatever has the path is removed.
ExitLookBlind(p) ==
  /\ pc[p] = "exitLook"
  /\ Goto(p, "exitUnlink")
  /\ UNCHANGED <<path, lock, bound, seen, mine, strained>>

ExitLook(p) ==
  /\ pc[p] = "exitLook"
  /\ Goto(p, IF path = mine[p] THEN "exitUnlink" ELSE "exitRelease")
  /\ UNCHANGED <<path, lock, bound, seen, mine, strained>>

ExitUnlink(p) ==
  /\ pc[p] = "exitUnlink"
  /\ path' = None
  /\ Goto(p, "exitRelease")
  /\ UNCHANGED <<lock, bound, seen, mine, strained>>

(***************************************************************************)
(* Crashes.                                                                *)
(***************************************************************************)
\* The file and the lock stay behind.
Crash(p) ==
  /\ p \in Mortal
  /\ pc[p] \notin {"ended", "dead"}
  /\ Goto(p, "dead")
  /\ bound' = [bound EXCEPT ![p] = None]
  /\ seen' = [seen EXCEPT ![p] = None]
  /\ mine' = [mine EXCEPT ![p] = None]
  /\ UNCHANGED <<path, lock, strained>>

PrepareStep(p) ==
  \/ Stat(p) \/ Probe(p) \/ AcquireCleanupLock(p) \/ StatLocked(p) \/ ProbeLocked(p)
  \/ Look(p) \/ Knock(p) \/ WaitOn(p) \/ Deadline(p) \/ LastKnock(p) \/ LastLook(p) \/ Unlink(p)

ServeStep(p) == Bind(p) \/ Listen(p) \/ Capture(p)

ExitStep(p) == ExitKnock(p) \/ ExitLock(p) \/ ExitLook(p) \/ ExitUnlink(p)

Step(p) == PrepareStep(p) \/ Release(p) \/ ServeStep(p) \/ ExitStep(p)

Next ==
  \E p \in Processes :
    Step(p) \/ Close(p) \/ AcceptError(p) \/ LockTimeout(p) \/ LoseLock(p) \/ Crash(p)

Spec == Init /\ [][Next]_vars

\* A process that runs goes on, and the second of the grace wait passes.
FairSpec ==
  /\ Spec
  /\ \A p \in Processes : WF_vars(Step(p)) /\ SF_vars(Deadline(p))

(***************************************************************************)
(* Properties.                                                             *)
(***************************************************************************)
\* The lock excluded, no number came back while it was remembered, and no
\* removal rested on a refusal between a rival's bind and its listen.
Orderly == strained \cap {"deaf", "reused", "lockLost"} = {}

\* Besides, no prepare took a full backlog for a dead listener.
Calm == Orderly /\ "saturated" \notin strained

(* What a process has agrees with where it is.                              *)
PlaceInv ==
  \A p \in Processes :
    /\ pc[p] \in Judging => seen[p] # None
    /\ pc[p] \in Exiting => mine[p] # None
    /\ bound[p] # None => pc[p] \in {"listen", "capture", "serving"}

(* The cleanup lock: who is under it has it, so that the file compared is   *)
(* the file removed although bind does not take the lock.                   *)
LockedInv ==
  \A p \in Processes :
    /\ pc[p] \in Locked => lock = p
    /\ pc[p] = "unlink" => path = seen[p]
    /\ pc[p] = "exitUnlink" => path = mine[p]

(* An exit past its connect has no live file in its identity's place.       *)
ExitInv ==
  \A p \in Processes :
    pc[p] \in {"exitLock", "exitLook", "exitUnlink"} /\ path = mine[p] => ~LiveAt(path)

(* A prepare past its last connect judges a dead file.                      *)
JudgedInv ==
  \A p \in Processes : pc[p] \in {"lastLook", "unlink"} /\ path = seen[p] => ~LiveAt(path)

(* Before a file that is not a socket, nobody gets past the lock's stat.    *)
OtherInv ==
  path = Other =>
    \A p \in Processes : pc[p] \in {"stat", "probe", "lock", "stat2", "refuse", "ended", "dead"}

(* What the properties below rest on: what a process has agrees with where  *)
(* it is, the lock excludes, and no judgement is overtaken.                 *)
SocketInv ==
  /\ TypeOK
  /\ PlaceInv
  /\ OtherInv
  /\ Orderly => LockedInv /\ ExitInv
  /\ Calm => JudgedInv

(* A daemon that has bound its path is reached there until it closes: in a  *)
(* calm run no cleanup of a starting or of an exiting process takes its     *)
(* file, and so no second one serves beside it.                             *)
Reachable ==
  Calm => \A p \in Processes : bound[p] # None =>
            path = bound[p] /\ \A q \in Processes \ {p} : bound[q] = None

(* "remove only the exact inode that was probed stale" (socket.rs:136): in  *)
(* a calm run a file leaves the path only when no process has it open, and  *)
(* what is not a socket never does.                                         *)
OnlyDeadUnlinked ==
  [][path # None /\ path' # path =>
       path # Other /\ (Calm => ~LiveAt(path))]_vars

(* "A successor's live listener must survive even when a poisoned bind-time *)
(* identity capture names the successor's inode" (socket.rs:193): even when *)
(* a prepare took down a saturated listener, whose owner then captured the  *)
(* identity of its replacement, no exit removes a live file.                *)
SuccessorSurvivesExit ==
  [][\A p \in Processes : Orderly /\ ExitUnlink(p) => path = None \/ ~LiveAt(path)]_vars

(* What a dead process left does not keep the path from the next: one of    *)
(* the processes that start binds it, whichever of the others are refused   *)
(* or die, also when the lock is a dead process's, unless the wait for the  *)
(* lock runs out or the lock fails to exclude.                              *)
PathTaken ==
  path # Other => <>(\/ \E p \in Processes : bound[p] # None
                     \/ strained \cap {"starved", "lockLost"} # {})
=============================================================================
