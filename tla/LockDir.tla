------------------------------- MODULE LockDir -------------------------------
(***************************************************************************)
(* The directory lock {file}.lock (pa-core platform/lock_dir.rs) and the   *)
(* read-modify-write it guards (big_brother/state.rs, refinement/mod.rs).  *)
(*                                                                         *)
(* Every file-system call is one action, since other processes run between *)
(* any two of them.  mkdir is the acquisition.  A lock found in the way is *)
(* judged (its age, then its owner file) and taken down (owner file, then  *)
(* directory) by path, and nothing ties what is removed to what was        *)
(* judged.  An ordinary lock is an empty directory; a harness-state lock   *)
(* holds an owner file, written after the mkdir, that spares a live owner. *)
(* In its place there may be a regular file, the lock of an older build,   *)
(* which is good for as long as a process of that build has it flocked.    *)
(* Such processes come and go; they open the file or create it, then lock  *)
(* what they opened, whether or not it is still at the path.               *)
(*                                                                         *)
(* The guarded file is the set of processes whose update it contains.  Its *)
(* new content goes to a temporary file first, of one fixed name in the    *)
(* store and of a name with the pid for harness state.                     *)
(***************************************************************************)
EXTENDS Naturals

CONSTANTS
  Processes,   \* processes that update the guarded file
  Gone,        \* the ones that died before, of which one may have left the lock
  Modes,       \* the kinds of lock: a subset of {"owned", "unowned"}
  None         \* no directory, no owner file; also the store's temporary name

ASSUME ModeAssumption == Modes \subseteq {"owned", "unowned"}

ASSUME GoneAssumption == Gone \subseteq Processes

ASSUME DistinctAssumption ==
  /\ None \notin Processes
  /\ None \notin [by : Processes, stale : {"fresh", "stale"}, owner : Processes \cup {None}]

VARIABLES
  mode,      \* whether this lock has owner files
  legacy,    \* the regular file an older build locks in the directory's place
  older,     \* the process of the older build: none, has the file open, has it flocked
  dir,       \* the lock directory: who made it, its age, its owner file
  pc,        \* where each process is
  file,      \* the guarded file
  temp,      \* the temporary files by name
  got,       \* what each process has read
  saved,     \* history: the processes whose rename has gone through
  overtaken, \* history: 1 once a lock was made or unmarked inside a rival's reclaim
  exposed,   \* history: 1 once a live process's unmarked lock grew stale
  displaced  \* history: 1 once an older build flocked a file that was probed or gone

vars == <<mode, legacy, older, dir, pc, file, temp, got, saved, overtaken, exposed, displaced>>
clientVars == <<file, temp, got, saved>>

\* A file in the middle of a write, and one that does not exist: no write
\* leaves a file without an update.
Torn == {None}
Absent == {}

Content == (SUBSET Processes) \cup {Torn}

Dir == [by : Processes, stale : {"fresh", "stale"}, owner : Processes \cup {None}]

\* A process's place: acquiring, judging and reclaiming, creating, holding and
\* releasing.
Reclaiming == {"owner", "unlink", "rmdir"}
Holding == {"held", "read", "sure", "writing", "written", "saved", "matched", "leaving"}
Creating == {"made", "marked", "undo"}
Places ==
  {"idle", "stat", "flock", "remove", "retry", "dead"} \cup Reclaiming \cup Creating \cup Holding

TypeOK ==
  /\ mode \in Modes
  /\ legacy \in {"none", "file"}
  /\ older \in {"gone", "opened", "holds"}
  /\ dir \in Dir \cup {None}
  /\ pc \in [Processes -> Places]
  /\ file \in Content
  /\ temp \in [Processes \cup {None} -> Content]
  /\ got \in [Processes -> SUBSET Processes]
  /\ saved \subseteq Processes
  /\ overtaken \in 0 .. 1
  /\ exposed \in 0 .. 1
  /\ displaced \in 0 .. 1

\* The lock a process that holds it leaves behind.
Left(p) == [by |-> p, stale |-> "fresh", owner |-> IF mode = "owned" THEN p ELSE None]

Init ==
  /\ mode \in Modes
  /\ legacy \in {"none", "file"}
  /\ older \in IF legacy = "file" THEN {"gone", "holds"} ELSE {"gone"}
  /\ dir \in {None} \cup {Left(p) : p \in Gone}
  /\ legacy # "none" => dir = None
  /\ pc = [p \in Processes |-> IF p \in Gone THEN "dead" ELSE "idle"]
  /\ file = Absent
  /\ temp = [name \in Processes \cup {None} |-> Absent]
  /\ got = [p \in Processes |-> {}]
  /\ saved = {}
  /\ overtaken = 0
  /\ exposed = 0
  /\ displaced = 0

Alive(p) == pc[p] # "dead"

\* p makes the lock, or strips it of its owner file, with a rival between its
\* judgement of what stood there and the removal.
Overtake(p) ==
  overtaken' = IF \E q \in Processes \ {p} : pc[q] \in Reclaiming THEN 1 ELSE overtaken

Goto(p, place) == pc' = [pc EXCEPT ![p] = place]

(***************************************************************************)
(* Time and crashes.                                                       *)
(***************************************************************************)
\* stale_after passes over the directory as it stands.
GrowStale ==
  /\ dir # None
  /\ dir.stale = "fresh"
  /\ dir' = [dir EXCEPT !.stale = "stale"]
  /\ exposed' = IF Alive(dir.by) /\ dir.owner = None THEN 1 ELSE exposed
  /\ UNCHANGED <<mode, legacy, older, pc, clientVars, overtaken, displaced>>

\* The processes are not told apart, so that one that never dies is enough.
Crash(p) ==
  /\ Alive(p)
  /\ \E q \in Processes \ {p} : Alive(q)
  /\ Goto(p, "dead")
  /\ UNCHANGED <<mode, legacy, older, dir, clientVars, overtaken, exposed, displaced>>

\* A process of the older build opens the file at the path, or creates it; a
\* directory there cannot be opened.
OlderOpens ==
  /\ older = "gone"
  /\ dir = None
  /\ older' = "opened" /\ legacy' = "file"
  /\ UNCHANGED <<mode, dir, pc, clientVars, overtaken, exposed, displaced>>

\* It locks the file it opened, also one that a waiter has probed and is about
\* to remove, or has removed.
OlderLocks ==
  /\ older = "opened"
  /\ older' = "holds"
  /\ displaced' = IF legacy = "none" \/ \E p \in Processes : pc[p] = "remove" THEN 1 ELSE displaced
  /\ UNCHANGED <<mode, legacy, dir, pc, clientVars, overtaken, exposed>>

\* It releases the flock, or dies; its file stays.
OlderEnds ==
  /\ older # "gone"
  /\ older' = "gone"
  /\ UNCHANGED <<mode, legacy, dir, pc, clientVars, overtaken, exposed, displaced>>

(***************************************************************************)
(* Acquisition.                                                            *)
(***************************************************************************)
\* create: the mkdir, with EEXIST leading on to `otherwise`.
Mkdir(p, otherwise) ==
  \/ /\ dir = None /\ legacy = "none"
     /\ dir' = [by |-> p, stale |-> "fresh", owner |-> None]
     /\ Goto(p, IF mode = "owned" THEN "made" ELSE "marked")
     /\ Overtake(p)
     /\ UNCHANGED <<mode, legacy, older, clientVars, exposed, displaced>>
  \/ /\ dir # None \/ legacy # "none"
     /\ Goto(p, otherwise)
     /\ UNCHANGED <<mode, legacy, older, dir, clientVars, overtaken, exposed, displaced>>

Create(p) == pc[p] = "idle" /\ Mkdir(p, "stat")

\* The one fresh attempt after a reclaim; a rival is contention.
CreateAgain(p) == pc[p] = "retry" /\ Mkdir(p, "idle")

\* create goes on to write the owner file into the directory at the path, which
\* fails if there is none, or for another reason.
WriteOwner(p) ==
  /\ pc[p] = "made"
  /\ \/ /\ dir # None
        /\ dir' = [dir EXCEPT !.owner = p, !.stale = "fresh"]
        /\ Goto(p, "marked")
     \/ UNCHANGED dir /\ Goto(p, "undo")
  /\ UNCHANGED <<mode, legacy, older, clientVars, overtaken, exposed, displaced>>

\* Its last call, set_mtime of whatever is at the path.
SetMtime(p) ==
  /\ pc[p] = "marked"
  /\ \/ /\ dir # None \/ legacy # "none"
        /\ dir' = IF dir = None THEN None ELSE [dir EXCEPT !.stale = "fresh"]
        /\ Goto(p, "held")
     \/ UNCHANGED dir /\ Goto(p, "undo")
  /\ UNCHANGED <<mode, legacy, older, clientVars, overtaken, exposed, displaced>>

\* Mutant of Stat: the age is not looked at.
StatAgeless(p) ==
  /\ pc[p] = "stat"
  /\ Goto(p, IF legacy # "none" THEN "flock" ELSE IF dir = None THEN "retry" ELSE "owner")
  /\ UNCHANGED <<mode, legacy, older, dir, clientVars, overtaken, exposed, displaced>>

\* judge_and_reclaim: a regular file goes unless it is flocked, a fresh
\* directory is contention, a stale one is judged.
Stat(p) ==
  /\ pc[p] = "stat"
  /\ Goto(p, IF legacy # "none" THEN "flock"
             ELSE IF dir = None THEN "retry"
             ELSE IF dir.stale = "fresh" THEN "idle" ELSE "owner")
  /\ UNCHANGED <<mode, legacy, older, dir, clientVars, overtaken, exposed, displaced>>

\* Mutant of ProbeFlock: a regular file is never a lock.
ProbeFlockNever(p) ==
  /\ pc[p] = "flock"
  /\ Goto(p, "remove")
  /\ UNCHANGED <<mode, legacy, older, dir, clientVars, overtaken, exposed, displaced>>

\* legacy_flock_held: a live flock is contention; a directory that has taken the
\* file's place cannot be opened and counts as unheld.  The probe's own flock,
\* gone with the call, is left out: a rival meeting it would only try again.
ProbeFlock(p) ==
  /\ pc[p] = "flock"
  /\ Goto(p, IF legacy = "file" /\ older = "holds" THEN "idle" ELSE "remove")
  /\ UNCHANGED <<mode, legacy, older, dir, clientVars, overtaken, exposed, displaced>>

\* remove_file: no directory is removed by it, the error ends the acquisition.
RemoveFile(p) ==
  /\ pc[p] = "remove"
  /\ legacy' = "none"
  /\ Goto(p, IF dir = None THEN "retry" ELSE "idle")
  /\ UNCHANGED <<mode, older, dir, clientVars, overtaken, exposed, displaced>>

\* Mutant of ReadOwner: whatever is stale is taken down.
ReadOwnerMerciless(p) ==
  /\ pc[p] = "owner"
  /\ Goto(p, "unlink")
  /\ UNCHANGED <<mode, legacy, older, dir, clientVars, overtaken, exposed, displaced>>

\* Mutant of ReadOwner: a recorded owner spares the lock, dead or not.
ReadOwnerTrusting(p) ==
  /\ pc[p] = "owner"
  /\ Goto(p, IF dir # None /\ dir.owner # None THEN "idle" ELSE "unlink")
  /\ UNCHANGED <<mode, legacy, older, dir, clientVars, overtaken, exposed, displaced>>

\* A recorded owner that is not provably dead is contention.
ReadOwner(p) ==
  LET spared == dir # None /\ dir.owner # None /\ Alive(dir.owner)
  IN
  /\ pc[p] = "owner"
  /\ Goto(p, IF spared THEN "idle" ELSE "unlink")
  /\ UNCHANGED <<mode, legacy, older, dir, clientVars, overtaken, exposed, displaced>>

\* Removing an entry refreshes the directory's mtime.
Unlinked(d) == IF d = None \/ d.owner = None THEN d ELSE [d EXCEPT !.owner = None, !.stale = "fresh"]

\* The owner file goes, if there is one; a regular file at the path is an error.
Unlink(p) ==
  /\ pc[p] = "unlink"
  /\ dir' = Unlinked(dir)
  /\ Goto(p, IF legacy = "none" THEN "rmdir" ELSE "idle")
  /\ UNCHANGED <<mode, legacy, older, clientVars, overtaken, exposed, displaced>>

\* rmdir takes an empty directory; an error but its absence ends the acquisition.
Rmdir(p) ==
  LET refused == legacy # "none" \/ (dir # None /\ dir.owner # None)
  IN
  /\ pc[p] = "rmdir"
  /\ dir' = IF refused THEN dir ELSE None
  /\ Goto(p, IF refused THEN "idle" ELSE "retry")
  /\ UNCHANGED <<mode, legacy, older, clientVars, overtaken, exposed, displaced>>

(***************************************************************************)
(* The guarded update.                                                     *)
(***************************************************************************)
lockVars == <<mode, legacy, older, dir, overtaken, exposed, displaced>>

\* A malformed file is refused, and the lock released.
ReadFile(p) ==
  /\ pc[p] = "held"
  /\ got' = IF file = Torn THEN got ELSE [got EXCEPT ![p] = file]
  /\ Goto(p, IF file = Torn THEN "saved" ELSE "read")
  /\ UNCHANGED <<lockVars, file, temp, saved>>

OwnerMatches(p) == dir # None /\ dir.owner = p

\* ensure_owned: a harness-state lock is checked before the write; on a lost
\* one the guard is dropped without it.
EnsureOwned(p) ==
  /\ pc[p] = "read"
  /\ Goto(p, IF mode = "owned" /\ ~OwnerMatches(p) THEN "saved" ELSE "sure")
  /\ UNCHANGED <<lockVars, clientVars>>

\* atomic_write and its per-process form in the settings store.
TempName(p) == IF mode = "owned" THEN p ELSE None

\* The file is created or truncated, then filled.
OpenTemp(p) ==
  /\ pc[p] = "sure"
  /\ temp' = [temp EXCEPT ![TempName(p)] = Torn]
  /\ Goto(p, "writing")
  /\ UNCHANGED <<lockVars, file, got, saved>>

WriteTemp(p) ==
  /\ pc[p] = "writing"
  /\ temp' = [temp EXCEPT ![TempName(p)] = got[p] \cup {p}]
  /\ Goto(p, "written")
  /\ UNCHANGED <<lockVars, file, got, saved>>

\* The rename fails when a rival's rename took the file away.
Rename(p) ==
  /\ pc[p] = "written"
  /\ \/ /\ temp[TempName(p)] # Absent
        /\ file' = temp[TempName(p)]
        /\ temp' = [temp EXCEPT ![TempName(p)] = Absent]
        /\ saved' = saved \cup {p}
     \/ /\ temp[TempName(p)] = Absent
        /\ UNCHANGED <<file, temp, saved>>
  /\ got' = [got EXCEPT ![p] = {}]
  /\ Goto(p, "saved")
  /\ UNCHANGED lockVars

(***************************************************************************)
(* Release.                                                                *)
(***************************************************************************)
\* An owned guard looks whether the lock is still its own.
MatchOwner(p) ==
  /\ pc[p] = "saved"
  /\ Goto(p, IF mode = "unowned" THEN "leaving" ELSE IF OwnerMatches(p) THEN "matched" ELSE "idle")
  /\ UNCHANGED <<lockVars, clientVars>>

\* The owner file goes; one that is gone already ends the release.
RemoveOwner(p) ==
  /\ pc[p] = "matched"
  /\ dir' = Unlinked(dir)
  /\ Goto(p, IF dir # None /\ dir.owner # None THEN "leaving" ELSE "idle")
  /\ Overtake(p)
  /\ UNCHANGED <<mode, legacy, older, clientVars, exposed, displaced>>

\* create's error path: the owner file at the path goes, whoever wrote it, and
\* then the directory.
Undo(p) ==
  /\ pc[p] = "undo"
  /\ dir' = Unlinked(dir)
  /\ Goto(p, "leaving")
  /\ Overtake(p)
  /\ UNCHANGED <<mode, legacy, older, clientVars, exposed, displaced>>

\* rmdir by path: an empty directory goes, whoever made it.
RemoveDir(p) ==
  /\ pc[p] = "leaving"
  /\ dir' = IF dir # None /\ dir.owner # None THEN dir ELSE None
  /\ Goto(p, "idle")
  /\ UNCHANGED <<mode, legacy, older, clientVars, overtaken, exposed, displaced>>

Step(p) ==
  \/ Create(p)
  \/ CreateAgain(p)
  \/ WriteOwner(p)
  \/ SetMtime(p)
  \/ Stat(p)
  \/ ProbeFlock(p)
  \/ RemoveFile(p)
  \/ ReadOwner(p)
  \/ Unlink(p)
  \/ Rmdir(p)
  \/ ReadFile(p)
  \/ EnsureOwned(p)
  \/ OpenTemp(p)
  \/ WriteTemp(p)
  \/ Rename(p)
  \/ MatchOwner(p)
  \/ RemoveOwner(p)
  \/ Undo(p)
  \/ RemoveDir(p)

Next ==
  \/ GrowStale
  \/ OlderOpens
  \/ OlderLocks
  \/ OlderEnds
  \/ \E p \in Processes : Step(p) \/ Crash(p)

Spec == Init /\ [][Next]_vars

\* Processes run and time passes.
FairSpec == Spec /\ WF_vars(GrowStale) /\ \A p \in Processes \ Gone : WF_vars(Step(p))

(***************************************************************************)
(* Properties.                                                             *)
(***************************************************************************)
\* No lock was made or unmarked inside a rival's reclaim, and no live
\* process's lock without an owner file outlived stale_after.
Orderly == overtaken = 0 /\ exposed = 0

\* The lock is p's: from the mkdir to the last step of the release.
Owning(p) == pc[p] \in Creating \cup Holding

(* The owner file of an owned lock is there from its write to the release,  *)
(* and a directory without one that a live process made is not stale.       *)
OwnerFileInv ==
  /\ \A p \in Processes :
       Owning(p) =>
         /\ dir # None /\ dir.by = p
         /\ pc[p] = "made" => mode = "owned"
         /\ IF pc[p] = "undo" THEN dir.owner \in {p, None}
              ELSE dir.owner = (IF mode = "owned" /\ pc[p] \notin {"made", "leaving"} THEN p ELSE None)
  /\ dir # None /\ dir.stale = "stale" /\ Alive(dir.by) => dir.owner # None

(* A waiter that has judged the lock and goes on to remove it removes no    *)
(* one's; until it has read the owner file, that file is what protects.     *)
ReclaimInv ==
  \A p, q \in Processes :
    Owning(p) => /\ pc[q] \notin {"unlink", "rmdir"}
                 /\ pc[q] = "owner" => dir.owner = p

(* The holder's copy is the file, and its temporary file the new content.   *)
FileInv ==
  /\ file # Torn
  /\ saved \subseteq file
  /\ \A p \in Processes :
       /\ pc[p] \in {"read", "sure", "writing", "written"} => got[p] = file
       /\ pc[p] = "written" => temp[TempName(p)] = file \cup {p}

(* A regular file in the lock's place leaves no room for a directory; while *)
(* an older build has it flocked, the file is there and no process is past  *)
(* the probe, unless the flock came after a probe or after a removal.       *)
LegacyInv ==
  /\ legacy = "file" => dir = None
  /\ displaced = 0 /\ older = "holds" =>
       legacy = "file" /\ \A p \in Processes : pc[p] # "remove"

(* What the two properties below rest on, step by step: the owner file, the *)
(* reclaiming waiters and the update in the making, as long as the lock is  *)
(* orderly.                                                                 *)
LockInv == TypeOK /\ LegacyInv /\ (Orderly => OwnerFileInv /\ ReclaimInv /\ FileInv)

(* The lock is a lock: as long as no lock is made or unmarked between       *)
(* another waiter's judgement and removal, and no live holder without an    *)
(* owner file overstays, two processes never hold it together and a         *)
(* holder's directory is in place, whatever crashes and, with owner files,  *)
(* however slow the holder is; and none holds it beside a process of an     *)
(* older build whose flock did not come after a waiter's probe of the file. *)
OneHolder ==
  Orderly => \A p \in Processes : pc[p] \in Holding =>
               /\ \A q \in Processes : pc[q] \in Holding => q = p
               /\ dir # None /\ dir.by = p
               /\ displaced = 0 => older # "holds"

(* Under the same condition no completed update of the guarded file is lost *)
(* and no reader of it, with or without the lock, sees a torn file.         *)
UpdatesKept == Orderly => file # Torn /\ saved \subseteq file

(* A dead holder's lock does not outlive the processes that want it: in the *)
(* end a live process has it, or it is gone; and so goes a file of an older *)
(* build that no process of that build comes to use.                        *)
DeadLockGoes ==
  /\ (legacy = "file" /\ older = "gone") ~> (legacy = "none" \/ older # "gone")
  /\ (dir # None /\ ~Alive(dir.by)) ~> (dir = None \/ Alive(dir.by))
==============================================================================
