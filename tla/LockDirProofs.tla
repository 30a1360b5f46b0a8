---------------------------- MODULE LockDirProofs ----------------------------
(***************************************************************************)
(* Proofs about LockDir, for any number of processes, for both kinds of    *)
(* lock and whichever processes died before.  The inductive invariant is   *)
(* LockInv: what protects a holder is its directory's age or its owner     *)
(* file, and a waiter past its judgement has no holder before it.          *)
(***************************************************************************)
EXTENDS LockDir, TLAPS

\* The flags of a disorderly lock are never taken back.
LEMMA OrderlyBefore ==
  ASSUME TypeOK, [Next]_vars, Orderly'
  PROVE  Orderly
<1> USE DEF TypeOK, Orderly, vars, lockVars, clientVars
<1>1. CASE GrowStale
  BY <1>1 DEF GrowStale
<1>5. CASE OlderOpens \/ OlderLocks \/ OlderEnds
  BY <1>5 DEF OlderOpens, OlderLocks, OlderEnds
<1>2. ASSUME NEW p \in Processes, Step(p) PROVE Orderly
  BY <1>2 DEF Step, Create, CreateAgain, Mkdir, Overtake, WriteOwner, SetMtime, Stat, ProbeFlock, RemoveFile, ReadOwner, Unlink, Rmdir,
       ReadFile, EnsureOwned, OpenTemp, WriteTemp, Rename, MatchOwner, RemoveOwner, Undo, RemoveDir
<1>3. ASSUME NEW p \in Processes, Crash(p) PROVE Orderly
  BY <1>3 DEF Crash
<1>4. CASE UNCHANGED vars
  BY <1>4
<1> QED BY <1>1, <1>2, <1>3, <1>4, <1>5 DEF Next

(***************************************************************************)
(* Types.                                                                  *)
(***************************************************************************)
\* A directory record keeps its type when its age or owner file changes.
LEMMA DirTyped ==
  ASSUME NEW d \in Dir, NEW o \in Processes \cup {None}, NEW age \in {"fresh", "stale"}
  PROVE  /\ [d EXCEPT !.owner = o, !.stale = age] \in Dir
         /\ [d EXCEPT !.stale = age] \in Dir
         /\ d # None
BY DistinctAssumption DEF Dir

\* Unlinking keeps a directory, or its absence, one.
LEMMA UnlinkedTyped ==
  ASSUME NEW d \in Dir \cup {None}
  PROVE  Unlinked(d) \in Dir \cup {None}
BY DirTyped DEF Unlinked

\* The lock's own variables keep their types.
LEMMA LockTypes ==
  ASSUME TypeOK, Next
  PROVE  /\ mode' \in Modes
         /\ legacy' \in {"none", "file"} /\ older' \in {"gone", "opened", "holds"}
         /\ dir' \in Dir \cup {None}
         /\ overtaken' \in 0 .. 1
         /\ exposed' \in 0 .. 1 /\ displaced' \in 0 .. 1
<1> USE DEF TypeOK, lockVars, clientVars
<1>1. CASE GrowStale
  <2>1. dir \in Dir
    BY <1>1 DEF GrowStale
  <2>2. [dir EXCEPT !.stale = "stale"] \in Dir
    BY <2>1 DEF Dir
  <2> QED BY <1>1, <2>2 DEF GrowStale
<1>5. CASE OlderOpens \/ OlderLocks \/ OlderEnds
  BY <1>5 DEF OlderOpens, OlderLocks, OlderEnds
<1>2. ASSUME NEW p \in Processes, Create(p) \/ CreateAgain(p)
      PROVE  /\ mode' \in Modes /\ legacy' \in {"none", "file"} /\ older' \in {"gone", "opened", "holds"} /\ dir' \in Dir \cup {None}
             /\ overtaken' \in 0 .. 1 /\ exposed' \in 0 .. 1 /\ displaced' \in 0 .. 1
  BY <1>2 DEF Create, CreateAgain, Mkdir, Overtake, Dir
<1>3. ASSUME NEW p \in Processes,
             \/ WriteOwner(p) \/ SetMtime(p) \/ Unlink(p) \/ Rmdir(p)
             \/ RemoveOwner(p) \/ Undo(p) \/ RemoveDir(p)
      PROVE  /\ mode' \in Modes /\ legacy' \in {"none", "file"} /\ older' \in {"gone", "opened", "holds"} /\ dir' \in Dir \cup {None}
             /\ overtaken' \in 0 .. 1 /\ exposed' \in 0 .. 1 /\ displaced' \in 0 .. 1
  <2>1. Unlinked(dir) \in Dir \cup {None}
    BY UnlinkedTyped
  <2>2. dir # None => /\ [dir EXCEPT !.owner = p, !.stale = "fresh"] \in Dir
                      /\ [dir EXCEPT !.stale = "fresh"] \in Dir
    BY DEF Dir
  <2> QED BY <1>3, <2>1, <2>2 DEF WriteOwner, SetMtime, Unlink, Rmdir, RemoveOwner, Undo, RemoveDir, Overtake
<1>4. ASSUME NEW p \in Processes,
             \/ Stat(p) \/ ProbeFlock(p) \/ RemoveFile(p) \/ ReadOwner(p) \/ ReadFile(p) \/ EnsureOwned(p) \/ OpenTemp(p)
             \/ WriteTemp(p) \/ Rename(p) \/ MatchOwner(p) \/ Crash(p)
      PROVE  /\ mode' \in Modes /\ legacy' \in {"none", "file"} /\ older' \in {"gone", "opened", "holds"} /\ dir' \in Dir \cup {None}
             /\ overtaken' \in 0 .. 1 /\ exposed' \in 0 .. 1 /\ displaced' \in 0 .. 1
  BY <1>4 DEF Stat, ProbeFlock, RemoveFile, ReadOwner, ReadFile, EnsureOwned, OpenTemp, WriteTemp, Rename, MatchOwner, Crash
<1> QED BY <1>1, <1>2, <1>3, <1>4, <1>5 DEF Next, Step

\* Every process stays at one of the places.
LEMMA PlaceTypes ==
  ASSUME TypeOK, Next
  PROVE  pc' \in [Processes -> Places]
<1> USE DEF TypeOK
<1>1. ASSUME NEW p \in Processes, NEW place \in Places, Goto(p, place)
      PROVE  pc' \in [Processes -> Places]
  BY <1>1 DEF Goto
<1>2. CASE GrowStale \/ OlderOpens \/ OlderLocks \/ OlderEnds
  BY <1>2 DEF GrowStale, OlderOpens, OlderLocks, OlderEnds
<1>3. ASSUME NEW p \in Processes, Step(p) \/ Crash(p) PROVE \E place \in Places : Goto(p, place)
  BY <1>3 DEF Places, Holding, Creating, Reclaiming, Step, Create, CreateAgain, Mkdir, WriteOwner, SetMtime, Stat,
       ProbeFlock, RemoveFile, ReadOwner, Unlink, Rmdir, ReadFile, EnsureOwned, OpenTemp, WriteTemp, Rename, MatchOwner,
       RemoveOwner, Undo, RemoveDir, Crash
<1> QED BY <1>1, <1>2, <1>3 DEF Next

\* The guarded file, its temporary files and its copies keep their types.
LEMMA ClientTypes ==
  ASSUME TypeOK, Next
  PROVE  /\ file' \in Content
         /\ temp' \in [Processes \cup {None} -> Content]
         /\ got' \in [Processes -> SUBSET Processes]
         /\ saved' \subseteq Processes
<1> DEFINE Goal == /\ file' \in Content
                   /\ temp' \in [Processes \cup {None} -> Content]
                   /\ got' \in [Processes -> SUBSET Processes]
                   /\ saved' \subseteq Processes
<1> USE DEF TypeOK, clientVars, lockVars
<1>1. ASSUME NEW p \in Processes, ReadFile(p) \/ OpenTemp(p) \/ WriteTemp(p) \/ Rename(p) PROVE Goal
  <2>1. CASE ReadFile(p)
    BY <2>1 DEF ReadFile, Content
  <2>2. CASE OpenTemp(p)
    BY <2>2 DEF OpenTemp, TempName, Content
  <2>3. CASE WriteTemp(p)
    <3>1. got[p] \cup {p} \in Content
      BY DEF Content
    <3> QED BY <2>3, <3>1 DEF WriteTemp, TempName
  <2>4. CASE Rename(p)
    BY <2>4 DEF Rename, TempName, Content, Absent
  <2> QED BY <1>1, <2>1, <2>2, <2>3, <2>4
<1>2. CASE UNCHANGED clientVars
  BY <1>2
<1>3. ASSUME NEW p \in Processes,
             Step(p) \/ Crash(p), ~(ReadFile(p) \/ OpenTemp(p) \/ WriteTemp(p) \/ Rename(p))
      PROVE  UNCHANGED clientVars
  BY <1>3 DEF Step, Create, CreateAgain, Mkdir, WriteOwner, SetMtime, Stat, ProbeFlock, RemoveFile, ReadOwner, Unlink, Rmdir,
       EnsureOwned, MatchOwner, RemoveOwner, Undo, RemoveDir, Crash
<1>4. CASE GrowStale \/ OlderOpens \/ OlderLocks \/ OlderEnds
  BY <1>4, <1>2 DEF GrowStale, OlderOpens, OlderLocks, OlderEnds
<1> QED BY <1>1, <1>2, <1>3, <1>4 DEF Next

\* The type invariant is preserved.
LEMMA TypeStep == TypeOK /\ [Next]_vars => TypeOK'
<1> SUFFICES ASSUME TypeOK, [Next]_vars PROVE TypeOK'
  OBVIOUS
<1>1. CASE Next
  BY <1>1, LockTypes, PlaceTypes, ClientTypes DEF TypeOK
<1>2. CASE UNCHANGED vars
  BY <1>2 DEF vars, TypeOK
<1> QED BY <1>1, <1>2

(***************************************************************************)
(* Exclusion.                                                              *)
(***************************************************************************)
LockPart == OwnerFileInv /\ ReclaimInv

\* Where a step that leaves the directory alone takes a process: it never
\* begins to own, and it never passes the judgement of a lock that is owned.
LEMMA QuietStep ==
  ASSUME TypeOK, TypeOK', LockPart, NEW p \in Processes, NEW place \in Places,
         UNCHANGED <<mode, dir>>, Goto(p, place),
         place \in Creating => place = "undo",
         place \in Creating \cup Holding => Owning(p) /\ pc[p] # "undo",
         place \in Holding =>
           (pc[p] \in {"made", "leaving"} <=> place = "leaving") \/ mode = "unowned",
         place = "dead" \/ Alive(p),
         place = "owner" => \A q \in Processes : Owning(q) => dir.owner = q,
         place \in {"unlink", "rmdir"} => pc[p] = "unlink" \/ \A q \in Processes : ~Owning(q)
  PROVE  LockPart'
<1> USE DEF LockPart, OwnerFileInv, ReclaimInv, Owning, Alive, Goto, TypeOK
<1>1. \A q \in Processes : q # p => pc'[q] = pc[q]
  OBVIOUS
<1>2. pc'[p] = place
  OBVIOUS
<1>3. OwnerFileInv'
  BY <1>1, <1>2 DEF Creating, Holding
<1>4. ReclaimInv'
  BY <1>1, <1>2
<1> QED BY <1>3, <1>4

\* Steps that leave the directory alone preserve the lock's invariant.
LEMMA QuietSteps ==
  ASSUME TypeOK, TypeOK', LockPart, Orderly, NEW p \in Processes,
         \/ Stat(p) \/ ProbeFlock(p) \/ RemoveFile(p) \/ ReadOwner(p) \/ ReadFile(p) \/ EnsureOwned(p) \/ OpenTemp(p)
         \/ WriteTemp(p) \/ Rename(p) \/ MatchOwner(p) \/ Crash(p)
  PROVE  LockPart'
<1> USE DEF lockVars, clientVars
<1>1. CASE Stat(p)
  <2>1. PICK place \in {"flock", "retry", "idle", "owner"} :
          /\ Goto(p, place)
          /\ place = "owner" => dir # None /\ dir.stale = "stale"
    BY <1>1 DEF Stat, TypeOK, Dir
  <2>2. place = "owner" => \A q \in Processes : Owning(q) => dir.owner = q
    BY <2>1 DEF LockPart, OwnerFileInv, Owning, Alive, TypeOK, Holding, Creating
  <2>3. place \notin Creating \cup Holding /\ place \in Places
    BY DEF Holding, Creating, Places, Reclaiming
  <2> QED BY <1>1, <2>1, <2>2, <2>3, QuietStep DEF Stat, Alive
<1>2. CASE ReadOwner(p)
  <2>1. PICK place \in {"idle", "unlink"} :
          /\ Goto(p, place)
          /\ place = "unlink" => ~(dir # None /\ dir.owner # None /\ Alive(dir.owner))
    BY <1>2 DEF ReadOwner
  <2>2. place = "unlink" => \A q \in Processes : ~Owning(q)
    BY <1>2, <2>1, DistinctAssumption DEF ReadOwner, LockPart, OwnerFileInv, ReclaimInv, Owning, Alive, TypeOK, Holding, Creating
  <2>3. place \notin Creating \cup Holding /\ place \in Places
    BY DEF Holding, Creating, Places, Reclaiming
  <2> QED BY <1>2, <2>1, <2>2, <2>3, QuietStep DEF ReadOwner, Alive
<1>3. CASE ReadFile(p) \/ EnsureOwned(p) \/ OpenTemp(p) \/ WriteTemp(p) \/ Rename(p)
  <2>1. PICK place \in Holding \ {"leaving"} : Goto(p, place)
    BY <1>3 DEF ReadFile, EnsureOwned, OpenTemp, WriteTemp, Rename, Holding
  <2>2. Owning(p) /\ pc[p] \notin {"made", "undo", "leaving", "dead"}
    BY <1>3 DEF ReadFile, EnsureOwned, OpenTemp, WriteTemp, Rename, Holding, Creating, Owning
  <2>3. UNCHANGED <<mode, dir>>
    BY <1>3 DEF ReadFile, EnsureOwned, OpenTemp, WriteTemp, Rename
  <2>4. place \in Places /\ place \notin Creating \cup {"owner", "unlink", "rmdir", "leaving"}
    BY DEF Holding, Creating, Places, Reclaiming
  <2> QED BY <2>1, <2>2, <2>3, <2>4, QuietStep DEF Alive
<1>4. CASE MatchOwner(p)
  <2>1. PICK place \in {"leaving", "matched", "idle"} :
          /\ Goto(p, place)
          /\ place = "leaving" => mode = "unowned"
    BY <1>4 DEF MatchOwner
  <2>2. Owning(p) /\ pc[p] \notin {"made", "undo", "leaving", "dead"}
    BY <1>4 DEF MatchOwner, Holding, Creating, Owning
  <2>3. place \in Places /\ place \notin Creating \cup {"owner", "unlink", "rmdir"}
    BY DEF Holding, Creating, Places, Reclaiming
  <2> QED BY <1>4, <2>1, <2>2, <2>3, QuietStep DEF MatchOwner, Alive
<1>6. CASE ProbeFlock(p) \/ RemoveFile(p)
  <2>1. PICK place \in {"idle", "remove", "retry"} : Goto(p, place)
    BY <1>6 DEF ProbeFlock, RemoveFile
  <2>2. UNCHANGED <<mode, dir>> /\ Alive(p)
    BY <1>6 DEF ProbeFlock, RemoveFile, Alive
  <2>3. place \in Places /\ place \notin Creating \cup Holding \cup {"owner", "unlink", "rmdir"}
    BY DEF Holding, Creating, Places, Reclaiming
  <2> QED BY <2>1, <2>2, <2>3, QuietStep
<1>5. CASE Crash(p)
  <2>1. "dead" \in Places /\ "dead" \notin Creating \cup Holding
    BY DEF Holding, Creating, Places, Reclaiming
  <2> QED BY <1>5, <2>1, QuietStep DEF Crash
<1> QED BY <1>1, <1>2, <1>3, <1>4, <1>5, <1>6

\* Steps that change the directory preserve the lock's invariant, as long as
\* they leave the lock orderly.
LEMMA DirSteps ==
  ASSUME TypeOK, TypeOK', LockPart, Orderly, Orderly', NEW p \in Processes,
         \/ Create(p) \/ CreateAgain(p) \/ WriteOwner(p) \/ SetMtime(p) \/ Unlink(p) \/ Rmdir(p)
         \/ RemoveOwner(p) \/ Undo(p) \/ RemoveDir(p)
  PROVE  LockPart'
<1> USE DEF lockVars, clientVars, LockPart
<1>1. CASE (Create(p) \/ CreateAgain(p)) /\ dir = None /\ legacy = "none"
  <2>1. /\ dir' = [by |-> p, stale |-> "fresh", owner |-> None]
        /\ Goto(p, IF mode = "owned" THEN "made" ELSE "marked")
        /\ mode' = mode
        /\ \A q \in Processes \ {p} : pc[q] \notin Reclaiming
    BY <1>1 DEF Create, CreateAgain, Mkdir, Overtake, Orderly
  <2>2. \A q \in Processes : ~Owning(q)
    BY <1>1 DEF OwnerFileInv
  <2>3. pc'[p] \in {"made", "marked"} /\ \A q \in Processes \ {p} : pc'[q] = pc[q]
    BY <2>1 DEF Goto, TypeOK
  <2>4. pc'[p] = "made" <=> mode = "owned"
    BY <2>1 DEF Goto, TypeOK
  <2>5. dir' # None
    BY <2>1, DistinctAssumption
  <2>6. \A q \in Processes : Owning(q)' <=> q = p
    BY <2>2, <2>3 DEF Owning, Holding, Creating
  <2>7. OwnerFileInv'
    BY <2>1, <2>3, <2>4, <2>5, <2>6 DEF OwnerFileInv
  <2>8. ReclaimInv'
    BY <2>1, <2>3, <2>6 DEF ReclaimInv, Reclaiming
  <2> QED BY <2>7, <2>8
<1>2. CASE (Create(p) \/ CreateAgain(p)) /\ ~(dir = None /\ legacy = "none")
  <2>1. PICK place \in {"stat", "idle"} : Goto(p, place)
    BY <1>2 DEF Create, CreateAgain, Mkdir
  <2>2. UNCHANGED <<mode, dir>>
    BY <1>2 DEF Create, CreateAgain, Mkdir
  <2>3. place \in Places /\ place \notin Creating \cup Holding \cup {"owner", "unlink", "rmdir"}
    BY DEF Holding, Creating, Places, Reclaiming
  <2>4. Alive(p)
    BY <1>2 DEF Create, CreateAgain, Alive
  <2> QED BY <2>1, <2>2, <2>3, <2>4, QuietStep
<1>3. CASE (WriteOwner(p) \/ SetMtime(p)) /\ Goto(p, "undo") /\ dir' = dir
  <2>1. "undo" \in Places /\ "undo" \notin Holding /\ "undo" \in Creating
    BY DEF Holding, Creating, Places, Reclaiming
  <2>2. Owning(p) /\ Alive(p) /\ pc[p] # "undo" /\ UNCHANGED <<mode, dir>>
    BY <1>3 DEF WriteOwner, SetMtime, Owning, Creating, Alive
  <2> QED BY <1>3, <2>1, <2>2, QuietStep
<1>7. CASE (WriteOwner(p) \/ SetMtime(p)) /\ ~(Goto(p, "undo") /\ dir' = dir)
  <2>1. Owning(p)
    BY <1>7 DEF WriteOwner, SetMtime, Owning, Creating
  <2>2. dir # None /\ dir.by = p /\ mode' = mode
    BY <1>7, <2>1 DEF OwnerFileInv, WriteOwner, SetMtime
  <2>3. pc'[p] \in {"marked", "held"} /\ \A q \in Processes \ {p} : pc'[q] = pc[q]
    BY <1>7 DEF WriteOwner, SetMtime, Goto, TypeOK
  <2>4. \A q \in Processes : Owning(q) <=> q = p
    BY <2>1, <2>2 DEF OwnerFileInv
  <2>5. \A q \in Processes : Owning(q)' <=> q = p
    BY <2>3, <2>4 DEF Owning, Holding, Creating
  <2>6. dir' # None /\ dir'.by = p /\ dir'.stale = "fresh"
    <3>1. \/ dir' = [dir EXCEPT !.owner = p, !.stale = "fresh"]
          \/ dir' = [dir EXCEPT !.stale = "fresh"]
      BY <1>7, <2>2 DEF WriteOwner, SetMtime
    <3>2. dir \in Dir
      BY <2>2 DEF TypeOK
    <3>3. dir' \in Dir
      BY <3>1, <3>2 DEF Dir
    <3>4. dir'.by = dir.by /\ dir'.stale = "fresh"
      BY <3>1, <3>2 DEF Dir
    <3> QED BY <2>2, <3>3, <3>4, DistinctAssumption DEF Dir
  <2>7. dir'.owner = (IF mode = "owned" THEN p ELSE None)
    <3>1. CASE WriteOwner(p)
      <4>1. mode = "owned" /\ dir' = [dir EXCEPT !.owner = p, !.stale = "fresh"]
        BY <1>7, <3>1, <2>1 DEF WriteOwner, OwnerFileInv
      <4> QED BY <4>1, <2>2 DEF TypeOK, Dir
    <3>2. CASE SetMtime(p)
      <4>1. dir.owner = (IF mode = "owned" THEN p ELSE None)
        BY <3>2, <2>1 DEF SetMtime, OwnerFileInv
      <4>2. dir' = [dir EXCEPT !.stale = "fresh"]
        BY <1>7, <3>2, <2>2 DEF SetMtime
      <4> QED BY <4>1, <4>2, <2>2 DEF TypeOK, Dir
    <3> QED BY <1>7, <3>1, <3>2
  <2>8. \A q \in Processes : pc[q] \in Reclaiming => pc[q] = "owner" /\ dir.owner = p
    BY <2>1 DEF ReclaimInv, Reclaiming
  <2>9. dir.owner = p => dir'.owner = p
    BY <1>7, <2>2 DEF WriteOwner, SetMtime, TypeOK, Dir
  <2>10. OwnerFileInv'
    BY <2>2, <2>3, <2>5, <2>6, <2>7 DEF OwnerFileInv
  <2>11. ReclaimInv'
    BY <2>3, <2>5, <2>8, <2>9 DEF ReclaimInv, Reclaiming
  <2> QED BY <2>10, <2>11
<1>4. CASE Unlink(p) \/ Rmdir(p)
  <2>1. \A q \in Processes : ~Owning(q)
    BY <1>4 DEF ReclaimInv, Unlink, Rmdir
  <2>2. pc'[p] \in {"rmdir", "retry", "idle"} /\ \A q \in Processes \ {p} : pc'[q] = pc[q]
    BY <1>4 DEF Unlink, Rmdir, Goto, TypeOK
  <2>3. \A q \in Processes : ~Owning(q)'
    BY <2>1, <2>2 DEF Owning, Holding, Creating
  <2>4. dir' \in {dir, None} \/ dir'.stale = "fresh"
    <3>1. Unlinked(dir) \in {dir, None} \/ Unlinked(dir).stale = "fresh"
      BY DEF Unlinked, TypeOK, Dir
    <3> QED BY <1>4, <3>1 DEF Unlink, Rmdir
  <2>5. \A q \in Processes : Alive(q)' <=> Alive(q)
    BY <1>4, <2>2 DEF Alive, Unlink, Rmdir
  <2>6. dir' # None => dir'.by \in Processes
    BY DEF TypeOK, Dir
  <2>7. dir' # None /\ dir'.stale = "stale" /\ Alive(dir.by)' => dir'.owner # None
    BY <2>4, <2>5, <2>6 DEF OwnerFileInv
  <2> QED BY <2>3, <2>4, <2>5, <2>6 DEF OwnerFileInv, ReclaimInv
<1>5. CASE RemoveOwner(p) \/ Undo(p)
  <2>1. Owning(p)
    BY <1>5 DEF RemoveOwner, Undo, Owning, Holding, Creating
  <2>2. dir # None /\ dir.by = p
    BY <2>1 DEF OwnerFileInv
  <2>3. \A q \in Processes : Owning(q) <=> q = p
    BY <2>1, <2>2 DEF OwnerFileInv
  <2>4. \A q \in Processes \ {p} : pc[q] \notin Reclaiming /\ pc'[q] = pc[q]
    BY <1>5 DEF RemoveOwner, Undo, Overtake, Orderly, Goto, TypeOK
  <2>5. dir' = Unlinked(dir) /\ mode' = mode
    BY <1>5 DEF RemoveOwner, Undo
  <2>6. dir' # None /\ dir'.by = p /\ dir'.owner = None
    BY <2>2, <2>5, DistinctAssumption DEF Unlinked, TypeOK, Dir
  <2>7. dir' = dir \/ dir'.stale = "fresh"
    BY <2>2, <2>5 DEF Unlinked, TypeOK, Dir
  <2>8. pc'[p] \in {"leaving", "idle"}
    BY <1>5 DEF RemoveOwner, Undo, Goto, TypeOK
  <2>9. \A q \in Processes : Owning(q)' => q = p /\ pc'[p] = "leaving"
    BY <2>3, <2>4, <2>8 DEF Owning, Holding, Creating
  <2>10. Alive(p)
    BY <1>5 DEF RemoveOwner, Undo, Alive
  <2>11. OwnerFileInv'
    BY <2>2, <2>5, <2>6, <2>7, <2>8, <2>9, <2>10 DEF OwnerFileInv, Alive
  <2>12. ReclaimInv'
    BY <2>4, <2>8, <2>9 DEF ReclaimInv, Reclaiming
  <2> QED BY <2>11, <2>12
<1>6. CASE RemoveDir(p)
  <2>1. Owning(p)
    BY <1>6 DEF RemoveDir, Owning, Holding, Creating
  <2>2. dir # None /\ dir.by = p /\ dir.owner = None
    BY <1>6, <2>1 DEF OwnerFileInv, RemoveDir
  <2>3. dir' = None
    BY <1>6, <2>2 DEF RemoveDir
  <2>4. pc'[p] = "idle" /\ \A q \in Processes \ {p} : pc'[q] = pc[q]
    BY <1>6 DEF RemoveDir, Goto, TypeOK
  <2>5. \A q \in Processes : ~Owning(q)'
    BY <2>1, <2>2, <2>4 DEF Owning, Holding, Creating, OwnerFileInv
  <2> QED BY <2>3, <2>5 DEF OwnerFileInv, ReclaimInv
<1> QED BY <1>1, <1>2, <1>3, <1>4, <1>5, <1>6, <1>7

\* What the age of the directory has to do with its owner.
LEMMA GrowStaleStep ==
  ASSUME TypeOK, TypeOK', LockPart, Orderly', GrowStale
  PROVE  LockPart'
<1>1. dir # None /\ dir' = [dir EXCEPT !.stale = "stale"] /\ mode' = mode /\ pc' = pc
  BY DEF GrowStale
<1>2. dir' # None /\ dir'.by = dir.by /\ dir'.owner = dir.owner
  BY <1>1, DistinctAssumption DEF TypeOK, Dir
<1>3. Alive(dir.by) => dir.owner # None
  BY DEF GrowStale, Orderly
<1>4. OwnerFileInv'
  BY <1>1, <1>2, <1>3 DEF LockPart, OwnerFileInv, Owning, Alive
<1>5. ReclaimInv'
  BY <1>1, <1>2 DEF LockPart, ReclaimInv, Owning
<1> QED BY <1>4, <1>5 DEF LockPart

\* Every step that leaves the lock orderly preserves the lock's invariant.
LEMMA LockStep ==
  ASSUME TypeOK, TypeOK', LockPart, Orderly, Orderly', [Next]_vars
  PROVE  LockPart'
<1>1. CASE UNCHANGED vars
  BY <1>1 DEF vars, LockPart, OwnerFileInv, ReclaimInv, Owning, Alive
<1>2. CASE OlderOpens \/ OlderLocks \/ OlderEnds
  BY <1>2 DEF OlderOpens, OlderLocks, OlderEnds, LockPart, OwnerFileInv, ReclaimInv, Owning, Alive
<1>3. CASE Next /\ ~(OlderOpens \/ OlderLocks \/ OlderEnds)
  BY <1>3, QuietSteps, DirSteps, GrowStaleStep DEF Next, Step
<1> QED BY <1>1, <1>2, <1>3

(***************************************************************************)
(* The older build's lock file.                                            *)
(***************************************************************************)
\* The path holds a file or a directory, and a flock that came before every
\* probe keeps waiters from removing the file.
LEMMA LegacyStep ==
  ASSUME TypeOK, LegacyInv, [Next]_vars
  PROVE  LegacyInv'
<1>1. CASE UNCHANGED vars
  BY <1>1 DEF vars, LegacyInv
<1>2. CASE GrowStale \/ OlderOpens \/ OlderLocks \/ OlderEnds
  BY <1>2 DEF GrowStale, OlderOpens, OlderLocks, OlderEnds, LegacyInv, TypeOK
<1>3. ASSUME NEW p \in Processes, RemoveFile(p) PROVE LegacyInv'
  <2>1. legacy' = "none" /\ older' = older /\ displaced' = displaced
    BY <1>3 DEF RemoveFile
  <2>2. ~(displaced = 0 /\ older = "holds")
    BY <1>3 DEF RemoveFile, LegacyInv
  <2> QED BY <2>1, <2>2 DEF LegacyInv
<1>4. ASSUME NEW p \in Processes, Step(p) \/ Crash(p), ~RemoveFile(p) PROVE LegacyInv'
  <2>1. legacy' = legacy /\ older' = older /\ displaced' = displaced
    BY <1>4 DEF Step, Create, CreateAgain, Mkdir, WriteOwner, SetMtime, Stat, ProbeFlock, ReadOwner,
         Unlink, Rmdir, ReadFile, EnsureOwned, OpenTemp, WriteTemp, Rename, MatchOwner, RemoveOwner,
         Undo, RemoveDir, Crash, lockVars
  <2>2. legacy = "file" => dir' = None
    BY <1>4 DEF LegacyInv, Step, Create, CreateAgain, Mkdir, WriteOwner, SetMtime, Stat,
         ProbeFlock, ReadOwner, Unlink, Unlinked, Rmdir, ReadFile, EnsureOwned, OpenTemp, WriteTemp,
         Rename, MatchOwner, RemoveOwner, Undo, RemoveDir, Crash, lockVars
  <2>3. displaced = 0 /\ older = "holds" => \A q \in Processes : pc'[q] # "remove"
    <3>1. displaced = 0 /\ older = "holds" => \E place \in Places \ {"remove"} : Goto(p, place)
      BY <1>4 DEF LegacyInv, Places, Holding, Creating, Reclaiming, Step, Create, CreateAgain, Mkdir,
           WriteOwner, SetMtime, Stat, ProbeFlock, ReadOwner, Unlink, Rmdir, ReadFile, EnsureOwned,
           OpenTemp, WriteTemp, Rename, MatchOwner, RemoveOwner, Undo, RemoveDir, Crash
    <3> QED BY <3>1 DEF Goto, TypeOK, LegacyInv
  <2> QED BY <2>1, <2>2, <2>3 DEF LegacyInv
<1> QED BY <1>1, <1>2, <1>3, <1>4 DEF Next

(***************************************************************************)
(* The guarded update.                                                     *)
(***************************************************************************)
\* A step outside the update keeps what is known of the file.
LEMMA FileKept ==
  ASSUME TypeOK, TypeOK', FileInv, UNCHANGED clientVars, UNCHANGED mode,
         NEW p \in Processes, NEW place \in Places, Goto(p, place),
         place \in {"read", "sure", "writing", "written"} =>
           pc[p] \in {"read", "sure", "writing", "written"} /\ place # "written"
  PROVE  FileInv'
<1>1. \A q \in Processes \ {p} : pc'[q] = pc[q]
  BY DEF Goto, TypeOK
<1>2. pc'[p] = place
  BY DEF Goto, TypeOK
<1> QED BY <1>1, <1>2 DEF FileInv, clientVars, TempName

\* The holder's steps of the update preserve what is known of the file.
LEMMA UpdateSteps ==
  ASSUME TypeOK, TypeOK', LockPart, FileInv, NEW p \in Processes,
         ReadFile(p) \/ OpenTemp(p) \/ WriteTemp(p) \/ Rename(p)
  PROVE  FileInv'
<1> USE DEF lockVars
<1>1. \A q \in Processes \ {p} : pc'[q] = pc[q]
  BY DEF ReadFile, OpenTemp, WriteTemp, Rename, Goto, TypeOK
<1>2. Owning(p)
  BY DEF ReadFile, OpenTemp, WriteTemp, Rename, Owning, Holding, Creating
<1>3. \A q \in Processes \ {p} : pc[q] \notin {"read", "sure", "writing", "written"}
  BY <1>2 DEF LockPart, OwnerFileInv, Owning, Holding, Creating
<1>4. CASE ReadFile(p)
  <2>1. pc'[p] = "read" /\ got'[p] = file
    BY <1>4 DEF ReadFile, Goto, TypeOK, FileInv
  <2> QED BY <1>1, <1>3, <1>4, <2>1 DEF ReadFile, FileInv
<1>5. CASE OpenTemp(p)
  <2>1. pc[p] = "sure" /\ pc'[p] = "writing"
    BY <1>5 DEF OpenTemp, Goto, TypeOK
  <2> QED BY <1>1, <1>3, <1>5, <2>1 DEF OpenTemp, FileInv
<1>6. CASE WriteTemp(p)
  <2>1. pc[p] = "writing" /\ pc'[p] = "written" /\ UNCHANGED <<file, got, saved, mode>>
    BY <1>6 DEF WriteTemp, Goto, TypeOK
  <2>2. got[p] = file /\ got[p] # Torn
    BY <2>1 DEF FileInv
  <2>3. temp'[TempName(p)] = file \cup {p}
    BY <1>6, <2>2 DEF WriteTemp, TempName, TypeOK
  <2>4. TempName(p)' = TempName(p)
    BY <2>1 DEF TempName
  <2> QED BY <1>1, <1>3, <2>1, <2>2, <2>3, <2>4 DEF FileInv
<1>7. CASE Rename(p)
  <2>1. pc[p] = "written" /\ pc'[p] = "saved"
    BY <1>7 DEF Rename, Goto, TypeOK
  <2>2. temp[TempName(p)] = file \cup {p}
    BY <2>1 DEF FileInv
  <2>3. file' = file \cup {p} /\ saved' = saved \cup {p}
    BY <1>7, <2>2 DEF Rename, Absent
  <2>4. file' # Torn
    BY <2>3, DistinctAssumption DEF Torn
  <2>5. saved' \subseteq file'
    BY <2>3 DEF FileInv
  <2> QED BY <1>1, <1>3, <2>1, <2>4, <2>5 DEF FileInv
<1> QED BY <1>4, <1>5, <1>6, <1>7

\* Every step preserves what is known of the file.
LEMMA FileStep ==
  ASSUME TypeOK, TypeOK', LockPart, FileInv, [Next]_vars
  PROVE  FileInv'
<1>1. CASE UNCHANGED vars
  BY <1>1 DEF vars, FileInv, TempName
<1>2. CASE GrowStale \/ OlderOpens \/ OlderLocks \/ OlderEnds
  BY <1>2 DEF GrowStale, OlderOpens, OlderLocks, OlderEnds, clientVars, FileInv, TempName
<1>3. ASSUME NEW p \in Processes, Step(p) \/ Crash(p),
             ~(ReadFile(p) \/ OpenTemp(p) \/ WriteTemp(p) \/ Rename(p))
      PROVE  FileInv'
  <2>1. UNCHANGED clientVars /\ UNCHANGED mode
    BY <1>3 DEF Step, Create, CreateAgain, Mkdir, WriteOwner, SetMtime, Stat, ProbeFlock, RemoveFile, ReadOwner, Unlink, Rmdir,
         EnsureOwned, MatchOwner, RemoveOwner, Undo, RemoveDir, Crash, lockVars
  <2>2. PICK place \in Places \ {"read", "writing", "written"} :
          /\ Goto(p, place)
          /\ place = "sure" => pc[p] = "read"
    BY <1>3 DEF Places, Holding, Creating, Reclaiming, Step, Create, CreateAgain, Mkdir, WriteOwner, SetMtime, Stat,
         ProbeFlock, RemoveFile, ReadOwner, Unlink, Rmdir, EnsureOwned, MatchOwner, RemoveOwner, Undo, RemoveDir, Crash
  <2> QED BY <2>1, <2>2, FileKept
<1>4. ASSUME NEW p \in Processes, ReadFile(p) \/ OpenTemp(p) \/ WriteTemp(p) \/ Rename(p)
      PROVE  FileInv'
  BY <1>4, UpdateSteps
<1> QED BY <1>1, <1>2, <1>3, <1>4 DEF Next

(***************************************************************************)
(* The theorems.                                                           *)
(***************************************************************************)
\* The invariant holds before the first acquisition.
LEMMA InitLock == Init => LockInv
<1> SUFFICES ASSUME Init PROVE LockInv
  OBVIOUS
<1>1. TypeOK
  <2>1. \A p \in Gone : Left(p) \in Dir
    BY GoneAssumption DEF Left, Dir
  <2>2. dir \in Dir \cup {None}
    BY <2>1 DEF Init
  <2>3. pc \in [Processes -> Places]
    BY DEF Init, Places
  <2>4. file \in Content /\ temp \in [Processes \cup {None} -> Content] /\ got \in [Processes -> Content]
    BY DEF Init, Content, Absent
  <2> QED BY <2>2, <2>3, <2>4 DEF Init, TypeOK
<1>2. \A p \in Processes : pc[p] \in {"idle", "dead"}
  BY DEF Init
<1>3. \A p \in Processes : ~Owning(p)
  BY <1>2 DEF Owning, Holding, Creating
<1>4. dir # None => dir.stale = "fresh"
  BY DEF Init, Left
<1>5. OwnerFileInv /\ ReclaimInv
  BY <1>3, <1>4 DEF OwnerFileInv, ReclaimInv
<1>6. FileInv
  BY <1>2 DEF Init, FileInv, Torn, Absent
<1>7. LegacyInv
  BY <1>2 DEF Init, LegacyInv
<1> QED BY <1>1, <1>5, <1>6, <1>7 DEF LockInv

\* The invariant is inductive.
LEMMA NextLock == LockInv /\ [Next]_vars => LockInv'
<1> SUFFICES ASSUME LockInv, [Next]_vars PROVE LockInv'
  OBVIOUS
<1>1. TypeOK /\ TypeOK'
  BY TypeStep DEF LockInv
<1>2. ASSUME Orderly' PROVE (OwnerFileInv /\ ReclaimInv /\ FileInv)'
  <2>1. Orderly
    BY <1>1, <1>2, OrderlyBefore
  <2>2. LockPart /\ FileInv
    BY <2>1 DEF LockInv, LockPart
  <2>3. LockPart'
    BY <1>1, <1>2, <2>1, <2>2, LockStep
  <2>4. FileInv'
    BY <1>1, <2>2, FileStep
  <2> QED BY <2>3, <2>4 DEF LockPart
<1>3. LegacyInv'
  BY <1>1, LegacyStep DEF LockInv
<1> QED BY <1>1, <1>2, <1>3 DEF LockInv

(* The lock's inductive invariant holds in every reachable state: the owner *)
(* file is there while it must protect, no waiter past its judgement has a  *)
(* holder before it, and the holder's copy is the file.                     *)
THEOREM LockInvariant == Spec => []LockInv
<1>1. LockInv /\ UNCHANGED vars => LockInv'
  BY NextLock
<1> QED BY InitLock, NextLock, <1>1, PTL DEF Spec

(* Mutual exclusion of the directory lock, for any number of processes: an  *)
(* orderly lock has one holder, whose directory is in place, and no process *)
(* of an older build beside it but one that flocked a file which had been   *)
(* probed before.                                                           *)
THEOREM LockOneHolder == Spec => []OneHolder
<1>1. LockInv => OneHolder
  <2> SUFFICES ASSUME LockInv, Orderly, NEW p \in Processes, pc[p] \in Holding
               PROVE  /\ \A q \in Processes : pc[q] \in Holding => q = p
                      /\ dir # None /\ dir.by = p
                      /\ displaced = 0 => older # "holds"
    BY DEF OneHolder
  <2>1. \A q \in Processes : pc[q] \in Holding => dir # None /\ dir.by = q
    BY DEF LockInv, OwnerFileInv, Owning
  <2>2. displaced = 0 /\ older = "holds" => dir = None
    BY DEF LockInv, LegacyInv
  <2> QED BY <2>1, <2>2
<1> QED BY <1>1, LockInvariant, PTL

(* No completed update of the guarded file is lost and the file is never    *)
(* torn, for any number of processes, as long as the lock is orderly.       *)
THEOREM LockUpdatesKept == Spec => []UpdatesKept
<1>1. LockInv => UpdatesKept
  BY DEF LockInv, FileInv, UpdatesKept
<1> QED BY <1>1, LockInvariant, PTL
=============================================================================
