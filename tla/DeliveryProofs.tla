--------------------------- MODULE DeliveryProofs ---------------------------
(***************************************************************************)
(* Theorems about Delivery, for any records, branches and observers, any   *)
(* retry pause and any number of faults.                                   *)
(***************************************************************************)
EXTENDS Delivery, TLAPS

USE DeliveryBounds
USE DEF passVars, history, faults

\* NextChannel takes a channel out of a set of channels that has one.
LEMMA NextChannelIn ==
  ASSUME NEW S \in SUBSET Channels, S # {}
  PROVE  NextChannel(S) \in S
  BY DEF NextChannel, Channels, COMMIT_STATUS_CHANNEL, BARK_CHANNEL

\* Time leaves an entry an entry, and only ages it.
LEMMA AgedEntryFacts ==
  ASSUME NEW e \in Entry
  PROVE  /\ AgedEntry(e) \in Entry
         /\ Delivered(AgedEntry(e)) <=> Delivered(e)
         /\ RetryDue(e) => RetryDue(AgedEntry(e))
         /\ e = None <=> AgedEntry(e) = None
         /\ e # None => /\ AgedEntry(e).age = Older(e.age)
                        /\ AgedEntry(e).status = e.status
  BY AbsentAssumption
     DEF AgedEntry, Older, Entry, DeliveryState, Delivered, RetryDue

\* The entry an outcome is recorded as.
LEMMA AdvanceFacts ==
  ASSUME NEW ok
  PROVE  /\ Advance(ok) \in DeliveryState
         /\ Advance(ok) # None
         /\ Delivered(Advance(ok)) <=> ok = "ok"
         /\ Advance(ok).age = 0
  BY AbsentAssumption DEF Advance, Entry, DeliveryState, Delivered

\* The invariant holds before the first pass.
LEMMA InitInv == Init => DeliveryInv
  <1> SUFFICES ASSUME Init PROVE DeliveryInv
    OBVIOUS
  <1> USE DEF Init, Fresh
  <1>1. TypeOK
    BY DEF TypeOK, Entry
  <1>2. PassShape
    BY DEF PassShape, Sending
  <1>3. Vouched
    BY DEF Vouched, Delivered, Sent
  <1>4. OnePass /\ SnapshotCurrent
    BY DEF OnePass, SnapshotCurrent
  <1>5. AcceptedOnce
    BY DEF AcceptedOnce
  <1>6. RestAccounted
    BY DEF RestAccounted
  <1> QED
    BY <1>1, <1>2, <1>3, <1>4, <1>5, <1>6 DEF DeliveryInv

\* The bookkeeping between a record's channels keeps a pass well typed.
LEMMA ContinueType ==
  ASSUME TypeOK, NEW o \in Observers, NEW r \in Records, NEW S \in SUBSET Channels,
         Continue(o, r, S)
  PROVE  /\ due' \in [Observers -> SUBSET Channels]
         /\ phase' \in [Observers -> {"idle", "pass", "send", "outcome"}]
         /\ current' \in [Observers -> Records \cup {None}]
         /\ left' \in [Observers -> SUBSET Records]
         /\ snapshot' \in [Observers -> [Records -> [Channels -> Entry]]]
  <1>0. Fresh \in [Channels -> Entry]
    BY DEF Fresh, Entry
  <1>1. CASE S = {}
    <2>1. snapshot' = [snapshot EXCEPT ![o] = [snapshot[o] EXCEPT ![r] = Fresh]]
      BY <1>1 DEF Continue
    <2>2. snapshot[o] \in [Records -> [Channels -> Entry]]
      BY DEF TypeOK
    <2>3. [snapshot[o] EXCEPT ![r] = Fresh] \in [Records -> [Channels -> Entry]]
      BY <1>0, <2>2
    <2>4. snapshot' \in [Observers -> [Records -> [Channels -> Entry]]]
      BY <2>1, <2>3 DEF TypeOK
    <2>5. left[o] \ {r} \in SUBSET Records
      BY DEF TypeOK
    <2>6. left' \in [Observers -> SUBSET Records]
      BY <1>1, <2>5 DEF Continue, TypeOK
    <2>7. current' \in [Observers -> Records \cup {None}]
      BY <1>1 DEF Continue, TypeOK
    <2>8. phase' \in [Observers -> {"idle", "pass", "send", "outcome"}]
      BY <1>1 DEF Continue, TypeOK
    <2>9. due' \in [Observers -> SUBSET Channels]
      BY DEF Continue, TypeOK
    <2> QED
      BY <2>4, <2>6, <2>7, <2>8, <2>9
  <1>2. CASE S # {}
    BY <1>2 DEF Continue, TypeOK
  <1> QED
    BY <1>1, <1>2

\* Every step keeps the state well typed.
LEMMA TypeStep == TypeOK /\ PassShape /\ [Next]_vars => TypeOK'
  <1> SUFFICES ASSUME TypeOK, PassShape, [Next]_vars PROVE TypeOK'
    OBVIOUS
  <1> USE DEF TypeOK
  <1>0. Fresh \in [Channels -> Entry]
    BY DEF Fresh, Entry
  <1>1. ASSUME NEW r \in Records, CompleteReview(r) PROVE TypeOK'
    BY <1>1 DEF CompleteReview
  <1>2. ASSUME NEW c \in Channels, EnableChannel(c) PROVE TypeOK'
    BY <1>2 DEF EnableChannel
  <1>3. CASE Tick
    <2>1. delivery' \in [Records -> [Channels -> Entry]]
      BY <1>3, AgedEntryFacts DEF Tick, Aged
    <2>2. snapshot' \in [Observers -> [Records -> [Channels -> Entry]]]
      BY <1>3, AgedEntryFacts DEF Tick, Aged
    <2>3. rest' \in [Records -> [Channels -> 0 .. RETRY_AFTER]]
      BY <1>3 DEF Tick, Older
    <2> QED
      BY <1>3, <2>1, <2>2, <2>3 DEF Tick
  <1>4. ASSUME NEW o \in Observers, StartPass(o) PROVE TypeOK'
    BY <1>4 DEF StartPass
  <1>5. ASSUME NEW o \in Observers, NEW b \in Branches, ReadRecords(o, b) PROVE TypeOK'
    BY <1>5, <1>0 DEF ReadRecords
  <1>6. ASSUME NEW o \in Observers, NEW r \in Records, StartRecord(o, r) PROVE TypeOK'
    <2> DEFINE S == {c \in keys : RetryDue(snapshot[o][r][c])}
    <2>1. S \in SUBSET Channels
      OBVIOUS
    <2>2. Continue(o, r, S)
      BY <1>6 DEF StartRecord
    <2> HIDE DEF S
    <2> QED
      BY <1>6, <2>1, <2>2, ContinueType DEF StartRecord
  <1>7. ASSUME NEW o \in Observers, NEW taken \in {0, 1}, NEW ok \in {"ok", "error"},
               Post(o, taken, ok), refusals' \in 0 .. MaxRefusals
        PROVE TypeOK'
    <2>1. current[o] \in Records /\ NextChannel(due[o]) \in Channels
      BY <1>7 DEF Post, PassShape, Sending, NextChannel, Channels
    <2> QED
      BY <1>7, <2>1 DEF Post
  <1>8. ASSUME NEW o \in Observers, RecordOutcome(o) PROVE TypeOK'
    <2>1. current[o] \in Records /\ NextChannel(due[o]) \in Channels
      BY <1>8 DEF RecordOutcome, PassShape, Sending, NextChannel, Channels
    <2>2. Advance(outcome[o]) \in Entry
      BY <2>1, AdvanceFacts DEF Entry
    <2>3. delivery' \in [Records -> [Channels -> Entry]]
      BY <1>8, <2>1, <2>2 DEF RecordOutcome
    <2> DEFINE S == due[o] \ {NextChannel(due[o])}
    <2>4. S \in SUBSET Channels
      OBVIOUS
    <2>5. Continue(o, current[o], S)
      BY <1>8 DEF RecordOutcome
    <2> HIDE DEF S
    <2> QED
      BY <1>8, <2>1, <2>3, <2>4, <2>5, ContinueType DEF RecordOutcome
  <1>9. ASSUME NEW o \in Observers, EndPass(o) \/ CutShort(o) PROVE TypeOK'
    <2>1. [r \in Records |-> Fresh] \in [Records -> [Channels -> Entry]]
      BY <1>0
    <2>2. Leave(o)
      BY <1>9 DEF EndPass, CutShort
    <2>3. crashes' \in 0 .. MaxCrashes /\ refusals' \in 0 .. MaxRefusals
      BY <1>9 DEF EndPass, CutShort
    <2>4. snapshot' \in [Observers -> [Records -> [Channels -> Entry]]]
      BY <2>1, <2>2 DEF Leave
    <2> QED
      BY <2>2, <2>3, <2>4 DEF Leave
  <1>10. CASE UNCHANGED vars
    BY <1>10 DEF vars
  <1> QED
    BY <1>1, <1>2, <1>3, <1>4, <1>5, <1>6, <1>7, <1>8, <1>9, <1>10
       DEF Next, PassStep, SendSucceeds, SendFails

\* The actions of Next one by one, for the lemmas below.
Steps ==
  \/ \E r \in Records : CompleteReview(r)
  \/ \E c \in Channels : EnableChannel(c)
  \/ Tick
  \/ \E o \in Observers : StartPass(o)
  \/ \E o \in Observers, b \in Branches : ReadRecords(o, b)
  \/ \E o \in Observers, r \in Records : StartRecord(o, r)
  \/ \E o \in Observers : SendSucceeds(o)
  \/ \E o \in Observers : SendFails(o)
  \/ \E o \in Observers : RecordOutcome(o)
  \/ \E o \in Observers : EndPass(o) \/ CutShort(o)
  \/ UNCHANGED vars

\* Next, without its nesting.
LEMMA NextIsSteps == [Next]_vars => Steps
  BY Zenon DEF Next, PassStep, Steps

\* A pass that is sending is at a record and a channel.
LEMMA SendingFacts ==
  ASSUME TypeOK, PassShape, NEW o \in Observers, Sending(o)
  PROVE  /\ current[o] \in Records /\ current[o] \in left[o] /\ current[o] # None
         /\ NextChannel(due[o]) \in Channels /\ NextChannel(due[o]) \in due[o]
  BY NextChannelIn, AbsentAssumption DEF TypeOK, PassShape

\* What a send changes, entry by entry.
LEMMA PostFacts ==
  ASSUME TypeOK, PassShape, NEW o \in Observers, NEW taken \in {0, 1}, NEW result,
         Post(o, taken, result)
  PROVE  \A r \in Records, c \in Channels :
           IF r = current[o] /\ c = NextChannel(due[o])
           THEN /\ accepted'[r][c] = accepted[r][c] + taken
                /\ rest'[r][c] = 0
                /\ hurried'[r][c] = IF rest[r][c] < RETRY_AFTER
                                    THEN hurried[r][c] + 1 ELSE hurried[r][c]
           ELSE /\ accepted'[r][c] = accepted[r][c]
                /\ rest'[r][c] = rest[r][c]
                /\ hurried'[r][c] = hurried[r][c]
  <1>1. current[o] \in Records /\ NextChannel(due[o]) \in Channels
    BY SendingFacts DEF Post, Sending
  <1> QED
    BY <1>1 DEF Post, TypeOK

\* What a recorded outcome changes, entry by entry.
LEMMA RecordFacts ==
  ASSUME TypeOK, PassShape, NEW o \in Observers, RecordOutcome(o)
  PROVE  \A r \in Records, c \in Channels :
           delivery'[r][c] = IF r = current[o] /\ c = NextChannel(due[o])
                             THEN Advance(outcome[o]) ELSE delivery[r][c]
  <1>1. current[o] \in Records /\ NextChannel(due[o]) \in Channels
    BY SendingFacts DEF RecordOutcome, Sending
  <1> QED
    BY <1>1 DEF RecordOutcome, TypeOK

\* What time changes, entry by entry.
LEMMA TickFacts ==
  ASSUME TypeOK, Tick
  PROVE  /\ \A r \in Records, c \in Channels :
              /\ delivery'[r][c] = AgedEntry(delivery[r][c])
              /\ rest'[r][c] = Older(rest[r][c])
         /\ \A o \in Observers, r \in Records, c \in Channels :
              snapshot'[o][r][c] = AgedEntry(snapshot[o][r][c])
  BY DEF Tick, Aged, TypeOK

\* A pass stays at a record it has read.
LEMMA ShapeStep == TypeOK /\ PassShape /\ Steps => PassShape'
  <1> SUFFICES ASSUME TypeOK, PassShape, Steps PROVE PassShape'
    OBVIOUS
  <1> USE DEF PassShape, Sending
  <1>1. ASSUME UNCHANGED <<phase, left, current, due>> PROVE PassShape'
    BY <1>1
  <1>2. ASSUME NEW o \in Observers, StartPass(o) PROVE PassShape'
    BY <1>2 DEF StartPass, TypeOK
  <1>3. ASSUME NEW o \in Observers, NEW b \in Branches, ReadRecords(o, b) PROVE PassShape'
    BY <1>3 DEF ReadRecords, TypeOK
  <1>4. ASSUME NEW o \in Observers, NEW r \in Records, r \in left[o], phase[o] # "idle",
               NEW S \in SUBSET Channels, Continue(o, r, S)
        PROVE PassShape'
    <2>1. CASE S = {}
      BY <1>4, <2>1 DEF Continue, TypeOK
    <2>2. CASE S # {}
      BY <1>4, <2>2 DEF Continue, TypeOK
    <2> QED
      BY <2>1, <2>2
  <1>5. ASSUME NEW o \in Observers, NEW r \in Records, StartRecord(o, r) PROVE PassShape'
    <2>1. {c \in keys : RetryDue(snapshot[o][r][c])} \in SUBSET Channels
      BY DEF TypeOK
    <2> QED
      BY <1>4, <1>5, <2>1 DEF StartRecord
  <1>6. ASSUME NEW o \in Observers, NEW taken, NEW result, Post(o, taken, result)
        PROVE PassShape'
    BY <1>6 DEF Post, TypeOK
  <1>7. ASSUME NEW o \in Observers, RecordOutcome(o) PROVE PassShape'
    <2>1. due[o] \ {NextChannel(due[o])} \in SUBSET Channels
      BY DEF TypeOK
    <2>2. current[o] \in Records /\ current[o] \in left[o]
      BY <1>7, SendingFacts DEF RecordOutcome
    <2> QED
      BY <1>4, <1>7, <2>1, <2>2 DEF RecordOutcome
  <1>8. ASSUME NEW o \in Observers, EndPass(o) \/ CutShort(o) PROVE PassShape'
    BY <1>8 DEF EndPass, CutShort, Leave, TypeOK
  <1> QED
    BY <1>1, <1>2, <1>3, <1>5, <1>6, <1>7, <1>8
       DEF Steps, CompleteReview, EnableChannel, Tick, SendSucceeds, SendFails, vars

\* No step makes a record claim a delivery no endpoint saw.
LEMMA VouchStep == TypeOK /\ PassShape /\ Vouched /\ Steps => Vouched'
  <1> SUFFICES ASSUME TypeOK, PassShape, Vouched, Steps PROVE Vouched'
    OBVIOUS
  <1> USE DEF Vouched, Sent
  <1>1. ASSUME UNCHANGED <<delivery, phase, current, due, outcome, accepted>> PROVE Vouched'
    BY <1>1
  <1>2. CASE Tick
    BY <1>2, TickFacts, AgedEntryFacts DEF Tick, TypeOK
  <1>3. ASSUME NEW o \in Observers, UNCHANGED <<delivery, accepted>>, phase'[o] # "outcome",
               \A q \in Observers \ {o} : phase'[q] = phase[q] /\ current'[q] = current[q]
                                          /\ due'[q] = due[q] /\ outcome'[q] = outcome[q]
        PROVE Vouched'
    BY <1>3
  <1>4. ASSUME NEW o \in Observers, StartPass(o) PROVE Vouched'
    BY <1>3, <1>4 DEF StartPass, TypeOK
  <1>5. ASSUME NEW o \in Observers, NEW r \in Records, StartRecord(o, r) PROVE Vouched'
    BY <1>3, <1>5 DEF StartRecord, Continue, TypeOK
  <1>6. ASSUME NEW o \in Observers, EndPass(o) \/ CutShort(o) PROVE Vouched'
    BY <1>3, <1>6 DEF EndPass, CutShort, Leave, TypeOK
  <1>7. ASSUME NEW o \in Observers, NEW taken \in {0, 1}, NEW result, Post(o, taken, result),
               result = "ok" => taken = 1
        PROVE Vouched'
    <2>1. \A r \in Records, c \in Channels :
             /\ accepted[r][c] \in Nat
             /\ accepted'[r][c] = accepted[r][c] + (IF r = current[o] /\ c = NextChannel(due[o])
                                                    THEN taken ELSE 0)
      BY <1>7, PostFacts DEF TypeOK
    <2>2. \A r \in Records, c \in Channels : accepted[r][c] > 0 => accepted'[r][c] > 0
      BY <2>1
    <2>3. UNCHANGED <<delivery, current, due>>
      BY <1>7 DEF Post
    <2>4. \A q \in Observers : phase'[q] = "outcome" =>
             q = o \/ (phase[q] = "outcome" /\ outcome'[q] = outcome[q])
      BY <1>7 DEF Post, TypeOK
    <2>5. outcome'[o] = result
      BY <1>7 DEF Post, TypeOK
    <2> QED
      BY <1>7, <2>1, <2>2, <2>3, <2>4, <2>5
  <1>8. ASSUME NEW o \in Observers, RecordOutcome(o) PROVE Vouched'
    <2>1. /\ phase[o] = "outcome" /\ phase'[o] # "outcome" /\ accepted' = accepted
          /\ \A q \in Observers \ {o} : phase'[q] = phase[q] /\ current'[q] = current[q]
                                        /\ due'[q] = due[q] /\ outcome'[q] = outcome[q]
      BY <1>8 DEF RecordOutcome, Continue, TypeOK
    <2>2. \A r \in Records, c \in Channels :
            Delivered(delivery'[r][c]) => Delivered(delivery[r][c]) \/ (Sent(o, r, c) /\ outcome[o] = "ok")
      BY <1>8, <2>1, RecordFacts, AdvanceFacts
    <2> QED
      BY <2>1, <2>2
  <1> QED
    BY <1>1, <1>2, <1>4, <1>5, <1>6, <1>7, <1>8
       DEF Steps, CompleteReview, EnableChannel, ReadRecords, SendSucceeds, SendFails, vars

\* Until two passes overlap, one is under way.
LEMMA OnePassStep ==
  TypeOK /\ PassShape /\ (overlapped = 0 => OnePass) /\ Steps => (overlapped' = 0 => OnePass')
  <1> SUFFICES ASSUME TypeOK, PassShape, overlapped = 0 => OnePass, Steps, overlapped' = 0
               PROVE OnePass'
    OBVIOUS
  <1> USE DEF OnePass
  <1>1. ASSUME NEW o \in Observers, StartPass(o) PROVE OnePass'
    BY <1>1 DEF StartPass, TypeOK
  <1>2. ASSUME overlapped' = overlapped,
               \A q \in Observers : phase'[q] # "idle" => phase[q] # "idle"
        PROVE OnePass'
    BY <1>2
  <1>3. ASSUME NEW o \in Observers, NEW r \in Records, StartRecord(o, r) PROVE OnePass'
    BY <1>2, <1>3 DEF StartRecord, Continue, TypeOK
  <1>4. ASSUME NEW o \in Observers, NEW taken, NEW result, Post(o, taken, result) PROVE OnePass'
    BY <1>2, <1>4 DEF Post, TypeOK
  <1>5. ASSUME NEW o \in Observers, RecordOutcome(o) PROVE OnePass'
    BY <1>2, <1>5 DEF RecordOutcome, Continue, TypeOK
  <1>6. ASSUME NEW o \in Observers, EndPass(o) \/ CutShort(o) PROVE OnePass'
    BY <1>2, <1>6 DEF EndPass, CutShort, Leave, TypeOK
  <1>7. ASSUME UNCHANGED <<phase, overlapped>> PROVE OnePass'
    BY <1>2, <1>7
  <1> QED
    BY <1>1, <1>3, <1>4, <1>5, <1>6, <1>7
       DEF Steps, CompleteReview, EnableChannel, Tick, ReadRecords, SendSucceeds, SendFails, vars

\* An overlap is never forgotten.
LEMMA OverlapStays == TypeOK /\ Steps /\ overlapped' = 0 => overlapped = 0
  <1> SUFFICES ASSUME TypeOK, Steps, overlapped' = 0 PROVE overlapped = 0
    OBVIOUS
  <1>1. ASSUME NEW o \in Observers, StartPass(o) PROVE overlapped = 0
    BY <1>1 DEF StartPass
  <1>2. ASSUME NEW o \in Observers, EndPass(o) \/ CutShort(o) PROVE overlapped = 0
    BY <1>2 DEF EndPass, CutShort, Leave
  <1>3. ASSUME NEW o \in Observers, SendSucceeds(o) \/ SendFails(o) PROVE overlapped = 0
    BY <1>3 DEF SendSucceeds, SendFails, Post
  <1> QED
    BY <1>1, <1>2, <1>3 DEF Steps, CompleteReview, EnableChannel, Tick, ReadRecords,
       StartRecord, RecordOutcome, vars

\* While one pass is under way, what it has still to send is as it read it.
LEMMA SnapshotStep ==
  TypeOK /\ PassShape /\ OnePass /\ SnapshotCurrent /\ Steps => SnapshotCurrent'
  <1> SUFFICES ASSUME TypeOK, PassShape, OnePass, SnapshotCurrent, Steps
               PROVE SnapshotCurrent'
    OBVIOUS
  <1> USE DEF SnapshotCurrent, Sending
  <1>0. \A o, q \in Observers : phase[o] # "idle" /\ q # o => left[q] = {}
    BY DEF OnePass, PassShape
  <1>1. ASSUME UNCHANGED <<delivery, phase, left, snapshot, current, due>> PROVE SnapshotCurrent'
    BY <1>1
  <1>2. CASE Tick
    <2>1. \A o \in Observers : \A r \in left[o] :
            snapshot[o][r] = delivery[r] => snapshot'[o][r] = delivery'[r]
      BY <1>2 DEF Tick, Aged, TypeOK
    <2>2. \A o \in Observers : \A r \in left[o] : \A c \in due[o] :
            /\ snapshot[o][r][c] = delivery[r][c] => snapshot'[o][r][c] = delivery'[r][c]
            /\ RetryDue(delivery[r][c]) => RetryDue(delivery'[r][c])
      BY <1>2, TickFacts, AgedEntryFacts DEF TypeOK
    <2> QED
      BY <1>2, <2>1, <2>2 DEF Tick
  <1>3. ASSUME NEW o \in Observers, StartPass(o) PROVE SnapshotCurrent'
    BY <1>3 DEF StartPass, TypeOK, PassShape
  <1>4. ASSUME NEW o \in Observers, NEW b \in Branches, ReadRecords(o, b)
        PROVE SnapshotCurrent'
    <2>1. /\ left'[o] \subseteq Records /\ UNCHANGED <<delivery, phase>> /\ phase[o] = "pass"
          /\ \A r \in left'[o] : snapshot'[o][r] = delivery[r]
      BY <1>4 DEF ReadRecords, TypeOK
    <2>2. \A q \in Observers \ {o} : left'[q] = {}
      BY <1>0, <1>4 DEF ReadRecords, TypeOK
    <2> QED
      BY <2>1, <2>2
  <1>5. ASSUME NEW o \in Observers, NEW r \in Records, NEW S \in SUBSET Channels,
               r \in left[o], phase[o] # "idle", Continue(o, r, S),
               \A s \in left[o] \ {r} : snapshot[o][s] = delivery'[s],
               \A c \in S : snapshot[o][r][c] = delivery'[r][c] /\ RetryDue(delivery'[r][c])
        PROVE SnapshotCurrent'
    <2>1. \A q \in Observers \ {o} : left'[q] = {}
      BY <1>0, <1>5 DEF Continue, TypeOK
    <2>2. CASE S = {}
      <3>1. phase'[o] = "pass" /\ left'[o] = left[o] \ {r}
        BY <1>5, <2>2 DEF Continue, TypeOK
      <3>2. \A s \in left[o] \ {r} : snapshot'[o][s] = snapshot[o][s]
        BY <1>5, <2>2 DEF Continue, TypeOK
      <3> QED
        BY <1>5, <2>1, <3>1, <3>2
    <2>3. CASE S # {}
      <3>1. /\ phase'[o] = "send" /\ current'[o] = r /\ due'[o] = S
            /\ UNCHANGED <<left, snapshot>>
        BY <1>5, <2>3 DEF Continue, TypeOK
      <3> QED
        BY <1>5, <2>1, <3>1
    <2> QED
      BY <2>2, <2>3
  <1>6. ASSUME NEW o \in Observers, NEW r \in Records, StartRecord(o, r)
        PROVE SnapshotCurrent'
    <2> DEFINE S == {c \in keys : RetryDue(snapshot[o][r][c])}
    <2>1. S \in SUBSET Channels /\ Continue(o, r, S) /\ r \in left[o] /\ phase[o] = "pass"
      BY <1>6 DEF StartRecord, TypeOK
    <2>2. delivery' = delivery /\ \A s \in left[o] : snapshot[o][s] = delivery[s]
      BY <1>6, <2>1 DEF StartRecord
    <2>3. \A c \in S : snapshot[o][r][c] = delivery'[r][c] /\ RetryDue(delivery'[r][c])
      BY <2>1, <2>2
    <2> HIDE DEF S
    <2> QED
      BY <1>5, <2>1, <2>2, <2>3
  <1>7. ASSUME NEW o \in Observers, NEW taken, NEW result, Post(o, taken, result)
        PROVE SnapshotCurrent'
    BY <1>7 DEF Post, TypeOK
  <1>8. ASSUME NEW o \in Observers, RecordOutcome(o) PROVE SnapshotCurrent'
    <2> DEFINE S == due[o] \ {NextChannel(due[o])}
    <2>1. /\ S \in SUBSET Channels /\ Continue(o, current[o], S)
          /\ current[o] \in Records /\ current[o] \in left[o] /\ phase[o] = "outcome"
      BY <1>8, SendingFacts DEF RecordOutcome, TypeOK
    <2>2. \A s \in left[o] \ {current[o]} : snapshot[o][s] = delivery'[s]
      BY <1>8, <2>1 DEF RecordOutcome, TypeOK
    <2>3. \A c \in S : delivery'[current[o]][c] = delivery[current[o]][c]
      BY <1>8, <2>1, RecordFacts
    <2>4. \A c \in S : /\ snapshot[o][current[o]][c] = delivery'[current[o]][c]
                       /\ RetryDue(delivery'[current[o]][c])
      BY <2>1, <2>3
    <2> HIDE DEF S
    <2> QED
      BY <1>5, <2>1, <2>2, <2>4
  <1>9. ASSUME NEW o \in Observers, EndPass(o) \/ CutShort(o) PROVE SnapshotCurrent'
    <2>1. phase[o] # "idle" /\ Leave(o)
      BY <1>9 DEF EndPass, CutShort
    <2>2. \A q \in Observers : left'[q] = {}
      BY <1>0, <2>1 DEF Leave, TypeOK
    <2> QED
      BY <2>2
  <1> QED
    BY <1>1, <1>2, <1>3, <1>4, <1>6, <1>7, <1>8, <1>9
       DEF Steps, CompleteReview, EnableChannel, SendSucceeds, SendFails, vars

\* An entry that is due is not delivered, and a fresh outcome is not due.
LEMMA DueFacts ==
  /\ \A e \in Entry : RetryDue(e) => ~Delivered(e)
  /\ \A result : RetryDue(Advance(result)) => RETRY_AFTER = 0
  BY AbsentAssumption, AdvanceFacts DEF RetryDue, Delivered, Entry, DeliveryState

\* Sends in hand are those of passes a step leaves where they are.
LEMMA SentElsewhere ==
  ASSUME TypeOK, NEW o \in Observers, phase[o] # "outcome", phase'[o] # "outcome",
         \A q \in Observers \ {o} : phase'[q] = phase[q] /\ current'[q] = current[q]
                                    /\ due'[q] = due[q] /\ outcome'[q] = outcome[q]
  PROVE  \A q \in Observers, r \in Records, c \in Channels :
           Sent(q, r, c) => Sent(q, r, c)' /\ outcome'[q] = outcome[q]
  BY DEF Sent

\* At the moment of a send, the only pass is the sender's and its entry is due.
LEMMA SenderFacts ==
  ASSUME TypeOK, PassShape, OnePass, SnapshotCurrent, NEW o \in Observers, Sending(o)
  PROVE  /\ RetryDue(delivery[current[o]][NextChannel(due[o])])
         /\ ~Delivered(delivery[current[o]][NextChannel(due[o])])
         /\ \A q \in Observers, r \in Records, c \in Channels : Sent(q, r, c) => q = o
  <1>1. /\ current[o] \in Records /\ current[o] \in left[o]
        /\ NextChannel(due[o]) \in Channels /\ NextChannel(due[o]) \in due[o]
    BY SendingFacts
  <1>2. RetryDue(delivery[current[o]][NextChannel(due[o])])
    BY <1>1 DEF SnapshotCurrent
  <1>3. delivery[current[o]][NextChannel(due[o])] \in Entry
    BY <1>1 DEF TypeOK
  <1>4. \A q \in Observers, r \in Records, c \in Channels : Sent(q, r, c) => q = o
    BY DEF OnePass, Sent, Sending
  <1> QED
    BY <1>2, <1>3, <1>4, DueFacts

\* Every acceptance but one stays paid for by a fault.
LEMMA AcceptedStep ==
  TypeOK /\ PassShape /\ OnePass /\ SnapshotCurrent /\ AcceptedOnce /\ Steps => AcceptedOnce'
  <1> SUFFICES ASSUME TypeOK, PassShape, OnePass, SnapshotCurrent, AcceptedOnce, Steps,
                      NEW r \in Records, NEW c \in Channels
               PROVE (\/ accepted[r][c] <= crashes + refusals
                      \/ /\ accepted[r][c] <= 1 + crashes + refusals
                         /\ \/ Delivered(delivery[r][c])
                            \/ \E o \in Observers : Sent(o, r, c) /\ outcome[o] = "ok")'
    BY DEF AcceptedOnce
  <1> DEFINE InHand == \E o \in Observers : Sent(o, r, c) /\ outcome[o] = "ok"
             Goal == \/ accepted[r][c] <= crashes + refusals
                     \/ /\ accepted[r][c] <= 1 + crashes + refusals
                        /\ Delivered(delivery[r][c]) \/ InHand
  <1>0. /\ Goal
        /\ accepted[r][c] \in Nat /\ crashes \in Nat /\ refusals \in Nat
        /\ delivery[r][c] \in Entry
    BY DEF AcceptedOnce, TypeOK
  <1>1. ASSUME UNCHANGED <<accepted, crashes, refusals>>,
               Delivered(delivery'[r][c]) <=> Delivered(delivery[r][c]),
               InHand => InHand'
        PROVE Goal'
    BY <1>0, <1>1
  <1>2. ASSUME UNCHANGED <<delivery, phase, current, due, outcome, accepted, crashes, refusals>>
        PROVE Goal'
    BY <1>1, <1>2 DEF Sent
  <1>3. ASSUME Tick PROVE Goal'
    <2>1. Delivered(delivery'[r][c]) <=> Delivered(delivery[r][c])
      BY <1>0, <1>3, TickFacts, AgedEntryFacts
    <2>2. InHand => InHand'
      BY <1>3 DEF Tick, Sent
    <2> QED
      BY <1>1, <1>3, <2>1, <2>2 DEF Tick
  <1>4. ASSUME NEW o \in Observers, phase[o] # "outcome", phase'[o] # "outcome",
               \A q \in Observers \ {o} : phase'[q] = phase[q] /\ current'[q] = current[q]
                                          /\ due'[q] = due[q] /\ outcome'[q] = outcome[q],
               UNCHANGED <<delivery, accepted, crashes, refusals>>
        PROVE Goal'
    <2>1. InHand => InHand'
      BY <1>4, SentElsewhere
    <2> QED
      BY <1>1, <1>4, <2>1
  <1>5. ASSUME NEW o \in Observers, StartPass(o) PROVE Goal'
    BY <1>4, <1>5 DEF StartPass, TypeOK
  <1>6. ASSUME NEW o \in Observers, NEW s \in Records, StartRecord(o, s) PROVE Goal'
    BY <1>4, <1>6 DEF StartRecord, Continue, TypeOK
  <1>7. ASSUME NEW o \in Observers, EndPass(o) PROVE Goal'
    BY <1>4, <1>7 DEF EndPass, Leave, TypeOK
  <1>8. ASSUME NEW o \in Observers, CutShort(o) PROVE Goal'
    <2>1. accepted' = accepted /\ crashes' = crashes + 1 /\ refusals' = refusals
      BY <1>8 DEF CutShort, Leave
    <2> QED
      BY <1>0, <2>1
  <1>9. ASSUME NEW o \in Observers, NEW taken \in {0, 1}, NEW result, Post(o, taken, result),
               \/ result = "ok" /\ refusals' = refusals
               \/ refusals' = refusals + 1
        PROVE Goal'
    <2>1. /\ Sending(o) /\ phase[o] # "outcome" /\ crashes' = crashes /\ delivery' = delivery
          /\ Sent(o, current[o], NextChannel(due[o]))' /\ outcome'[o] = result
      BY <1>9 DEF Post, Sending, Sent, TypeOK
    <2>2. ~InHand
      BY <2>1, SenderFacts DEF Sent
    <2>3. CASE r = current[o] /\ c = NextChannel(due[o])
      <3>1. accepted[r][c] <= crashes + refusals
        BY <1>0, <2>1, <2>2, <2>3, SenderFacts
      <3>2. accepted'[r][c] = accepted[r][c] + taken
        BY <1>9, <2>3, PostFacts
      <3>3. result = "ok" => InHand'
        BY <1>9, <2>1, <2>3 DEF Post, Sent
      <3>4. CASE result = "ok" /\ refusals' = refusals
        BY <1>0, <2>1, <3>1, <3>2, <3>3, <3>4
      <3>5. CASE refusals' = refusals + 1
        BY <1>0, <2>1, <3>1, <3>2, <3>5
      <3> QED
        BY <1>9, <3>4, <3>5
    <2>4. CASE ~(r = current[o] /\ c = NextChannel(due[o]))
      <3>1. accepted'[r][c] = accepted[r][c]
        BY <1>9, <2>4, PostFacts
      <3> QED
        BY <1>0, <1>9, <2>1, <2>2, <3>1
    <2> QED
      BY <2>3, <2>4
  <1>10. ASSUME NEW o \in Observers, RecordOutcome(o) PROVE Goal'
    <2>1. Sending(o) /\ phase[o] = "outcome" /\ UNCHANGED <<accepted, crashes, refusals>>
      BY <1>10 DEF RecordOutcome, Sending
    <2>2. InHand => r = current[o] /\ c = NextChannel(due[o]) /\ outcome[o] = "ok"
      BY <2>1, SenderFacts DEF Sent
    <2>3. CASE r = current[o] /\ c = NextChannel(due[o])
      <3>1. ~Delivered(delivery[r][c])
        BY <2>1, <2>3, SenderFacts
      <3>2. Delivered(delivery'[r][c]) <=> outcome[o] = "ok"
        BY <1>10, <2>3, RecordFacts, AdvanceFacts
      <3> QED
        BY <1>0, <2>1, <2>2, <3>1, <3>2
    <2>4. CASE ~(r = current[o] /\ c = NextChannel(due[o]))
      <3>1. delivery'[r][c] = delivery[r][c]
        BY <1>10, <2>4, RecordFacts
      <3> QED
        BY <1>0, <2>1, <2>2, <2>4, <3>1
    <2> QED
      BY <2>3, <2>4
  <1> HIDE DEF Goal
  <1>11. ASSUME NEW o \in Observers, SendSucceeds(o) \/ SendFails(o) PROVE Goal'
    BY <1>9, <1>11 DEF SendSucceeds, SendFails
  <1>12. ASSUME \/ \E s \in Records : CompleteReview(s)
                \/ \E d \in Channels : EnableChannel(d)
                \/ \E o \in Observers, b \in Branches : ReadRecords(o, b)
                \/ UNCHANGED vars
         PROVE Goal'
    BY <1>2, <1>12 DEF CompleteReview, EnableChannel, ReadRecords, vars
  <1>13. Goal'
    BY <1>3, <1>5, <1>6, <1>7, <1>8, <1>10, <1>11, <1>12, Zenon DEF Steps
  <1> QED
    BY <1>13 DEF Goal

\* A hurried send stays paid for by a crash.
LEMMA RestStep ==
  TypeOK /\ PassShape /\ OnePass /\ SnapshotCurrent /\ RestAccounted /\ Steps => RestAccounted'
  <1> SUFFICES ASSUME TypeOK, PassShape, OnePass, SnapshotCurrent, RestAccounted, Steps,
                      NEW r \in Records, NEW c \in Channels
               PROVE (/\ hurried[r][c] <= crashes
                      /\ \/ hurried[r][c] < crashes
                         \/ \E o \in Observers : Sent(o, r, c)
                         \/ /\ delivery[r][c] # None => delivery[r][c].age <= rest[r][c]
                            /\ rest[r][c] = RETRY_AFTER \/ ~RetryDue(delivery[r][c]))'
    BY DEF RestAccounted
  <1> DEFINE InHand == \E o \in Observers : Sent(o, r, c)
             Rested == /\ delivery[r][c] # None => delivery[r][c].age <= rest[r][c]
                       /\ rest[r][c] = RETRY_AFTER \/ ~RetryDue(delivery[r][c])
             Goal == /\ hurried[r][c] <= crashes
                     /\ hurried[r][c] < crashes \/ InHand \/ Rested
  <1>0. /\ Goal
        /\ hurried[r][c] \in Nat /\ crashes \in Nat /\ rest[r][c] \in 0 .. RETRY_AFTER
        /\ delivery[r][c] \in Entry
    BY DEF RestAccounted, TypeOK
  <1>1. ASSUME UNCHANGED <<hurried, crashes>>, InHand => InHand', Rested => Rested' PROVE Goal'
    <2> HIDE DEF InHand, Rested
    <2> QED
      BY <1>0, <1>1
  <1>2. ASSUME UNCHANGED <<delivery, phase, current, due, rest, hurried, crashes>> PROVE Goal'
    <2>1. InHand => InHand'
      BY <1>2 DEF Sent
    <2>2. Rested => Rested'
      BY <1>2
    <2> QED
      BY <1>1, <1>2, <2>1, <2>2
  <1>3. ASSUME Tick PROVE Goal'
    <2>1. InHand => InHand'
      BY <1>3 DEF Tick, Sent
    <2>2. delivery'[r][c] = AgedEntry(delivery[r][c]) /\ rest'[r][c] = Older(rest[r][c])
      BY <1>3, TickFacts
    <2>3. Rested => Rested'
      BY <1>0, <2>2, AbsentAssumption
         DEF AgedEntry, Older, RetryDue, Entry, DeliveryState
    <2> QED
      BY <1>1, <1>3, <2>1, <2>3 DEF Tick
  <1>4. ASSUME NEW o \in Observers, phase[o] # "outcome", phase'[o] # "outcome",
               \A q \in Observers \ {o} : phase'[q] = phase[q] /\ current'[q] = current[q]
                                          /\ due'[q] = due[q] /\ outcome'[q] = outcome[q],
               UNCHANGED <<delivery, rest, hurried, crashes>>
        PROVE Goal'
    <2>1. InHand => InHand'
      BY <1>4, SentElsewhere
    <2>2. Rested => Rested'
      BY <1>4
    <2> QED
      BY <1>1, <1>4, <2>1, <2>2
  <1>5. ASSUME NEW o \in Observers, StartPass(o) PROVE Goal'
    <2> HIDE DEF Goal
    <2> QED
      BY <1>4, <1>5 DEF StartPass, TypeOK
  <1>6. ASSUME NEW o \in Observers, NEW s \in Records, StartRecord(o, s) PROVE Goal'
    <2> HIDE DEF Goal
    <2> QED
      BY <1>4, <1>6 DEF StartRecord, Continue, TypeOK
  <1>7. ASSUME NEW o \in Observers, EndPass(o) PROVE Goal'
    <2> HIDE DEF Goal
    <2> QED
      BY <1>4, <1>7 DEF EndPass, Leave, TypeOK
  <1>8. ASSUME NEW o \in Observers, CutShort(o) PROVE Goal'
    <2>1. hurried' = hurried /\ crashes' = crashes + 1
      BY <1>8 DEF CutShort, Leave
    <2> QED
      BY <1>0, <2>1
  <1>9. ASSUME NEW o \in Observers, NEW taken \in {0, 1}, NEW result, Post(o, taken, result)
        PROVE Goal'
    <2>1. /\ Sending(o) /\ phase[o] # "outcome" /\ UNCHANGED <<crashes, delivery>>
      BY <1>9 DEF Post, Sending
    <2>2. ~InHand
      BY <2>1, SenderFacts DEF Sent
    <2>3. CASE r = current[o] /\ c = NextChannel(due[o])
      <3>1. hurried[r][c] < crashes \/ rest[r][c] = RETRY_AFTER
        BY <1>0, <2>1, <2>2, <2>3, SenderFacts
      <3>2. hurried'[r][c] = IF rest[r][c] < RETRY_AFTER THEN hurried[r][c] + 1
                             ELSE hurried[r][c]
        BY <1>9, <2>3, PostFacts
      <3>3. InHand'
        BY <1>9, <2>3 DEF Post, Sent, TypeOK
      <3> QED
        BY <1>0, <2>1, <3>1, <3>2, <3>3
    <2>4. CASE ~(r = current[o] /\ c = NextChannel(due[o]))
      <3>1. hurried'[r][c] = hurried[r][c] /\ rest'[r][c] = rest[r][c]
        BY <1>9, <2>4, PostFacts
      <3> QED
        BY <1>0, <2>1, <2>2, <3>1
    <2> QED
      BY <2>3, <2>4
  <1>10. ASSUME NEW o \in Observers, RecordOutcome(o) PROVE Goal'
    <2>1. Sending(o) /\ phase[o] = "outcome" /\ UNCHANGED <<rest, hurried, crashes>>
      BY <1>10 DEF RecordOutcome, Sending
    <2>2. InHand => r = current[o] /\ c = NextChannel(due[o])
      BY <2>1, SenderFacts DEF Sent
    <2>3. CASE r = current[o] /\ c = NextChannel(due[o])
      <3>1. delivery'[r][c] = Advance(outcome[o])
        BY <1>10, <2>3, RecordFacts
      <3>2. Rested'
        BY <1>0, <2>1, <3>1, DueFacts, AdvanceFacts
      <3> QED
        BY <1>0, <2>1, <3>2
    <2>4. CASE ~(r = current[o] /\ c = NextChannel(due[o]))
      <3>1. delivery'[r][c] = delivery[r][c]
        BY <1>10, <2>4, RecordFacts
      <3> QED
        BY <1>0, <2>1, <2>2, <2>4, <3>1
    <2> QED
      BY <2>3, <2>4
  <1> HIDE DEF Goal
  <1>11. ASSUME NEW o \in Observers, SendSucceeds(o) \/ SendFails(o) PROVE Goal'
    BY <1>9, <1>11 DEF SendSucceeds, SendFails
  <1>12. ASSUME \/ \E s \in Records : CompleteReview(s)
                \/ \E d \in Channels : EnableChannel(d)
                \/ \E o \in Observers, b \in Branches : ReadRecords(o, b)
                \/ UNCHANGED vars
         PROVE Goal'
    BY <1>2, <1>12 DEF CompleteReview, EnableChannel, ReadRecords, vars
  <1>13. Goal'
    BY <1>3, <1>5, <1>6, <1>7, <1>8, <1>10, <1>11, <1>12, Zenon DEF Steps
  <1> QED
    BY <1>13 DEF Goal

(* The delivery invariant: no record claims a delivery no endpoint saw, and *)
(* until passes overlap every pass works from a true snapshot and every     *)
(* repeated or hurried send is accounted for by a fault.                    *)
THEOREM DeliveryInvariant == Spec => []DeliveryInv
  <1>1. DeliveryInv /\ [Next]_vars => DeliveryInv'
    <2> SUFFICES ASSUME DeliveryInv, [Next]_vars PROVE DeliveryInv'
      OBVIOUS
    <2>1. TypeOK /\ PassShape /\ Vouched /\ Steps
      BY NextIsSteps DEF DeliveryInv
    <2>2. TypeOK' /\ PassShape' /\ Vouched'
      BY <2>1, TypeStep, ShapeStep, VouchStep
    <2>3. ASSUME overlapped' = 0
          PROVE  OnePass' /\ SnapshotCurrent' /\ AcceptedOnce' /\ RestAccounted'
      <3>1. OnePass /\ SnapshotCurrent /\ AcceptedOnce /\ RestAccounted /\ overlapped = 0
        BY <2>1, <2>3, OverlapStays DEF DeliveryInv
      <3> QED
        BY <2>1, <2>3, <3>1, OnePassStep, SnapshotStep, AcceptedStep, RestStep
    <2> QED
      BY <2>2, <2>3 DEF DeliveryInv
  <1> QED
    BY <1>1, InitInv, PTL DEF Spec

(* Without overlapping passes an endpoint takes a record once, and once     *)
(* more at most per crash or failed send, whatever the number of records,   *)
(* observers and faults.                                                    *)
THEOREM DeliveryRepeatsHaveCause == Spec => []RepeatsHaveCause
  <1>1. DeliveryInv => RepeatsHaveCause
    BY DEF DeliveryInv, AcceptedOnce, RepeatsHaveCause, TypeOK
  <1> QED
    BY <1>1, DeliveryInvariant, PTL

(* Without overlapping passes only a crash makes a channel retry before     *)
(* RETRY_AFTER has passed since its last send.                              *)
THEOREM DeliveryRetriesAreSpaced == Spec => []RetriesAreSpaced
  <1>1. DeliveryInv => RetriesAreSpaced
    BY DEF DeliveryInv, RestAccounted, RetriesAreSpaced
  <1> QED
    BY <1>1, DeliveryInvariant, PTL

(* A record's delivered mark stands for an accepted send in every history,  *)
(* and without overlapping passes is never taken back.                      *)
THEOREM DeliveryIsFinal == Spec => DeliveredIsFinal
  <1> DEFINE Final == \A r \in Records, c \in Channels :
                        /\ Delivered(delivery'[r][c]) => accepted'[r][c] > 0
                        /\ Delivered(delivery[r][c]) /\ overlapped = 0
                             => Delivered(delivery'[r][c])
  <1>1. DeliveryInv /\ DeliveryInv' /\ [Next]_vars => [Final]_vars
    <2> SUFFICES ASSUME DeliveryInv, DeliveryInv', [Next]_vars,
                        NEW r \in Records, NEW c \in Channels
                 PROVE  /\ Delivered(delivery'[r][c]) => accepted'[r][c] > 0
                        /\ Delivered(delivery[r][c]) /\ overlapped = 0
                             => Delivered(delivery'[r][c])
      BY DEF Final
    <2>1. Delivered(delivery'[r][c]) => accepted'[r][c] > 0
      BY DEF DeliveryInv, Vouched
    <2>2. TypeOK /\ PassShape /\ Steps /\ delivery[r][c] \in Entry
      BY NextIsSteps DEF DeliveryInv, TypeOK
    <2>3. ASSUME Delivered(delivery[r][c]), overlapped = 0 PROVE Delivered(delivery'[r][c])
      <3>1. CASE Tick
        BY <2>2, <2>3, <3>1, TickFacts, AgedEntryFacts
      <3>2. ASSUME NEW o \in Observers, RecordOutcome(o) PROVE Delivered(delivery'[r][c])
        <4>1. Sending(o)
          BY <3>2 DEF RecordOutcome, Sending
        <4>2. ~(r = current[o] /\ c = NextChannel(due[o]))
          BY <2>2, <2>3, <4>1, SenderFacts DEF DeliveryInv
        <4> QED
          BY <2>2, <2>3, <3>2, <4>2, RecordFacts
      <3>3. ASSUME delivery' = delivery PROVE Delivered(delivery'[r][c])
        BY <2>3, <3>3
      <3> QED
        BY <2>2, <3>1, <3>2, <3>3
           DEF Steps, CompleteReview, EnableChannel, StartPass, ReadRecords, StartRecord,
               SendSucceeds, SendFails, Post, EndPass, CutShort, Leave, vars
    <2> QED
      BY <2>1, <2>3
  <1> QED
    BY <1>1, DeliveryInvariant, PTL DEF Spec, DeliveredIsFinal
=============================================================================
