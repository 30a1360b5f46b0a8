---------------------------- MODULE HarvestProofs ----------------------------
(***************************************************************************)
(* For transcripts of any length over any layers, bases, heads and bodies: *)
(* the one-pass loop of harvest_review remembers what a declarative        *)
(* reading of the rows says, never takes another head's reply, and finds   *)
(* nothing to harvest right after a wake.                                  *)
(***************************************************************************)
EXTENDS HarvestLoop, WellFoundedInduction, TLAPS

USE MaxRowsAssumption, AbsentAssumption

\* A nonempty set of row numbers has a last one, and LastOf is it.
LEMMA LastOfIsLast ==
  ASSUME NEW n \in Nat, NEW S \in SUBSET (1 .. n), S # {}
  PROVE  LastOf(S) \in S /\ \A j \in S : j <= LastOf(S)
<1> DEFINE back == {n - i : i \in S}
           less == {p \in Nat \X Nat : p[1] < p[2]}
<1>1. back \subseteq Nat
  OBVIOUS
<1>2. back # {}
  OBVIOUS
<1>3. PICK m \in back : \A k \in back : <<k, m>> \notin less
  <2> HIDE DEF back, less
  <2>1. IsWellFoundedOn(less, Nat)
    BY NatLessThanWellFounded, Zenon DEF OpToRel, less
  <2> QED BY <1>1, <1>2, <2>1, WFMin
<1>4. \A k \in back : m <= k
  <2> TAKE k \in back
  <2>1. k \in Nat /\ m \in Nat /\ ~(k < m)
    BY <1>1, <1>3
  <2> QED BY <2>1
<1>5. PICK i \in S : m = n - i
  OBVIOUS
<1>6. \A j \in S : j <= i
  <2> TAKE j \in S
  <2>1. i \in Nat /\ j \in Nat /\ n - i <= n - j
    BY <1>4, <1>5
  <2> QED BY <2>1
<1> QED BY <1>6 DEF LastOf

\* The last row number of a set that holds the newest one is the newest one.
LEMMA LastOfNewest ==
  ASSUME NEW n \in Nat, NEW S \in SUBSET (1 .. n), n \in S
  PROVE  LastOf(S) = n
<1>1. LastOf(S) \in S /\ n <= LastOf(S)
  BY LastOfIsLast
<1>2. \A i \in S : n <= i => i = n
  OBVIOUS
<1> QED BY <1>1, <1>2

\* Reading one more row keeps the earlier ones.
LEMMA AppendRow ==
  ASSUME NEW s \in Seq(AnyRow), NEW row \in AnyRow
  PROVE  /\ Append(s, row) \in Seq(AnyRow)
         /\ Len(s) \in Nat
         /\ DOMAIN s = 1 .. Len(s)
         /\ DOMAIN Append(s, row) = 1 .. (Len(s) + 1)
         /\ \A i \in 1 .. Len(s) : Append(s, row)[i] = s[i] /\ s[i] \in AnyRow
         /\ Append(s, row)[Len(s) + 1] = row
  OBVIOUS

\* What a row of each type is.
LEMMA RowForms ==
  ASSUME NEW row \in AnyRow
  PROVE  /\ row.type \in {"result", "reply", "no_reply", "custom", "call", "malformed",
                          "text", "error"}
         /\ row.type = "result" => row = Result
         /\ row.type = "custom" => row = Wake
         /\ row.type = "malformed" => row = Malformed
         /\ row.type = "error" => row = TurnError
         /\ row.type = "reply" =>
              /\ row.layer \in Layers /\ row.head \in Heads /\ row.body \in Bodies
              /\ row = Reply(row.layer, row.head, row.body)
         /\ row.type = "no_reply" => row.layer \in Layers /\ row.head \in Heads
         /\ row.type = "call" =>
              row.layer \in Layers /\ row.base \in Bases /\ row.head \in Heads
         /\ row.type = "text" => row.text \in Bodies
<1>1. CASE row \in {Result, Wake, Malformed, TurnError}
  BY <1>1 DEF Result, Wake, Malformed, TurnError
<1>2. CASE \E l \in Layers, h \in Heads, x \in Bodies : row = Reply(l, h, x)
  BY <1>2 DEF Reply
<1>3. CASE \E l \in Layers, h \in Heads : row = NoReply(l, h)
  BY <1>3 DEF NoReply
<1>4. CASE \E l \in Layers, base \in Bases, h \in Heads : row = Call(l, base, h)
  BY <1>4 DEF Call
<1>5. CASE \E x \in Bodies : row = Text(x)
  BY <1>5 DEF Text
<1> QED BY <1>1, <1>2, <1>3, <1>4, <1>5 DEF AnyRow

-----------------------------------------------------------------------------
(* What one more row changes of the declarative reading.                   *)

\* The rows of a type, with one more row.
LEMMA RowsAppend ==
  ASSUME NEW s \in Seq(AnyRow), NEW row \in AnyRow, NEW type
  PROVE  /\ Rows(s, type) \in SUBSET (1 .. Len(s))
         /\ Rows(Append(s, row), type) =
              Rows(s, type) \cup (IF row.type = type THEN {Len(s) + 1} ELSE {})
  BY AppendRow DEF Rows

\* The last dispatch of a layer is the one just read, or it stays.
LEMMA RefCallAppend ==
  ASSUME NEW s \in Seq(AnyRow), NEW row \in AnyRow, NEW l \in Layers
  PROVE  RefCall(Append(s, row), l) =
           IF row.type = "call" /\ row.layer = l
             THEN [base |-> row.base, head |-> row.head]
             ELSE RefCall(s, l)
<1> DEFINE n == Len(s)
           t == Append(s, row)
           before == {i \in Rows(s, "call") : s[i].layer = l}
           after == {i \in Rows(t, "call") : t[i].layer = l}
<1>1. /\ n \in Nat /\ n + 1 \in Nat
      /\ \A i \in 1 .. n : t[i] = s[i]
      /\ t[n + 1] = row
  BY AppendRow
<1>2. /\ Rows(s, "call") \in SUBSET (1 .. n)
      /\ Rows(t, "call") = Rows(s, "call") \cup (IF row.type = "call" THEN {n + 1} ELSE {})
  BY RowsAppend
<1>3. before \in SUBSET (1 .. n) /\ after \in SUBSET (1 .. (n + 1))
  BY <1>1, <1>2
<1>4. RefCall(s, l) = IF before = {} THEN Absent
                      ELSE [base |-> s[LastOf(before)].base, head |-> s[LastOf(before)].head]
  BY DEF RefCall
<1>5. RefCall(t, l) = IF after = {} THEN Absent
                      ELSE [base |-> t[LastOf(after)].base, head |-> t[LastOf(after)].head]
  BY DEF RefCall
<1>6. CASE row.type = "call" /\ row.layer = l
  <2>1. n + 1 \in after
    BY <1>1, <1>2, <1>6
  <2>2. LastOf(after) = n + 1
    BY <1>1, <1>3, <2>1, LastOfNewest
  <2> QED BY <1>1, <1>5, <1>6, <2>1, <2>2
<1>7. CASE ~(row.type = "call" /\ row.layer = l)
  <2>1. after = before
    BY <1>1, <1>2, <1>7
  <2>2. before # {} => LastOf(before) \in 1 .. n
    BY <1>1, <1>3, LastOfIsLast
  <2>3. before # {} => t[LastOf(before)] = s[LastOf(before)]
    BY <1>1, <2>2
  <2> QED BY <1>4, <1>5, <1>7, <2>1, <2>3
<1> QED BY <1>6, <1>7

\* The last reply of a layer for a head is the one just read, or it stays.
LEMMA RefDeliveredAppend ==
  ASSUME NEW s \in Seq(AnyRow), NEW row \in AnyRow, NEW l \in Layers, NEW h \in Heads
  PROVE  RefDelivered(Append(s, row), l, h) =
           IF row.type = "reply" /\ row.layer = l /\ row.head = h
             THEN row.body
             ELSE RefDelivered(s, l, h)
<1> DEFINE n == Len(s)
           t == Append(s, row)
           before == {i \in Rows(s, "reply") : s[i].layer = l /\ s[i].head = h}
           after == {i \in Rows(t, "reply") : t[i].layer = l /\ t[i].head = h}
<1>1. /\ n \in Nat /\ n + 1 \in Nat
      /\ \A i \in 1 .. n : t[i] = s[i]
      /\ t[n + 1] = row
  BY AppendRow
<1>2. /\ Rows(s, "reply") \in SUBSET (1 .. n)
      /\ Rows(t, "reply") = Rows(s, "reply") \cup (IF row.type = "reply" THEN {n + 1} ELSE {})
  BY RowsAppend
<1>3. before \in SUBSET (1 .. n) /\ after \in SUBSET (1 .. (n + 1))
  BY <1>1, <1>2
<1>4. RefDelivered(s, l, h) = IF before = {} THEN Absent ELSE s[LastOf(before)].body
  BY DEF RefDelivered
<1>5. RefDelivered(t, l, h) = IF after = {} THEN Absent ELSE t[LastOf(after)].body
  BY DEF RefDelivered
<1>6. CASE row.type = "reply" /\ row.layer = l /\ row.head = h
  <2>1. n + 1 \in after
    BY <1>1, <1>2, <1>6
  <2>2. LastOf(after) = n + 1
    BY <1>1, <1>3, <2>1, LastOfNewest
  <2> QED BY <1>1, <1>5, <1>6, <2>1, <2>2
<1>7. CASE ~(row.type = "reply" /\ row.layer = l /\ row.head = h)
  <2>1. after = before
    BY <1>1, <1>2, <1>7
  <2>2. before # {} => LastOf(before) \in 1 .. n
    BY <1>1, <1>3, LastOfIsLast
  <2>3. before # {} => t[LastOf(before)] = s[LastOf(before)]
    BY <1>1, <2>2
  <2> QED BY <1>4, <1>5, <1>7, <2>1, <2>3
<1> QED BY <1>6, <1>7

\* The row types that un-settle a conversation.
Activity == {"result", "reply", "no_reply", "custom"}

\* The synthesis after one more row: an activity row takes it away, a text
\* after a tool result replaces it, every other row leaves it.
LEMMA RefSynthesisAppend ==
  ASSUME NEW s \in Seq(AnyRow), NEW row \in AnyRow
  PROVE  RefSynthesis(Append(s, row)) =
           IF row.type \in Activity
             THEN Absent
             ELSE IF row.type = "text" /\ Rows(s, "result") # {}
               THEN row.text
               ELSE RefSynthesis(s)
<1> DEFINE n == Len(s)
           t == Append(s, row)
           activity(r) == {i \in DOMAIN r : r[i].type \in Activity}
           texts(r) == {i \in Rows(r, "text") :
                          /\ \A j \in activity(r) : j < i
                          /\ \E j \in Rows(r, "result") : j < i}
<1>1. /\ n \in Nat /\ n + 1 \in Nat
      /\ DOMAIN s = 1 .. n /\ DOMAIN t = 1 .. (n + 1)
      /\ \A i \in 1 .. n : t[i] = s[i]
      /\ t[n + 1] = row
  BY AppendRow
<1>2. /\ Rows(s, "text") \in SUBSET (1 .. n)
      /\ Rows(t, "text") = Rows(s, "text") \cup (IF row.type = "text" THEN {n + 1} ELSE {})
      /\ Rows(s, "result") \in SUBSET (1 .. n)
      /\ Rows(t, "result") = Rows(s, "result") \cup (IF row.type = "result" THEN {n + 1} ELSE {})
  BY RowsAppend
<1>3. /\ activity(s) \in SUBSET (1 .. n)
      /\ activity(t) = activity(s) \cup (IF row.type \in Activity THEN {n + 1} ELSE {})
  BY <1>1
<1>4. texts(s) \in SUBSET (1 .. n) /\ texts(t) \in SUBSET (1 .. (n + 1))
  BY <1>1, <1>2
<1>5. RefSynthesis(s) = IF texts(s) = {} THEN Absent ELSE s[LastOf(texts(s))].text
  BY DEF RefSynthesis, Activity
<1>6. RefSynthesis(t) = IF texts(t) = {} THEN Absent ELSE t[LastOf(texts(t))].text
  BY DEF RefSynthesis, Activity
<1>7. CASE row.type \in Activity
  <2>1. n + 1 \in activity(t)
    BY <1>3, <1>7
  <2>2. \A i \in texts(t) : n + 1 < i /\ i \in 1 .. (n + 1)
    BY <1>4, <2>1
  <2>3. texts(t) = {}
    BY <1>1, <2>2
  <2> QED BY <1>6, <1>7, <2>3
<1>8. CASE row.type = "text" /\ Rows(s, "result") # {}
  <2>1. row.type \notin Activity
    BY <1>8 DEF Activity
  <2>2. \A j \in activity(t) : j < n + 1
    BY <1>1, <1>3, <2>1
  <2>3. \E j \in Rows(t, "result") : j < n + 1
    BY <1>1, <1>2, <1>8
  <2>4. n + 1 \in texts(t)
    BY <1>2, <1>8, <2>2, <2>3
  <2>5. LastOf(texts(t)) = n + 1
    <3> HIDE DEF texts
    <3> QED BY <1>1, <1>4, <2>4, LastOfNewest
  <2>6. texts(t) # {}
    BY <2>4
  <2> HIDE DEF texts
  <2> QED BY <1>1, <1>6, <1>8, <2>1, <2>5, <2>6
<1>9. CASE row.type \notin Activity /\ ~(row.type = "text" /\ Rows(s, "result") # {})
  <2>1. activity(t) = activity(s)
    BY <1>3, <1>9
  <2>2. Rows(t, "result") = Rows(s, "result")
    BY <1>2, <1>9 DEF Activity
  <2>3. texts(t) = texts(s)
    <3> HIDE DEF activity
    <3> QED BY <1>2, <1>9, <2>1, <2>2
  <2> HIDE DEF texts
  <2>4. texts(s) # {} => LastOf(texts(s)) \in 1 .. n
    BY <1>1, <1>4, LastOfIsLast
  <2>5. texts(s) # {} => t[LastOf(texts(s))] = s[LastOf(texts(s))]
    BY <1>1, <2>4
  <2> QED BY <1>5, <1>6, <1>9, <2>3, <2>5
<1> QED BY <1>7, <1>8, <1>9

-----------------------------------------------------------------------------
(* The loop.                                                               *)

\* What one iteration of the loop does to each of its variables.
LEMMA ScanRowFields ==
  ASSUME NEW s \in Summaries, NEW row \in AnyRow
  PROVE  /\ ScanRow(s, row) \in Summaries
         /\ ScanRow(s, row).calls =
              IF row.type = "call"
                THEN [s.calls EXCEPT ![row.layer] = [base |-> row.base, head |-> row.head]]
                ELSE s.calls
         /\ ScanRow(s, row).delivered =
              IF row.type = "reply"
                THEN [s.delivered EXCEPT ![<<row.layer, row.head>>] = row.body]
                ELSE s.delivered
         /\ ScanRow(s, row).no_reply =
              s.no_reply \cup (IF row.type = "no_reply" THEN {<<row.layer, row.head>>} ELSE {})
         /\ (ScanRow(s, row).seen_result <=> (s.seen_result \/ row.type = "result"))
         /\ ScanRow(s, row).synthesis =
              IF row.type \in Activity
                THEN Absent
                ELSE IF row.type = "text" /\ s.seen_result THEN row.text ELSE s.synthesis
         /\ (ScanRow(s, row).malformed <=> (s.malformed \/ row.type = "malformed"))
<1> USE RowForms DEF ScanRow, Summaries, Activity
<1>1. CASE row.type = "result"
  BY <1>1
<1>2. CASE row.type = "reply"
  BY <1>2 DEF ScanReply
<1>3. CASE row.type = "no_reply"
  <2>1. ScanRow(s, row) = [s EXCEPT !.synthesis = Absent, !.failed = FALSE,
                                    !.no_reply = s.no_reply \cup {<<row.layer, row.head>>}]
    BY <1>3
  <2>2. s.no_reply \cup {<<row.layer, row.head>>} \in SUBSET (Layers \X Heads)
    BY <1>3
  <2> QED BY <1>3, <2>1, <2>2
<1>4. CASE row.type = "custom"
  BY <1>4 DEF ScanCustom
<1>5. CASE row.type = "call"
  BY <1>5 DEF ScanCall
<1>6. CASE row.type = "malformed"
  BY <1>6
<1>7. CASE row.type = "text"
  BY <1>7 DEF ScanText
<1>8. CASE row.type = "error"
  BY <1>8
<1> QED BY <1>1, <1>2, <1>3, <1>4, <1>5, <1>6, <1>7, <1>8

\* Reading a row keeps the loop and the declarative reading in step.
LEMMA ScanRowStep ==
  ASSUME LoopInv, NEW row \in AnyRow,
         rows' = Append(rows, row), summary' = ScanRow(summary, row)
  PROVE  LoopInv'
<1>1. rows \in Seq(AnyRow) /\ summary \in Summaries
  BY DEF LoopInv, TypeOK
<1>2. TypeOK'
  BY <1>1, AppendRow, ScanRowFields DEF TypeOK
<1>3. summary'.calls = IF row.type = "call"
                         THEN [summary.calls EXCEPT ![row.layer] =
                                                       [base |-> row.base, head |-> row.head]]
                         ELSE summary.calls
  BY <1>1, ScanRowFields
<1>4. summary'.synthesis =
         IF row.type \in Activity
           THEN Absent
           ELSE IF row.type = "text" /\ summary.seen_result THEN row.text ELSE summary.synthesis
  BY <1>1, ScanRowFields
<1>5. summary'.malformed <=> (summary.malformed \/ row.type = "malformed")
  BY <1>1, ScanRowFields
<1>6. summary'.seen_result <=> (summary.seen_result \/ row.type = "result")
  BY <1>1, ScanRowFields
<1>7. \A l \in Layers : summary'.calls[l] = RefCall(rows', l)
  <2> TAKE l \in Layers
  <2>1. summary.calls[l] = RefCall(rows, l) /\ l \in DOMAIN summary.calls
    BY <1>1 DEF LoopInv, LoopIsFaithful, LoopMatchesRows, Summaries
  <2>2. summary'.calls[l] = IF row.type = "call" /\ row.layer = l
                              THEN [base |-> row.base, head |-> row.head]
                              ELSE summary.calls[l]
    BY <1>3, <2>1
  <2> QED BY <1>1, <2>1, <2>2, RefCallAppend
<1>8. \A l \in Layers, h \in Heads : summary'.delivered[<<l, h>>] = RefDelivered(rows', l, h)
  <2> TAKE l \in Layers, h \in Heads
  <2>1. summary.delivered[<<l, h>>] = RefDelivered(rows, l, h)
    BY DEF LoopInv, LoopIsFaithful, LoopMatchesRows
  <2>2. DOMAIN summary.delivered = Layers \X Heads
    BY <1>1 DEF Summaries
  <2>3. summary'.delivered[<<l, h>>] = IF row.type = "reply" /\ row.layer = l /\ row.head = h
                                         THEN row.body
                                         ELSE summary.delivered[<<l, h>>]
    <3>1. CASE row.type = "reply"
      <4>1. summary'.delivered = [summary.delivered EXCEPT ![<<row.layer, row.head>>] = row.body]
        BY <1>1, <3>1, ScanRowFields
      <4>2. <<l, h>> = <<row.layer, row.head>> <=> row.layer = l /\ row.head = h
        OBVIOUS
      <4>3. <<l, h>> \in DOMAIN summary.delivered
        BY <2>2
      <4> QED BY <3>1, <4>1, <4>2, <4>3
    <3>2. CASE row.type # "reply"
      BY <1>1, <3>2, ScanRowFields
    <3> QED BY <3>1, <3>2
  <2> QED BY <1>1, <2>1, <2>3, RefDeliveredAppend
<1>9. summary'.no_reply = {<<rows'[i].layer, rows'[i].head>> : i \in Rows(rows', "no_reply")}
  <2> DEFINE n == Len(rows)
  <2>1. summary.no_reply = {<<rows[i].layer, rows[i].head>> : i \in Rows(rows, "no_reply")}
    BY DEF LoopInv, LoopIsFaithful, LoopMatchesRows
  <2>2. /\ Rows(rows, "no_reply") \in SUBSET (1 .. n)
        /\ Rows(rows', "no_reply") =
             Rows(rows, "no_reply") \cup (IF row.type = "no_reply" THEN {n + 1} ELSE {})
    BY <1>1, RowsAppend
  <2>3. (\A i \in 1 .. n : rows'[i] = rows[i]) /\ rows'[n + 1] = row
    BY <1>1, AppendRow
  <2>4. summary'.no_reply =
          summary.no_reply \cup (IF row.type = "no_reply" THEN {<<row.layer, row.head>>} ELSE {})
    BY <1>1, ScanRowFields
  <2> QED BY <2>1, <2>2, <2>3, <2>4
<1>10. summary'.synthesis = RefSynthesis(rows')
  <2>1. summary.synthesis = RefSynthesis(rows)
    BY DEF LoopInv, LoopIsFaithful, LoopMatchesRows
  <2>2. summary.seen_result <=> Rows(rows, "result") # {}
    BY DEF LoopInv
  <2>3. RefSynthesis(rows') =
          IF row.type \in Activity
            THEN Absent
            ELSE IF row.type = "text" /\ Rows(rows, "result") # {}
              THEN row.text ELSE RefSynthesis(rows)
    BY <1>1, RefSynthesisAppend
  <2> QED BY <1>4, <2>1, <2>2, <2>3
<1>11. summary'.malformed <=> Rows(rows', "malformed") # {}
  <2>1. summary.malformed <=> Rows(rows, "malformed") # {}
    BY DEF LoopInv, LoopIsFaithful, LoopMatchesRows
  <2>2. Rows(rows', "malformed") =
          Rows(rows, "malformed") \cup (IF row.type = "malformed" THEN {Len(rows) + 1} ELSE {})
    BY <1>1, RowsAppend
  <2>3. Rows(rows', "malformed") # {} <=> (Rows(rows, "malformed") # {} \/ row.type = "malformed")
    BY <2>2
  <2> QED BY <1>5, <2>1, <2>3
<1>12. summary'.seen_result <=> Rows(rows', "result") # {}
  <2>1. summary.seen_result <=> Rows(rows, "result") # {}
    BY DEF LoopInv
  <2>2. Rows(rows', "result") =
          Rows(rows, "result") \cup (IF row.type = "result" THEN {Len(rows) + 1} ELSE {})
    BY <1>1, RowsAppend
  <2>3. Rows(rows', "result") # {} <=> (Rows(rows, "result") # {} \/ row.type = "result")
    BY <2>2
  <2> QED BY <1>6, <2>1, <2>3
<1> QED BY <1>2, <1>7, <1>8, <1>9, <1>10, <1>11, <1>12 DEF LoopInv, LoopIsFaithful, LoopMatchesRows

\* No rows, nothing remembered.
LEMMA LoopInit == Init => LoopInv
<1> SUFFICES ASSUME Init PROVE LoopInv
  OBVIOUS
<1>1. rows \in Seq(AnyRow) /\ DOMAIN rows = {}
  BY DEF Init
<1>2. \A type : Rows(rows, type) = {}
  BY <1>1 DEF Rows
<1>3. summary \in Summaries
  BY DEF Init, EmptySummary, Summaries
<1>4. LoopIsFaithful
  BY <1>1, <1>2 DEF Init, EmptySummary, LoopIsFaithful, LoopMatchesRows, RefCall, RefDelivered,
                    RefSynthesis
<1> QED BY <1>1, <1>2, <1>3, <1>4 DEF LoopInv, TypeOK, Init, EmptySummary

\* Every step of the loop keeps its invariant.
LEMMA LoopStep == LoopInv /\ [Next]_<<rows, summary>> => LoopInv'
<1> SUFFICES ASSUME LoopInv, [Next]_<<rows, summary>> PROVE LoopInv'
  OBVIOUS
<1>1. CASE Next
  BY <1>1, ScanRowStep DEF Next
<1>2. CASE UNCHANGED <<rows, summary>>
  BY <1>2 DEF LoopInv, TypeOK, LoopIsFaithful, LoopMatchesRows
<1> QED BY <1>1, <1>2

\* On every transcript, and after every row of it, the one-pass loop of
\* harvest_review remembers exactly what the rows say as a whole.
THEOREM HarvestLoopInvariant == Spec => []LoopInv
  BY LoopInit, LoopStep, PTL DEF Spec

\* What harvest_review takes for a layer's answer is the body of a reply row of
\* that layer for the harvested head.
LEMMA HarvestedReplies == LoopInv => NoStaleReply
<1> SUFFICES ASSUME LoopInv, Harvestable(summary),
                    NEW l \in DOMAIN Harvested(summary, [k \in Layers |-> Absent]).layers
             PROVE  LET h == Harvested(summary, [k \in Layers |-> Absent])
                    IN \E i \in DOMAIN rows : rows[i] = Reply(l, h.head, h.layers[l])
  BY DEF NoStaleReply
<1> DEFINE none == [k \in Layers |-> Absent]
           h == Harvested(summary, none)
           first == CHOOSE k \in Dispatched(summary) : TRUE
           at == {i \in Rows(rows, "reply") : rows[i].layer = l /\ rows[i].head = h.head}
<1>1. rows \in Seq(AnyRow) /\ summary \in Summaries
  BY DEF LoopInv, TypeOK
<1>2. h.layers = [k \in Dispatched(summary) \ {k \in Dispatched(summary) :
                                                 AnswerOf(summary, none, k) = Absent}
                    |-> AnswerOf(summary, none, k)]
  BY DEF Harvested
<1>3. l \in Dispatched(summary) /\ l \in Layers /\ h.layers[l] = AnswerOf(summary, none, l)
  BY <1>2 DEF Dispatched
<1>4. AnswerOf(summary, none, l) # Absent
  BY <1>2
<1>5. first \in Dispatched(summary)
  BY <1>3
<1>6. h.head = summary.calls[l].head
  BY <1>3, <1>5 DEF Harvested, Harvestable, Agree
<1>7. h.head \in Heads
  BY <1>1, <1>3, <1>6 DEF Summaries, Dispatched
<1>8. h.layers[l] = RefDelivered(rows, l, h.head) /\ h.layers[l] # Absent
  <2>1. h.layers[l] = summary.delivered[<<l, h.head>>]
    BY <1>3, <1>4, <1>6 DEF AnswerOf
  <2> QED BY <1>3, <1>4, <1>7, <2>1 DEF LoopInv, LoopIsFaithful, LoopMatchesRows
<1>9. at # {} /\ h.layers[l] = rows[LastOf(at)].body
  BY <1>8 DEF RefDelivered
<1>10. DOMAIN rows = 1 .. Len(rows) /\ Len(rows) \in Nat
  BY <1>1
<1>11. LastOf(at) \in at
  BY <1>9, <1>10, LastOfIsLast DEF Rows
<1>12. LastOf(at) \in DOMAIN rows /\ rows[LastOf(at)] \in AnyRow
  BY <1>1, <1>11 DEF Rows
<1>13. rows[LastOf(at)] = Reply(l, h.head, h.layers[l])
  BY <1>9, <1>11, <1>12, RowForms DEF Rows
<1> QED BY <1>12, <1>13

\* No harvest takes an answer that was given for another head.
THEOREM HarvestNoStaleReply == Spec => []NoStaleReply
  BY HarvestLoopInvariant, HarvestedReplies, PTL
=============================================================================
