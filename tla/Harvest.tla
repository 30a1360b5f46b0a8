------------------------------- MODULE Harvest -------------------------------
(***************************************************************************)
(* Harvesting a review from the conductor's transcript                     *)
(* (big_brother/harvest.rs).  A transcript is read row by row; what the    *)
(* loop of harvest_review remembers of the rows so far is a summary, and   *)
(* the harvest is decided from the summary and the answers collected from  *)
(* the resident children.  Observer keeps the conductor's transcript as    *)
(* its summary.                                                            *)
(*                                                                         *)
(* A row is one of: a tool result; a custom row (a child's reply, a        *)
(* terminal no-reply notice, a wake or another notice); a message with one *)
(* dispatch call, a malformed dispatch call, a text, or a turn error.  A   *)
(* message with several blocks is several rows: the loop treats its calls  *)
(* one by one and its text last.  Bodies and texts are opaque.             *)
(***************************************************************************)
EXTENDS Naturals

CONSTANTS Layers, Heads, Absent

Result == [type |-> "result"]
Wake == [type |-> "custom"]
Reply(l, h, body) == [type |-> "reply", layer |-> l, head |-> h, body |-> body]
NoReply(l, h) == [type |-> "no_reply", layer |-> l, head |-> h]
Call(l, base, h) == [type |-> "call", layer |-> l, base |-> base, head |-> h]
Malformed == [type |-> "malformed"]
Text(t) == [type |-> "text", text |-> t]
TurnError == [type |-> "error"]

\* The loop's variables before the first row.  `synthesis` is last_text as far
\* as it lies after last_activity_index, `failed` says that the last row is a
\* turn error.
EmptySummary ==
  [calls       |-> [l \in Layers |-> Absent],
   delivered   |-> [c \in Layers \X Heads |-> Absent],
   no_reply    |-> {},
   seen_result |-> FALSE,
   synthesis   |-> Absent,
   malformed   |-> FALSE,
   failed      |-> FALSE]

\* Mutant: the delivered replies are keyed by layer, whatever the head.
ScanReplyByLayer(s, row) ==
  [s EXCEPT !.synthesis = Absent, !.failed = FALSE,
            !.delivered = [c \in Layers \X Heads |->
                             IF c[1] = row.layer THEN row.body ELSE @[c]]]

\* A child's reply: the last one per layer and head wins.
ScanReply(s, row) ==
  [s EXCEPT !.synthesis = Absent, !.failed = FALSE,
            !.delivered[<<row.layer, row.head>>] = row.body]

\* A custom row that is neither a reply nor a no-reply notice.
ScanCustom(s, row) == [s EXCEPT !.synthesis = Absent, !.failed = FALSE]

\* A dispatch call: the last call per layer is the authoritative one.
ScanCall(s, row) ==
  [s EXCEPT !.failed = FALSE, !.calls[row.layer] = [base |-> row.base, head |-> row.head]]

\* Mutant: a text counts before any dispatch has returned.
ScanTextAlways(s, row) == [s EXCEPT !.failed = FALSE, !.synthesis = row.text]

\* A text counts once some tool result has been seen.
ScanText(s, row) ==
  [s EXCEPT !.failed = FALSE, !.synthesis = IF s.seen_result THEN row.text ELSE @]

\* One iteration of the loop.  A malformed call aborts the harvest for good.
ScanRow(s, row) ==
  CASE row.type = "result"    -> [s EXCEPT !.seen_result = TRUE, !.synthesis = Absent,
                                           !.failed = FALSE]
    [] row.type = "reply"     -> ScanReply(s, row)
    [] row.type = "no_reply"  -> [s EXCEPT !.synthesis = Absent, !.failed = FALSE,
                                           !.no_reply = @ \cup {<<row.layer, row.head>>}]
    [] row.type = "custom"    -> ScanCustom(s, row)
    [] row.type = "call"      -> ScanCall(s, row)
    [] row.type = "malformed" -> [s EXCEPT !.malformed = TRUE, !.failed = FALSE]
    [] row.type = "text"      -> ScanText(s, row)
    [] row.type = "error"     -> [s EXCEPT !.failed = TRUE]

Dispatched(s) == {l \in Layers : s.calls[l] # Absent}

\* The calls agree on one range.
Agree(s) == \A k, l \in Dispatched(s) : s.calls[k] = s.calls[l]

\* The delivered reply for the range's head, or else the child's own answer.
AnswerOf(s, answers, l) ==
  LET delivered == s.delivered[<<l, s.calls[l].head>>]
  IN IF delivered # Absent THEN delivered ELSE answers[l]

\* harvest_review succeeds: nothing malformed, some dispatch, one range, and a
\* conclusion.  Every other transcript is an error.
Harvestable(s) ==
  /\ ~s.malformed
  /\ Dispatched(s) # {}
  /\ Agree(s)
  /\ s.synthesis # Absent

\* The harvested review; layers is the answers of the dispatched layers that
\* have one, missing_layers the dispatched layers that have none.
Harvested(s, answers) ==
  LET range == s.calls[CHOOSE l \in Dispatched(s) : TRUE]
      missing == {l \in Dispatched(s) : AnswerOf(s, answers, l) = Absent}
  IN [base            |-> range.base,
      head            |-> range.head,
      layers          |-> [l \in Dispatched(s) \ missing |-> AnswerOf(s, answers, l)],
      missing_layers  |-> missing,
      no_reply_layers |-> {l \in missing : <<l, range.head>> \in s.no_reply},
      conclusion      |-> s.synthesis]

\* conductor_turn_dead: a turn error at the end, and no dispatch ever made.
TurnDead(s) == Dispatched(s) = {} /\ ~s.malformed /\ s.failed

-----------------------------------------------------------------------------
(* The reference: what the rows say, read as a whole. *)

Rows(rows, type) == {i \in DOMAIN rows : rows[i].type = type}

LastOf(S) == CHOOSE i \in S : \A j \in S : j <= i

RefCall(rows, l) ==
  LET at == {i \in Rows(rows, "call") : rows[i].layer = l}
  IN IF at = {} THEN Absent ELSE [base |-> rows[LastOf(at)].base, head |-> rows[LastOf(at)].head]

RefDelivered(rows, l, h) ==
  LET at == {i \in Rows(rows, "reply") : rows[i].layer = l /\ rows[i].head = h}
  IN IF at = {} THEN Absent ELSE rows[LastOf(at)].body

\* The synthesis is the last text after the final activity row, and needs a
\* tool result before it.
RefSynthesis(rows) ==
  LET activity == {i \in DOMAIN rows : rows[i].type \in {"result", "reply", "no_reply", "custom"}}
      at == {i \in Rows(rows, "text") :
               /\ \A j \in activity : j < i
               /\ \E j \in Rows(rows, "result") : j < i}
  IN IF at = {} THEN Absent ELSE rows[LastOf(at)].text

\* The loop computes what the rows say, for every transcript.
LoopMatchesRows(s, rows) ==
  /\ \A l \in Layers : s.calls[l] = RefCall(rows, l)
  /\ \A l \in Layers, h \in Heads : s.delivered[<<l, h>>] = RefDelivered(rows, l, h)
  /\ s.no_reply = {<<rows[i].layer, rows[i].head>> : i \in Rows(rows, "no_reply")}
  /\ s.synthesis = RefSynthesis(rows)
  /\ s.malformed <=> Rows(rows, "malformed") # {}
=============================================================================
