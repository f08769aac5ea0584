--------------------------- MODULE MatchAuthority ---------------------------
(***************************************************************************)
(* What the lobby server promises about matches, with no lobby, seat,      *)
(* request or stream in sight: under each id at most one match is ever     *)
(* played; its content is fixed when it opens; its log only grows, and     *)
(* only until the first report of a terminal position; it is decided once, *)
(* by agreement of frozen reports or by a concession; and a match that is  *)
(* still being played is never dropped, except with the whole process.     *)
(***************************************************************************)
EXTENDS Naturals, Sequences

CONSTANTS
  Ids, Contents,
  Agreements,    \* outcomes two reports can agree on
  Concessions,   \* outcomes one seat can force by giving up
  None

VARIABLE match

NoMatch == [stage |-> "none", content |-> None, log |-> <<>>, verdict |-> None]
Gone == [NoMatch EXCEPT !.stage = "gone"]

Opens(m, n) ==
  m = NoMatch /\ \E c \in Contents : n = [NoMatch EXCEPT !.stage = "live", !.content = c]

Extends(m, n) ==
  /\ m.stage = "live"
  /\ Len(n.log) = Len(m.log) + 1
  /\ SubSeq(n.log, 1, Len(m.log)) = m.log
  /\ n = [m EXCEPT !.log = n.log]

Freezes(m, n) == m.stage = "live" /\ n = [m EXCEPT !.stage = "frozen"]

Agrees(m, n) ==
  m.stage = "frozen" /\ \E o \in Agreements : n = [m EXCEPT !.stage = "over", !.verdict = o]

Concedes(m, n) ==
  m.stage \in {"live", "frozen"} /\ \E o \in Concessions : n = [m EXCEPT !.stage = "over", !.verdict = o]

Drops(m, n) == m.stage # "live" /\ n = Gone

MatchStep(m, n) ==
  n = m \/ Opens(m, n) \/ Extends(m, n) \/ Freezes(m, n) \/ Agrees(m, n)
        \/ Concedes(m, n) \/ Drops(m, n)

\* The process is replaced: every match it knew is lost.
Halt == \A id \in Ids : match'[id] = Gone \/ (match[id] = NoMatch /\ match'[id] = NoMatch)

Init == match = [id \in Ids |-> NoMatch]
Next == Halt \/ \A id \in Ids : MatchStep(match[id], match'[id])
Spec == Init /\ [][Next]_match
=============================================================================
