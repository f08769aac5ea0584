--------------------------- MODULE NetMatch_proofs ---------------------------
(***************************************************************************)
(* Proofs about NetMatch: its types and its safety properties, for every   *)
(* number of tabs, moves, failures and reloads.                            *)
(***************************************************************************)
EXTENDS NetMatch, LobbyRecord_proofs, SequenceTheorems, WellFoundedInduction

----------------------------------------------------------------------------
(* Induction *)

\* A set of natural numbers has a least element.
LEMMA Least ==
  ASSUME NEW S \in SUBSET Nat, S # {}
  PROVE  \E n \in S : \A m \in S : n <= m
<1>1. IsWellFoundedOn({ss \in Nat \X Nat : ss[1] < ss[2]}, Nat)
  BY NatLessThanWellFounded DEF OpToRel
<1>2. PICK n \in S : \A m \in S : ~(<<m, n>> \in {ss \in Nat \X Nat : ss[1] < ss[2]})
  BY <1>1, WFMin
<1>3. \A m \in S : ~(m < n)
  BY <1>2
<1> QED BY <1>3

\* A set of numbers up to a bound that has 0 and every successor has all of them.
LEMMA Upward ==
  ASSUME NEW n \in Nat, NEW S, 0 \in S, \A k \in 0..(n - 1) : k \in S => k + 1 \in S
  PROVE  \A k \in 0..n : k \in S
<1> DEFINE Missing == {k \in 0..n : k \notin S}
<1>1. SUFFICES ASSUME Missing # {} PROVE FALSE
  OBVIOUS
<1>0. Missing \in SUBSET Nat
  OBVIOUS
<1>2. PICK m \in Missing : \A k \in Missing : m <= k
  <2> HIDE DEF Missing
  <2> QED BY <1>0, <1>1, Least
<1>3. m # 0 /\ m \in Nat /\ m - 1 \in 0..(n - 1)
  BY <1>2
<1>4. m - 1 \in S
  BY <1>2, <1>3
<1> QED BY <1>2, <1>3, <1>4

----------------------------------------------------------------------------
(* The moves of a backfill, one after the other *)

\* g is the fold of ApplyRelay over the events of every set of positions up to k.
Unrolls(g, k, v, s, events) ==
  g = [x \in SUBSET (1..k) |->
         IF x = {} THEN v ELSE ApplyRelay(g[x \ {Max(x)}], s, events[Max(x)])]

LEMMA ApplyMovesFold ==
  ASSUME NEW v, NEW s, NEW events, NEW n \in Nat, DOMAIN events = 1..n
  PROVE  ApplyMoves(v, s, events) = (CHOOSE g : Unrolls(g, n, v, s, events))[1..n]
<1>1. ApplyMoves(v, s, events) =
        (CHOOSE g : g = [x \in SUBSET (DOMAIN events) |->
           IF x = {} THEN v ELSE ApplyRelay(g[x \ {Max(x)}], s, events[Max(x)])])[DOMAIN events]
  BY DEF ApplyMoves, FoldLeft, MapThenFoldSet
<1> QED BY <1>1 DEF Unrolls

LEMMA MaxLast ==
  ASSUME NEW k \in Nat, NEW x \in SUBSET (1..k), k \in x
  PROVE  Max(x) = k
<1>1. \A y \in x : k >= y
  OBVIOUS
<1>2. \A m \in x : (\A y \in x : m >= y) => m = k
  OBVIOUS
<1> QED BY <1>1, <1>2 DEF Max

LEMMA UnrollsOne ==
  ASSUME NEW v, NEW s, NEW events, NEW k \in Nat, NEW g, Unrolls(g, k, v, s, events)
  PROVE  \E h : Unrolls(h, k + 1, v, s, events)
<1> DEFINE h == [x \in SUBSET (1..(k + 1)) |->
                   IF k + 1 \in x THEN ApplyRelay(g[x \ {k + 1}], s, events[k + 1]) ELSE g[x]]
           e(x) == IF x = {} THEN v ELSE ApplyRelay(h[x \ {Max(x)}], s, events[Max(x)])
<1>1. ASSUME NEW x \in SUBSET (1..(k + 1)) PROVE h[x] = e(x)
  <2>1. CASE k + 1 \in x
    <3>1. Max(x) = k + 1
      BY <2>1, MaxLast
    <3>2. x \ {k + 1} \in SUBSET (1..k)
      <4>1. \A i \in 1..(k + 1) : i # k + 1 => i \in 1..k
        OBVIOUS
      <4> QED BY <4>1
    <3>3. h[x \ {k + 1}] = g[x \ {k + 1}]
      BY <3>2
    <3>4. h[x] = ApplyRelay(g[x \ {k + 1}], s, events[k + 1])
      BY <2>1
    <3> HIDE DEF h
    <3> QED BY <2>1, <3>1, <3>3, <3>4
  <2>2. CASE k + 1 \notin x
    <3>1. x \in SUBSET (1..k) /\ x \ {Max(x)} \in SUBSET (1..k)
      <4>1. \A i \in x : i \in 1..k
        BY <2>2
      <4> QED BY <4>1
    <3>2. h[x] = g[x]
      BY <2>2
    <3>3. h[x \ {Max(x)}] = g[x \ {Max(x)}]
      BY <3>1
    <3> HIDE DEF h
    <3> QED BY <3>1, <3>2, <3>3 DEF Unrolls
  <2> QED BY <2>1, <2>2
<1>2. h = [x \in SUBSET (1..(k + 1)) |-> h[x]]
  OBVIOUS
<1>3. Unrolls(h, k + 1, v, s, events)
  <2> HIDE DEF h
  <2> QED BY <1>1, <1>2 DEF Unrolls
<1> QED BY <1>3

\* ApplyMoves is a chain of ApplyRelay, in the order of the events.
LEMMA ApplyMovesChain ==
  ASSUME NEW v, NEW s, NEW events, NEW n \in Nat, DOMAIN events = 1..n
  PROVE  \E h : /\ h[0] = v
                /\ \A k \in 0..(n - 1) : h[k + 1] = ApplyRelay(h[k], s, events[k + 1])
                /\ h[n] = ApplyMoves(v, s, events)
<1> DEFINE Folded == {k \in Nat : \E g : Unrolls(g, k, v, s, events)}
<1>1. 0 \in Folded
  <2> DEFINE g == [x \in SUBSET (1..0) |-> v]
  <2>1. Unrolls(g, 0, v, s, events)
    <3>1. \A x \in SUBSET (1..0) : x = {}
      OBVIOUS
    <3> QED BY <3>1 DEF Unrolls
  <2> QED BY <2>1
<1>2. \A k \in 0..(n - 1) : k \in Folded => k + 1 \in Folded
  BY UnrollsOne
<1>3. n \in Folded
  <2>1. n \in 0..n
    OBVIOUS
  <2> HIDE DEF Folded
  <2> QED BY <1>1, <1>2, <2>1, Upward
<1> DEFINE g == CHOOSE g : Unrolls(g, n, v, s, events)
<1>4. Unrolls(g, n, v, s, events)
  BY <1>3
<1>5. g[1..n] = ApplyMoves(v, s, events)
  BY ApplyMovesFold
<1> HIDE DEF g
<1> DEFINE h == [k \in 0..n |-> g[1..k]]
<1>6. h[0] = v
  <2>1. 1..0 = {} /\ {} \in SUBSET (1..n)
    OBVIOUS
  <2>2. g[{}] = v
    BY <1>4, <2>1 DEF Unrolls
  <2> QED BY <2>1, <2>2
<1>7. ASSUME NEW k \in 0..(n - 1) PROVE h[k + 1] = ApplyRelay(h[k], s, events[k + 1])
  <2>1. 1..(k + 1) \in SUBSET (1..n) /\ 1..(k + 1) # {} /\ k + 1 \in 1..(k + 1) /\ k + 1 \in Nat
    <3>1. \A i \in 1..(k + 1) : i \in 1..n
      OBVIOUS
    <3>2. k + 1 \in 1..(k + 1) /\ k + 1 \in Nat
      OBVIOUS
    <3> QED BY <3>1, <3>2
  <2>2. Max(1..(k + 1)) = k + 1
    BY <2>1, MaxLast
  <2>3. (1..(k + 1)) \ {k + 1} = 1..k
    OBVIOUS
  <2>4. g[1..(k + 1)] = ApplyRelay(g[1..k], s, events[k + 1])
    BY <1>4, <2>1, <2>2, <2>3 DEF Unrolls
  <2> QED BY <2>4
<1>8. h[n] = ApplyMoves(v, s, events)
  BY <1>5
<1> QED BY <1>6, <1>7, <1>8

----------------------------------------------------------------------------
(* What the operators of NetTab return *)

Views == [tab: Tab, journal: Moves \cup {None}]

LEMMA AwayType == Away \in Tab
BY DEF Away, Tab

LEMMA EnteringType == ASSUME NEW x \in Snapshots PROVE Entering(x) \in Tab
<1> DEFINE closed == RelayClosed(x)
           disputed == x.disputed
<1>1. closed \in BOOLEAN /\ disputed \in BOOLEAN
  BY DEF RelayClosed, Snapshots
<1> HIDE DEF closed, disputed
<1>2. [Away EXCEPT !.mode = "entering", !.seen = x, !.frozen = closed, !.disputed = disputed] \in Tab
  BY <1>1, AwayType DEF Tab
<1> QED BY <1>2 DEF Entering, closed, disputed

LEMMA SnapshotType == ASSUME NEW l \in Lobby PROVE Snapshot(l) \in Snapshots
<1>1. l.moves \in Seq(Moves) /\ l.result \in Results \cup {None} /\ l.resultDisputed \in BOOLEAN
  BY DEF Lobby
<1>2. Len(l.moves) \in Nat /\ AnyReport(l) \in BOOLEAN
  BY <1>1 DEF AnyReport
<1> QED BY <1>1, <1>2 DEF Snapshot, Snapshots

\* A change of nothing but the flags for the retry of an intent.
Quiet(a, b) ==
  /\ b \in Tab
  /\ b.mode = a.mode /\ b.seen = a.seen /\ b.lease = a.lease /\ b.board = a.board
  /\ b.pending = a.pending /\ (a.halted => b.halted) /\ b.terminal = a.terminal
  /\ b.verdict = a.verdict /\ b.reads = a.reads /\ b.inbox = a.inbox
  /\ b.streaming = a.streaming

LEMMA QuietTwice ==
  ASSUME NEW a, NEW b, NEW c, Quiet(a, b), Quiet(b, c) PROVE Quiet(a, c)
BY DEF Quiet

LEMMA QuietSelf == ASSUME NEW tab \in Tab PROVE Quiet(tab, tab)
BY DEF Quiet

LEMMA FreezeQuiet == ASSUME NEW tab \in Tab PROVE Quiet(tab, Freeze(tab))
BY DEF Quiet, Freeze, Tab

LEMMA ScheduleQuiet ==
  ASSUME NEW tab \in Tab, NEW m \in Moves PROVE Quiet(tab, Schedule(tab, m))
BY DEF Quiet, Schedule, Tab

LEMMA MarkQuiet ==
  ASSUME NEW tab \in Tab, NEW m \in Moves PROVE Quiet(tab, MarkUncertain(tab, m))
<1>1. Quiet(tab, [tab EXCEPT !.uncertain = TRUE])
  BY DEF Quiet, Tab
<1> QED BY <1>1, QuietSelf DEF MarkUncertain

LEMMA NoticedQuiet ==
  ASSUME NEW tab \in Tab, NEW x \in Snapshots PROVE Quiet(tab, Noticed(tab, x))
<1> DEFINE noted == [tab EXCEPT !.disputed = x.disputed]
<1>1. noted \in Tab /\ Quiet(tab, noted)
  BY DEF Quiet, Tab, Snapshots
<1>2. Quiet(noted, Freeze(noted))
  BY <1>1, FreezeQuiet
<1> QED BY <1>1, <1>2, QuietTwice DEF Noticed

LEMMA FirstCheckedQuiet ==
  ASSUME NEW tab \in Tab, NEW m \in Moves, NEW fetched, NEW gate
  PROVE  Quiet(tab, FirstChecked(tab, m, fetched, gate))
<1> DEFINE marked == MarkUncertain(tab, m)
<1>1. Quiet(tab, marked) /\ marked \in Tab
  BY MarkQuiet DEF Quiet
<1>2. Quiet(tab, Freeze(marked)) /\ Quiet(tab, Schedule(marked, m))
  BY <1>1, FreezeQuiet, ScheduleQuiet, QuietTwice
<1> QED BY <1>2, QuietSelf DEF FirstChecked

LEMMA RetryEndedQuiet ==
  ASSUME NEW tab \in Tab, NEW m \in Moves, NEW gate
  PROVE  Quiet(tab, RetryEnded(tab, m, gate))
<1> DEFINE start == IF gate THEN Freeze(tab) ELSE tab
           ended == [start EXCEPT !.retrying = @ \ {m}]
<1>1. Quiet(tab, start) /\ start \in Tab
  BY FreezeQuiet, QuietSelf DEF Quiet
<1>2. Quiet(start, ended) /\ ended \in Tab
  <2> HIDE DEF start
  <2> QED BY <1>1 DEF Quiet, Tab
<1>3. Quiet(ended, Schedule(ended, m))
  BY <1>2, ScheduleQuiet
<1>4. RetryEnded(tab, m, gate) \in {ended, Schedule(ended, m)}
  BY DEF RetryEnded
<1> QED BY <1>1, <1>2, <1>3, <1>4, QuietTwice

LEMMA SettleType ==
  ASSUME NEW j \in Moves \cup {None}, NEW m PROVE Settle(j, m) \in {j, None}
BY DEF Settle

\* What a commit changes.
LEMMA CommitEffect ==
  ASSUME NEW v \in Views, NEW s \in Sides, NEW e \in Moves
  PROVE  LET w == Commit(v, s, e)
         IN /\ w \in Views
            /\ w.tab.board = Append(v.tab.board, e)
            /\ w.tab.mode = v.tab.mode /\ w.tab.seen = v.tab.seen /\ w.tab.lease = v.tab.lease
            /\ w.tab.halted = v.tab.halted /\ w.tab.verdict = v.tab.verdict
            /\ w.tab.reads = v.tab.reads /\ w.tab.inbox = v.tab.inbox
            /\ IF AwaitsSlot(v.tab)
                 THEN w.tab.pending = None /\ w.journal = Settle(v.journal, v.tab.pending)
                 ELSE w.tab.pending = v.tab.pending /\ w.journal = v.journal
<1> DEFINE tab == v.tab
           clears == AwaitsSlot(tab)
           j == IF clears THEN Settle(v.journal, tab.pending) ELSE v.journal
           board == Append(tab.board, e)
           terminal == Verdict[s][e.gesture]
           uncertain == tab.uncertain /\ ~clears
           next == [tab EXCEPT !.board = board,
                               !.pending = IF clears THEN None ELSE @,
                               !.uncertain = uncertain,
                               !.terminal = terminal]
<1>1. tab \in Tab /\ v.journal \in Moves \cup {None}
  BY DEF Views
<1>2. board \in Seq(Moves)
  BY <1>1 DEF Tab
<1>3. terminal \in Outcomes \cup {None}
  BY VerdictAssumption DEF Moves
<1>4. j \in Moves \cup {None}
  BY <1>1, SettleType
<1>5. uncertain \in BOOLEAN
  OBVIOUS
<1>6. Commit(v, s, e) = [tab |-> next, journal |-> j]
  BY DEF Commit
<1> HIDE DEF j, board, terminal, uncertain, clears, tab
<1>7. /\ next \in Tab
      /\ next.board = board /\ next.mode = tab.mode /\ next.seen = tab.seen
      /\ next.lease = tab.lease /\ next.halted = tab.halted /\ next.verdict = tab.verdict
      /\ next.reads = tab.reads /\ next.inbox = tab.inbox
      /\ next.pending = IF clears THEN None ELSE tab.pending
  BY <1>1, <1>2, <1>3, <1>5 DEF Tab
<1> HIDE DEF next
<1>8. [tab |-> next, journal |-> j] \in Views
  BY <1>4, <1>7 DEF Views
<1> QED BY <1>6, <1>7, <1>8 DEF j, board, clears, tab

----------------------------------------------------------------------------
(* What is true of a view *)

InLog(l, e) == e.i + 1 \in DOMAIN l.moves /\ l.moves[e.i + 1] = e

Open(l) == l.result = None /\ ~l.resultDisputed /\ ~AnyReport(l)

\* The server may still accept this move.
Live(l, m) == Open(l) /\ m.i >= Len(l.moves)

PrefixOf(b, log) == Len(b) <= Len(log) /\ \A k \in 1..Len(b) : b[k] = log[k]

\* A result that a snapshot shows is the final one, and counts the final log.
TrueSnapshot(l, x) == x.result # None => x.result = l.result /\ x.count = Len(l.moves)

TrueFrame(l, f) == IF f.kind = "move" THEN InLog(l, f.event) ELSE TrueSnapshot(l, f.seen)

Follows(l, tab) ==
  /\ PrefixOf(tab.board, l.moves)
  /\ tab.verdict # None =>
       tab.verdict = l.result /\ (tab.halted \/ Len(tab.board) = Len(l.moves))

Told(l, tab) ==
  /\ \A k \in DOMAIN tab.inbox : TrueFrame(l, tab.inbox[k])
  /\ \A r \in tab.reads : r.seen # None => TrueSnapshot(l, r.seen)
  /\ tab.mode \in {"entering", "catching"} => TrueSnapshot(l, tab.seen)

\* An intent that a tab of seat s waits for is the journaled one, unless the server
\* cannot accept it any more; n ids were handed out.
Holding(l, s, n, v) ==
  /\ v.journal # None => v.journal.side = s /\ v.journal.intentId <= n
  /\ v.tab.pending # None =>
       /\ v.tab.pending.side = s /\ v.tab.pending.intentId <= n
       /\ Live(l, v.tab.pending) => v.journal = v.tab.pending
       /\ v.journal # None /\ v.journal.intentId = v.tab.pending.intentId =>
            v.journal = v.tab.pending

SeenKnown(tab) == tab.mode \in {"entering", "catching"} => tab.seen \in Snapshots

\* Once the server's record is gone, only the types are left.
Sane(l, s, n, v) ==
  /\ v \in Views
  /\ SeenKnown(v.tab)
  /\ l # None => Follows(l, v.tab) /\ Told(l, v.tab) /\ Holding(l, s, n, v)

\* The journal of a seat is kept, or dropped when the server cannot accept it any more.
JournalStep(l, j, k) == k = j \/ (k = None /\ (l # None /\ j # None => ~Live(l, j)))

\* What an operator of NetTab does to a view.
Good(l, s, n, v, w) ==
  /\ Sane(l, s, n, w)
  /\ w.tab.lease = v.tab.lease
  /\ JournalStep(l, v.journal, w.journal)

LEMMA GoodTwice ==
  ASSUME NEW l, NEW s, NEW n, NEW v, NEW w, NEW x, Good(l, s, n, v, w), Good(l, s, n, w, x)
  PROVE  Good(l, s, n, v, x)
BY DEF Good, JournalStep

LEMMA GoodSelf ==
  ASSUME NEW l, NEW s, NEW n, NEW v, Sane(l, s, n, v) PROVE Good(l, s, n, v, v)
BY DEF Good, JournalStep

LEMMA QuietGood ==
  ASSUME NEW l, NEW s, NEW n, NEW v, Sane(l, s, n, v), NEW x, Quiet(v.tab, x)
  PROVE  Good(l, s, n, v, [v EXCEPT !.tab = x])
<1> DEFINE w == [v EXCEPT !.tab = x]
<1>1. w \in Views /\ w.tab = x /\ w.journal = v.journal
  BY DEF Sane, Views, Quiet
<1> HIDE DEF w
<1>2. SeenKnown(w.tab)
  BY <1>1 DEF Sane, SeenKnown, Quiet
<1>3. ASSUME l # None PROVE Follows(l, w.tab) /\ Told(l, w.tab) /\ Holding(l, s, n, w)
  BY <1>1, <1>3 DEF Sane, Quiet, Follows, Told, Holding
<1>4. w.tab.lease = v.tab.lease
  BY <1>1 DEF Quiet
<1> QED BY <1>1, <1>2, <1>3, <1>4 DEF Good, Sane, JournalStep, w

\* Appending the next move of the log keeps the board a prefix of it.
LEMMA CommitGood ==
  ASSUME NEW l \in Lobby \cup {None}, NEW s \in Sides, NEW n, NEW v, Sane(l, s, n, v),
         NEW e \in Moves, e.i = Count(v.tab), ~Decided(v.tab), l # None => InLog(l, e)
  PROVE  Good(l, s, n, v, Commit(v, s, e))
<1> DEFINE w == Commit(v, s, e)
<1>1. v \in Views /\ v.tab \in Tab /\ v.tab.board \in Seq(Moves) /\ v.tab.verdict = None
  BY DEF Sane, Views, Tab, Decided
<1>2. /\ w \in Views
      /\ w.tab.board = Append(v.tab.board, e)
      /\ w.tab.mode = v.tab.mode /\ w.tab.seen = v.tab.seen /\ w.tab.lease = v.tab.lease
      /\ w.tab.halted = v.tab.halted /\ w.tab.verdict = v.tab.verdict
      /\ w.tab.reads = v.tab.reads /\ w.tab.inbox = v.tab.inbox
      /\ IF AwaitsSlot(v.tab)
           THEN w.tab.pending = None /\ w.journal = Settle(v.journal, v.tab.pending)
           ELSE w.tab.pending = v.tab.pending /\ w.journal = v.journal
  BY <1>1, CommitEffect
<1> HIDE DEF w
<1>3. SeenKnown(w.tab)
  BY <1>2 DEF Sane, SeenKnown
<1>4. ASSUME l # None
      PROVE  /\ Follows(l, w.tab) /\ Told(l, w.tab) /\ Holding(l, s, n, w)
             /\ JournalStep(l, v.journal, w.journal)
  <2>1. Follows(l, v.tab) /\ Told(l, v.tab) /\ Holding(l, s, n, v) /\ InLog(l, e)
    BY <1>4 DEF Sane
  <2>2. l.moves \in Seq(Moves)
    BY <1>4 DEF Lobby
  <2>3. e.i = Len(v.tab.board) /\ e.i \in Nat /\ e.i < Len(l.moves) /\ l.moves[e.i + 1] = e
    BY <1>1, <2>1, <2>2 DEF InLog, Count
  <2>4. Follows(l, w.tab)
    <3>1. PrefixOf(w.tab.board, l.moves)
      BY <1>1, <1>2, <2>1, <2>2, <2>3 DEF PrefixOf, Follows
    <3> QED BY <1>1, <1>2, <3>1 DEF Follows
  <2>5. Told(l, w.tab)
    BY <1>2, <2>1 DEF Told
  <2>6. CASE ~AwaitsSlot(v.tab)
    BY <1>2, <2>1, <2>4, <2>5, <2>6 DEF Holding, JournalStep
  <2>7. CASE AwaitsSlot(v.tab)
    <3>1. v.tab.pending # None /\ v.tab.pending.i = e.i
      BY <2>7, <2>3 DEF AwaitsSlot, Count
    <3>2. \/ w.journal = v.journal
          \/ w.journal = None /\ v.journal # None /\ v.journal = v.tab.pending
      BY <1>2, <2>1, <2>7, <3>1 DEF Settle, Holding
    <3>3. v.journal = v.tab.pending => ~Live(l, v.journal)
      BY <2>2, <2>3, <3>1 DEF Live
    <3>4. Holding(l, s, n, w) /\ JournalStep(l, v.journal, w.journal)
      BY <1>2, <2>1, <2>7, <3>2, <3>3 DEF Holding, JournalStep
    <3> QED BY <2>4, <2>5, <3>4
  <2> QED BY <2>6, <2>7
<1>5. ASSUME l = None PROVE JournalStep(l, v.journal, w.journal)
  BY <1>2, <1>5 DEF JournalStep, Settle
<1> QED BY <1>2, <1>3, <1>4, <1>5 DEF Good, Sane, w

\* Under way: the tab still has the snapshot, the mode and the verdict it had.
Steady(v, w) == w.tab.mode = v.tab.mode /\ w.tab.seen = v.tab.seen

\* A backfill for a true snapshot, or for a gap.
LEMMA ReadGood ==
  ASSUME NEW l \in Lobby \cup {None}, NEW s \in Sides, NEW n, NEW v, Sane(l, s, n, v),
         NEW r \in Reads, l # None /\ r.seen # None => TrueSnapshot(l, r.seen)
  PROVE  LET w == [v EXCEPT !.tab.reads = @ \cup {r}] IN Good(l, s, n, v, w) /\ Steady(v, w)
<1> DEFINE tab == v.tab
           x == [tab EXCEPT !.reads = @ \cup {r}]
           w == [v EXCEPT !.tab.reads = @ \cup {r}]
<1>1. tab \in Tab /\ v \in Views
  BY DEF Sane, Views
<1>2. /\ x \in Tab /\ x.mode = tab.mode /\ x.seen = tab.seen /\ x.lease = tab.lease
      /\ x.board = tab.board /\ x.pending = tab.pending /\ x.halted = tab.halted
      /\ x.verdict = tab.verdict /\ x.inbox = tab.inbox /\ x.reads = tab.reads \cup {r}
  BY <1>1 DEF Tab
<1>3. w = [v EXCEPT !.tab = x]
  BY <1>1 DEF Views
<1> HIDE DEF x, w
<1>4. w \in Views /\ w.tab = x /\ w.journal = v.journal
  BY <1>1, <1>2, <1>3 DEF Views
<1>5. SeenKnown(w.tab)
  BY <1>2, <1>4 DEF Sane, SeenKnown
<1>6. ASSUME l # None PROVE Follows(l, w.tab) /\ Told(l, w.tab) /\ Holding(l, s, n, w)
  BY <1>2, <1>4, <1>6 DEF Sane, Follows, Told, Holding
<1>7. Good(l, s, n, v, w) /\ Steady(v, w)
  BY <1>2, <1>4, <1>5, <1>6 DEF Good, Sane, JournalStep, Steady
<1> QED BY <1>7 DEF w

\* An event of the log, wherever it comes from, keeps a view good.
LEMMA ApplyRelayGood ==
  ASSUME NEW l \in Lobby \cup {None}, NEW s \in Sides, NEW n, NEW v, Sane(l, s, n, v),
         NEW e \in Moves, l # None => InLog(l, e)
  PROVE  Good(l, s, n, v, ApplyRelay(v, s, e)) /\ Steady(v, ApplyRelay(v, s, e))
<1> DEFINE w == ApplyRelay(v, s, e)
           tab == v.tab
<1>1. tab \in Tab /\ v \in Views /\ Count(tab) \in Nat /\ e.i \in Nat
  BY DEF Sane, Views, Tab, Count, Moves
<1>2. CASE w = v
  BY <1>2, GoodSelf DEF Steady
<1>3. CASE /\ ~Decided(tab) /\ e.i = Count(tab) /\ w = Commit(v, s, e)
  <2>1. Good(l, s, n, v, Commit(v, s, e))
    BY <1>3, CommitGood
  <2>2. Steady(v, Commit(v, s, e))
    BY <1>1, CommitEffect DEF Steady
  <2> QED BY <1>3, <2>1, <2>2
<1>4. CASE w = [v EXCEPT !.tab = Freeze([tab EXCEPT !.halted = TRUE])]
  <2>1. [tab EXCEPT !.halted = TRUE] \in Tab /\ Quiet(tab, [tab EXCEPT !.halted = TRUE])
    BY <1>1 DEF Tab, Quiet
  <2>2. Quiet(tab, Freeze([tab EXCEPT !.halted = TRUE]))
    BY <2>1, FreezeQuiet, QuietTwice
  <2>3. Good(l, s, n, v, w)
    BY <1>4, <2>2, QuietGood
  <2>4. Steady(v, w)
    BY <1>1, <1>4, <2>2 DEF Steady, Quiet, Views
  <2> QED BY <2>3, <2>4
<1>5. CASE w = [v EXCEPT !.tab.reads = @ \cup {[floor |-> e.i + 1, seen |-> None]}]
  <2> DEFINE r == [floor |-> e.i + 1, seen |-> None]
  <2>1. r \in Reads /\ r.seen = None
    BY <1>1 DEF Reads
  <2>2. w = [v EXCEPT !.tab.reads = @ \cup {r}]
    BY <1>5
  <2> HIDE DEF r, w
  <2>3. Good(l, s, n, v, w) /\ Steady(v, w)
    BY <2>1, <2>2, ReadGood
  <2> QED BY <2>3 DEF w
<1>6. \/ w = v
      \/ ~Decided(tab) /\ e.i = Count(tab) /\ w = Commit(v, s, e)
      \/ w = [v EXCEPT !.tab = Freeze([tab EXCEPT !.halted = TRUE])]
      \/ w = [v EXCEPT !.tab.reads = @ \cup {[floor |-> e.i + 1, seen |-> None]}]
  <2>1. ~(e.i < Count(tab)) /\ ~(e.i > Count(tab)) => e.i = Count(tab)
    BY <1>1
  <2>2. CASE ~BelongsToThisMatch(tab) \/ tab.halted \/ e.i < Count(tab)
    BY <2>2 DEF ApplyRelay
  <2>3. CASE ~(~BelongsToThisMatch(tab) \/ tab.halted \/ e.i < Count(tab)) /\ e.i > Count(tab)
    BY <2>3 DEF ApplyRelay
  <2>4. CASE ~(~BelongsToThisMatch(tab) \/ tab.halted \/ e.i < Count(tab)) /\ ~(e.i > Count(tab))
    <3>1. ~Decided(tab) /\ e.i = Count(tab)
      BY <2>1, <2>4 DEF BelongsToThisMatch
    <3> QED BY <2>4, <3>1 DEF ApplyRelay
  <2> QED BY <2>2, <2>3, <2>4
<1> QED BY <1>2, <1>3, <1>4, <1>5, <1>6

\* So does a backfill of any length: the events of a slice of the log, in order.
LEMMA ApplyMovesGood ==
  ASSUME NEW l \in Lobby \cup {None}, NEW s \in Sides, NEW n, NEW v, Sane(l, s, n, v),
         NEW events \in Seq(Moves),
         \A k \in DOMAIN events : l # None => InLog(l, events[k])
  PROVE  LET w == ApplyMoves(v, s, events) IN Good(l, s, n, v, w) /\ Steady(v, w)
<1> DEFINE len == Len(events)
<1>1. len \in Nat /\ DOMAIN events = 1..len
  OBVIOUS
<1>2. PICK h : /\ h[0] = v
               /\ \A k \in 0..(len - 1) : h[k + 1] = ApplyRelay(h[k], s, events[k + 1])
               /\ h[len] = ApplyMoves(v, s, events)
  BY <1>1, ApplyMovesChain
<1> DEFINE Fine == {k \in 0..len : Good(l, s, n, v, h[k]) /\ Steady(v, h[k])}
<1>3. 0 \in Fine
  BY <1>1, <1>2, GoodSelf DEF Steady
<1>4. ASSUME NEW k \in 0..(len - 1), k \in Fine PROVE k + 1 \in Fine
  <2>1. k + 1 \in DOMAIN events /\ k + 1 \in 0..len
    BY <1>1
  <2>2. events[k + 1] \in Moves /\ (l # None => InLog(l, events[k + 1]))
    BY <2>1
  <2>3. Sane(l, s, n, h[k])
    BY <1>4 DEF Good
  <2>4. Good(l, s, n, h[k], h[k + 1]) /\ Steady(h[k], h[k + 1])
    BY <1>2, <2>2, <2>3, ApplyRelayGood
  <2>5. Good(l, s, n, v, h[k]) /\ Steady(v, h[k])
    BY <1>4
  <2>6. Good(l, s, n, v, h[k + 1]) /\ Steady(v, h[k + 1])
    BY <2>4, <2>5, GoodTwice DEF Steady
  <2> QED BY <2>1, <2>6
<1>5. len \in Fine
  <2>1. len \in 0..len
    BY <1>1
  <2> HIDE DEF Fine, len
  <2> QED BY <1>1, <1>3, <1>4, <2>1, Upward
<1> QED BY <1>2, <1>5

\* A result is concluded only if it is the final one, on the complete log or on a
\* halted board.
LEMMA ConcludeGood ==
  ASSUME NEW l \in Lobby \cup {None}, NEW s \in Sides, NEW n, NEW v, Sane(l, s, n, v),
         NEW r \in Results,
         l # None => r = l.result /\ (v.tab.halted \/ Count(v.tab) = Len(l.moves))
  PROVE  Good(l, s, n, v, Conclude(v, r))
<1> DEFINE tab == v.tab
           kept == [tab EXCEPT !.verdict = r]
           j == Settle(v.journal, tab.pending)
           over == [tab EXCEPT !.verdict = r, !.pending = None, !.uncertain = FALSE,
                               !.terminal = IF r.reason = "resign" THEN None ELSE @]
<1>1. tab \in Tab /\ v \in Views /\ v.journal \in Moves \cup {None} /\ j \in {v.journal, None}
  BY SettleType DEF Sane, Views
<1>2. r # None
  BY NoneIsNoResult
<1>3. l # None => ~Open(l)
  BY <1>2 DEF Open
<1>4. ASSUME NEW x \in Tab, NEW k \in {v.journal, None},
             x.mode = tab.mode, x.seen = tab.seen, x.lease = tab.lease, x.board = tab.board,
             x.halted = tab.halted, x.verdict = r, x.reads = tab.reads, x.inbox = tab.inbox,
             x.pending \in {tab.pending, None}
      PROVE  Good(l, s, n, v, [tab |-> x, journal |-> k])
  <2> DEFINE w == [tab |-> x, journal |-> k]
  <2>1. w \in Views /\ w.tab = x /\ w.journal = k
    BY <1>1, <1>4 DEF Views
  <2> HIDE DEF w
  <2>2. SeenKnown(w.tab)
    BY <1>4, <2>1 DEF Sane, SeenKnown
  <2>3. ASSUME l # None PROVE Follows(l, w.tab) /\ Told(l, w.tab)
    BY <1>4, <2>1, <2>3 DEF Sane, Follows, Told, Count
  <2>4. ASSUME l # None PROVE Holding(l, s, n, w)
    BY <1>3, <1>4, <2>1, <2>4 DEF Sane, Holding, Live
  <2>5. JournalStep(l, v.journal, w.journal)
    BY <1>3, <1>4, <2>1 DEF JournalStep, Live
  <2>6. w.tab.lease = v.tab.lease
    BY <1>4, <2>1
  <2> QED BY <2>1, <2>2, <2>3, <2>4, <2>5, <2>6 DEF Good, Sane, w
<1>5. Good(l, s, n, v, [tab |-> kept, journal |-> v.journal])
  <2>1. /\ kept \in Tab /\ kept.mode = tab.mode /\ kept.seen = tab.seen /\ kept.lease = tab.lease
        /\ kept.board = tab.board /\ kept.halted = tab.halted /\ kept.verdict = r
        /\ kept.reads = tab.reads /\ kept.inbox = tab.inbox /\ kept.pending = tab.pending
    BY <1>1 DEF Tab
  <2> HIDE DEF kept
  <2> QED BY <1>4, <2>1
<1>6. Good(l, s, n, v, [tab |-> over, journal |-> j])
  <2> DEFINE terminal == IF r.reason = "resign" THEN None ELSE tab.terminal
  <2>1. terminal \in Outcomes \cup {None}
    BY <1>1 DEF Tab
  <2>2. over = [tab EXCEPT !.verdict = r, !.pending = None, !.uncertain = FALSE, !.terminal = terminal]
    BY <1>1 DEF Tab
  <2> HIDE DEF terminal, over
  <2>3. /\ over \in Tab /\ over.mode = tab.mode /\ over.seen = tab.seen /\ over.lease = tab.lease
        /\ over.board = tab.board /\ over.halted = tab.halted /\ over.verdict = r
        /\ over.reads = tab.reads /\ over.inbox = tab.inbox /\ over.pending = None
    BY <1>1, <2>1, <2>2 DEF Tab
  <2> HIDE DEF j
  <2> QED BY <1>1, <1>4, <2>3
<1>7. [v EXCEPT !.tab.verdict = r] = [tab |-> kept, journal |-> v.journal]
  BY <1>1 DEF Views
<1> HIDE DEF kept, over, j
<1>8. \/ Conclude(v, r) = v
      \/ Conclude(v, r) = [tab |-> kept, journal |-> v.journal]
      \/ Conclude(v, r) = [tab |-> over, journal |-> j]
  BY <1>7 DEF Conclude, over, j
<1> QED BY <1>5, <1>6, <1>8, GoodSelf

\* A synchronized tab that a true snapshot with a result reaches has the complete log.
LEMMA Complete ==
  ASSUME NEW l \in Lobby \cup {None}, NEW s, NEW n, NEW v, Sane(l, s, n, v),
         NEW x \in Snapshots, l # None => TrueSnapshot(l, x), x.result # None,
         Count(v.tab) >= x.count
  PROVE  /\ x.result \in Results
         /\ l # None => x.result = l.result /\ Count(v.tab) = Len(l.moves)
<1>1. x.result \in Results
  BY DEF Snapshots
<1>2. ASSUME l # None PROVE x.result = l.result /\ Count(v.tab) = Len(l.moves)
  <2>1. Len(v.tab.board) <= Len(l.moves) /\ x.count = Len(l.moves) /\ x.result = l.result
    BY <1>2 DEF Sane, Follows, PrefixOf, TrueSnapshot
  <2>2. Len(v.tab.board) \in Nat /\ Len(l.moves) \in Nat
    BY <1>2 DEF Sane, Views, Tab, Lobby
  <2> QED BY <2>1, <2>2 DEF Count
<1> QED BY <1>1, <1>2

LEMMA ScheduleGood ==
  ASSUME NEW l, NEW s, NEW n, NEW v, Sane(l, s, n, v), v.tab.pending # None
  PROVE  LET w == [v EXCEPT !.tab = Schedule(@, @.pending)]
         IN Good(l, s, n, v, w) /\ w.tab.board = v.tab.board
<1>1. v \in Views /\ v.tab \in Tab /\ v.tab.pending \in Moves
  BY DEF Sane, Views, Tab
<1>2. Quiet(v.tab, Schedule(v.tab, v.tab.pending))
  BY <1>1, ScheduleQuiet
<1>3. Good(l, s, n, v, [v EXCEPT !.tab = Schedule(v.tab, v.tab.pending)])
  BY <1>2, QuietGood
<1>4. [v EXCEPT !.tab = Schedule(v.tab, v.tab.pending)].tab.board = v.tab.board
  BY <1>1, <1>2 DEF Quiet, Views
<1> QED BY <1>3, <1>4

\* The end of entering: the snapshot it was entered with is used for the last time.
LEMMA CaughtUpGood ==
  ASSUME NEW l \in Lobby \cup {None}, NEW s \in Sides, NEW n, NEW v, Sane(l, s, n, v),
         v.tab.mode = "catching", NEW synchronized,
         synchronized => Count(v.tab) >= v.tab.seen.count
  PROVE  Good(l, s, n, v, CaughtUp(v, synchronized))
<1> DEFINE tab == v.tab
           x == tab.seen
           y == [tab EXCEPT !.mode = "live", !.seen = None]
           live == [v EXCEPT !.tab.mode = "live", !.tab.seen = None]
           concluded == IF x.result # None /\ synchronized THEN Conclude(live, x.result) ELSE live
<1>1. tab \in Tab /\ v \in Views /\ x \in Snapshots /\ (l # None => TrueSnapshot(l, x))
  BY DEF Sane, Views, SeenKnown, Told
<1>2. /\ y \in Tab /\ y.mode = "live" /\ y.lease = tab.lease /\ y.board = tab.board
      /\ y.pending = tab.pending /\ y.halted = tab.halted /\ y.verdict = tab.verdict
      /\ y.reads = tab.reads /\ y.inbox = tab.inbox
  BY <1>1 DEF Tab
<1>3. live = [tab |-> y, journal |-> v.journal]
  <2> DEFINE z == [tab EXCEPT !.mode = "live"]
  <2>1. v = [tab |-> tab, journal |-> v.journal]
    BY <1>1 DEF Views
  <2>2. [v EXCEPT !.tab.mode = "live"] = [tab |-> z, journal |-> v.journal]
    BY <2>1
  <2>3. live = [[v EXCEPT !.tab.mode = "live"] EXCEPT !.tab.seen = None]
    OBVIOUS
  <2>4. y = [z EXCEPT !.seen = None]
    OBVIOUS
  <2> HIDE DEF y, z, live
  <2> QED BY <2>2, <2>3, <2>4
<1> HIDE DEF x, y, live
<1>4. live \in Views /\ live.tab = y /\ live.journal = v.journal
  BY <1>1, <1>2, <1>3 DEF Views
<1>5. Good(l, s, n, v, live)
  <2>1. SeenKnown(live.tab)
    BY <1>2, <1>4 DEF SeenKnown
  <2>2. ASSUME l # None PROVE Follows(l, live.tab) /\ Told(l, live.tab) /\ Holding(l, s, n, live)
    BY <1>2, <1>4, <2>2 DEF Sane, Follows, Told, Holding
  <2> QED BY <1>2, <1>4, <2>1, <2>2 DEF Good, Sane, JournalStep
<1>6. Good(l, s, n, v, concluded)
  <2>1. CASE x.result # None /\ synchronized
    <3>1. x.result \in Results /\ (l # None => x.result = l.result /\ Count(v.tab) = Len(l.moves))
      BY <1>1, <2>1, Complete DEF x
    <3>2. Count(live.tab) = Count(v.tab) /\ Sane(l, s, n, live)
      BY <1>2, <1>4, <1>5 DEF Count, Good
    <3>3. Good(l, s, n, live, Conclude(live, x.result))
      BY <3>1, <3>2, ConcludeGood
    <3> QED BY <1>5, <2>1, <3>3, GoodTwice
  <2> QED BY <1>5, <2>1
<1>7. CaughtUp(v, synchronized)
        = IF ~RelayClosed(x) /\ synchronized /\ AwaitsSlot(concluded.tab)
          THEN [concluded EXCEPT !.tab = Schedule(@, @.pending)] ELSE concluded
  BY DEF CaughtUp, live, x
<1> HIDE DEF concluded
<1>8. CASE AwaitsSlot(concluded.tab)
  <2>1. concluded.tab.pending # None
    BY <1>8 DEF AwaitsSlot
  <2>2. Good(l, s, n, concluded, [concluded EXCEPT !.tab = Schedule(@, @.pending)])
    BY <1>6, <2>1, ScheduleGood DEF Good
  <2> QED BY <1>6, <1>7, <2>2, GoodTwice
<1> QED BY <1>6, <1>7, <1>8

LEMMA ContinueGood ==
  ASSUME NEW l \in Lobby \cup {None}, NEW s \in Sides, NEW n, NEW v, Sane(l, s, n, v),
         NEW x \in Snapshots, l # None => TrueSnapshot(l, x), NEW fetched
  PROVE  Good(l, s, n, v, Continue(v, x, fetched))
<1> DEFINE synchronized == fetched /\ Count(v.tab) >= x.count
           rearm == synchronized /\ ~x.reported /\ ~x.disputed /\ v.tab.uncertain /\ AwaitsSlot(v.tab)
           armed == IF rearm THEN [v EXCEPT !.tab = Schedule(@, @.pending)] ELSE v
<1>1. Good(l, s, n, v, armed) /\ armed.tab.board = v.tab.board
  <2>1. CASE rearm
    <3>1. v.tab.pending # None
      BY <2>1 DEF AwaitsSlot
    <3> QED BY <2>1, <3>1, ScheduleGood
  <2>2. CASE ~rearm
    <3>1. armed = v
      BY <2>2
    <3> QED BY <3>1, GoodSelf
  <2> QED BY <2>1, <2>2
<1>2. Continue(v, x, fetched)
        = IF x.result # None /\ synchronized THEN Conclude(armed, x.result) ELSE armed
  BY Zenon DEF Continue
<1> HIDE DEF armed
<1>3. CASE x.result # None /\ synchronized
  <2>1. x.result \in Results /\ (l # None => x.result = l.result /\ Count(v.tab) = Len(l.moves))
    BY <1>3, Complete
  <2>2. Count(armed.tab) = Count(v.tab) /\ Sane(l, s, n, armed)
    BY <1>1 DEF Count, Good
  <2>3. Good(l, s, n, armed, Conclude(armed, x.result))
    BY <2>1, <2>2, ConcludeGood
  <2> QED BY <1>1, <1>2, <1>3, <2>3, GoodTwice
<1> QED BY <1>1, <1>2, <1>3

LEMMA OnLobbyGood ==
  ASSUME NEW l \in Lobby \cup {None}, NEW s \in Sides, NEW n, NEW v, Sane(l, s, n, v),
         NEW x \in Snapshots, l # None => TrueSnapshot(l, x)
  PROVE  Good(l, s, n, v, OnLobby(v, x))
<1> DEFINE w == [v EXCEPT !.tab = Noticed(@, x)]
           r == [floor |-> x.count, seen |-> x]
<1>1. v \in Views /\ v.tab \in Tab
  BY DEF Sane, Views
<1>2. Quiet(v.tab, Noticed(v.tab, x))
  BY <1>1, NoticedQuiet
<1>3. Good(l, s, n, v, [v EXCEPT !.tab = Noticed(v.tab, x)])
  BY <1>2, QuietGood
<1>4. w = [v EXCEPT !.tab = Noticed(v.tab, x)] /\ w.tab = Noticed(v.tab, x)
  BY <1>1 DEF Views
<1>5. Good(l, s, n, v, w) /\ Sane(l, s, n, w) /\ (v.tab.halted => w.tab.halted)
  BY <1>2, <1>3, <1>4 DEF Good, Quiet
<1>6. \/ OnLobby(v, x) = w
      \/ /\ v.tab.halted /\ x.result # None /\ OnLobby(v, x) = Conclude(w, x.result)
      \/ OnLobby(v, x) = [w EXCEPT !.tab.reads = @ \cup {r}]
      \/ OnLobby(v, x) = Continue(w, x, TRUE)
  <2>1. CASE v.tab.halted
    <3>1. OnLobby(v, x) = IF x.result # None /\ x.result.reason = "resign"
                          THEN Conclude(w, x.result) ELSE w
      <4>1. ~NeedsRead(v.tab, x)
        BY <2>1 DEF NeedsRead
      <4> QED BY <2>1, <4>1, Zenon DEF OnLobby
    <3> HIDE DEF w
    <3> QED BY <2>1, <3>1
  <2>2. CASE ~v.tab.halted /\ NeedsRead(v.tab, x)
    <3>1. OnLobby(v, x) = [w EXCEPT !.tab.reads = @ \cup {r}]
      BY <2>2 DEF OnLobby
    <3> QED BY <3>1
  <2>3. CASE ~v.tab.halted /\ ~NeedsRead(v.tab, x)
    BY <2>3, Zenon DEF OnLobby
  <2> QED BY <2>1, <2>2, <2>3
<1> HIDE DEF w
<1>7. CASE v.tab.halted /\ x.result # None /\ OnLobby(v, x) = Conclude(w, x.result)
  <2>1. x.result \in Results /\ (l # None => x.result = l.result)
    BY <1>7 DEF Snapshots, TrueSnapshot
  <2>2. Good(l, s, n, w, Conclude(w, x.result))
    BY <1>5, <1>7, <2>1, ConcludeGood
  <2> QED BY <1>5, <1>7, <2>2, GoodTwice
<1>8. CASE OnLobby(v, x) = [w EXCEPT !.tab.reads = @ \cup {r}]
  <2>1. r \in Reads /\ r.seen = x
    BY DEF Reads, Snapshots
  <2> HIDE DEF r
  <2>2. Good(l, s, n, w, [w EXCEPT !.tab.reads = @ \cup {r}])
    BY <1>5, <2>1, ReadGood
  <2> QED BY <1>5, <1>8, <2>2, GoodTwice
<1>9. CASE OnLobby(v, x) = Continue(w, x, TRUE)
  <2>1. Good(l, s, n, w, Continue(w, x, TRUE))
    BY <1>5, ContinueGood
  <2> QED BY <1>5, <1>9, <2>1, GoodTwice
<1> QED BY <1>5, <1>6, <1>7, <1>8, <1>9

----------------------------------------------------------------------------
(* What the server makes of its record *)

SameMatch(l) == l \in Lobby /\ Sound(l) /\ IsStartedLifecycle(l)

\* The log only grows, a result and its log are final, and a relay that closed stays closed.
Grows(l, m) ==
  /\ Len(l.moves) <= Len(m.moves) /\ \A k \in 1..Len(l.moves) : m.moves[k] = l.moves[k]
  /\ l.result # None => m.result = l.result /\ m.moves = l.moves
  /\ Open(m) => Open(l)

\* Only the seats in C can have become resigned.
Resigns(l, m, C) == \A s \in Sides : m.result = Resignation(s) => l.result = m.result \/ s \in C

LEMMA GrowsSelf == ASSUME NEW l \in Lobby PROVE Grows(l, l) /\ \A C : Resigns(l, l, C)
<1>1. Len(l.moves) \in Nat
  BY DEF Lobby
<1> QED BY <1>1 DEF Grows, Resigns

LEMMA GrowsTwice ==
  ASSUME NEW k \in Lobby, NEW l \in Lobby, NEW m \in Lobby, Grows(k, l), Grows(l, m)
  PROVE  Grows(k, m)
<1>1. Len(k.moves) \in Nat /\ Len(l.moves) \in Nat /\ Len(m.moves) \in Nat
  BY DEF Lobby
<1> QED BY <1>1 DEF Grows

LEMMA RelayGrows ==
  ASSUME NEW l, SameMatch(l), NEW s \in Sides, NEW i \in Intents, NEW g \in Gestures, NEW n,
         MayRelay(l, s, n), ~KnownIntent(l, i)
  PROVE  LET m == Relay(l, s, i, g)
         IN /\ SameMatch(m) /\ Grows(l, m) /\ Resigns(l, m, {})
            /\ InLog(m, [i |-> n, side |-> s, intentId |-> i, gesture |-> g])
<1> DEFINE m == Relay(l, s, i, g)
           e == [i |-> Len(l.moves), side |-> s, intentId |-> i, gesture |-> g]
<1>1. l \in Lobby /\ l.moves \in Seq(Moves) /\ Len(l.moves) \in Nat
  BY DEF SameMatch, Lobby
<1>2. m \in Lobby /\ Sound(m)
  BY RelayType, RelaySound DEF SameMatch
<1>3. /\ m.phase = l.phase /\ m.closedFromPhase = l.closedFromPhase /\ m.result = l.result
      /\ m.resultReports = l.resultReports /\ m.resultDisputed = l.resultDisputed
      /\ m.moves = Append(l.moves, e)
  BY <1>1 DEF Relay, Touch, Lobby
<1>4. e \in Moves /\ e.i = Len(l.moves) /\ n = Len(l.moves) /\ l.result = None
  BY <1>1 DEF Moves, MayRelay
<1>5. e = [i |-> n, side |-> s, intentId |-> i, gesture |-> g]
  BY <1>4
<1> HIDE DEF m, e
<1>6. Len(m.moves) = Len(l.moves) + 1 /\ m.moves[Len(l.moves) + 1] = e
      /\ \A k \in 1..Len(l.moves) : m.moves[k] = l.moves[k]
  BY <1>1, <1>3, <1>4
<1>7. Grows(l, m)
  BY <1>1, <1>3, <1>4, <1>6 DEF Grows, Open, AnyReport
<1>8. InLog(m, e)
  BY <1>1, <1>3, <1>4, <1>6 DEF InLog
<1>9. SameMatch(m) /\ Resigns(l, m, {})
  BY <1>2, <1>3 DEF SameMatch, IsStartedLifecycle, Resigns
<1> QED BY <1>5, <1>7, <1>8, <1>9 DEF m

LEMMA ReportGrows ==
  ASSUME NEW l, SameMatch(l), NEW s \in Sides, NEW r \in Reports, ExactPrefix(l, r)
  PROVE  LET m == RecordReport(l, s, r)
         IN SameMatch(m) /\ Grows(l, m) /\ Resigns(l, m, {})
<1> DEFINE m == RecordReport(l, s, r)
<1>1. l \in Lobby /\ Len(l.moves) \in Nat /\ m \in Lobby /\ Sound(m)
  <2>1. l \in Lobby /\ Len(l.moves) \in Nat
    BY DEF SameMatch, Lobby
  <2>2. m \in Lobby
    BY <2>1, RecordReportType
  <2>3. Sound(m)
    BY <2>1, RecordReportSound DEF SameMatch
  <2> QED BY <2>1, <2>2, <2>3
<1>2. CASE m = l
  BY <1>1, <1>2, GrowsSelf
<1>3. CASE m # l
  <2>1. NewReport(l, s, r, m)
    BY <1>1, <1>3, RecordReportFields
  <2> HIDE DEF m
  <2>2. SameMatch(m)
    BY <1>1, <2>1 DEF SameMatch, IsStartedLifecycle, NewReport
  <2>3. r # None /\ r.outcome \in Outcomes
    BY NoneIsNoResult DEF Reports
  <2>4. ~Open(m)
    BY <2>1, <2>3 DEF Open, AnyReport, NewReport
  <2>5. Grows(l, m)
    BY <1>1, <2>1, <2>4 DEF Grows, NewReport
  <2>6. m.result \in Outcomes \cup {None}
    BY <2>1, <2>3 DEF NewReport
  <2>7. Resigns(l, m, {})
    BY <2>6, ResignationIsNoOutcome DEF Resigns
  <2> QED BY <2>2, <2>5, <2>7 DEF m
<1> QED BY <1>2, <1>3

LEMMA OneResignation ==
  ASSUME NEW s \in Sides, NEW u \in Sides, Resignation(s) = Resignation(u) PROVE s = u
BY DEF Resignation, Other, Sides

LEMMA ResignGrows ==
  ASSUME NEW l, SameMatch(l), NEW s \in Sides
  PROVE  LET m == Publish(l, Resignation(s))
         IN SameMatch(m) /\ Grows(l, m) /\ Resigns(l, m, {s}) /\ m.result # None
<1> DEFINE m == Publish(l, Resignation(s))
<1>1. l \in Lobby /\ Len(l.moves) \in Nat /\ m \in Lobby /\ Sound(m)
  <2>1. Resignation(s) \in Results
    BY ResignationIsNoOutcome
  <2>2. l \in Lobby /\ Len(l.moves) \in Nat
    BY DEF SameMatch, Lobby
  <2> QED BY <2>1, <2>2, PublishType, PublishResignationSound DEF SameMatch
<1>2. CASE l.result # None
  <2>1. m = l
    BY <1>2 DEF Publish
  <2> QED BY <1>1, <1>2, <2>1, GrowsSelf
<1>3. CASE l.result = None
  <2>1. /\ m.phase = l.phase /\ m.closedFromPhase = l.closedFromPhase /\ m.moves = l.moves
        /\ m.result = Resignation(s)
    BY <1>1, <1>3 DEF Publish, Touch, Lobby
  <2> HIDE DEF m
  <2>2. m.result # None
    BY <2>1, ResignationIsNoOutcome
  <2>3. SameMatch(m) /\ Grows(l, m)
    BY <1>1, <1>3, <2>1, <2>2 DEF SameMatch, IsStartedLifecycle, Grows, Open
  <2>4. Resigns(l, m, {s})
    BY <2>1, OneResignation DEF Resigns
  <2> QED BY <2>2, <2>3, <2>4 DEF m
<1> QED BY <1>2, <1>3

\* A departure needs the result or the report that the request was granted for.
LEMMA DepartGrows ==
  ASSUME NEW l, SameMatch(l), NEW s \in Sides, l.result # None \/ AnyReport(l)
  PROVE  LET m == Depart(l, s)
         IN SameMatch(m) /\ Grows(l, m) /\ Resigns(l, m, {}) /\ ~Open(m)
<1> DEFINE m == Depart(l, s)
<1>1. l \in Lobby /\ Len(l.moves) \in Nat /\ l.phase # "waiting"
  BY DEF SameMatch, Lobby, IsStartedLifecycle
<1>2. m \in Lobby /\ Sound(m)
  BY <1>1, DepartType, DepartSound DEF SameMatch
<1>3. /\ m.phase = "closed" /\ m.moves = l.moves /\ m.result = l.result
      /\ m.resultReports = l.resultReports /\ m.resultDisputed = l.resultDisputed
      /\ m.closedFromPhase = IF l.phase = "closed" THEN l.closedFromPhase ELSE l.phase
  BY <1>1, DepartFields
<1> HIDE DEF m
<1>4. SameMatch(m)
  BY <1>2, <1>3 DEF SameMatch, IsStartedLifecycle
<1>5. Grows(l, m) /\ ~Open(m)
  BY <1>1, <1>3 DEF Grows, Open, AnyReport
<1>6. Resigns(l, m, {})
  BY <1>3 DEF Resigns
<1> QED BY <1>4, <1>5, <1>6 DEF m

\* What a report or a resignation on the wire makes of the record.
LEMMA WireGrows ==
  ASSUME NEW l, SameMatch(l), NEW m \in Wire
  PROVE  LET k == WireEffect(l, m)
         IN SameMatch(k) /\ Grows(l, k) /\ Resigns(l, k, IF m.kind = "resign" THEN {m.side} ELSE {})
<1> DEFINE c == IF m.kind = "resign" THEN {m.side} ELSE {}
           k == WireEffect(l, m)
<1>1. m.side \in Sides /\ (m.kind = "report" => m.report \in Reports)
  BY DEF Wire
<1>2. CASE m.kind = "resign" /\ l.phase = "started"
  <2>1. k = Publish(l, Resignation(m.side))
    BY <1>2 DEF WireEffect
  <2> QED BY <1>1, <1>2, <2>1, ResignGrows
<1>3. CASE m.kind = "report" /\ IsStartedLifecycle(l) /\ ExactPrefix(l, m.report)
  <2>1. k = RecordReport(l, m.side, m.report)
    BY <1>3 DEF WireEffect
  <2> QED BY <1>1, <1>3, <2>1, ReportGrows
<1>4. CASE /\ ~(m.kind = "resign" /\ l.phase = "started")
           /\ ~(m.kind = "report" /\ IsStartedLifecycle(l) /\ ExactPrefix(l, m.report))
  <2>1. k = l
    BY <1>4 DEF WireEffect
  <2> QED BY <2>1, GrowsSelf DEF SameMatch
<1> QED BY <1>2, <1>3, <1>4

\* What a Leave request makes of it: granted, it ends the relay.
LEMMA LeaveGrows ==
  ASSUME NEW l, SameMatch(l), NEW q \in Leaves
  PROVE  LET r == LeaveServed(l, q)
         IN /\ SameMatch(r.lobby) /\ Grows(l, r.lobby)
            /\ Resigns(l, r.lobby, IF q.completion = None THEN {q.side} ELSE {})
            /\ r.granted => ~Open(r.lobby)
<1> DEFINE r == LeaveServed(l, q)
           c == IF q.completion = None THEN {q.side} ELSE {}
           reported == RecordReport(l, q.side, q.completion)
<1>1. q.side \in Sides /\ q.completion \in Reports \cup {None}
  BY DEF Leaves
<1>2. CASE q.completion = None
  <2> DEFINE k == Concede(l, q.side)
  <2>1. r.lobby = Depart(k, q.side)
    BY <1>2 DEF LeaveServed
  <2>2. k = Publish(l, Resignation(q.side))
    <3>1. l.guest # None
      BY DEF SameMatch, Sound, Shaped, IsStartedLifecycle
    <3> QED BY <3>1 DEF Concede, SameMatch
  <2>3. SameMatch(k) /\ Grows(l, k) /\ Resigns(l, k, {q.side}) /\ k.result # None
    BY <1>1, <2>2, ResignGrows
  <2> HIDE DEF k
  <2>4. /\ SameMatch(r.lobby) /\ Grows(k, r.lobby) /\ Resigns(k, r.lobby, {})
        /\ ~Open(r.lobby)
    BY <1>1, <2>1, <2>3, DepartGrows
  <2>5. Grows(l, r.lobby)
    BY <2>3, <2>4, GrowsTwice DEF SameMatch
  <2>6. Resigns(l, r.lobby, {q.side})
    BY <2>3, <2>4 DEF Resigns
  <2> QED BY <1>2, <2>4, <2>5, <2>6
<1>3. CASE q.completion # None /\ ExactPrefix(l, q.completion)
  <2>1. /\ SameMatch(reported) /\ Grows(l, reported) /\ Resigns(l, reported, {})
    BY <1>1, <1>3, ReportGrows
  <2>2. CASE ReportAccepted(l, q.side, q.completion)
    <3>1. r.lobby = Depart(reported, q.side)
      BY <1>3, <2>2 DEF LeaveServed
    <3>2. AnyReport(reported)
      <4>1. CASE l.resultReports[q.side] # None
        <5>1. reported = l
          BY <4>1 DEF RecordReport
        <5> QED BY <1>1, <4>1, <5>1 DEF AnyReport
      <4>2. CASE l.resultReports[q.side] = None
        <5>1. l.result = None
          BY <2>2, <4>2 DEF ReportAccepted
        <5>2. NewReport(l, q.side, q.completion, reported)
          BY <1>1, <1>3, <4>2, <5>1, RecordReportProgress, RecordReportFields DEF SameMatch
        <5> HIDE DEF reported
        <5> QED BY <1>1, <1>3, <5>2 DEF NewReport, AnyReport
      <4> QED BY <4>1, <4>2
    <3> HIDE DEF reported
    <3>3. /\ SameMatch(r.lobby) /\ Grows(reported, r.lobby) /\ ~Open(r.lobby)
          /\ Resigns(reported, r.lobby, {})
      BY <1>1, <2>1, <3>1, <3>2, DepartGrows
    <3>4. Grows(l, r.lobby)
      BY <2>1, <3>3, GrowsTwice DEF SameMatch
    <3>5. Resigns(l, r.lobby, {})
      BY <2>1, <3>3 DEF Resigns
    <3> QED BY <1>3, <3>3, <3>4, <3>5
  <2>3. CASE ~ReportAccepted(l, q.side, q.completion)
    <3>1. r.lobby = reported /\ r.granted = FALSE
      BY <1>3, <2>3 DEF LeaveServed
    <3> QED BY <1>3, <2>1, <3>1
  <2> QED BY <2>2, <2>3
<1>4. CASE q.completion # None /\ ~ExactPrefix(l, q.completion)
  <2>1. r.lobby = l /\ r.granted = FALSE
    BY <1>4 DEF LeaveServed
  <2> QED BY <2>1, GrowsSelf DEF SameMatch
<1> QED BY <1>2, <1>3, <1>4

----------------------------------------------------------------------------
(* Bags *)

LEMMA SetBag == ASSUME NEW S PROVE IsABag(SetToBag(S)) /\ BagToSet(SetToBag(S)) = S
BY DEF IsABag, SetToBag, BagToSet

LEMMA BagPlus ==
  ASSUME NEW a, NEW b, IsABag(a), IsABag(b)
  PROVE  IsABag(a (+) b) /\ BagToSet(a (+) b) = BagToSet(a) \cup BagToSet(b)
<1> DEFINE c == a (+) b
<1>1. DOMAIN c = DOMAIN a \cup DOMAIN b
  BY DEF (+)
<1>2. ASSUME NEW e \in DOMAIN a \cup DOMAIN b PROVE c[e] \in {n \in Nat : n > 0}
  BY <1>2 DEF (+), IsABag
<1>3. c = [e \in DOMAIN c |-> c[e]]
  BY DEF (+)
<1> HIDE DEF c
<1>4. IsABag(c) /\ BagToSet(c) = BagToSet(a) \cup BagToSet(b)
  BY <1>1, <1>2, <1>3 DEF IsABag, BagToSet
<1> QED BY <1>4 DEF c

LEMMA BagMinus ==
  ASSUME NEW a, NEW m, IsABag(a)
  PROVE  IsABag(a (-) SetToBag({m})) /\ BagToSet(a (-) SetToBag({m})) \subseteq BagToSet(a)
<1> DEFINE b == SetToBag({m})
           d == [e \in DOMAIN a |-> IF e \in DOMAIN b THEN a[e] - b[e] ELSE a[e]]
           c == [e \in {x \in DOMAIN d : d[x] > 0} |-> d[e]]
<1>1. a (-) b = c
  BY DEF (-)
<1>2. ASSUME NEW e \in DOMAIN a, d[e] > 0 PROVE d[e] \in {n \in Nat : n > 0}
  BY <1>2 DEF IsABag, SetToBag
<1>3. DOMAIN d = DOMAIN a
  OBVIOUS
<1> HIDE DEF d
<1>4. IsABag(c) /\ BagToSet(c) \subseteq BagToSet(a)
  BY <1>2, <1>3 DEF IsABag, BagToSet
<1> QED BY <1>1, <1>4

----------------------------------------------------------------------------
(* The inductive invariant *)

\* A move that was accepted is in the log; one that could still be is journaled.
PostTrue(l, j, p) ==
  /\ p.stage = "accepted" => InLog(l, p.move)
  /\ p.stage = "sent" /\ Live(l, p.move) => j[p.move.side] = p.move

\* A Leave names the finished game, or the match is decided, or it concedes; granted, it
\* ends the relay.
LeaveTrue(l, c, q) ==
  /\ q.stage = "sent" /\ q.completion = None => q.side \in c \/ l.result # None
  /\ q.stage = "done" => ~Open(l)

ResultTrue(l, c) == \A s \in Sides : l.result = Resignation(s) => s \in c

\* A request on the wire carries no answer yet.
PostsGood(l, j, S) ==
  \A p \in S :
    /\ p \in Posts
    /\ p.stage = "sent" => p.gate = FALSE /\ p.floor = 0
    /\ l # None => PostTrue(l, j, p)

LeavesGood(l, c, S) ==
  \A q \in S :
    /\ q \in Leaves
    /\ q.tab # None => q.side = SeatOf(q.tab)
    /\ l # None => LeaveTrue(l, c, q)

WireGood(c, b) ==
  IsABag(b) /\ \A m \in BagToSet(b) : m \in Wire /\ (m.kind = "resign" => m.side \in c)

TabsSane == \A t \in Tabs : Sane(lobby, SeatOf(t), issued, View(t))

OneLease ==
  \A t, u \in Tabs : t # u /\ SeatOf(t) = SeatOf(u) => ~(tabs[t].lease /\ tabs[u].lease)

RecordGood == lobby \in Lobby \cup {None} /\ (lobby # None => SameMatch(lobby) /\ ResultTrue(lobby, conceded))

ClientsGood ==
  /\ tabs \in [Tabs -> Tab] /\ journal \in [Sides -> Moves \cup {None}]
  /\ TabsSane /\ OneLease

CountersGood ==
  issued \in Nat /\ entries \in Nat /\ faults \in Nat /\ conceded \subseteq Sides

IInv ==
  /\ RecordGood /\ ClientsGood /\ CountersGood
  /\ PostsGood(lobby, journal, posts)
  /\ LeavesGood(lobby, conceded, leaves)
  /\ WireGood(conceded, wire)

LEMMA Typed == IInv => TypeOK
BY DEF IInv, RecordGood, ClientsGood, CountersGood, PostsGood, LeavesGood, WireGood, TypeOK

LEMMA SeatType == ASSUME NEW t \in Tabs PROVE SeatOf(t) \in Sides
BY DEF SeatOf, Sides

LEMMA ViewType ==
  ASSUME TypeOK, NEW t \in Tabs
  PROVE  View(t) \in Views /\ View(t).tab = tabs[t] /\ View(t).journal = journal[SeatOf(t)]
BY SeatType DEF TypeOK, View, Views

\* What happened to the journal of a seat is no harm to its other tabs.
LEMMA SaneBeside ==
  ASSUME NEW l, NEW s, NEW n \in Nat, NEW tab, NEW j, Sane(l, s, n, [tab |-> tab, journal |-> j]),
         NEW k \in Moves \cup {None}, JournalStep(l, j, k)
  PROVE  Sane(l, s, n, [tab |-> tab, journal |-> k])
<1> DEFINE v == [tab |-> tab, journal |-> j]
           w == [tab |-> tab, journal |-> k]
<1>1. v \in Views /\ v.tab = tab /\ v.journal = j
  BY DEF Sane
<1>2. w \in Views /\ w.tab = tab /\ w.journal = k
  BY <1>1 DEF Views
<1> HIDE DEF v, w
<1>3. Sane(l, s, n, v)
  BY DEF v
<1>4. ASSUME l # None PROVE Holding(l, s, n, w)
  BY <1>1, <1>2, <1>3, <1>4 DEF Sane, Holding, JournalStep, Live
<1>5. Sane(l, s, n, w)
  BY <1>1, <1>2, <1>3, <1>4 DEF Sane
<1> QED BY <1>5 DEF w

\* One tab moves on, and the journal of its seat with it.
LEMMA TabStep ==
  ASSUME IInv, NEW t \in Tabs, NEW x, NEW j,
         tabs' = [tabs EXCEPT ![t] = x], journal' = [journal EXCEPT ![SeatOf(t)] = j],
         lobby' = lobby, issued' = issued,
         Sane(lobby, SeatOf(t), issued, [tab |-> x, journal |-> j]),
         JournalStep(lobby, journal[SeatOf(t)], j),
         x.lease => tabs[t].lease \/ LeaseFree(t)
  PROVE  ClientsGood' /\ PostsGood(lobby, journal', posts)
<1>1. TypeOK /\ TabsSane /\ OneLease
  BY Typed DEF IInv, ClientsGood
<1>2. x \in Tab /\ j \in Moves \cup {None} /\ SeatOf(t) \in Sides
  BY SeatType DEF Sane, Views
<1>3. tabs' \in [Tabs -> Tab] /\ journal' \in [Sides -> Moves \cup {None}]
  BY <1>1, <1>2 DEF TypeOK
<1>4. ASSUME NEW u \in Tabs PROVE Sane(lobby', SeatOf(u), issued', View(u)')
  <2>1. issued \in Nat /\ SeatOf(u) \in Sides
    BY <1>1, SeatType DEF TypeOK
  <2>2. CASE u = t
    <3>1. View(u)' = [tab |-> x, journal |-> j]
      BY <1>1, <1>2, <2>2 DEF TypeOK, View
    <3> QED BY <2>2, <3>1
  <2>3. CASE u # t /\ SeatOf(u) = SeatOf(t)
    <3>1. View(u)' = [tab |-> tabs[u], journal |-> j]
      BY <1>1, <1>2, <2>3 DEF TypeOK, View
    <3>2. Sane(lobby, SeatOf(u), issued, [tab |-> tabs[u], journal |-> journal[SeatOf(t)]])
      BY <1>1, <2>3 DEF TabsSane, View
    <3> QED BY <1>2, <2>1, <3>1, <3>2, SaneBeside
  <2>4. CASE SeatOf(u) # SeatOf(t)
    <3>1. View(u)' = View(u)
      BY <1>1, <1>2, <2>1, <2>4 DEF TypeOK, View
    <3> QED BY <1>1, <3>1 DEF TabsSane
  <2> QED BY <2>2, <2>3, <2>4
<1>5. OneLease'
  <2>1. SUFFICES ASSUME NEW u \in Tabs, NEW w \in Tabs, u # w, SeatOf(u) = SeatOf(w),
                        tabs'[u].lease, tabs'[w].lease
                 PROVE  FALSE
    BY DEF OneLease, SeatOf
  <2>2. CASE u # t /\ w # t
    BY <1>1, <2>1, <2>2 DEF OneLease, TypeOK
  <2>3. CASE u = t
    BY <1>1, <2>1, <2>3 DEF OneLease, TypeOK, LeaseFree
  <2>4. CASE w = t
    BY <1>1, <2>1, <2>4 DEF OneLease, TypeOK, LeaseFree
  <2> QED BY <2>2, <2>3, <2>4
<1>6. ASSUME lobby # None, NEW p \in posts PROVE PostTrue(lobby, journal', p)
  <2>1. PostTrue(lobby, journal, p)
    BY <1>6 DEF IInv, PostsGood
  <2>2. p.move \in Moves /\ p.move.side \in Sides
    BY <1>1 DEF TypeOK, Posts, Moves
  <2>3. ASSUME p.stage = "sent", Live(lobby, p.move) PROVE journal'[p.move.side] = p.move
    <3>1. journal[p.move.side] = p.move
      BY <2>1, <2>3 DEF PostTrue
    <3>2. CASE p.move.side # SeatOf(t)
      BY <1>1, <2>2, <3>1, <3>2 DEF TypeOK
    <3>3. CASE p.move.side = SeatOf(t)
      <4>1. j = p.move \/ p.move = None
        BY <1>6, <2>3, <3>1, <3>3 DEF JournalStep
      <4>2. j = p.move
        BY <1>6, <2>3, <3>1, <3>3, <4>1 DEF JournalStep
      <4> QED BY <1>1, <2>2, <3>3, <4>2 DEF TypeOK
    <3> QED BY <3>2, <3>3
  <2> QED BY <2>1, <2>3 DEF PostTrue
<1>7. TabsSane'
  BY <1>4 DEF TabsSane, SeatOf
<1>8. PostsGood(lobby, journal', posts)
  BY <1>6 DEF IInv, PostsGood
<1> QED BY <1>3, <1>5, <1>7, <1>8 DEF ClientsGood

\* ... when its view comes from the operators of NetTab, and it sends the reports it owes.
LEMMA InstallStep ==
  ASSUME IInv, NEW t \in Tabs, NEW v, NEW reports \in SUBSET Reports, Install(t, v, reports),
         Good(lobby, SeatOf(t), issued, View(t), v), lobby' = lobby, issued' = issued
  PROVE  ClientsGood' /\ PostsGood(lobby, journal', posts) /\ WireGood(conceded, wire')
<1>1. TypeOK /\ View(t).tab = tabs[t] /\ View(t).journal = journal[SeatOf(t)] /\ SeatOf(t) \in Sides
  BY Typed, ViewType, SeatType
<1>2. v \in Views /\ v = [tab |-> v.tab, journal |-> v.journal] /\ v.tab \in Tab
  BY DEF Good, Sane, Views
<1>3. ClientsGood' /\ PostsGood(lobby, journal', posts)
  <2>1. Sane(lobby, SeatOf(t), issued, [tab |-> v.tab, journal |-> v.journal])
    BY <1>2 DEF Good
  <2>2. JournalStep(lobby, journal[SeatOf(t)], v.journal) /\ (v.tab.lease => tabs[t].lease)
    BY <1>1 DEF Good
  <2>3. tabs' = [tabs EXCEPT ![t] = v.tab] /\ journal' = [journal EXCEPT ![SeatOf(t)] = v.journal]
    BY DEF Install
  <2> QED BY <2>1, <2>2, <2>3, TabStep
<1>4. WireGood(conceded, wire')
  <2> DEFINE due == DueReports(tabs[t], v.tab)
             a == SetToBag(ReportsOf(t, reports))
             b == SetToBag(ReportsOf(t, due))
  <2>1. due \subseteq Reports
    <3>1. \A r \in due : r = TerminalReport(v.tab) /\ v.tab.terminal # None
      BY DEF DueReports
    <3>2. v.tab.terminal # None => TerminalReport(v.tab) \in Reports
      BY <1>2 DEF TerminalReport, Reports, Tab, Count
    <3> QED BY <3>1, <3>2
  <2>2. wire' = (wire (+) a) (+) b
    BY DEF Install
  <2> HIDE DEF due
  <2>3. \A m \in ReportsOf(t, reports) \cup ReportsOf(t, due) : m \in Wire /\ m.kind # "resign"
    BY <1>1, <2>1 DEF ReportsOf, Wire
  <2>4. /\ IsABag(a) /\ BagToSet(a) = ReportsOf(t, reports)
        /\ IsABag(b) /\ BagToSet(b) = ReportsOf(t, due)
    BY SetBag
  <2> HIDE DEF a, b
  <2>5. IsABag(wire) /\ \A m \in BagToSet(wire) : m \in Wire /\ (m.kind = "resign" => m.side \in conceded)
    BY DEF IInv, WireGood
  <2>6. IsABag(wire (+) a) /\ BagToSet(wire (+) a) = BagToSet(wire) \cup BagToSet(a)
    BY <2>4, <2>5, BagPlus
  <2>7. IsABag(wire') /\ BagToSet(wire') = BagToSet(wire (+) a) \cup BagToSet(b)
    BY <2>2, <2>4, <2>6, BagPlus
  <2> QED BY <2>3, <2>4, <2>5, <2>6, <2>7 DEF WireGood
<1> QED BY <1>3, <1>4

\* ... and keeps its seat's journal.
LEMMA TabOnly ==
  ASSUME IInv, NEW t \in Tabs, NEW x, tabs' = [tabs EXCEPT ![t] = x], journal' = journal,
         lobby' = lobby, issued' = issued,
         Sane(lobby, SeatOf(t), issued, [tab |-> x, journal |-> journal[SeatOf(t)]]),
         x.lease => tabs[t].lease \/ LeaseFree(t)
  PROVE  ClientsGood'
<1>1. journal' = [journal EXCEPT ![SeatOf(t)] = journal[SeatOf(t)]]
  BY SeatType DEF IInv, ClientsGood
<1>2. JournalStep(lobby, journal[SeatOf(t)], journal[SeatOf(t)])
  BY DEF JournalStep
<1> QED BY <1>1, <1>2, TabStep

\* What a tab hears from the server when its record goes from lobby to lobby'.
Heard(a, b, f) ==
  /\ b \in Tab
  /\ b.mode = a.mode /\ b.seen = a.seen /\ b.lease = a.lease /\ b.board = a.board
  /\ b.pending = a.pending /\ b.halted = a.halted /\ b.verdict = a.verdict /\ b.reads = a.reads
  /\ b.inbox \in {a.inbox, Append(a.inbox, f)}

LEMMA LiveShrinks ==
  ASSUME NEW l \in Lobby, NEW m \in Lobby, Grows(l, m), NEW x \in Moves, Live(m, x)
  PROVE  Live(l, x)
<1>1. Len(l.moves) \in Nat /\ Len(m.moves) \in Nat /\ x.i \in Nat
  BY DEF Lobby, Moves
<1> QED BY <1>1 DEF Live, Grows

LEMMA LogKept ==
  ASSUME NEW l \in Lobby, NEW m \in Lobby, Grows(l, m), NEW e \in Moves, InLog(l, e)
  PROVE  InLog(m, e)
<1>1. l.moves \in Seq(Moves) /\ m.moves \in Seq(Moves) /\ e.i \in Nat
  BY DEF Lobby, Moves
<1> QED BY <1>1 DEF InLog, Grows

LEMMA SaneGrows ==
  ASSUME NEW l \in Lobby, l # None, NEW m \in Lobby, Grows(l, m), NEW s \in Sides, NEW n \in Nat,
         NEW tab, NEW j, Sane(l, s, n, [tab |-> tab, journal |-> j]), NEW x, NEW f,
         Heard(tab, x, f), TrueFrame(m, f)
  PROVE  Sane(m, s, n, [tab |-> x, journal |-> j])
<1> DEFINE v == [tab |-> tab, journal |-> j]
           w == [tab |-> x, journal |-> j]
<1>1. v \in Views /\ v.tab = tab /\ v.journal = j /\ tab \in Tab
  BY DEF Sane, Views
<1>2. w \in Views /\ w.tab = x /\ w.journal = j
  BY <1>1 DEF Views, Heard
<1> HIDE DEF v, w
<1>3. SeenKnown(tab) /\ Follows(l, tab) /\ Told(l, tab) /\ Holding(l, s, n, v)
  BY <1>1 DEF Sane, v
<1>4. SeenKnown(x)
  BY <1>3 DEF SeenKnown, Heard
<1>5. l.moves \in Seq(Moves) /\ m.moves \in Seq(Moves) /\ tab.board \in Seq(Moves)
  BY <1>1 DEF Lobby, Tab
<1>6. Follows(m, x)
  <2>1. PrefixOf(x.board, m.moves)
    BY <1>3, <1>5 DEF Follows, PrefixOf, Heard, Grows
  <2>2. ASSUME x.verdict # None
        PROVE  x.verdict = m.result /\ (x.halted \/ Len(x.board) = Len(m.moves))
    BY <1>3, <2>2 DEF Follows, Heard, Grows
  <2> QED BY <2>1, <2>2 DEF Follows
<1>7. \A y : TrueSnapshot(l, y) => TrueSnapshot(m, y)
  BY DEF TrueSnapshot, Grows
<1>8. Told(m, x)
  <2>1. tab.inbox \in Seq(Frames)
    BY <1>1 DEF Tab
  <2>2. ASSUME NEW k \in DOMAIN tab.inbox PROVE TrueFrame(m, tab.inbox[k])
    <3>1. tab.inbox[k] \in Frames /\ TrueFrame(l, tab.inbox[k])
      BY <1>3, <2>1, <2>2 DEF Told
    <3>2. tab.inbox[k].kind = "move" => tab.inbox[k].event \in Moves
      BY <3>1 DEF Frames
    <3> QED BY <1>7, <3>1, <3>2, LogKept DEF TrueFrame
  <2>3. \A k \in DOMAIN x.inbox : TrueFrame(m, x.inbox[k])
    <3>1. CASE x.inbox = tab.inbox
      BY <2>2, <3>1
    <3>2. CASE x.inbox = Append(tab.inbox, f)
      <4>1. \A k \in DOMAIN x.inbox : x.inbox[k] = f \/ (k \in DOMAIN tab.inbox /\ x.inbox[k] = tab.inbox[k])
        BY <2>1, <3>2
      <4> QED BY <2>2, <4>1
    <3> QED BY <3>1, <3>2 DEF Heard
  <2>4. \A r \in x.reads : r.seen # None => TrueSnapshot(m, r.seen)
    BY <1>3, <1>7 DEF Told, Heard
  <2>5. x.mode \in {"entering", "catching"} => TrueSnapshot(m, x.seen)
    BY <1>3, <1>7 DEF Told, Heard
  <2> QED BY <2>3, <2>4, <2>5 DEF Told
<1>9. Holding(m, s, n, w)
  <2>1. tab.pending \in Moves \cup {None}
    BY <1>1 DEF Tab
  <2> QED BY <1>1, <1>2, <1>3, <2>1, LiveShrinks DEF Holding, Heard
<1> QED BY <1>2, <1>4, <1>6, <1>8, <1>9 DEF Sane, w

LEMMA SaneGone ==
  ASSUME NEW l, NEW s, NEW n, NEW tab, NEW j, Sane(l, s, n, [tab |-> tab, journal |-> j]),
         NEW x, NEW f, Heard(tab, x, f)
  PROVE  Sane(None, s, n, [tab |-> x, journal |-> j])
<1>1. [tab |-> tab, journal |-> j] \in Views /\ SeenKnown(tab)
  BY DEF Sane
<1>2. [tab |-> x, journal |-> j] \in Views /\ SeenKnown(x)
  BY <1>1 DEF Views, Heard, SeenKnown
<1> QED BY <1>2 DEF Sane

\* The server takes a step, and the frame f says so.
LEMMA ServerStep ==
  ASSUME IInv, lobby # None, lobby' \in Lobby \cup {None}, lobby' # None => Grows(lobby, lobby'),
         NEW f, lobby' # None => TrueFrame(lobby', f),
         tabs' \in [Tabs -> Tab], \A t \in Tabs : Heard(tabs[t], tabs'[t], f),
         journal' = journal, issued' = issued
  PROVE  ClientsGood' /\ PostsGood(lobby', journal', posts)
<1>1. TypeOK /\ TabsSane /\ OneLease /\ lobby \in Lobby /\ journal \in [Sides -> Moves \cup {None}]
  BY Typed DEF IInv, ClientsGood, TypeOK
<1>2. ASSUME NEW t \in Tabs PROVE Sane(lobby', SeatOf(t), issued', View(t)')
  <2>1. /\ SeatOf(t) \in Sides /\ issued \in Nat
        /\ View(t)' = [tab |-> tabs'[t], journal |-> journal[SeatOf(t)]]
        /\ Sane(lobby, SeatOf(t), issued, [tab |-> tabs[t], journal |-> journal[SeatOf(t)]])
    BY <1>1, SeatType DEF TypeOK, TabsSane, View
  <2>2. Heard(tabs[t], tabs'[t], f)
    OBVIOUS
  <2>3. CASE lobby' # None
    BY <1>1, <2>1, <2>2, <2>3, SaneGrows
  <2>4. CASE lobby' = None
    BY <2>1, <2>2, <2>4, SaneGone
  <2> QED BY <2>3, <2>4
<1>3. TabsSane'
  BY <1>2 DEF TabsSane, SeatOf
<1>4. OneLease'
  <2>1. \A t \in Tabs : tabs'[t].lease = tabs[t].lease
    BY DEF Heard
  <2> QED BY <1>1, <2>1 DEF OneLease, SeatOf
<1>5. PostsGood(lobby', journal', posts)
  <2>1. ASSUME NEW p \in posts, lobby' # None PROVE PostTrue(lobby', journal', p)
    <3>1. PostTrue(lobby, journal, p) /\ p.move \in Moves
      BY <1>1 DEF IInv, PostsGood, Posts
    <3> QED BY <1>1, <2>1, <3>1, LiveShrinks, LogKept DEF PostTrue
  <2> QED BY <2>1 DEF IInv, PostsGood
<1>6. journal' \in [Sides -> Moves \cup {None}]
  BY <1>1
<1> QED BY <1>3, <1>4, <1>5, <1>6 DEF ClientsGood

\* Leave requests survive a step of the server.
LEMMA LeavesKept ==
  ASSUME IInv, lobby # None, lobby' \in Lobby \cup {None}, lobby' # None => Grows(lobby, lobby')
  PROVE  LeavesGood(lobby', conceded, leaves)
<1>1. ASSUME NEW q \in leaves, lobby' # None PROVE LeaveTrue(lobby', conceded, q)
  <2>1. LeaveTrue(lobby, conceded, q)
    BY DEF IInv, LeavesGood
  <2> QED BY <1>1, <2>1 DEF LeaveTrue, Grows
<1> QED BY <1>1 DEF IInv, LeavesGood

----------------------------------------------------------------------------
(* One lemma per action: what the tabs do *)

\* A step that is not the server's: what is left to show of it.
LEMMA ClientStep ==
  ASSUME IInv, ClientsGood', lobby' = lobby, conceded' = conceded,
         issued' \in Nat, entries' \in Nat, faults' \in Nat,
         PostsGood(lobby, journal', posts'), LeavesGood(lobby, conceded, leaves'),
         WireGood(conceded, wire')
  PROVE  IInv'
BY DEF IInv, RecordGood, CountersGood

LEMMA PostsSubset ==
  ASSUME NEW l, NEW j, NEW S, PostsGood(l, j, S), NEW T \in SUBSET S PROVE PostsGood(l, j, T)
BY DEF PostsGood

\* The events of a backfill are the log's.
LEMMA MovesUpToTrue ==
  ASSUME IInv, NEW t \in Tabs, NEW floor \in Nat, NEW k, Fetched(t, floor, k)
  PROVE  /\ MovesUpTo(t, k) \in Seq(Moves)
         /\ \A i \in DOMAIN MovesUpTo(t, k) : InLog(lobby, MovesUpTo(t, k)[i])
<1> DEFINE log == lobby.moves
           m == Count(tabs[t]) + 1
           events == SubSeq(log, m, k)
<1>1. lobby \in Lobby /\ SameMatch(lobby)
  BY DEF Fetched, IInv, RecordGood
<1>2. log \in Seq(Moves) /\ \A i \in DOMAIN log : log[i].i = i - 1
  BY <1>1 DEF Lobby, SameMatch, Sound, OrderedLog
<1>3. m \in Nat /\ m >= 1 /\ k \in Nat /\ k <= Len(log)
  <2>1. Len(tabs[t].board) \in Nat
    BY DEF IInv, ClientsGood, Tab
  <2> QED BY <1>2, <2>1 DEF Fetched, Count
<1> HIDE DEF m, log
<1>4. \A i \in m..k : i \in DOMAIN log /\ log[i] \in Moves
  BY <1>2, <1>3
<1>5. /\ events \in Seq(Moves)
      /\ Len(events) = IF m <= k THEN k - m + 1 ELSE 0
      /\ \A i \in 1..(k - m + 1) : events[i] = log[m + i - 1]
  BY <1>3, <1>4, SubSeqProperties
<1>6. ASSUME NEW i \in DOMAIN events PROVE InLog(lobby, events[i])
  <2> HIDE DEF events
  <2>1. i \in 1..(k - m + 1) /\ m + i - 1 \in m..k
    BY <1>3, <1>5, <1>6
  <2>2. events[i] = log[m + i - 1] /\ m + i - 1 \in DOMAIN log
    BY <1>4, <1>5, <2>1
  <2>3. events[i].i + 1 = m + i - 1
    BY <1>2, <1>3, <2>1, <2>2
  <2> QED BY <2>2, <2>3 DEF InLog, log
<1> QED BY <1>5, <1>6 DEF MovesUpTo, log, m

LEMMA BackfillGood ==
  ASSUME IInv, NEW t \in Tabs, NEW floor \in Nat, NEW k, Fetched(t, floor, k),
         NEW v, Good(lobby, SeatOf(t), issued, View(t), v)
  PROVE  LET w == ApplyMoves(v, SeatOf(t), MovesUpTo(t, k))
         IN Good(lobby, SeatOf(t), issued, View(t), w) /\ Steady(v, w)
<1>1. lobby \in Lobby \cup {None} /\ SeatOf(t) \in Sides /\ Sane(lobby, SeatOf(t), issued, v)
  BY SeatType DEF IInv, RecordGood, Good
<1> DEFINE w == ApplyMoves(v, SeatOf(t), MovesUpTo(t, k))
<1>2. Good(lobby, SeatOf(t), issued, v, w) /\ Steady(v, w)
  BY <1>1, MovesUpToTrue, ApplyMovesGood
<1> QED BY <1>2, GoodTwice

LEMMA FaultType == ASSUME IInv, NEW kind, Fault(kind) PROVE faults' \in Nat
BY DEF IInv, CountersGood, Fault

LEMMA NotFetchedType == ASSUME IInv, NotFetched PROVE faults' \in Nat
BY DEF IInv, CountersGood, Fault, NotFetched

LEMMA ViewSane ==
  ASSUME IInv, NEW t \in Tabs
  PROVE  /\ Sane(lobby, SeatOf(t), issued, View(t)) /\ SeatOf(t) \in Sides
         /\ lobby \in Lobby \cup {None} /\ View(t) \in Views /\ tabs[t] \in Tab
         /\ View(t).tab = tabs[t] /\ View(t).journal = journal[SeatOf(t)]
         /\ issued \in Nat /\ entries \in Nat /\ faults \in Nat
BY Typed, ViewType, SeatType DEF IInv, RecordGood, ClientsGood, CountersGood, TabsSane, TypeOK

LEMMA StepEnter == ASSUME IInv, NEW t \in Tabs, Enter(t) PROVE IInv'
<1> DEFINE x == Entering(Snapshot(lobby))
<1>1. lobby # None /\ lobby \in Lobby /\ Snapshot(lobby) \in Snapshots
  BY SnapshotType DEF Enter, IInv, RecordGood
<1>2. x \in Tab /\ x.mode = "entering" /\ x.seen = Snapshot(lobby) /\ x.lease = FALSE
      /\ x.board = <<>> /\ x.pending = None /\ x.verdict = None /\ x.reads = {} /\ x.inbox = <<>>
  BY <1>1, EnteringType DEF Entering, Away
<1> HIDE DEF x
<1>3. Sane(lobby, SeatOf(t), issued, [tab |-> x, journal |-> journal[SeatOf(t)]])
  <2> DEFINE v == [tab |-> x, journal |-> journal[SeatOf(t)]]
  <2>1. v \in Views /\ v.tab = x /\ v.journal = journal[SeatOf(t)]
    BY <1>2, ViewSane DEF Views
  <2> HIDE DEF v
  <2>2. Len(lobby.moves) \in Nat
    BY <1>1 DEF Lobby
  <2>3. Follows(lobby, x)
    BY <1>2, <2>2 DEF Follows, PrefixOf
  <2>4. Told(lobby, x)
    <3>1. TrueSnapshot(lobby, Snapshot(lobby))
      BY DEF TrueSnapshot, Snapshot
    <3> QED BY <1>2, <3>1 DEF Told
  <2>5. Holding(lobby, SeatOf(t), issued, v)
    <3>1. Holding(lobby, SeatOf(t), issued, View(t)) /\ View(t).journal = journal[SeatOf(t)]
      BY <1>1, ViewSane DEF Sane
    <3> QED BY <1>2, <2>1, <3>1 DEF Holding
  <2>6. SeenKnown(x)
    BY <1>1, <1>2 DEF SeenKnown
  <2> QED BY <2>1, <2>3, <2>4, <2>5, <2>6 DEF Sane, v
<1>4. ClientsGood'
  BY <1>2, <1>3, TabOnly DEF Enter, x
<1> QED BY <1>4, ClientStep DEF Enter, IInv, CountersGood

LEMMA StepTakeSeat == ASSUME IInv, NEW t \in Tabs, TakeSeat(t) PROVE IInv'
<1> DEFINE j == journal[SeatOf(t)]
           free == LeaseFree(t)
           some == j # None
           x == NewNetMatch(tabs[t], j, free)
<1>1. /\ Sane(lobby, SeatOf(t), issued, View(t)) /\ tabs[t] \in Tab /\ j \in Moves \cup {None}
      /\ View(t).tab = tabs[t] /\ View(t).journal = j
  BY ViewSane DEF Views
<1>2. free \in BOOLEAN /\ some \in BOOLEAN
  BY DEF LeaseFree
<1>3. x = [tabs[t] EXCEPT !.mode = "catching", !.lease = free, !.pending = j, !.uncertain = some]
  BY DEF NewNetMatch
<1> HIDE DEF j, free, some, x
<1>4. /\ x \in Tab /\ x.mode = "catching" /\ x.lease = free /\ x.pending = j
      /\ x.seen = tabs[t].seen /\ x.board = tabs[t].board /\ x.halted = tabs[t].halted
      /\ x.verdict = tabs[t].verdict /\ x.reads = tabs[t].reads /\ x.inbox = tabs[t].inbox
  BY <1>1, <1>2, <1>3 DEF Tab
<1>5. Sane(lobby, SeatOf(t), issued, [tab |-> x, journal |-> j])
  <2> DEFINE v == [tab |-> x, journal |-> j]
  <2>1. v \in Views /\ v.tab = x /\ v.journal = j
    BY <1>1, <1>4 DEF Views
  <2> HIDE DEF v
  <2>2. tabs[t].mode = "entering" /\ SeenKnown(x)
    BY <1>1, <1>4 DEF TakeSeat, Sane, SeenKnown
  <2>3. ASSUME lobby # None PROVE Follows(lobby, x) /\ Told(lobby, x) /\ Holding(lobby, SeatOf(t), issued, v)
    BY <1>1, <1>4, <2>1, <2>2, <2>3 DEF Sane, Follows, Told, Holding
  <2> QED BY <2>1, <2>2, <2>3 DEF Sane, v
<1>6. tabs' = [tabs EXCEPT ![t] = x] /\ journal' = journal /\ lobby' = lobby /\ issued' = issued
  BY DEF TakeSeat, server, x, j, free
<1>7. ClientsGood'
  BY <1>4, <1>5, <1>6, TabOnly DEF j, free
<1> QED BY <1>6, <1>7, ClientStep DEF TakeSeat, network, IInv, CountersGood

LEMMA StepCatchUp == ASSUME IInv, NEW t \in Tabs, CatchUp(t) PROVE IInv'
<1> DEFINE s == SeatOf(t)
           floor == tabs[t].seen.count
<1>1. /\ Sane(lobby, s, issued, View(t)) /\ s \in Sides /\ lobby \in Lobby \cup {None}
      /\ View(t).tab = tabs[t] /\ tabs[t].mode = "catching"
      /\ View(t) \in Views
  BY ViewSane DEF CatchUp
<1>2. floor \in Nat
  BY <1>1 DEF Sane, SeenKnown, Snapshots
<1>3. lobby' = lobby /\ issued' = issued
  BY DEF CatchUp, server
<1>4. ASSUME NEW v, NEW synchronized, Good(lobby, s, issued, View(t), v), Steady(View(t), v),
             synchronized => Count(v.tab) >= floor, Install(t, CaughtUp(v, synchronized), {})
      PROVE  ClientsGood' /\ PostsGood(lobby, journal', posts) /\ WireGood(conceded, wire')
  <2>1. v.tab.mode = "catching" /\ v.tab.seen.count = floor /\ Sane(lobby, s, issued, v)
    BY <1>1, <1>4 DEF Steady, Good
  <2>2. Good(lobby, s, issued, v, CaughtUp(v, synchronized))
    BY <1>1, <1>4, <2>1, CaughtUpGood
  <2>3. Good(lobby, s, issued, View(t), CaughtUp(v, synchronized))
    BY <1>4, <2>2, GoodTwice
  <2> QED BY <1>3, <1>4, <2>3, InstallStep
<1>5. /\ ClientsGood' /\ PostsGood(lobby, journal', posts) /\ WireGood(conceded, wire')
      /\ faults' \in Nat
  <2>1. CASE \E k \in 0..MaxMoves :
               /\ Fetched(t, floor, k)
               /\ LET v == ApplyMoves(View(t), s, MovesUpTo(t, k))
                  IN Install(t, CaughtUp(v, Count(v.tab) >= floor), {})
    <3>1. PICK k \in 0..MaxMoves :
               /\ Fetched(t, floor, k)
               /\ LET v == ApplyMoves(View(t), s, MovesUpTo(t, k))
                  IN Install(t, CaughtUp(v, Count(v.tab) >= floor), {})
      BY <2>1
    <3> DEFINE v == ApplyMoves(View(t), s, MovesUpTo(t, k))
    <3>2. Good(lobby, s, issued, View(t), v) /\ Steady(View(t), v)
      BY <1>1, <1>2, <3>1, GoodSelf, BackfillGood
    <3>3. faults' \in Nat
      BY <3>1 DEF Fetched, IInv, CountersGood
    <3>4. Install(t, CaughtUp(v, Count(v.tab) >= floor), {})
      BY <3>1
    <3> HIDE DEF v
    <3> QED BY <1>4, <3>2, <3>3, <3>4
  <2>2. CASE NotFetched /\ Install(t, CaughtUp(View(t), floor = 0), {})
    <3>1. Good(lobby, s, issued, View(t), View(t)) /\ Steady(View(t), View(t))
      BY <1>1, GoodSelf DEF Steady
    <3>2. floor = 0 => Count(View(t).tab) >= floor
      BY <1>1 DEF Count, Views, Tab
    <3> QED BY <1>4, <2>2, <3>1, <3>2, NotFetchedType
  <2> QED BY <2>1, <2>2 DEF CatchUp
<1> QED BY <1>3, <1>5, ClientStep DEF CatchUp, server, IInv, CountersGood

\* An orphan is a request that is still on the wire.
LEMMA OrphansAre ==
  ASSUME NEW t, NEW S, NEW r \in Orphans(t, S)
  PROVE  (r \in S /\ r.tab # t) \/ \E q \in S : q.stage = "sent" /\ r = [q EXCEPT !.tab = None]
BY DEF Orphans

LEMMA OrphanPosts ==
  ASSUME NEW l, NEW j, NEW S, PostsGood(l, j, S), NEW t
  PROVE  PostsGood(l, j, Orphans(t, S))
<1>1. SUFFICES ASSUME NEW r \in Orphans(t, S)
      PROVE  /\ r \in Posts
             /\ r.stage = "sent" => r.gate = FALSE /\ r.floor = 0
             /\ l # None => PostTrue(l, j, r)
  BY DEF PostsGood
<1>2. CASE r \in S
  BY <1>2 DEF PostsGood
<1>3. CASE \E q \in S : q.stage = "sent" /\ r = [q EXCEPT !.tab = None]
  <2>1. PICK q \in S : q.stage = "sent" /\ r = [q EXCEPT !.tab = None]
    BY <1>3
  <2>2. q \in Posts /\ q.gate = FALSE /\ q.floor = 0 /\ (l # None => PostTrue(l, j, q))
    BY <2>1 DEF PostsGood
  <2>3. /\ r = [tab |-> None, move |-> q.move, retry |-> q.retry, gate |-> FALSE, floor |-> 0,
                stage |-> "sent"]
        /\ q.move \in Moves /\ q.retry \in BOOLEAN
    BY <2>1, <2>2 DEF Posts
  <2>4. r \in Posts
    BY <2>3 DEF Posts
  <2>5. r.stage = q.stage /\ r.move = q.move
    BY <2>1, <2>3
  <2> QED BY <2>2, <2>3, <2>4, <2>5 DEF PostTrue
<1>4. r \in S \/ \E q \in S : q.stage = "sent" /\ r = [q EXCEPT !.tab = None]
  BY OrphansAre
<1> QED BY <1>2, <1>3, <1>4

LEMMA OrphanLeaves ==
  ASSUME NEW l, NEW c, NEW S, LeavesGood(l, c, S), NEW t
  PROVE  LeavesGood(l, c, Orphans(t, S))
<1>1. SUFFICES ASSUME NEW r \in Orphans(t, S)
      PROVE  /\ r \in Leaves /\ (r.tab # None => r.side = SeatOf(r.tab))
             /\ l # None => LeaveTrue(l, c, r)
  BY DEF LeavesGood
<1>2. CASE r \in S
  BY <1>2 DEF LeavesGood
<1>3. CASE \E q \in S : q.stage = "sent" /\ r = [q EXCEPT !.tab = None]
  <2>1. PICK q \in S : q.stage = "sent" /\ r = [q EXCEPT !.tab = None]
    BY <1>3
  <2>2. q \in Leaves /\ (l # None => LeaveTrue(l, c, q))
    BY DEF LeavesGood
  <2>3. /\ r \in Leaves /\ r.tab = None /\ r.stage = q.stage /\ r.side = q.side
        /\ r.completion = q.completion
    BY <2>1, <2>2 DEF Leaves
  <2> QED BY <2>2, <2>3 DEF LeaveTrue
<1> QED BY <1>2, <1>3, OrphansAre

\* A tab that is away holds nothing.
LEMMA AwaySane ==
  ASSUME IInv, NEW t \in Tabs, NEW j, JournalStep(lobby, journal[SeatOf(t)], j),
         j \in Moves \cup {None}
  PROVE  Sane(lobby, SeatOf(t), issued, [tab |-> Away, journal |-> j])
<1> DEFINE v == [tab |-> Away, journal |-> j]
<1>1. v \in Views /\ v.tab = Away /\ v.journal = j
  BY AwayType DEF Views
<1>2. /\ Away.mode = "away" /\ Away.board = <<>> /\ Away.pending = None /\ Away.verdict = None
      /\ Away.reads = {} /\ Away.inbox = <<>>
  BY DEF Away
<1> HIDE DEF v
<1>3. ASSUME lobby # None PROVE Follows(lobby, Away) /\ Told(lobby, Away) /\ Holding(lobby, SeatOf(t), issued, v)
  <2>1. Len(lobby.moves) \in Nat
    BY <1>3, ViewSane DEF Lobby
  <2>2. Follows(lobby, Away)
    BY <1>2, <2>1 DEF Follows, PrefixOf
  <2>3. Told(lobby, Away)
    BY <1>2 DEF Told
  <2>4. Holding(lobby, SeatOf(t), issued, v)
    <3>1. Holding(lobby, SeatOf(t), issued, View(t)) /\ View(t).journal = journal[SeatOf(t)]
      BY <1>3, ViewSane DEF Sane
    <3> QED BY <1>1, <1>2, <3>1 DEF Holding, JournalStep
  <2> QED BY <2>2, <2>3, <2>4
<1>4. SeenKnown(Away)
  BY <1>2 DEF SeenKnown
<1>5. Sane(lobby, SeatOf(t), issued, v)
  BY <1>1, <1>3, <1>4 DEF Sane
<1> QED BY <1>5 DEF v

LEMMA StepUnmount == ASSUME IInv, NEW t \in Tabs, Unmount(t) PROVE IInv'
<1>1. JournalStep(lobby, journal[SeatOf(t)], journal[SeatOf(t)]) /\ Away.lease = FALSE
  BY DEF JournalStep, Away
<1>2. journal[SeatOf(t)] \in Moves \cup {None}
  BY SeatType DEF IInv, ClientsGood
<1>3. /\ tabs' = [tabs EXCEPT ![t] = Away] /\ journal' = journal /\ lobby' = lobby
      /\ issued' = issued /\ entries' = entries /\ faults' = faults /\ conceded' = conceded
      /\ wire' = wire /\ posts' = Orphans(t, posts) /\ leaves' = Orphans(t, leaves)
  BY DEF Unmount, server
<1>4. ClientsGood'
  BY <1>1, <1>2, <1>3, AwaySane, TabOnly
<1> QED BY <1>3, <1>4, ClientStep, OrphanPosts, OrphanLeaves DEF IInv, CountersGood

\* A tab whose stream is broken, restored or told something true is as sane as before.
LEMMA HeardSane ==
  ASSUME IInv, NEW t \in Tabs, NEW x, NEW f, Heard(tabs[t], x, f),
         lobby # None /\ x.inbox = Append(tabs[t].inbox, f) => TrueFrame(lobby, f)
  PROVE  Sane(lobby, SeatOf(t), issued, [tab |-> x, journal |-> journal[SeatOf(t)]])
<1> DEFINE v == [tab |-> tabs[t], journal |-> journal[SeatOf(t)]]
<1>1. Sane(lobby, SeatOf(t), issued, v) /\ lobby \in Lobby \cup {None} /\ SeatOf(t) \in Sides /\ issued \in Nat
  BY ViewSane DEF View
<1>2. CASE lobby = None
  BY <1>1, <1>2, SaneGone
<1>3. CASE lobby # None /\ TrueFrame(lobby, f)
  BY <1>1, <1>3, SaneGrows, GrowsSelf
<1>4. CASE lobby # None /\ x.inbox = tabs[t].inbox
  <2> DEFINE g == [kind |-> "lobby", seen |-> Snapshot(lobby)]
  <2>1. TrueFrame(lobby, g)
    BY DEF TrueFrame, TrueSnapshot, Snapshot
  <2>2. Heard(tabs[t], x, g)
    BY <1>4 DEF Heard
  <2> HIDE DEF g
  <2> QED BY <1>1, <1>4, <2>1, <2>2, SaneGrows, GrowsSelf
<1> QED BY <1>2, <1>3, <1>4 DEF Heard

LEMMA StepConnect == ASSUME IInv, NEW t \in Tabs, Connect(t) PROVE IInv'
<1> DEFINE f == [kind |-> "lobby", seen |-> Snapshot(lobby)]
           inbox == Append(tabs[t].inbox, f)
           x == [tabs[t] EXCEPT !.streaming = TRUE, !.inbox = inbox]
<1>1. tabs[t] \in Tab /\ lobby \in Lobby /\ f \in Frames /\ TrueFrame(lobby, f)
  BY ViewSane, SnapshotType DEF Connect, Frames, TrueFrame, TrueSnapshot, Snapshot
<1>2. inbox \in Seq(Frames)
  BY <1>1 DEF Tab
<1>3. tabs' = [tabs EXCEPT ![t] = x]
  BY DEF Connect, IInv, ClientsGood
<1> HIDE DEF f, inbox
<1>4. Heard(tabs[t], x, f) /\ x.lease = tabs[t].lease
  BY <1>1, <1>2 DEF Tab, Heard, inbox
<1> HIDE DEF x
<1>5. Sane(lobby, SeatOf(t), issued, [tab |-> x, journal |-> journal[SeatOf(t)]])
  BY <1>1, <1>4, HeardSane
<1>6. ClientsGood'
  BY <1>3, <1>4, <1>5, TabOnly DEF Connect, server
<1> QED BY <1>6, ClientStep DEF Connect, server, network, IInv, CountersGood

LEMMA StepInterrupt == ASSUME IInv, NEW t \in Tabs, Interrupt(t) PROVE IInv'
<1> DEFINE inbox == <<>>
           x == [tabs[t] EXCEPT !.streaming = FALSE, !.inbox = inbox]
<1>1. Sane(lobby, SeatOf(t), issued, View(t)) /\ View(t).tab = tabs[t] /\ tabs[t] \in Tab
      /\ View(t).journal = journal[SeatOf(t)] /\ View(t) \in Views
  BY ViewSane
<1>2. tabs' = [tabs EXCEPT ![t] = x] /\ faults' \in Nat
  BY FaultType DEF Interrupt, IInv, ClientsGood
<1>3. inbox \in Seq(Frames) /\ inbox = <<>>
  OBVIOUS
<1> HIDE DEF inbox
<1>4. /\ x \in Tab /\ x.mode = tabs[t].mode /\ x.seen = tabs[t].seen /\ x.lease = tabs[t].lease
      /\ x.board = tabs[t].board /\ x.pending = tabs[t].pending /\ x.halted = tabs[t].halted
      /\ x.verdict = tabs[t].verdict /\ x.reads = tabs[t].reads /\ x.inbox = <<>>
  BY <1>1, <1>3 DEF Tab
<1> HIDE DEF x
<1>5. Sane(lobby, SeatOf(t), issued, [tab |-> x, journal |-> journal[SeatOf(t)]])
  <2> DEFINE v == [tab |-> x, journal |-> journal[SeatOf(t)]]
  <2>1. v \in Views /\ v.tab = x /\ v.journal = journal[SeatOf(t)]
    BY <1>1, <1>4 DEF Views
  <2> HIDE DEF v
  <2>2. SeenKnown(x)
    BY <1>1, <1>4 DEF Sane, SeenKnown
  <2>3. ASSUME lobby # None PROVE Follows(lobby, x) /\ Told(lobby, x) /\ Holding(lobby, SeatOf(t), issued, v)
    BY <1>1, <1>4, <2>1, <2>3 DEF Sane, Follows, Told, Holding
  <2> QED BY <2>1, <2>2, <2>3 DEF Sane, v
<1>6. ClientsGood'
  BY <1>2, <1>4, <1>5, TabOnly DEF Interrupt, server
<1> QED BY <1>2, <1>6, ClientStep DEF Interrupt, server, network, IInv, CountersGood

LEMMA NoReports == {} \in SUBSET Reports
OBVIOUS

LEMMA RepeatedType ==
  ASSUME NEW tab \in Tab, NEW x PROVE RepeatedReports(tab, x) \in SUBSET Reports
<1>1. tab.terminal # None => TerminalReport(tab) \in Reports
  BY DEF TerminalReport, Reports, Tab, Count
<1> QED BY <1>1 DEF RepeatedReports

LEMMA StepReceive == ASSUME IInv, NEW t \in Tabs, Receive(t) PROVE IInv'
<1> DEFINE s == SeatOf(t)
           f == Head(tabs[t].inbox)
           rest == Tail(tabs[t].inbox)
           x == [tabs[t] EXCEPT !.inbox = rest]
           v == [View(t) EXCEPT !.tab.inbox = Tail(@)]
<1>1. /\ Sane(lobby, s, issued, View(t)) /\ View(t) \in Views /\ View(t).tab = tabs[t] /\ tabs[t] \in Tab
      /\ s \in Sides /\ lobby \in Lobby \cup {None}
  BY ViewSane
<1>2. tabs[t].inbox \in Seq(Frames) /\ tabs[t].inbox # <<>>
  BY <1>1 DEF Tab, Receive
<1>3. f \in Frames /\ rest \in Seq(Frames) /\ (lobby # None => TrueFrame(lobby, f))
      /\ (lobby # None => \A k \in DOMAIN rest : TrueFrame(lobby, rest[k]))
  <2>1. f \in Frames /\ rest \in Seq(Frames) /\ f = tabs[t].inbox[1] /\ 1 \in DOMAIN tabs[t].inbox
    BY <1>2
  <2>2. \A k \in DOMAIN rest : k + 1 \in DOMAIN tabs[t].inbox /\ rest[k] = tabs[t].inbox[k + 1]
    BY <1>2
  <2>3. lobby # None => \A k \in DOMAIN tabs[t].inbox : TrueFrame(lobby, tabs[t].inbox[k])
    BY <1>1 DEF Sane, Told
  <2> HIDE DEF f, rest
  <2> QED BY <2>1, <2>2, <2>3
<1>4. v = [View(t) EXCEPT !.tab = x]
  BY <1>1 DEF Views
<1> HIDE DEF f, rest
<1>5. /\ x \in Tab /\ x.mode = tabs[t].mode /\ x.seen = tabs[t].seen /\ x.lease = tabs[t].lease
      /\ x.board = tabs[t].board /\ x.pending = tabs[t].pending /\ x.halted = tabs[t].halted
      /\ x.verdict = tabs[t].verdict /\ x.reads = tabs[t].reads /\ x.inbox = rest
  BY <1>1, <1>3 DEF Tab
<1> HIDE DEF x, v
<1>6. v \in Views /\ v.tab = x /\ v.journal = View(t).journal
  BY <1>1, <1>4, <1>5 DEF Views
<1>7. Good(lobby, s, issued, View(t), v)
  <2>1. SeenKnown(v.tab)
    BY <1>1, <1>5, <1>6 DEF Sane, SeenKnown
  <2>2. ASSUME lobby # None PROVE Follows(lobby, v.tab) /\ Told(lobby, v.tab) /\ Holding(lobby, s, issued, v)
    BY <1>1, <1>3, <1>5, <1>6, <2>2 DEF Sane, Follows, Told, Holding
  <2> QED BY <1>1, <1>5, <1>6, <2>1, <2>2 DEF Good, Sane, JournalStep
<1>8. lobby' = lobby /\ issued' = issued
  BY DEF Receive, server
<1>9. ClientsGood' /\ PostsGood(lobby, journal', posts) /\ WireGood(conceded, wire')
  <2>1. CASE f.kind = "move"
    <3>1. f.event \in Moves /\ (lobby # None => InLog(lobby, f.event))
      BY <1>3, <2>1 DEF Frames, TrueFrame
    <3>2. Good(lobby, s, issued, v, ApplyRelay(v, s, f.event))
      BY <1>1, <1>7, <3>1, ApplyRelayGood DEF Good
    <3>3. Good(lobby, s, issued, View(t), ApplyRelay(v, s, f.event))
      BY <1>7, <3>2, GoodTwice
    <3>4. Install(t, ApplyRelay(v, s, f.event), {})
      BY <2>1 DEF Receive, v, f
    <3> QED BY <1>8, <3>3, <3>4, InstallStep
  <2>2. CASE f.kind # "move"
    <3> DEFINE w == OnLobby(v, f.seen)
               reports == IF v.tab.halted \/ NeedsRead(v.tab, f.seen) THEN {}
                          ELSE RepeatedReports(w.tab, f.seen)
    <3>1. f.seen \in Snapshots /\ (lobby # None => TrueSnapshot(lobby, f.seen))
      BY <1>3, <2>2 DEF Frames, TrueFrame
    <3>2. Good(lobby, s, issued, v, w)
      BY <1>1, <1>7, <3>1, OnLobbyGood DEF Good
    <3>3. Good(lobby, s, issued, View(t), w) /\ w.tab \in Tab
      BY <1>7, <3>2, GoodTwice DEF Good, Sane, Views
    <3>4. Install(t, w, reports)
      BY <2>2 DEF Receive, v, f
    <3> HIDE DEF w
    <3>5. reports \in SUBSET Reports
      BY <3>3, RepeatedType, NoReports
    <3> QED BY <1>8, <3>3, <3>4, <3>5, InstallStep
  <2> QED BY <2>1, <2>2
<1> QED BY <1>8, <1>9, ClientStep DEF Receive, server, IInv, CountersGood

\* What After does with the view a backfill brought.
LEMMA ReadAfter ==
  ASSUME IInv, NEW t \in Tabs, lobby' = lobby, issued' = issued,
         NEW r \in Reads, lobby # None /\ r.seen # None => TrueSnapshot(lobby, r.seen),
         NEW w, Good(lobby, SeatOf(t), issued, View(t), w), NEW fetched,
         IF r.seen = None THEN Install(t, w, {})
         ELSE LET x == Continue(w, r.seen, fetched)
              IN Install(t, x, RepeatedReports(x.tab, r.seen))
  PROVE  ClientsGood' /\ PostsGood(lobby, journal', posts) /\ WireGood(conceded, wire')
<1>1. CASE r.seen = None
  BY <1>1, InstallStep, NoReports
<1>2. CASE r.seen # None
  <2> DEFINE x == Continue(w, r.seen, fetched)
  <2>1. r.seen \in Snapshots /\ SeatOf(t) \in Sides /\ lobby \in Lobby \cup {None}
    BY <1>2, ViewSane DEF Reads
  <2>2. Good(lobby, SeatOf(t), issued, w, x)
    BY <1>2, <2>1, ContinueGood DEF Good
  <2>3. Good(lobby, SeatOf(t), issued, View(t), x) /\ x.tab \in Tab
    BY <2>2, GoodTwice DEF Good, Sane, Views
  <2>4. Install(t, x, RepeatedReports(x.tab, r.seen))
    BY <1>2
  <2> HIDE DEF x
  <2>5. RepeatedReports(x.tab, r.seen) \in SUBSET Reports
    BY <2>3, RepeatedType
  <2> QED BY <2>3, <2>4, <2>5, InstallStep
<1> QED BY <1>1, <1>2

LEMMA StepReadReturns == ASSUME IInv, NEW t \in Tabs, ReadReturns(t) PROVE IInv'
<1> DEFINE s == SeatOf(t)
           After(r, w, fetched) ==
             IF r.seen = None THEN Install(t, w, {})
             ELSE LET x == Continue(w, r.seen, fetched)
                  IN Install(t, x, RepeatedReports(x.tab, r.seen))
           Start(r) == [View(t) EXCEPT !.tab.reads = @ \ {r}]
<1>1. /\ Sane(lobby, s, issued, View(t)) /\ View(t) \in Views /\ View(t).tab = tabs[t] /\ tabs[t] \in Tab
      /\ s \in Sides /\ lobby \in Lobby \cup {None}
  BY ViewSane
<1>2. PICK r \in tabs[t].reads :
        \/ \E k \in 0..MaxMoves :
             /\ Fetched(t, r.floor, k)
             /\ After(r, ApplyMoves(Start(r), s, MovesUpTo(t, k)), TRUE)
        \/ NotFetched /\ After(r, Start(r), FALSE)
  BY DEF ReadReturns
<1> DEFINE v == Start(r)
           x == [tabs[t] EXCEPT !.reads = @ \ {r}]
<1>3. r \in Reads /\ r.floor \in Nat /\ (lobby # None /\ r.seen # None => TrueSnapshot(lobby, r.seen))
  BY <1>1, <1>2 DEF Tab, Sane, Told, Reads
<1>4. v = [View(t) EXCEPT !.tab = x]
  BY <1>1 DEF Views
<1>5. /\ x \in Tab /\ x.mode = tabs[t].mode /\ x.seen = tabs[t].seen /\ x.lease = tabs[t].lease
      /\ x.board = tabs[t].board /\ x.pending = tabs[t].pending /\ x.halted = tabs[t].halted
      /\ x.verdict = tabs[t].verdict /\ x.reads \subseteq tabs[t].reads /\ x.inbox = tabs[t].inbox
  BY <1>1 DEF Tab
<1>6. lobby' = lobby /\ issued' = issued
  BY DEF ReadReturns, server
<1> HIDE DEF x, After, Start
<1>7. v \in Views /\ v.tab = x /\ v.journal = View(t).journal
  BY <1>1, <1>4, <1>5 DEF Views
<1>8. Good(lobby, s, issued, View(t), v)
  <2>1. SeenKnown(v.tab)
    BY <1>1, <1>5, <1>7 DEF Sane, SeenKnown
  <2>2. ASSUME lobby # None PROVE Follows(lobby, v.tab) /\ Told(lobby, v.tab) /\ Holding(lobby, s, issued, v)
    BY <1>1, <1>5, <1>7, <2>2 DEF Sane, Follows, Told, Holding
  <2> QED BY <1>1, <1>5, <1>7, <2>1, <2>2 DEF Good, Sane, JournalStep
<1>9. /\ ClientsGood' /\ PostsGood(lobby, journal', posts) /\ WireGood(conceded, wire')
      /\ faults' \in Nat
  <2>1. CASE \E k \in 0..MaxMoves :
               Fetched(t, r.floor, k) /\ After(r, ApplyMoves(v, s, MovesUpTo(t, k)), TRUE)
    <3>1. PICK k \in 0..MaxMoves :
               Fetched(t, r.floor, k) /\ After(r, ApplyMoves(v, s, MovesUpTo(t, k)), TRUE)
      BY <2>1
    <3> DEFINE w == ApplyMoves(v, s, MovesUpTo(t, k))
    <3>2. Good(lobby, s, issued, View(t), w)
      BY <1>3, <1>8, <3>1, BackfillGood
    <3>3. After(r, w, TRUE) /\ faults' \in Nat
      BY <3>1 DEF Fetched, IInv, CountersGood
    <3> HIDE DEF w
    <3> QED BY <1>3, <1>6, <3>2, <3>3, ReadAfter DEF After
  <2>2. CASE NotFetched /\ After(r, v, FALSE)
    BY <1>3, <1>6, <1>8, <2>2, ReadAfter, NotFetchedType DEF After
  <2> QED BY <1>2, <2>1, <2>2
<1> QED BY <1>6, <1>9, ClientStep DEF ReadReturns, server, IInv, CountersGood

----------------------------------------------------------------------------
(* One lemma per action: moves *)

\* A new gesture is journaled before it is sent, and it takes its number after every
\* other; one that is claimed from the journal is there already.
LEMMA StepSubmit == ASSUME IInv, NEW t \in Tabs, NEW g \in Gestures, Submit(t, g) PROVE IInv'
<1> DEFINE s == SeatOf(t)
           n == Count(tabs[t])
           Claimed(d) == d # None /\ d.i >= n
           Intent(d) == IF Claimed(d) THEN d
                        ELSE [i |-> n, side |-> s, intentId |-> issued + 1, gesture |-> g]
<1>1. PICK d \in JournalSeen(t) :
        /\ MaySubmit(t) /\ g \in Playable[s] /\ (Claimed(d) \/ issued + 1 \in Intents)
        /\ issued' = IF Claimed(d) THEN issued ELSE issued + 1
        /\ journal' = [journal EXCEPT ![s] = Intent(d)]
        /\ tabs' = [tabs EXCEPT ![t].pending = Intent(d), ![t].uncertain = Claimed(d)]
        /\ posts' = IF Intent(d).i = n THEN posts \cup {Post(t, Intent(d), FALSE)} ELSE posts
        /\ UNCHANGED <<server, wire, leaves, entries, faults, conceded>>
  BY DEF Submit
<1> DEFINE claimed == Claimed(d)
           intent == Intent(d)
           x == [tabs[t] EXCEPT !.pending = intent, !.uncertain = claimed]
<1>2. /\ Sane(lobby, s, issued, View(t)) /\ View(t) \in Views /\ View(t).tab = tabs[t]
      /\ View(t).journal = journal[s] /\ tabs[t] \in Tab
      /\ s \in Sides /\ lobby \in Lobby \cup {None} /\ issued \in Nat
      /\ journal \in [Sides -> Moves \cup {None}] /\ tabs \in [Tabs -> Tab]
  BY ViewSane DEF IInv, ClientsGood
<1>3. n \in Nat /\ tabs[t].lease
  BY <1>1, <1>2 DEF Count, Tab, MaySubmit, HasSink
<1>4. d = journal[s]
  <2>1. \A u \in Tabs \ {t} : SeatOf(u) = s => ~tabs[u].lease
    BY <1>3 DEF IInv, ClientsGood, OneLease
  <2> QED BY <2>1 DEF JournalSeen
<1>5. intent \in Moves /\ claimed \in BOOLEAN
  <2>1. CASE claimed
    BY <1>2, <1>4, <2>1
  <2>2. CASE ~claimed
    BY <1>1, <1>2, <1>3, <2>2 DEF Moves
  <2> QED BY <2>1, <2>2
<1>6. IF claimed THEN intent = journal[s] /\ issued' = issued
      ELSE /\ intent.i = n /\ intent.side = s /\ intent.intentId = issued + 1 /\ issued' = issued + 1
           /\ journal[s] # None => journal[s].i < n
  <2>1. journal[s] # None => journal[s].i \in Nat
    BY <1>2 DEF Moves
  <2> QED BY <1>1, <1>3, <1>4, <2>1
<1>7. tabs' = [tabs EXCEPT ![t] = x]
  BY <1>1, <1>2
<1> HIDE DEF intent, claimed
<1>8. /\ x \in Tab /\ x.mode = tabs[t].mode /\ x.seen = tabs[t].seen /\ x.lease = tabs[t].lease
      /\ x.board = tabs[t].board /\ x.pending = intent /\ x.halted = tabs[t].halted
      /\ x.verdict = tabs[t].verdict /\ x.reads = tabs[t].reads /\ x.inbox = tabs[t].inbox
  BY <1>2, <1>5 DEF Tab
<1> HIDE DEF x, n
<1>9. lobby' = lobby /\ conceded' = conceded /\ journal' = [journal EXCEPT ![s] = intent]
      /\ posts' = (IF intent.i = n THEN posts \cup {Post(t, intent, FALSE)} ELSE posts)
      /\ wire' = wire /\ leaves' = leaves /\ entries' = entries /\ faults' = faults
  BY <1>1 DEF server, intent
<1>10. issued' \in Nat /\ issued <= issued'
  BY <1>2, <1>6
\* What was journaled before cannot be accepted any more, unless it is claimed.
<1>11. ASSUME lobby # None PROVE claimed \/ journal[s] = None \/ ~Live(lobby, journal[s])
  <2>1. n <= Len(lobby.moves) /\ Len(lobby.moves) \in Nat
    BY <1>2, <1>3, <1>11 DEF Sane, Follows, PrefixOf, Lobby, n, Count
  <2>2. journal[s] # None => journal[s].i \in Nat
    BY <1>2 DEF Moves
  <2> QED BY <1>3, <1>6, <2>1, <2>2 DEF Live
<1>12. ASSUME lobby # None, NEW m \in Moves, Live(lobby, m), journal[s] = m PROVE claimed
  BY <1>11, <1>12, NoneAssumption DEF Moves
<1>13. ASSUME NEW u \in Tabs PROVE Sane(lobby, SeatOf(u), issued', View(u)')
  <2>1. /\ Sane(lobby, SeatOf(u), issued, View(u)) /\ SeatOf(u) \in Sides /\ View(u).tab = tabs[u]
        /\ View(u).journal = journal[SeatOf(u)] /\ tabs[u] \in Tab /\ View(u) \in Views
    BY ViewSane
  <2> DEFINE v == View(u)'
  <2>2. /\ v.tab = tabs'[u] /\ v.journal = journal'[SeatOf(u)] /\ tabs'[u] \in Tab
        /\ journal'[SeatOf(u)] \in Moves \cup {None} /\ v \in Views
        /\ tabs'[u] = IF u = t THEN x ELSE tabs[u]
        /\ journal'[SeatOf(u)] = IF SeatOf(u) = s THEN intent ELSE journal[SeatOf(u)]
    BY <1>2, <1>5, <1>7, <1>8, <1>9, <2>1 DEF View, Views
  <2> HIDE DEF v
  <2>3. SeenKnown(v.tab)
    BY <1>2, <1>8, <2>1, <2>2 DEF Sane, SeenKnown
  <2>4. ASSUME lobby # None PROVE Follows(lobby, v.tab) /\ Told(lobby, v.tab)
    <3>1. CASE u = t
      BY <1>2, <1>8, <2>2, <2>4, <3>1 DEF Sane, Follows, Told
    <3>2. CASE u # t
      BY <2>1, <2>2, <2>4, <3>2 DEF Sane
    <3> QED BY <3>1, <3>2
  <2>5. ASSUME lobby # None PROVE Holding(lobby, SeatOf(u), issued', v)
    <3>1. Holding(lobby, SeatOf(u), issued, View(u)) /\ Holding(lobby, s, issued, View(t))
      BY <1>2, <2>1, <2>5 DEF Sane
    <3>2. intent # None /\ intent.intentId \in Nat /\ intent.intentId <= issued' /\ intent.side = s
      <4>1. \A m \in Moves : m # None /\ m.intentId \in Nat
        BY NoneAssumption, MatchBoundsAssumption DEF Moves
      <4>2. intent # None /\ intent.intentId \in Nat
        BY <1>5, <4>1
      <4> QED BY <1>2, <1>6, <3>1, <4>2 DEF Holding
    <3>3. CASE u = t
      <4>1. v.tab.pending = intent /\ v.journal = intent
        BY <1>8, <2>2, <3>3
      <4> QED BY <3>2, <3>3, <4>1 DEF Holding
    <3>4. CASE u # t /\ SeatOf(u) = s
      <4> DEFINE m == tabs[u].pending
      <4>1. v.tab.pending = m /\ v.journal = intent
        BY <2>2, <3>4
      <4>2. CASE m = None
        BY <3>2, <3>4, <4>1, <4>2 DEF Holding
      <4>3. CASE m # None
        <5>1. /\ m \in Moves /\ m.side = s /\ m.intentId \in Nat /\ m.intentId <= issued
              /\ Live(lobby, m) => journal[s] = m
              /\ journal[s] # None /\ journal[s].intentId = m.intentId => journal[s] = m
          BY <2>1, <3>1, <3>4, <4>3, MatchBoundsAssumption DEF Holding, Tab, Moves
        <5>2. Live(lobby, m) => intent = m
          BY <1>6, <1>12, <2>5, <5>1
        <5>3. intent.intentId = m.intentId => intent = m
          <6>1. CASE claimed
            BY <1>6, <3>2, <5>1, <6>1
          <6>2. CASE ~claimed
            BY <1>2, <1>6, <5>1, <6>2
          <6> QED BY <6>1, <6>2
        <5>4. m.intentId <= issued'
          BY <1>2, <1>10, <5>1
        <5> HIDE DEF m
        <5> QED BY <3>2, <3>4, <4>1, <5>1, <5>2, <5>3, <5>4 DEF Holding
      <4> QED BY <4>2, <4>3
    <3>5. CASE SeatOf(u) # s
      <4>1. v.tab = tabs[u] /\ v.journal = journal[SeatOf(u)]
        BY <2>2, <3>5
      <4>2. v = View(u)
        BY <2>1, <2>2, <4>1 DEF Views
      <4>3. \A m \in Moves \cup {None} : m # None => m.intentId \in Nat
        BY MatchBoundsAssumption DEF Moves
      <4> QED BY <1>2, <1>10, <2>1, <3>1, <4>2, <4>3 DEF Holding, Tab, Views
    <3> QED BY <3>3, <3>4, <3>5
  <2>6. Sane(lobby, SeatOf(u), issued', v)
    BY <2>2, <2>3, <2>4, <2>5 DEF Sane
  <2> QED BY <2>6 DEF v
<1>14. ClientsGood'
  <2>1. TabsSane'
    BY <1>9, <1>13 DEF TabsSane, SeatOf
  <2>2. tabs' \in [Tabs -> Tab] /\ journal' \in [Sides -> Moves \cup {None}]
    BY <1>2, <1>5, <1>7, <1>8, <1>9
  <2>3. \A u \in Tabs : tabs'[u].lease = tabs[u].lease
    BY <1>2, <1>7, <1>8
  <2>4. OneLease'
    BY <2>3 DEF IInv, ClientsGood, OneLease, SeatOf
  <2> QED BY <2>1, <2>2, <2>4 DEF ClientsGood
<1>15. ASSUME NEW p \in posts, lobby # None PROVE PostTrue(lobby, journal', p)
  <2>1. PostTrue(lobby, journal, p) /\ p.move \in Moves /\ p.move.side \in Sides
    BY <1>15 DEF IInv, PostsGood, Posts, Moves
  <2>2. ASSUME p.stage = "sent", Live(lobby, p.move) PROVE journal'[p.move.side] = p.move
    <3>1. journal[p.move.side] = p.move
      BY <2>1, <2>2 DEF PostTrue
    <3>2. CASE p.move.side = s
      BY <1>2, <1>6, <1>9, <1>12, <1>15, <2>1, <2>2, <3>1, <3>2
    <3>3. CASE p.move.side # s
      BY <1>2, <1>9, <2>1, <3>1, <3>3
    <3> QED BY <3>2, <3>3
  <2> QED BY <2>1, <2>2 DEF PostTrue
<1>16. PostsGood(lobby, journal', posts')
  <2> DEFINE q == Post(t, intent, FALSE)
  <2>1. /\ q \in Posts /\ q.stage = "sent" /\ q.gate = FALSE /\ q.floor = 0 /\ q.move = intent
    BY <1>5 DEF Post, Posts
  <2> HIDE DEF q
  <2>2. lobby # None => PostTrue(lobby, journal', q)
    <3>1. intent.side = s \/ lobby = None
      BY <1>2, <1>4, <1>5, <1>6, NoneAssumption DEF Sane, Holding, Moves
    <3> QED BY <1>2, <1>9, <2>1, <3>1 DEF PostTrue
  <2>3. posts' \subseteq posts \cup {q}
    BY <1>9 DEF q
  <2> QED BY <1>15, <2>1, <2>2, <2>3 DEF PostsGood, IInv
<1> QED BY <1>9, <1>10, <1>14, <1>16, ClientStep DEF IInv, CountersGood

\* A request that is given up on, or that checks the log, claims nothing any more.
LEMMA CheckingGood ==
  ASSUME IInv, NEW p \in posts, p.tab # None, NEW gate \in BOOLEAN, NEW floor \in Nat, NEW l, NEW j,
         NEW q, q = [p EXCEPT !.stage = "checking", !.gate = gate, !.floor = floor]
  PROVE  PostsGood(l, j, {q})
<1>1. p \in Posts
  BY DEF IInv, PostsGood
<1>2. /\ p \in [tab: Tabs, move: Moves, retry: BOOLEAN, gate: BOOLEAN, floor: Nat,
                stage: {"sent", "accepted", "refused", "checking"}]
  BY <1>1 DEF Posts
<1>3. q \in Posts /\ q.stage = "checking"
  BY <1>2 DEF Posts
<1> QED BY <1>3 DEF PostsGood, PostTrue

LEMMA PostsUnion ==
  ASSUME NEW l, NEW j, NEW S, NEW T, PostsGood(l, j, S), PostsGood(l, j, T)
  PROVE  PostsGood(l, j, S \cup T)
BY DEF PostsGood

LEMMA FloorType == ASSUME IInv PROVE (IF lobby = None THEN 0 ELSE Len(lobby.moves)) \in Nat
BY DEF IInv, RecordGood, Lobby

LEMMA PostOf ==
  ASSUME IInv, NEW p \in posts
  PROVE  /\ p.move \in Moves /\ p.retry \in BOOLEAN /\ p.gate \in BOOLEAN /\ p.floor \in Nat
         /\ p.tab \in Tabs \cup {None} /\ p.move.side \in Sides /\ p.move.i \in Nat
         /\ p.move.intentId \in Intents /\ p.move.gesture \in Gestures
         /\ p.stage # "sent" => p.tab \in Tabs
         /\ lobby # None => PostTrue(lobby, journal, p)
<1>1. p \in Posts /\ (lobby # None => PostTrue(lobby, journal, p))
  BY DEF IInv, PostsGood
<1>2. /\ p.move \in Moves /\ p.retry \in BOOLEAN /\ p.gate \in BOOLEAN /\ p.floor \in Nat
      /\ p.tab \in Tabs \cup {None} /\ (p.stage # "sent" => p.tab \in Tabs)
  <2>1. CASE p \in [tab: Tabs, move: Moves, retry: BOOLEAN, gate: BOOLEAN, floor: Nat,
                    stage: {"sent", "accepted", "refused", "checking"}]
    <3>1. p.move \in Moves /\ p.floor \in Nat /\ p.tab \in Tabs
      BY <2>1
    <3>2. p.retry \in BOOLEAN
      BY <2>1
    <3>3. p.gate \in BOOLEAN
      BY <2>1
    <3> QED BY <3>1, <3>2, <3>3
  <2>2. CASE p \in [tab: {None}, move: Moves, retry: BOOLEAN, gate: {FALSE}, floor: {0}, stage: {"sent"}]
    <3>1. p.move \in Moves /\ p.floor \in Nat /\ p.tab = None /\ p.stage = "sent"
      BY <2>2
    <3>2. p.retry \in BOOLEAN
      BY <2>2
    <3>3. p.gate \in BOOLEAN
      BY <2>2
    <3> QED BY <3>1, <3>2, <3>3, Zenon
  <2> QED BY <1>1, <2>1, <2>2 DEF Posts
<1>3. /\ p.move.side \in Sides /\ p.move.i \in Nat
      /\ p.move.intentId \in Intents /\ p.move.gesture \in Gestures
  BY <1>2 DEF Moves
<1> QED BY <1>1, <1>2, <1>3

LEMMA StepPostFails == ASSUME IInv, NEW p \in posts, PostFails(p) PROVE IInv'
<1> DEFINE floor == IF lobby = None THEN 0 ELSE Len(lobby.moves)
           q == [p EXCEPT !.stage = "checking", !.gate = FALSE, !.floor = floor]
           o == Post(None, p.move, FALSE)
<1>1. /\ UNCHANGED <<server, client, wire, leaves>> /\ faults' \in Nat /\ p.tab # None
      /\ posts' \subseteq posts \cup {q} \cup {o}
      /\ p.stage # "sent" => posts' \subseteq posts \cup {q}
  BY FaultType DEF PostFails
<1>2. lobby' = lobby /\ conceded' = conceded /\ tabs' = tabs /\ journal' = journal /\ issued' = issued
      /\ entries' = entries /\ wire' = wire /\ leaves' = leaves
  BY <1>1 DEF server, client
<1>3. floor \in Nat
  BY FloorType
<1> HIDE DEF floor
<1>4. PostsGood(lobby, journal, {q})
  BY <1>1, <1>3, CheckingGood
<1> HIDE DEF q
<1>5. PostsGood(lobby, journal, posts)
  BY DEF IInv
<1>6. PostsGood(lobby, journal, posts')
  <2>1. CASE p.stage = "sent"
    <3>1. /\ o \in Posts /\ o.stage = "sent" /\ o.gate = FALSE /\ o.floor = 0 /\ o.move = p.move
      BY PostOf DEF Post, Posts
    <3> HIDE DEF o
    <3>2. PostsGood(lobby, journal, {o})
      BY <2>1, <3>1, PostOf DEF PostsGood, PostTrue
    <3>3. PostsGood(lobby, journal, posts \cup {q} \cup {o})
      BY <1>4, <1>5, <3>2, PostsUnion
    <3> QED BY <1>1, <3>3, PostsSubset
  <2>2. CASE p.stage # "sent"
    <3>1. PostsGood(lobby, journal, posts \cup {q})
      BY <1>4, <1>5, PostsUnion
    <3> QED BY <1>1, <2>2, <3>1, PostsSubset
  <2> QED BY <2>1, <2>2
<1>7. ClientsGood'
  BY <1>2 DEF IInv, ClientsGood, TabsSane, OneLease, View, SeatOf
<1> QED BY <1>1, <1>2, <1>6, <1>7, ClientStep DEF IInv, CountersGood

LEMMA StepLosePost == ASSUME IInv, NEW p \in posts, LosePost(p) PROVE IInv'
<1>1. lobby' = lobby /\ conceded' = conceded /\ tabs' = tabs /\ journal' = journal /\ issued' = issued
      /\ entries' = entries /\ wire' = wire /\ leaves' = leaves /\ faults' = faults
      /\ posts' = posts \ {p}
  BY DEF LosePost, server, client
<1>2. ClientsGood'
  BY <1>1 DEF IInv, ClientsGood, TabsSane, OneLease, View, SeatOf
<1> QED BY <1>1, <1>2, ClientStep, PostsSubset DEF IInv, CountersGood

\* An operator that is quiet on the tab of a good view.
LEMMA QuietAfter ==
  ASSUME NEW l, NEW s, NEW n, NEW v, NEW w, Good(l, s, n, v, w), NEW x, Quiet(w.tab, x)
  PROVE  Good(l, s, n, v, [w EXCEPT !.tab = x])
<1>1. Good(l, s, n, w, [w EXCEPT !.tab = x])
  BY QuietGood DEF Good
<1> QED BY <1>1, GoodTwice

LEMMA StepPostAnswered == ASSUME IInv, NEW p \in posts, PostAnswered(p) PROVE IInv'
<1> DEFINE t == p.tab
           s == SeatOf(t)
<1>1. t \in Tabs
  BY PostOf DEF PostAnswered
<1>2. /\ Sane(lobby, s, issued, View(t)) /\ s \in Sides /\ lobby \in Lobby \cup {None}
  BY <1>1, ViewSane
<1>3. lobby' = lobby /\ issued' = issued /\ conceded' = conceded /\ leaves' = leaves
      /\ entries' = entries /\ faults' = faults
  BY DEF PostAnswered, server
<1>4. CASE p.stage = "accepted"
  <2> DEFINE v == ApplyRelay(View(t), s, p.move)
             x == RetryEnded(v.tab, p.move, FALSE)
             w == IF p.retry THEN [v EXCEPT !.tab = RetryEnded(@, p.move, FALSE)] ELSE v
  <2>1. Install(t, w, {}) /\ posts' = posts \ {p}
    BY <1>4 DEF PostAnswered
  <2>2. p.move \in Moves /\ (lobby # None => InLog(lobby, p.move))
    BY <1>4, PostOf DEF PostTrue
  <2>3. Good(lobby, s, issued, View(t), v)
    BY <1>2, <2>2, ApplyRelayGood
  <2> HIDE DEF v
  <2>4. Quiet(v.tab, x)
    BY <2>2, <2>3, RetryEndedQuiet DEF Good, Sane, Views
  <2>5. Good(lobby, s, issued, View(t), [v EXCEPT !.tab = x])
    BY <2>3, <2>4, QuietAfter
  <2>6. Good(lobby, s, issued, View(t), w)
    BY <2>3, <2>5
  <2> HIDE DEF w, t, s
  <2>7. ClientsGood' /\ PostsGood(lobby, journal', posts) /\ WireGood(conceded, wire')
    BY <1>1, <1>3, <2>1, <2>6, InstallStep, NoReports DEF s
  <2>8. PostsGood(lobby, journal', posts')
    BY <2>1, <2>7, PostsSubset
  <2> QED BY <1>3, <2>7, <2>8, ClientStep DEF IInv, CountersGood
<1>5. CASE p.stage = "refused"
  <2> DEFINE floor == IF lobby = None THEN 0 ELSE Len(lobby.moves)
             q == [p EXCEPT !.stage = "checking", !.floor = floor]
  <2>1. tabs' = tabs /\ journal' = journal /\ wire' = wire /\ posts' \subseteq posts \cup {q} /\ p.tab # None
    BY <1>5 DEF PostAnswered
  <2>2. floor \in Nat /\ p.gate \in BOOLEAN
    BY FloorType, PostOf
  <2> HIDE DEF floor
  <2>3. q = [p EXCEPT !.stage = "checking", !.gate = p.gate, !.floor = floor]
    BY <1>5, PostOf DEF IInv, PostsGood, Posts
  <2> HIDE DEF q
  <2>4. PostsGood(lobby, journal, {q})
    BY <2>1, <2>2, <2>3, CheckingGood
  <2>5. PostsGood(lobby, journal, posts \cup {q})
    BY <2>4, PostsUnion DEF IInv
  <2>6. PostsGood(lobby, journal', posts')
    BY <2>1, <2>5, PostsSubset
  <2>7. ClientsGood'
    BY <1>3, <2>1 DEF IInv, ClientsGood, TabsSane, OneLease, View, SeatOf
  <2> QED BY <1>3, <2>1, <2>6, <2>7, ClientStep DEF IInv, CountersGood
<1> QED BY <1>4, <1>5 DEF PostAnswered

LEMMA StepCheckReturns == ASSUME IInv, NEW p \in posts, CheckReturns(p) PROVE IInv'
<1> DEFINE t == p.tab
           s == SeatOf(t)
           End(v, fetched) == IF p.retry THEN RetryEnded(v.tab, p.move, p.gate)
                              ELSE FirstChecked(v.tab, p.move, fetched, p.gate)
<1>1. t \in Tabs /\ p.move \in Moves /\ p.floor \in Nat
  BY PostOf DEF CheckReturns
<1>2. /\ Sane(lobby, s, issued, View(t)) /\ s \in Sides /\ lobby \in Lobby \cup {None}
  BY <1>1, ViewSane
<1>3. lobby' = lobby /\ issued' = issued /\ conceded' = conceded /\ leaves' = leaves
      /\ entries' = entries /\ posts' = posts \ {p}
  BY DEF CheckReturns, server
<1>4. ASSUME NEW v, NEW fetched, Good(lobby, s, issued, View(t), v),
             Install(t, [v EXCEPT !.tab = End(v, fetched)], {})
      PROVE  ClientsGood' /\ PostsGood(lobby, journal', posts) /\ WireGood(conceded, wire')
  <2>1. v.tab \in Tab
    BY <1>4 DEF Good, Sane, Views
  <2>2. Quiet(v.tab, End(v, fetched))
    BY <1>1, <2>1, RetryEndedQuiet, FirstCheckedQuiet
  <2> HIDE DEF End, s, t
  <2>3. Good(lobby, s, issued, View(t), [v EXCEPT !.tab = End(v, fetched)])
    BY <1>4, <2>2, QuietAfter
  <2> QED BY <1>1, <1>3, <1>4, <2>3, InstallStep, NoReports DEF s
<1>5. /\ ClientsGood' /\ PostsGood(lobby, journal', posts) /\ WireGood(conceded, wire')
      /\ faults' \in Nat
  <2>1. CASE \E k \in 0..MaxMoves :
               /\ Fetched(t, p.floor, k)
               /\ LET v == ApplyMoves(View(t), s, MovesUpTo(t, k))
                  IN Install(t, [v EXCEPT !.tab = End(v, TRUE)], {})
    <3>1. PICK k \in 0..MaxMoves :
               /\ Fetched(t, p.floor, k)
               /\ LET v == ApplyMoves(View(t), s, MovesUpTo(t, k))
                  IN Install(t, [v EXCEPT !.tab = End(v, TRUE)], {})
      BY <2>1
    <3> DEFINE v == ApplyMoves(View(t), s, MovesUpTo(t, k))
    <3>2. Install(t, [v EXCEPT !.tab = End(v, TRUE)], {}) /\ Fetched(t, p.floor, k)
      BY <3>1
    <3>3. Good(lobby, s, issued, View(t), v)
      BY <1>1, <1>2, <3>2, GoodSelf, BackfillGood
    <3>4. faults' \in Nat
      BY <3>2 DEF Fetched, IInv, CountersGood
    <3> HIDE DEF v, End
    <3> QED BY <1>4, <3>2, <3>3, <3>4
  <2>2. CASE NotFetched /\ Install(t, [View(t) EXCEPT !.tab = End(View(t), FALSE)], {})
    <3>1. Good(lobby, s, issued, View(t), View(t))
      BY <1>2, GoodSelf
    <3> HIDE DEF End
    <3> QED BY <1>4, <2>2, <3>1, NotFetchedType
  <2>3. \/ \E k \in 0..MaxMoves :
             /\ Fetched(t, p.floor, k)
             /\ LET v == ApplyMoves(View(t), s, MovesUpTo(t, k))
                IN Install(t, [v EXCEPT !.tab = End(v, TRUE)], {})
        \/ NotFetched /\ Install(t, [View(t) EXCEPT !.tab = End(View(t), FALSE)], {})
    BY DEF CheckReturns
  <2> QED BY <2>1, <2>2, <2>3
<1>6. PostsGood(lobby, journal', posts')
  BY <1>3, <1>5, PostsSubset
<1> QED BY <1>3, <1>5, <1>6, ClientStep DEF IInv, CountersGood

LEMMA StepRetryTimer ==
  ASSUME IInv, NEW t \in Tabs, NEW m \in tabs[t].retrying, RetryTimer(t, m) PROVE IInv'
<1> DEFINE current == BelongsToThisMatch(tabs[t]) /\ tabs[t].pending = m /\ tabs[t].uncertain
           x == [tabs[t] EXCEPT !.retrying = @ \ {m}]
           q == Post(t, m, TRUE)
<1>1. /\ posts' = IF current THEN posts \cup {q} ELSE posts
      /\ tabs' = IF current THEN tabs ELSE [tabs EXCEPT ![t].retrying = @ \ {m}]
      /\ lobby' = lobby /\ issued' = issued /\ conceded' = conceded /\ leaves' = leaves
      /\ entries' = entries /\ journal' = journal /\ wire' = wire /\ faults' = faults
  BY DEF RetryTimer, server
<1>2. /\ Sane(lobby, SeatOf(t), issued, View(t)) /\ tabs[t] \in Tab /\ View(t).tab = tabs[t]
      /\ View(t).journal = journal[SeatOf(t)] /\ View(t) \in Views
  BY ViewSane
<1>3. m \in Moves
  BY <1>2 DEF Tab
<1>4. CASE current
  <2>1. ClientsGood'
    BY <1>1, <1>4 DEF IInv, ClientsGood, TabsSane, OneLease, View, SeatOf
  <2>2. /\ q \in Posts /\ q.stage = "sent" /\ q.gate = FALSE /\ q.floor = 0 /\ q.move = m
    BY <1>3 DEF Post, Posts
  <2> HIDE DEF q
  <2>3. ASSUME lobby # None PROVE PostTrue(lobby, journal, q)
    <3>1. m # None /\ tabs[t].pending = m
      BY <1>3, <1>4, NoneAssumption DEF Moves
    <3>2. m.side = SeatOf(t) /\ (Live(lobby, m) => journal[SeatOf(t)] = m)
      BY <1>2, <2>3, <3>1 DEF Sane, Holding
    <3> QED BY <2>2, <3>2 DEF PostTrue
  <2>4. PostsGood(lobby, journal, {q})
    BY <2>2, <2>3 DEF PostsGood
  <2>5. PostsGood(lobby, journal', posts')
    BY <1>1, <1>4, <2>4, PostsUnion DEF IInv
  <2> QED BY <1>1, <2>1, <2>5, ClientStep DEF IInv, CountersGood
<1>5. CASE ~current
  <2>1. tabs' = [tabs EXCEPT ![t] = x] /\ posts' = posts
    BY <1>1, <1>5
  <2>2. Quiet(tabs[t], x)
    BY <1>2 DEF Quiet, Tab
  <2> HIDE DEF x
  <2>3. Good(lobby, SeatOf(t), issued, View(t), [View(t) EXCEPT !.tab = x])
    BY <1>2, <2>2, QuietGood
  <2>4. [View(t) EXCEPT !.tab = x] = [tab |-> x, journal |-> journal[SeatOf(t)]]
    BY <1>2 DEF Views
  <2>5. Sane(lobby, SeatOf(t), issued, [tab |-> x, journal |-> journal[SeatOf(t)]])
    BY <2>3, <2>4 DEF Good
  <2>6. x.lease = tabs[t].lease
    BY <2>2 DEF Quiet
  <2>7. ClientsGood'
    BY <1>1, <2>1, <2>5, <2>6, TabOnly
  <2> QED BY <1>1, <2>1, <2>7, ClientStep DEF IInv, CountersGood
<1> QED BY <1>4, <1>5

----------------------------------------------------------------------------
(* One lemma per action: the server *)

\* What every tab hears of a broadcast.
LEMMA BroadcastHeard ==
  ASSUME IInv, NEW f \in Frames, Broadcast(f)
  PROVE  tabs' \in [Tabs -> Tab] /\ \A t \in Tabs : Heard(tabs[t], tabs'[t], f)
<1>1. ASSUME NEW t \in Tabs PROVE Heard(tabs[t], tabs'[t], f)
  <2> DEFINE inbox == Append(tabs[t].inbox, f)
  <2>1. tabs[t] \in Tab /\ inbox \in Seq(Frames)
    BY DEF IInv, ClientsGood, Tab
  <2>2. tabs'[t] = IF tabs[t].streaming THEN [tabs[t] EXCEPT !.inbox = inbox] ELSE tabs[t]
    BY DEF Broadcast
  <2>3. Heard(tabs[t], tabs[t], f)
    BY <2>1 DEF Heard
  <2>4. Heard(tabs[t], [tabs[t] EXCEPT !.inbox = inbox], f)
    <3>1. inbox = Append(tabs[t].inbox, f)
      OBVIOUS
    <3> HIDE DEF inbox
    <3> QED BY <2>1, <3>1 DEF Heard, Tab
  <2> QED BY <2>2, <2>3, <2>4
<1>2. tabs' = [t \in Tabs |-> tabs'[t]]
  BY DEF Broadcast
<1> QED BY <1>1, <1>2 DEF Heard

\* The answer to a request: its stage, unless nobody waits for it.
LEMMA AnswerGood ==
  ASSUME IInv, NEW p \in posts, NEW stage \in {"accepted", "refused"}, NEW gate \in BOOLEAN,
         NEW l, NEW j, PostsGood(l, j, posts),
         l # None /\ stage = "accepted" => InLog(l, p.move)
  PROVE  PostsGood(l, j, Answer(p, stage, gate))
<1> DEFINE q == [p EXCEPT !.stage = stage, !.gate = gate]
<1>1. p \in Posts
  BY DEF IInv, PostsGood
<1>2. CASE p.tab # None
  <2>1. p \in [tab: Tabs, move: Moves, retry: BOOLEAN, gate: BOOLEAN, floor: Nat,
                stage: {"sent", "accepted", "refused", "checking"}]
    BY <1>1, <1>2 DEF Posts
  <2>2. q \in Posts /\ q.stage = stage /\ q.move = p.move
    BY <2>1 DEF Posts
  <2> HIDE DEF q
  <2>3. PostsGood(l, j, {q})
    BY <2>2 DEF PostsGood, PostTrue
  <2>4. PostsGood(l, j, posts \cup {q})
    BY <2>3, PostsUnion
  <2>5. Answer(p, stage, gate) \subseteq posts \cup {q}
    BY DEF Answer, q
  <2> QED BY <2>4, <2>5, PostsSubset
<1>3. CASE p.tab = None
  <2>1. Answer(p, stage, gate) \subseteq posts
    BY <1>3 DEF Answer
  <2> QED BY <2>1, PostsSubset
<1> QED BY <1>2, <1>3

LEMMA StepServePost == ASSUME IInv, NEW p \in posts, ServePost(p) PROVE IInv'
<1> DEFINE s == p.move.side
           e == [i |-> p.move.i, side |-> s, intentId |-> p.move.intentId, gesture |-> p.move.gesture]
<1>1. /\ s \in Sides /\ p.move \in Moves /\ p.move.i \in Nat /\ p.move.intentId \in Intents
      /\ p.move.gesture \in Gestures
  BY PostOf
<1>2. e = p.move
  BY <1>1 DEF Moves
<1>3. /\ journal' = journal /\ wire' = wire /\ leaves' = leaves /\ issued' = issued
      /\ entries' = entries /\ faults' = faults /\ conceded' = conceded
  BY DEF ServePost
<1>4. CASE /\ Relays(p) /\ lobby' = Relay(lobby, s, p.move.intentId, p.move.gesture)
           /\ Broadcast([kind |-> "move", event |-> p.move])
           /\ posts' = Answer(p, "accepted", FALSE)
  <2> DEFINE f == [kind |-> "move", event |-> p.move]
  <2>1. lobby # None /\ SameMatch(lobby) /\ lobby \in Lobby /\ ResultTrue(lobby, conceded)
    BY <1>4 DEF Relays, IInv, RecordGood
  <2>2. MayRelay(lobby, s, p.move.i) /\ ~KnownIntent(lobby, p.move.intentId)
    BY <1>4 DEF Relays
  <2>3. /\ SameMatch(lobby') /\ Grows(lobby, lobby') /\ InLog(lobby', p.move)
        /\ Resigns(lobby, lobby', {})
    BY <1>1, <1>2, <1>4, <2>1, <2>2, RelayGrows
  <2>4. RecordGood'
    BY <1>3, <2>1, <2>3 DEF RecordGood, SameMatch, ResultTrue, Resigns, Sides
  <2>5. f \in Frames /\ TrueFrame(lobby', f)
    BY <1>1, <2>3 DEF Frames, TrueFrame
  <2>6. tabs' \in [Tabs -> Tab] /\ \A t \in Tabs : Heard(tabs[t], tabs'[t], f)
    BY <1>4, <2>5, BroadcastHeard
  <2> HIDE DEF f
  <2>7. ClientsGood' /\ PostsGood(lobby', journal', posts)
    BY <1>3, <2>1, <2>3, <2>5, <2>6, ServerStep DEF SameMatch
  <2>8. PostsGood(lobby', journal', posts')
    BY <1>4, <2>3, <2>7, AnswerGood
  <2>9. LeavesGood(lobby', conceded', leaves')
    BY <1>3, <2>1, <2>3, LeavesKept DEF SameMatch
  <2> QED BY <1>3, <2>4, <2>7, <2>8, <2>9 DEF IInv, CountersGood
<1>5. CASE /\ Repeats(p) /\ posts' = Answer(p, "accepted", FALSE) /\ UNCHANGED <<lobby, tabs>>
  <2>1. lobby # None /\ SameMatch(lobby)
    BY <1>5 DEF Repeats, IInv, RecordGood
  <2>2. InLog(lobby, p.move)
    <3> DEFINE n == CHOOSE k \in DOMAIN lobby.moves : lobby.moves[k].intentId = p.move.intentId
    <3>1. KnownIntent(lobby, p.move.intentId) /\ PriorEvent(lobby, p.move.intentId) = p.move
      BY <1>2, <1>5 DEF Repeats, IdenticalIntent
    <3>2. n \in DOMAIN lobby.moves
      BY <3>1 DEF KnownIntent
    <3>3. lobby.moves[n] = p.move
      BY <3>1 DEF PriorEvent
    <3> HIDE DEF n
    <3>4. lobby.moves[n].i = n - 1 /\ n \in Nat
      BY <2>1, <3>2 DEF SameMatch, Sound, OrderedLog, Lobby
    <3>5. p.move.i + 1 = n
      BY <3>3, <3>4
    <3> QED BY <3>2, <3>3, <3>5 DEF InLog
  <2>3. PostsGood(lobby, journal, posts')
    BY <1>5, <2>2, AnswerGood DEF IInv
  <2>4. ClientsGood'
    BY <1>3, <1>5 DEF IInv, ClientsGood, TabsSane, OneLease, View, SeatOf
  <2> QED BY <1>3, <1>5, <2>3, <2>4, ClientStep DEF IInv, CountersGood
<1>6. CASE /\ ~Relays(p) /\ ~Repeats(p) /\ posts' = Answer(p, "refused", ResultGate)
           /\ UNCHANGED <<lobby, tabs>>
  <2>1. ResultGate \in BOOLEAN
    BY DEF ResultGate
  <2>2. PostsGood(lobby, journal, posts')
    BY <1>6, <2>1, AnswerGood DEF IInv
  <2>3. ClientsGood'
    BY <1>3, <1>6 DEF IInv, ClientsGood, TabsSane, OneLease, View, SeatOf
  <2> QED BY <1>3, <1>6, <2>2, <2>3, ClientStep DEF IInv, CountersGood
<1> QED BY <1>4, <1>5, <1>6 DEF ServePost

LEMMA StepServeWire == ASSUME IInv, NEW m \in BagToSet(wire), ServeWire(m) PROVE IInv'
<1>1. /\ journal' = journal /\ posts' = posts /\ leaves' = leaves /\ issued' = issued
      /\ entries' = entries /\ faults' = faults /\ conceded' = conceded
      /\ wire' = wire (-) SetToBag({m}) /\ m \in Wire /\ (m.kind = "resign" => m.side \in conceded)
  BY DEF ServeWire, IInv, WireGood
<1>2. WireGood(conceded', wire')
  BY <1>1, BagMinus DEF IInv, WireGood
<1>3. CASE lobby # None /\ WireEffect(lobby, m) # lobby
  <2> DEFINE c == IF m.kind = "resign" THEN {m.side} ELSE {}
             f == [kind |-> "lobby", seen |-> Snapshot(lobby')]
  <2>1. lobby' = WireEffect(lobby, m) /\ Broadcast(f)
    BY <1>3 DEF ServeWire, BroadcastState
  <2>2. SameMatch(lobby) /\ lobby \in Lobby /\ ResultTrue(lobby, conceded)
    BY <1>3 DEF IInv, RecordGood
  <2>3. SameMatch(lobby') /\ Grows(lobby, lobby') /\ Resigns(lobby, lobby', c)
    BY <1>1, <2>1, <2>2, WireGrows
  <2>4. ResultTrue(lobby', conceded')
    <3>1. c \subseteq conceded
      BY <1>1
    <3> HIDE DEF c
    <3> QED BY <1>1, <2>2, <2>3, <3>1 DEF ResultTrue, Resigns
  <2>5. f \in Frames /\ TrueFrame(lobby', f)
    BY <2>3, SnapshotType DEF Frames, TrueFrame, TrueSnapshot, Snapshot, SameMatch
  <2>6. tabs' \in [Tabs -> Tab] /\ \A t \in Tabs : Heard(tabs[t], tabs'[t], f)
    BY <2>1, <2>5, BroadcastHeard
  <2> HIDE DEF f, c
  <2>7. ClientsGood' /\ PostsGood(lobby', journal', posts)
    BY <1>1, <1>3, <2>3, <2>5, <2>6, ServerStep DEF SameMatch
  <2>8. LeavesGood(lobby', conceded', leaves')
    BY <1>1, <1>3, <2>3, LeavesKept DEF SameMatch
  <2> QED BY <1>1, <1>2, <2>3, <2>4, <2>7, <2>8 DEF IInv, RecordGood, CountersGood, SameMatch
<1>4. CASE ~(lobby # None /\ WireEffect(lobby, m) # lobby)
  <2>1. lobby' = lobby /\ tabs' = tabs
    BY <1>4 DEF ServeWire
  <2>2. ClientsGood'
    BY <1>1, <2>1 DEF IInv, ClientsGood, TabsSane, OneLease, View, SeatOf
  <2> QED BY <1>1, <1>2, <2>1, <2>2, ClientStep DEF IInv, CountersGood
<1> QED BY <1>3, <1>4

LEMMA StepLoseWire == ASSUME IInv, NEW m \in BagToSet(wire), LoseWire(m) PROVE IInv'
<1>1. lobby' = lobby /\ conceded' = conceded /\ tabs' = tabs /\ journal' = journal /\ issued' = issued
      /\ entries' = entries /\ leaves' = leaves /\ posts' = posts /\ faults' \in Nat
      /\ wire' = wire (-) SetToBag({m})
  BY FaultType DEF LoseWire, server, client
<1>2. ClientsGood'
  BY <1>1 DEF IInv, ClientsGood, TabsSane, OneLease, View, SeatOf
<1>3. WireGood(conceded, wire')
  BY <1>1, BagMinus DEF IInv, WireGood
<1> QED BY <1>1, <1>2, <1>3, ClientStep DEF IInv, CountersGood

LEMMA StepRestart == ASSUME IInv, Restart PROVE IInv'
<1> DEFINE f == None
<1>1. /\ lobby # None /\ lobby' = None /\ faults' \in Nat
      /\ journal' = journal /\ posts' = posts /\ wire' = wire /\ leaves' = leaves
      /\ issued' = issued /\ entries' = entries /\ conceded' = conceded
      /\ tabs' = [t \in Tabs |-> [tabs[t] EXCEPT !.streaming = FALSE]]
  BY FaultType DEF Restart
<1>2. \A t \in Tabs : Heard(tabs[t], tabs'[t], f)
  BY <1>1 DEF IInv, ClientsGood, Tab, Heard
<1>3. tabs' \in [Tabs -> Tab]
  BY <1>1, <1>2 DEF Heard
<1> HIDE DEF f
<1>4. ClientsGood' /\ PostsGood(lobby', journal', posts)
  BY <1>1, <1>2, <1>3, ServerStep
<1>5. LeavesGood(lobby', conceded', leaves')
  BY <1>1, LeavesKept
<1> QED BY <1>1, <1>4, <1>5 DEF IInv, RecordGood, CountersGood

----------------------------------------------------------------------------
(* One lemma per action: resigning and leaving *)

LEMMA StepResign == ASSUME IInv, NEW t \in Tabs, Resign(t) PROVE IInv'
<1> DEFINE m == [kind |-> "resign", side |-> SeatOf(t)]
<1>1. /\ lobby' = lobby /\ tabs' = tabs /\ journal' = journal /\ posts' = posts /\ leaves' = leaves
      /\ issued' = issued /\ entries' = entries /\ faults' = faults
      /\ wire' = wire (+) SetToBag({m}) /\ conceded' = conceded \cup {SeatOf(t)}
  BY DEF Resign, server
<1>2. m \in Wire /\ m.side = SeatOf(t) /\ SeatOf(t) \in Sides
  BY SeatType DEF Wire
<1> HIDE DEF m
<1>3. WireGood(conceded', wire')
  <2>1. IsABag(wire) /\ \A x \in BagToSet(wire) : x \in Wire /\ (x.kind = "resign" => x.side \in conceded)
    BY DEF IInv, WireGood
  <2>2. IsABag(wire') /\ BagToSet(wire') = BagToSet(wire) \cup {m}
    BY <1>1, <2>1, BagPlus, SetBag
  <2> QED BY <1>1, <1>2, <2>1, <2>2 DEF WireGood
<1>4. LeavesGood(lobby', conceded', leaves')
  BY <1>1 DEF IInv, LeavesGood, LeaveTrue
<1>5. ClientsGood'
  BY <1>1 DEF IInv, ClientsGood, TabsSane, OneLease, View, SeatOf
<1>6. RecordGood'
  BY <1>1 DEF IInv, RecordGood, ResultTrue
<1>7. CountersGood' /\ PostsGood(lobby', journal', posts')
  BY <1>1, <1>2 DEF IInv, CountersGood
<1> QED BY <1>3, <1>4, <1>5, <1>6, <1>7 DEF IInv

\* Only a tab in a dispute concedes by leaving: any other way out shows a result or
\* carries the end of the game with it.
LEMMA StepLeave == ASSUME IInv, NEW t \in Tabs, Leave(t) PROVE IInv'
<1> DEFINE completion == Completion(tabs[t])
           q == [tab |-> t, side |-> SeatOf(t), stage |-> "sent", completion |-> completion]
<1>1. /\ lobby' = lobby /\ tabs' = tabs /\ journal' = journal /\ posts' = posts /\ wire' = wire
      /\ issued' = issued /\ entries' = entries /\ faults' = faults
      /\ leaves' = leaves \cup {q} /\ Decided(tabs[t])
      /\ conceded' = IF tabs[t].disputed THEN conceded \cup {SeatOf(t)} ELSE conceded
  BY DEF Leave, server
<1>2. conceded \subseteq conceded' /\ conceded' \subseteq Sides
  BY <1>1, SeatType DEF IInv, CountersGood
<1>3. tabs[t] \in Tab
  BY ViewSane
<1>4. completion \in Reports \cup {None}
  <2>1. tabs[t].terminal # None => TerminalReport(tabs[t]) \in Reports
    BY <1>3 DEF TerminalReport, Reports, Tab, Count
  <2> QED BY <2>1 DEF Completion
<1>5. ASSUME completion = None, lobby # None PROVE SeatOf(t) \in conceded' \/ lobby.result # None
  <2>1. CASE tabs[t].disputed
    BY <1>1, <2>1
  <2>2. CASE ~tabs[t].disputed
    <3>1. tabs[t].terminal = None
      <4>1. tabs[t].terminal # None => completion \in Reports
        BY <1>3, <2>2 DEF Completion, TerminalReport, Reports, Tab, Count
      <4> QED BY <1>5, <4>1, NoneIsNoResult
    <3>2. tabs[t].verdict # None
      BY <1>1, <3>1 DEF Decided
    <3>3. Follows(lobby, tabs[t])
      BY <1>5, ViewSane DEF Sane
    <3> QED BY <3>2, <3>3 DEF Follows
  <2> QED BY <2>1, <2>2
<1> HIDE DEF completion
<1>6. LeavesGood(lobby', conceded', leaves')
  <2>1. /\ q \in Leaves /\ q.tab = t /\ q.side = SeatOf(t) /\ q.stage = "sent"
        /\ q.completion = completion
    BY <1>4, SeatType DEF Leaves
  <2> HIDE DEF q
  <2>2. lobby # None => LeaveTrue(lobby, conceded', q)
    BY <1>5, <2>1 DEF LeaveTrue
  <2>3. \A r \in leaves : /\ r \in Leaves /\ (r.tab # None => r.side = SeatOf(r.tab))
                          /\ lobby # None => LeaveTrue(lobby, conceded', r)
    BY <1>2 DEF IInv, LeavesGood, LeaveTrue
  <2> QED BY <1>1, <2>1, <2>2, <2>3 DEF LeavesGood
<1>7. ClientsGood'
  BY <1>1 DEF IInv, ClientsGood, TabsSane, OneLease, View, SeatOf
<1>8. RecordGood' /\ WireGood(conceded', wire')
  BY <1>1, <1>2 DEF IInv, RecordGood, ResultTrue, WireGood
<1>9. CountersGood' /\ PostsGood(lobby', journal', posts')
  BY <1>1, <1>2 DEF IInv, CountersGood
<1> QED BY <1>6, <1>7, <1>8, <1>9 DEF IInv

LEMMA LeaveOf ==
  ASSUME IInv, NEW q \in leaves
  PROVE  /\ q \in Leaves /\ q.side \in Sides /\ q.tab \in Tabs \cup {None}
         /\ q.completion \in Reports \cup {None}
         /\ q.tab # None => q.side = SeatOf(q.tab)
         /\ lobby # None => LeaveTrue(lobby, conceded, q)
BY DEF IInv, LeavesGood, Leaves

\* The answer of a Leave is as true as the request, if a granted one ends the relay.
LEMMA AnswerLeaveGood ==
  ASSUME IInv, NEW q \in leaves, NEW stage \in {"done", "refused"},
         NEW l, LeavesGood(l, conceded, leaves), l # None /\ stage = "done" => ~Open(l)
  PROVE  LeavesGood(l, conceded, AnswerLeave(q, stage))
<1> DEFINE r == [q EXCEPT !.stage = stage]
<1>1. /\ r \in Leaves /\ r.tab = q.tab /\ r.side = q.side /\ r.stage = stage
      /\ q.tab # None => q.side = SeatOf(q.tab)
  BY LeaveOf DEF Leaves
<1>2. AnswerLeave(q, stage) \subseteq leaves \cup {r}
  BY DEF AnswerLeave
<1> HIDE DEF r
<1>3. l # None => LeaveTrue(l, conceded, r)
  BY <1>1 DEF LeaveTrue
<1> QED BY <1>1, <1>2, <1>3 DEF LeavesGood

LEMMA StepServeLeave == ASSUME IInv, NEW q \in leaves, ServeLeave(q) PROVE IInv'
<1>1. /\ journal' = journal /\ posts' = posts /\ wire' = wire /\ issued' = issued
      /\ entries' = entries /\ faults' = faults /\ conceded' = conceded /\ q.stage = "sent"
  BY DEF ServeLeave
<1>2. CASE lobby = None
  <2>1. lobby' = lobby /\ tabs' = tabs /\ leaves' = AnswerLeave(q, "done")
    BY <1>2 DEF ServeLeave
  <2>2. LeavesGood(lobby, conceded, leaves')
    BY <1>2, <2>1, AnswerLeaveGood DEF IInv
  <2>3. ClientsGood'
    BY <1>1, <2>1 DEF IInv, ClientsGood, TabsSane, OneLease, View, SeatOf
  <2> QED BY <1>1, <2>1, <2>2, <2>3, ClientStep DEF IInv, CountersGood
<1>3. CASE lobby # None
  <2> DEFINE r == LeaveServed(lobby, q)
             ends == BothSeatsDeparted(r.lobby)
             f == [kind |-> "lobby", seen |-> Snapshot(r.lobby)]
             C == IF q.completion = None THEN {q.side} ELSE {}
             stage == IF r.granted THEN "done" ELSE "refused"
  <2>1. /\ leaves' = AnswerLeave(q, stage)
        /\ lobby' = IF ends THEN None ELSE r.lobby
        /\ tabs' = [t \in Tabs |->
             IF tabs[t].streaming /\ r.lobby # lobby
             THEN [tabs[t] EXCEPT !.inbox = Append(@, f), !.streaming = ~ends] ELSE tabs[t]]
    BY <1>3 DEF ServeLeave
  <2>2. SameMatch(lobby) /\ lobby \in Lobby /\ ResultTrue(lobby, conceded)
    BY <1>3 DEF IInv, RecordGood
  <2>3. /\ SameMatch(r.lobby) /\ Grows(lobby, r.lobby) /\ Resigns(lobby, r.lobby, C)
        /\ r.granted => ~Open(r.lobby)
    BY <2>2, LeaveOf, LeaveGrows
  <2>4. r.lobby \in Lobby /\ f \in Frames /\ TrueFrame(r.lobby, f)
    BY <2>3, SnapshotType DEF Frames, TrueFrame, TrueSnapshot, Snapshot, SameMatch
  <2>5. ends \in BOOLEAN /\ stage \in {"done", "refused"}
    BY DEF BothSeatsDeparted
  <2> HIDE DEF r, f, ends
  <2>6. \A t \in Tabs : Heard(tabs[t], tabs'[t], f)
    <3>1. SUFFICES ASSUME NEW t \in Tabs PROVE Heard(tabs[t], tabs'[t], f)
      OBVIOUS
    <3> DEFINE inbox == Append(tabs[t].inbox, f)
               streaming == ~ends
    <3>2. tabs[t] \in Tab /\ inbox \in Seq(Frames) /\ inbox = Append(tabs[t].inbox, f)
      BY <2>4 DEF IInv, ClientsGood, Tab
    <3>3. streaming \in BOOLEAN
      OBVIOUS
    <3>4. \/ tabs'[t] = tabs[t]
          \/ tabs'[t] = [tabs[t] EXCEPT !.inbox = inbox, !.streaming = streaming]
      BY <2>1
    <3> HIDE DEF inbox, streaming
    <3>5. Heard(tabs[t], tabs[t], f)
      BY <3>2 DEF Heard
    <3>6. Heard(tabs[t], [tabs[t] EXCEPT !.inbox = inbox, !.streaming = streaming], f)
      BY <3>2, <3>3 DEF Heard, Tab
    <3> QED BY <3>4, <3>5, <3>6
  <2>7. tabs' \in [Tabs -> Tab]
    <3>1. tabs' = [t \in Tabs |-> tabs'[t]]
      BY <2>1
    <3> QED BY <2>6, <3>1 DEF Heard
  <2>8. /\ lobby' \in Lobby \cup {None}
        /\ lobby' # None => lobby' = r.lobby /\ Grows(lobby, lobby') /\ TrueFrame(lobby', f)
    BY <2>1, <2>3, <2>4
  <2>9. ClientsGood' /\ PostsGood(lobby', journal', posts)
    BY <1>1, <1>3, <2>6, <2>7, <2>8, ServerStep
  <2>10. LeavesGood(lobby', conceded, leaves)
    BY <1>3, <2>8, LeavesKept
  <2>11. LeavesGood(lobby', conceded', leaves')
    BY <1>1, <2>1, <2>3, <2>5, <2>8, <2>10, AnswerLeaveGood
\* The seat that this request resigns, if there was no result, is one that conceded.
  <2>12. ResultTrue(r.lobby, conceded)
    <3>1. CASE q.completion = None
      <4>1. q.side \in conceded \/ lobby.result # None
        BY <1>1, <1>3, <3>1, LeaveOf DEF LeaveTrue
      <4>2. CASE lobby.result # None
        <5>1. r.lobby.result = lobby.result
          BY <2>3, <4>2 DEF Grows
        <5> QED BY <2>2, <5>1 DEF ResultTrue
      <4>3. CASE q.side \in conceded
        BY <2>2, <2>3, <3>1, <4>3 DEF ResultTrue, Resigns
      <4> QED BY <4>1, <4>2, <4>3
    <3>2. CASE q.completion # None
      BY <2>2, <2>3, <3>2 DEF ResultTrue, Resigns
    <3> QED BY <3>1, <3>2
  <2>13. RecordGood'
    BY <1>1, <2>3, <2>8, <2>12 DEF RecordGood
  <2> QED BY <1>1, <2>9, <2>11, <2>13 DEF IInv, CountersGood
<1> QED BY <1>2, <1>3

LEMMA StepLeaveFails == ASSUME IInv, NEW q \in leaves, LeaveFails(q) PROVE IInv'
<1> DEFINE r == [q EXCEPT !.tab = None]
<1>1. /\ lobby' = lobby /\ conceded' = conceded /\ tabs' = tabs /\ journal' = journal
      /\ issued' = issued /\ entries' = entries /\ posts' = posts /\ wire' = wire
      /\ leaves' \subseteq leaves \cup {r}
  BY DEF LeaveFails, server, client
<1>2. faults' \in Nat
  BY FaultType DEF LeaveFails, IInv, CountersGood
<1>3. r \in Leaves /\ r.tab = None /\ r.stage = q.stage /\ r.side = q.side /\ r.completion = q.completion
  BY LeaveOf DEF Leaves
<1> HIDE DEF r
<1>4. lobby # None => LeaveTrue(lobby, conceded, r)
  BY <1>3, LeaveOf DEF LeaveTrue
<1>5. LeavesGood(lobby, conceded, leaves')
  BY <1>1, <1>3, <1>4 DEF IInv, LeavesGood
<1>6. ClientsGood'
  BY <1>1 DEF IInv, ClientsGood, TabsSane, OneLease, View, SeatOf
<1> QED BY <1>1, <1>2, <1>5, <1>6, ClientStep DEF IInv, CountersGood

\* A granted Leave drops the journal of a seat whose relay has ended.
LEMMA StepLeaveAnswered == ASSUME IInv, NEW q \in leaves, LeaveAnswered(q) PROVE IInv'
<1>1. /\ lobby' = lobby /\ conceded' = conceded /\ issued' = issued /\ entries' = entries
      /\ wire' = wire /\ faults' = faults /\ leaves' = leaves \ {q} /\ q.tab # None
  BY DEF LeaveAnswered, server
<1>2. LeavesGood(lobby, conceded, leaves')
  BY <1>1 DEF IInv, LeavesGood
<1>3. CASE q.stage = "done"
  <2>1. /\ q.tab \in Tabs /\ q.side = SeatOf(q.tab) /\ (lobby # None => ~Open(lobby))
    BY <1>1, <1>3, LeaveOf DEF LeaveTrue
  <2>2. /\ journal' = [journal EXCEPT ![SeatOf(q.tab)] = None] /\ tabs' = [tabs EXCEPT ![q.tab] = Away]
        /\ posts' = Orphans(q.tab, posts)
    BY <1>3, <2>1 DEF LeaveAnswered
  <2>3. JournalStep(lobby, journal[SeatOf(q.tab)], None)
    BY <2>1 DEF JournalStep, Live
  <2>4. Sane(lobby, SeatOf(q.tab), issued, [tab |-> Away, journal |-> None])
    BY <2>1, <2>3, AwaySane
  <2>5. Away.lease = FALSE
    BY DEF Away
  <2>6. ClientsGood' /\ PostsGood(lobby, journal', posts)
    BY <1>1, <2>1, <2>2, <2>3, <2>4, <2>5, TabStep
  <2>7. PostsGood(lobby, journal', posts')
    BY <2>2, <2>6, OrphanPosts
  <2> QED BY <1>1, <1>2, <2>6, <2>7, ClientStep DEF IInv, CountersGood
<1>4. CASE q.stage # "done"
  <2>1. tabs' = tabs /\ journal' = journal /\ posts' = posts
    BY <1>4 DEF LeaveAnswered
  <2>2. ClientsGood'
    BY <1>1, <2>1 DEF IInv, ClientsGood, TabsSane, OneLease, View, SeatOf
  <2> QED BY <1>1, <1>2, <2>1, <2>2, ClientStep DEF IInv, CountersGood
<1> QED BY <1>3, <1>4

----------------------------------------------------------------------------
(* The invariant *)

\* Every match starts as a sound record, with nothing under way.
LEMMA InitInv == Init => IInv
<1> SUFFICES ASSUME Init PROVE IInv
  OBVIOUS
<1> DEFINE ready == SeatGuest(NewLobby(Host), Guest)
           l == [ready EXCEPT !.levelId = Level]
<1>1. /\ Host \in Users /\ Guest \in Users /\ Host # Guest
      /\ Level \in Levels /\ Level # None /\ Content \in Contents \ TimedContents
  BY MatchAssumption, NoneAssumption
<1>2. NewLobby(Host) \in Lobby /\ Sound(NewLobby(Host))
  BY <1>1, NewLobbyType, NewLobbySound
<1>3. CanJoin(NewLobby(Host), Guest)
  BY <1>1 DEF CanJoin, NewLobby
<1>4. ready \in Lobby /\ Sound(ready)
  BY <1>1, <1>2, <1>3, SeatGuestType, SeatGuestSound
<1>5. ready.phase = "ready" /\ ready.guest # None /\ ready.host = Host /\ ready.guest = Guest
  <2> DEFINE n == NewLobby(Host)
             d == [n.departed EXCEPT !["enemy"] = FALSE]
  <2>1. n.host = Host
    BY DEF NewLobby
  <2>2. Guest # None
    BY <1>1, NoneAssumption
  <2>3. ready = Touch([n EXCEPT !.guest = Guest, !.departed = d, !.phase = "ready"])
    BY DEF SeatGuest
  <2> HIDE DEF ready, d, n
  <2>4. n \in Lobby
    BY <1>2 DEF n
  <2> QED BY <2>1, <2>2, <2>3, <2>4 DEF Touch, Lobby
<1> HIDE DEF ready
<1>6. /\ l \in Lobby /\ l.phase = "ready" /\ l.guest # None /\ l.levelId # None
  BY <1>1, <1>4, <1>5 DEF Lobby
<1>7. Sound(l)
  <2>1. ~IsStartedLifecycle(ready) /\ ~IsStartedLifecycle(l)
    BY <1>5, <1>6 DEF IsStartedLifecycle
  <2>2. /\ l.levelSnapshot = ready.levelSnapshot /\ l.moves = ready.moves /\ l.result = ready.result
        /\ l.resultReports = ready.resultReports /\ l.resultDisputed = ready.resultDisputed
        /\ l.phase = ready.phase /\ l.guest = ready.guest /\ l.host = ready.host
        /\ l.departed = ready.departed /\ l.expired = ready.expired
        /\ l.closedFromPhase = ready.closedFromPhase
    BY <1>4 DEF Lobby
  <2>3. Shaped(l)
    BY <1>4, <2>1, <2>2 DEF Sound, Shaped
  <2>4. l.levelSnapshot = None
    BY <1>4, <2>1, <2>2, Unstarted
  <2> HIDE DEF l
  <2> QED BY <1>4, <1>6, <2>1, <2>2, <2>3, <2>4, UnstartedSound
<1> HIDE DEF l
<1>8. lobby = PinMatch(l, Content)
  BY DEF Init, StartedMatch, l, ready
<1>9. lobby \in Lobby /\ Sound(lobby)
  BY <1>1, <1>6, <1>7, <1>8, PinMatchType, PinMatchSound
<1>10. lobby.phase = "started" /\ lobby.result = None
  BY <1>6, <1>8 DEF PinMatch, FreshMatch, Touch, Lobby
<1>11. RecordGood
  BY <1>9, <1>10, ResignationIsNoOutcome DEF RecordGood, SameMatch, IsStartedLifecycle, ResultTrue
<1>12. /\ tabs = [t \in Tabs |-> Away] /\ journal = [s \in Sides |-> None] /\ posts = {}
       /\ wire = EmptyBag /\ leaves = {} /\ issued = 0 /\ entries = 0 /\ faults = 0 /\ conceded = {}
  BY DEF Init
<1>13. ASSUME NEW t \in Tabs PROVE Sane(lobby, SeatOf(t), issued, View(t))
  <2> DEFINE v == [tab |-> Away, journal |-> None]
  <2>1. View(t) = v
    BY <1>12, SeatType DEF View
  <2>2. v \in Views /\ v.tab = Away /\ v.journal = None
    BY AwayType DEF Views
  <2>3. /\ Away.mode = "away" /\ Away.board = <<>> /\ Away.pending = None /\ Away.verdict = None
        /\ Away.reads = {} /\ Away.inbox = <<>>
    BY DEF Away
  <2> HIDE DEF v
  <2>4. Len(lobby.moves) \in Nat
    BY <1>9 DEF Lobby
  <2>5. Follows(lobby, Away) /\ Told(lobby, Away) /\ Holding(lobby, SeatOf(t), issued, v)
    BY <2>2, <2>3, <2>4 DEF Follows, PrefixOf, Told, Holding
  <2>6. SeenKnown(Away)
    BY <2>3 DEF SeenKnown
  <2> QED BY <2>1, <2>2, <2>5, <2>6 DEF Sane
<1>14. ClientsGood
  <2>1. tabs \in [Tabs -> Tab] /\ journal \in [Sides -> Moves \cup {None}]
    BY <1>12, AwayType
  <2>2. OneLease
    BY <1>12 DEF OneLease, Away
  <2> QED BY <1>13, <2>1, <2>2 DEF ClientsGood, TabsSane
<1>15. WireGood(conceded, wire)
  BY <1>12, SetBag DEF WireGood, EmptyBag
<1> QED BY <1>11, <1>12, <1>14, <1>15 DEF IInv, CountersGood, PostsGood, LeavesGood

\* Every action keeps it.
LEMMA NextInv == IInv /\ [Next]_vars => IInv'
<1> SUFFICES ASSUME IInv, [Next]_vars PROVE IInv'
  OBVIOUS
<1>1. ASSUME NEW t \in Tabs,
             \/ Enter(t) \/ Unmount(t) \/ Resign(t) \/ Leave(t)
             \/ \E g \in Gestures : Submit(t, g)
             \/ TakeSeat(t) \/ CatchUp(t) \/ Connect(t) \/ Receive(t) \/ ReadReturns(t)
             \/ Retries(t) \/ Interrupt(t)
      PROVE  IInv'
  <2>1. CASE Retries(t)
    BY <2>1, StepRetryTimer DEF Retries
  <2> QED BY <1>1, <2>1, StepEnter, StepUnmount, StepResign, StepLeave, StepSubmit, StepTakeSeat,
             StepCatchUp, StepConnect, StepReceive, StepReadReturns, StepInterrupt
<1>2. ASSUME NEW p \in posts,
             ServePost(p) \/ PostAnswered(p) \/ CheckReturns(p) \/ PostFails(p) \/ LosePost(p)
      PROVE  IInv'
  BY <1>2, StepServePost, StepPostAnswered, StepCheckReturns, StepPostFails, StepLosePost
<1>3. ASSUME NEW m \in BagToSet(wire), ServeWire(m) \/ LoseWire(m) PROVE IInv'
  BY <1>3, StepServeWire, StepLoseWire
<1>4. ASSUME NEW q \in leaves, ServeLeave(q) \/ LeaveAnswered(q) \/ LeaveFails(q) PROVE IInv'
  BY <1>4, StepServeLeave, StepLeaveAnswered, StepLeaveFails
<1>5. CASE Restart
  BY <1>5, StepRestart
<1>6. CASE UNCHANGED vars
  <2>1. /\ lobby' = lobby /\ tabs' = tabs /\ journal' = journal /\ posts' = posts /\ wire' = wire
        /\ leaves' = leaves /\ issued' = issued /\ entries' = entries /\ faults' = faults
        /\ conceded' = conceded
    BY <1>6 DEF vars
  <2>2. ClientsGood'
    BY <2>1 DEF IInv, ClientsGood, TabsSane, OneLease, View, SeatOf
  <2> QED BY <2>1, <2>2, ClientStep DEF IInv, CountersGood
<1> QED BY <1>1, <1>2, <1>3, <1>4, <1>5, <1>6 DEF Next

LEMMA Inductive == Spec => []IInv
BY InitInv, NextInv, PTL DEF Spec

----------------------------------------------------------------------------
(* The theorems *)

\* Every variable of the match keeps its type: requests, answers and frames of any number
\* of tabs, in any order, leave nothing half written.
THEOREM TypeCorrect == Spec => []TypeOK
BY Inductive, Typed, PTL

\* A board is never anything but a prefix of the server's log (applyRelayMove).
THEOREM BoardsFollow == Spec => []BoardsArePrefixes
<1>1. IInv => BoardsArePrefixes
  <2> SUFFICES ASSUME IInv, lobby # None, NEW t \in Tabs PROVE IsPrefix(tabs[t].board, lobby.moves)
    BY DEF BoardsArePrefixes
  <2>1. /\ lobby.moves \in Seq(Moves) /\ tabs[t].board \in Seq(Moves)
        /\ Len(tabs[t].board) <= Len(lobby.moves)
        /\ \A k \in 1..Len(tabs[t].board) : tabs[t].board[k] = lobby.moves[k]
    BY ViewSane DEF Sane, Follows, PrefixOf, Tab, Lobby
  <2>2. SubSeq(lobby.moves, 1, Len(tabs[t].board)) = tabs[t].board
    BY <2>1
  <2> QED BY <2>1, <2>2 DEF IsPrefix
<1> QED BY <1>1, Inductive, PTL

\* A tab shows a result only if it is the published one, and on the complete log unless it
\* stopped following (onLobby, concludeNet).
THEOREM ConclusionsComplete == Spec => []ConclusionHasPrefix
<1>1. IInv => ConclusionHasPrefix
  <2> SUFFICES ASSUME IInv, lobby # None, NEW t \in Tabs, tabs[t].verdict # None
               PROVE  tabs[t].verdict = lobby.result /\ (tabs[t].halted \/ tabs[t].board = lobby.moves)
    BY DEF ConclusionHasPrefix
  <2>1. /\ lobby.moves \in Seq(Moves) /\ tabs[t].board \in Seq(Moves)
        /\ \A k \in 1..Len(tabs[t].board) : tabs[t].board[k] = lobby.moves[k]
        /\ tabs[t].verdict = lobby.result
        /\ tabs[t].halted \/ Len(tabs[t].board) = Len(lobby.moves)
    BY ViewSane DEF Sane, Follows, PrefixOf, Tab, Lobby
  <2>2. Len(tabs[t].board) = Len(lobby.moves) => tabs[t].board = lobby.moves
    BY <2>1
  <2> QED BY <2>1, <2>2
<1> QED BY <1>1, Inductive, PTL

\* A move the server could still accept is the journaled one of its seat, wherever the tab
\* that sent it has gone (submitNetMove, the journal and the seat lease).
THEOREM InFlightJournaled == Spec => []InFlightIsJournaled
<1>1. IInv => InFlightIsJournaled
  <2> SUFFICES ASSUME IInv, NEW p \in posts, p.stage = "sent", Relays(p)
               PROVE  journal[p.move.side] = p.move
    BY DEF InFlightIsJournaled
  <2>1. lobby # None /\ PostTrue(lobby, journal, p) /\ lobby \in Lobby
    BY DEF IInv, PostsGood, Relays, RecordGood
  <2>2. Live(lobby, p.move)
    BY <2>1 DEF Relays, MayRelay, Live, Open, Lobby
  <2> QED BY <2>1, <2>2 DEF PostTrue
<1> QED BY <1>1, Inductive, PTL

\* No seat is resigned that did not confirm it: not by the way out of a finished game, and
\* not by a request that arrives late (returnToLobbies and the Leave handler).
THEOREM ConcessionsDeliberate == Spec => []ConcessionIsDeliberate
<1>1. IInv => ConcessionIsDeliberate
  BY DEF IInv, RecordGood, ResultTrue, ConcessionIsDeliberate
<1> QED BY <1>1, Inductive, PTL
=============================================================================
