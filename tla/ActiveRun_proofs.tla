-------------------------- MODULE ActiveRun_proofs --------------------------
(* The Run of one person, for any number of browsers, keys, versions, reloads
   and lost messages.

   Everything that holds a Run holds one that was started, and whose version
   was made, before now (Typed): that gives the types, that a mutation is newer
   than any copy, and that a Run just started has an id of its own. *)
EXTENDS ActiveRun, SequenceTheorems, TLAPS

KnownRuns(now) == {r \in Runs : r.id <= now /\ r.at <= now}
MaybeRun(now) == KnownRuns(now) \cup {None}
KnownRows(now) == [run : MaybeRun(now), revision : Nat]

\* Only a browser with a key asks for its row to be adopted.
KnownRequests(now) ==
  {q \in [kind : {"get", "put", "delete", "adopt"}, owner : Owners \cup {None},
          key : GuestKeys \cup {None}, run : MaybeRun(now), revision : Nat, war : BOOLEAN,
          seen : KnownRows(now)] : q.kind = "adopt" => q.key \in GuestKeys}
KnownAnswers(now) == [status : {"ok", "conflict", "war", "fail"}, row : KnownRows(now)]
KnownCalls(now) ==
  [at : Awaits, run : MaybeRun(now), remote : KnownRows(now),
   sent : KnownRequests(now) \cup {None}, answer : KnownAnswers(now) \cup {None}]
KnownJobs(now) == [do : {"save", "delete"}, run : MaybeRun(now)]
KnownConflicts(now) == [browserRun : KnownRuns(now), accountRun : KnownRuns(now)]
KnownTabs(now) ==
  [run : MaybeRun(now), hydrated : BOOLEAN, syncing : BOOLEAN, starting : BOOLEAN,
   remoteOwner : {"account", "guest", "none"}, remote : KnownRows(now),
   conflict : KnownConflicts(now) \cup {None}, error : BOOLEAN, chain : Seq(KnownJobs(now))]

Typed ==
  /\ rows \in [Owners -> KnownRows(time)]
  /\ local \in [Devices -> MaybeRun(time)]
  /\ key \in [Devices -> GuestKeys \cup {None}]
  /\ session \in [Devices -> BOOLEAN]
  /\ tabs \in [Devices -> KnownTabs(time)]
  /\ calls \in [Devices -> [Procs -> KnownCalls(time)]]
  /\ late \subseteq KnownRequests(time)
  /\ {time, faults, reloads} \subseteq Nat
Traced == astray \in [Devices -> SUBSET Races]

----------------------------------------------------------------------------
(* Types *)

\* What was known stays known.
LEMMA Grow ==
  ASSUME NEW n \in Nat, NEW m \in Nat, n <= m
  PROVE  /\ KnownRuns(n) \subseteq KnownRuns(m) /\ MaybeRun(n) \subseteq MaybeRun(m)
         /\ KnownRows(n) \subseteq KnownRows(m) /\ KnownRequests(n) \subseteq KnownRequests(m)
         /\ KnownAnswers(n) \subseteq KnownAnswers(m) /\ KnownCalls(n) \subseteq KnownCalls(m)
         /\ KnownJobs(n) \subseteq KnownJobs(m) /\ KnownConflicts(n) \subseteq KnownConflicts(m)
         /\ KnownTabs(n) \subseteq KnownTabs(m)
<1>1. KnownRuns(n) \subseteq KnownRuns(m) /\ MaybeRun(n) \subseteq MaybeRun(m)
  BY DEF KnownRuns, MaybeRun, Runs
<1>2. KnownRows(n) \subseteq KnownRows(m) BY <1>1 DEF KnownRows
<1>3. KnownRequests(n) \subseteq KnownRequests(m) BY <1>1, <1>2 DEF KnownRequests
<1>4. KnownAnswers(n) \subseteq KnownAnswers(m) BY <1>2 DEF KnownAnswers
<1>5. KnownCalls(n) \subseteq KnownCalls(m) BY <1>1, <1>2, <1>3, <1>4 DEF KnownCalls
<1>6. KnownJobs(n) \subseteq KnownJobs(m) BY <1>1 DEF KnownJobs
<1>7. KnownConflicts(n) \subseteq KnownConflicts(m) BY <1>1 DEF KnownConflicts
<1>8. \A s \in Seq(KnownJobs(n)) : s \in Seq(KnownJobs(m)) BY <1>6
<1>9. KnownTabs(n) \subseteq KnownTabs(m) BY <1>1, <1>2, <1>7, <1>8 DEF KnownTabs
<1> QED BY <1>1, <1>2, <1>3, <1>4, <1>5, <1>6, <1>7, <1>9

\* What is known has its type.
LEMMA KnownTyped ==
  ASSUME NEW n \in Nat
  PROVE  /\ MaybeRun(n) \subseteq Runs \cup {None} /\ KnownRows(n) \subseteq Rows
         /\ KnownRequests(n) \subseteq Requests /\ KnownCalls(n) \subseteq Calls
         /\ KnownTabs(n) \subseteq Tabs
<1>1. KnownRuns(n) \subseteq Runs /\ MaybeRun(n) \subseteq Runs \cup {None} BY DEF KnownRuns, MaybeRun
<1>2. KnownRows(n) \subseteq Rows BY <1>1 DEF KnownRows, Rows
<1>3. KnownRequests(n) \subseteq Requests BY <1>1, <1>2 DEF KnownRequests, Requests
<1>4. KnownAnswers(n) \subseteq Answers BY <1>2 DEF KnownAnswers, Answers
<1>5. KnownCalls(n) \subseteq Calls BY <1>1, <1>2, <1>3, <1>4 DEF KnownCalls, Calls
<1>6. KnownConflicts(n) \subseteq Conflicts BY <1>1 DEF KnownConflicts, Conflicts
<1>7. KnownJobs(n) \subseteq Jobs BY <1>1 DEF KnownJobs, Jobs
<1>8. \A s \in Seq(KnownJobs(n)) : s \in Seq(Jobs) BY <1>7
<1>9. KnownTabs(n) \subseteq Tabs BY <1>1, <1>2, <1>6, <1>8 DEF KnownTabs, Tabs
<1> QED BY <1>1, <1>2, <1>3, <1>5, <1>9

LEMMA TypedIsTypeOK == Typed /\ Traced => TypeOK
<1> SUFFICES ASSUME Typed, Traced PROVE TypeOK OBVIOUS
<1>1. time \in Nat BY DEF Typed
<1> QED BY <1>1, KnownTyped DEF Typed, Traced, TypeOK

LEMMA NothingTyped ==
  ASSUME NEW n \in Nat
  PROVE  /\ NoRow \in KnownRows(n) /\ Failure \in KnownAnswers(n) /\ Idle \in KnownCalls(n)
         /\ None \in MaybeRun(n)
         /\ \A run \in MaybeRun(n) : FreshTab(run) \in KnownTabs(n)
<1>1. None \in MaybeRun(n) BY DEF MaybeRun
<1>2. NoRow \in KnownRows(n) BY <1>1 DEF NoRow, KnownRows
<1>3. Failure \in KnownAnswers(n) BY <1>2 DEF Failure, Answer, KnownAnswers
<1>4. Idle \in KnownCalls(n) BY <1>1, <1>2 DEF Idle, KnownCalls, Awaits
<1>5. <<>> \in Seq(KnownJobs(n)) OBVIOUS
<1>6. \A run \in MaybeRun(n) : FreshTab(run) \in KnownTabs(n)
  BY <1>2, <1>5 DEF FreshTab, KnownTabs
<1> QED BY <1>1, <1>2, <1>3, <1>4, <1>6

\* A handler leaves rows of known Runs, and answers with one.
LEMMA ResultTyped ==
  ASSUME Typed, NEW q \in KnownRequests(time)
  PROVE  /\ Result(q).rows \in [Owners -> KnownRows(time)]
         /\ Result(q).answer \in KnownAnswers(time)
<1>1. time \in Nat /\ rows \in [Owners -> KnownRows(time)] BY DEF Typed
<1>2. /\ q.owner \in Owners \cup {None} /\ q.key \in GuestKeys \cup {None}
      /\ q.run \in MaybeRun(time) /\ q.seen \in KnownRows(time) /\ q.revision \in Nat
      /\ q.kind = "adopt" => q.key \in GuestKeys
  BY DEF KnownRequests
<1>3. NoRow \in KnownRows(time) BY <1>1, NothingTyped
<1>4. \A s \in {"ok", "conflict", "war", "fail"}, row \in KnownRows(time) : Answer(s, row) \in KnownAnswers(time)
  BY DEF Answer, KnownAnswers
<1>5. CASE q.owner = None BY <1>1, <1>3, <1>4, <1>5 DEF Result, Failure
<1>6. CASE q.owner # None
  <2>1. q.owner \in Owners /\ rows[q.owner] \in KnownRows(time) BY <1>1, <1>2, <1>6
  <2>2. CASE q.kind = "put"
    <3> DEFINE next == [run |-> q.run, revision |-> rows[q.owner].revision + 1]
    <3>1. next \in KnownRows(time) BY <1>2, <2>1 DEF KnownRows
    <3>2. [rows EXCEPT ![q.owner] = next] \in [Owners -> KnownRows(time)] BY <1>1, <3>1
    <3>3. Result(q) = PutResult(q) BY <1>6, <2>2 DEF Result
    <3> QED BY <1>1, <1>4, <2>1, <3>1, <3>2, <3>3 DEF PutResult
  <2>3. CASE q.kind = "delete"
    <3>1. [rows EXCEPT ![q.owner] = NoRow] \in [Owners -> KnownRows(time)] BY <1>1, <1>3
    <3>2. Result(q) = DeleteResult(q) BY <1>6, <2>3 DEF Result
    <3> QED BY <1>1, <1>3, <1>4, <2>1, <3>1, <3>2 DEF DeleteResult
  <2>4. CASE q.kind = "adopt"
    <3>1. Result(q) = AdoptResult(q) BY <1>6, <2>4 DEF Result
    <3>2. rows[q.key] \in KnownRows(time) BY <1>1, <1>2, <2>4 DEF Owners
    <3> DEFINE released == [rows EXCEPT ![q.key] = NoRow]
               moved == [rows EXCEPT ![q.key] = NoRow, ![q.owner] = IF @ = NoRow THEN rows[q.key] ELSE @]
    <3>3. released \in [Owners -> KnownRows(time)] BY <1>1, <1>3
    <3>4. moved \in [Owners -> KnownRows(time)]
      <4>1. moved = [released EXCEPT ![q.owner] = IF released[q.owner] = NoRow THEN rows[q.key]
                                                  ELSE released[q.owner]]
        OBVIOUS
      <4> HIDE DEF released
      <4> QED BY <2>1, <3>2, <3>3, <4>1
    <3>5. Result(q).rows \in {rows, moved} BY <3>1 DEF AdoptResult
    <3>6. Result(q).rows \in [Owners -> KnownRows(time)] BY <1>1, <3>4, <3>5
    <3>7. Result(q).answer = Answer("ok", NoRow) BY <3>1 DEF AdoptResult
    <3> QED BY <1>3, <1>4, <3>6, <3>7
  <2>5. CASE q.kind \notin {"put", "delete", "adopt"}
    <3>1. Result(q) = [rows |-> rows, answer |-> Answer("ok", rows[q.owner])]
      BY <1>6, <2>5 DEF Result
    <3> QED BY <1>1, <1>4, <2>1, <3>1
  <2> QED BY <2>2, <2>3, <2>4, <2>5
<1> QED BY <1>5, <1>6

\* Of all functions of all pages only p of d goes on.
OthersWait(d, p) ==
  /\ \A e \in Devices \ {d} : calls'[e] = calls[e]
  /\ \A o \in Procs \ {p} : calls'[d][o] = calls[d][o]

\* A page goes on to wait with what it was given, and nothing else changes.
LEMMA AwaitTyped ==
  ASSUME Typed, NEW d \in Devices, NEW p \in Procs, NEW at \in Awaits, NEW run \in MaybeRun(time),
         NEW row \in KnownRows(time), NEW q \in KnownRequests(time), Await(d, p, at, run, row, q)
  PROVE  /\ calls' \in [Devices -> [Procs -> KnownCalls(time)]]
         /\ calls'[d][p].at = at /\ calls'[d][p].run = run /\ calls'[d][p].answer = None
         /\ calls'[d][p].sent = q
         /\ OthersWait(d, p)
<1> DEFINE c == [at |-> at, run |-> run, remote |-> row, sent |-> q, answer |-> None]
<1>1. c \in KnownCalls(time) BY DEF KnownCalls
<1>2. calls' = [calls EXCEPT ![d][p] = c] BY DEF Await
<1> HIDE DEF c
<1>3. /\ calls' \in [Devices -> [Procs -> KnownCalls(time)]] /\ calls'[d][p] = c
      /\ OthersWait(d, p)
  BY <1>1, <1>2 DEF Typed, OthersWait
<1>4. c.at = at /\ c.run = run /\ c.answer = None /\ c.sent = q BY DEF c
<1> QED BY <1>3, <1>4

LEMMA ReturnTyped ==
  ASSUME Typed, NEW d \in Devices, NEW p \in Procs, Return(d, p)
  PROVE  /\ calls' \in [Devices -> [Procs -> KnownCalls(time)]]
         /\ calls'[d][p] = Idle
         /\ OthersWait(d, p)
BY NothingTyped DEF Typed, Return, OthersWait

LEMMA RequestTyped ==
  ASSUME Typed, NEW kind \in {"get", "put", "delete", "adopt"}, NEW d \in Devices,
         NEW k \in GuestKeys \cup {None}, NEW run \in MaybeRun(time), NEW row \in KnownRows(time),
         NEW war \in BOOLEAN, kind = "adopt" => k # None
  PROVE  /\ Request(kind, d, k, run, row, war) \in KnownRequests(time)
         /\ Request(kind, d, k, run, row, war).kind = kind
         /\ Request(kind, d, k, run, row, war).run = run
<1>1. Owner(d, k) \in Owners \cup {None} BY DEF Owner, Owners
<1>2. row.revision \in Nat BY DEF KnownRows
<1> QED BY <1>1, <1>2 DEF Request, KnownRequests

LEMMA SendTyped ==
  ASSUME Typed, NEW d \in Devices, NEW p \in Procs, NEW at \in Awaits, NEW run \in MaybeRun(time),
         NEW row \in KnownRows(time), NEW kind \in {"get", "delete", "adopt"},
         kind = "adopt" => key[d] # None, Send(d, p, at, run, row, kind)
  PROVE  /\ calls' \in [Devices -> [Procs -> KnownCalls(time)]]
         /\ calls'[d][p].at = at /\ calls'[d][p].run = run /\ calls'[d][p].answer = None
         /\ OthersWait(d, p)
<1> DEFINE q == Request(kind, d, key[d], None, row, FALSE)
<1>1. key[d] \in GuestKeys \cup {None} BY DEF Typed
<1>2. None \in MaybeRun(time) BY DEF MaybeRun
<1>3. q \in KnownRequests(time) BY <1>1, <1>2, RequestTyped
<1>4. Await(d, p, at, run, row, q) BY DEF Send
<1> HIDE DEF q
<1> QED BY <1>3, <1>4, AwaitTyped

LEMMA SendPutTyped ==
  ASSUME Typed, NEW d \in Devices, NEW p \in Procs, NEW at \in Awaits, NEW run \in MaybeRun(time),
         NEW row \in KnownRows(time), SendPut(d, p, at, run, row)
  PROVE  /\ calls' \in [Devices -> [Procs -> KnownCalls(time)]]
         /\ key' \in [Devices -> GuestKeys \cup {None}]
         /\ calls'[d][p].at = at /\ calls'[d][p].run = run /\ calls'[d][p].answer = None
         /\ calls'[d][p].sent.kind = "put" /\ calls'[d][p].sent.run = run
         /\ OthersWait(d, p)
<1>1. PICK k \in Minted(d) :
        /\ key' = [key EXCEPT ![d] = k]
        /\ Await(d, p, at, run, row, Request("put", d, k, run, row, at \in {"saveWar", "saveBrowserWar"}))
  BY DEF SendPut
<1> DEFINE war == at \in {"saveWar", "saveBrowserWar"}
           q == Request("put", d, k, run, row, war)
<1>2. k \in GuestKeys \cup {None} BY DEF Minted, Typed
<1>3. q \in KnownRequests(time) /\ q.kind = "put" /\ q.run = run
  <2>1. war \in BOOLEAN OBVIOUS
  <2> HIDE DEF war
  <2> QED BY <1>2, <2>1, RequestTyped
<1>4. key' \in [Devices -> GuestKeys \cup {None}] BY <1>1, <1>2 DEF Typed
<1>5. Await(d, p, at, run, row, q) BY <1>1
<1> HIDE DEF q
<1> QED BY <1>3, <1>4, <1>5, AwaitTyped

\* What one page and one of its functions hold.
LEMMA PageTyped ==
  ASSUME Typed, NEW d \in Devices
  PROVE  /\ time \in Nat /\ local[d] \in MaybeRun(time) /\ key[d] \in GuestKeys \cup {None}
         /\ tabs[d] \in KnownTabs(time)
         /\ tabs[d].run \in MaybeRun(time) /\ tabs[d].remote \in KnownRows(time)
         /\ tabs[d].remote.run \in MaybeRun(time)
         /\ tabs[d].conflict \in KnownConflicts(time) \cup {None}
         /\ tabs[d].chain \in Seq(KnownJobs(time))
         /\ tabs[d].chain # <<>> => /\ Head(tabs[d].chain) \in KnownJobs(time)
                                   /\ Head(tabs[d].chain).run \in MaybeRun(time)
                                   /\ Tail(tabs[d].chain) \in Seq(KnownJobs(time))
         /\ \A p \in Procs :
              /\ calls[d][p] \in KnownCalls(time)
              /\ calls[d][p].run \in MaybeRun(time) /\ calls[d][p].remote \in KnownRows(time)
              /\ calls[d][p].sent \in KnownRequests(time) \cup {None}
              /\ calls[d][p].answer \in KnownAnswers(time) \cup {None}
              /\ calls[d][p].answer # None =>
                   /\ calls[d][p].answer.row \in KnownRows(time)
                   /\ calls[d][p].answer.row.run \in MaybeRun(time)
<1>1. time \in Nat /\ local[d] \in MaybeRun(time) /\ key[d] \in GuestKeys \cup {None}
      /\ tabs[d] \in KnownTabs(time)
  BY DEF Typed
<1>2. /\ tabs[d].run \in MaybeRun(time) /\ tabs[d].remote \in KnownRows(time)
      /\ tabs[d].conflict \in KnownConflicts(time) \cup {None}
      /\ tabs[d].chain \in Seq(KnownJobs(time))
  BY <1>1 DEF KnownTabs
<1>3. tabs[d].remote.run \in MaybeRun(time) BY <1>2 DEF KnownRows
<1>4. ASSUME tabs[d].chain # <<>>
      PROVE  Head(tabs[d].chain) \in KnownJobs(time) /\ Tail(tabs[d].chain) \in Seq(KnownJobs(time))
  BY <1>2, <1>4
<1>5. \A job \in KnownJobs(time) : job.run \in MaybeRun(time) BY DEF KnownJobs
<1>6. ASSUME NEW p \in Procs
      PROVE  /\ calls[d][p] \in KnownCalls(time)
             /\ calls[d][p].run \in MaybeRun(time) /\ calls[d][p].remote \in KnownRows(time)
             /\ calls[d][p].sent \in KnownRequests(time) \cup {None}
             /\ calls[d][p].answer \in KnownAnswers(time) \cup {None}
  <2>1. calls[d][p] \in KnownCalls(time) BY DEF Typed
  <2> QED BY <2>1 DEF KnownCalls
<1>7. \A a \in KnownAnswers(time) : a.row \in KnownRows(time) /\ a.row.run \in MaybeRun(time)
  BY DEF KnownAnswers, KnownRows
<1> QED BY <1>1, <1>2, <1>3, <1>4, <1>5, <1>6, <1>7

LEMMA SetTabFacts ==
  ASSUME Typed, NEW d \in Devices, NEW t, SetTab(d, t)
  PROVE  /\ tabs'[d] = t /\ \A e \in Devices \ {d} : tabs'[e] = tabs[e]
         /\ t \in KnownTabs(time) => tabs' \in [Devices -> KnownTabs(time)]
BY DEF SetTab, Typed

LEMMA SetLocalFacts ==
  ASSUME Typed, NEW d \in Devices, NEW run, SetLocal(d, run)
  PROVE  /\ local'[d] = run /\ \A e \in Devices \ {d} : local'[e] = local[e]
         /\ run \in MaybeRun(time) => local' \in [Devices -> MaybeRun(time)]
BY DEF SetLocal, Typed

----------------------------------------------------------------------------
(* One lemma per action: types *)

LEMMA InitTyped == Init => Typed
<1> SUFFICES ASSUME Init PROVE Typed OBVIOUS
<1>1. time = 0 /\ 0 \in Nat BY DEF Init
<1>2. /\ NoRow \in KnownRows(time) /\ Idle \in KnownCalls(time) /\ None \in MaybeRun(time)
      /\ FreshTab(None) \in KnownTabs(time)
  BY <1>1, NothingTyped
<1> QED BY <1>1, <1>2 DEF Init, Typed

LEMMA NextJobTyped ==
  ASSUME Typed, NEW d \in Devices, NextJob(d)
  PROVE  Typed'
<1> DEFINE t == tabs[d] job == Head(t.chain)
<1>1. t.chain # <<>> BY DEF NextJob, ReadyJob
<1>2. "chain" \in Procs /\ {"delete", "save"} \subseteq Awaits BY DEF Procs, Awaits
<1>3. CASE Send(d, "chain", "delete", job.run, t.remote, "delete") /\ UNCHANGED <<key, tabs>>
  <2>1. calls' \in [Devices -> [Procs -> KnownCalls(time)]]
    BY <1>1, <1>2, <1>3, PageTyped, SendTyped
  <2> QED BY <1>3, <2>1 DEF NextJob, Typed
<1>4. CASE SetTab(d, [t EXCEPT !.chain = Tail(@)]) /\ UNCHANGED <<key, calls>>
  <2>1. [t EXCEPT !.chain = Tail(@)] \in KnownTabs(time) BY <1>1, PageTyped DEF KnownTabs
  <2>2. tabs' \in [Devices -> KnownTabs(time)] BY <1>4, <2>1, SetTabFacts
  <2> QED BY <1>4, <2>2 DEF NextJob, Typed
<1>5. CASE SendPut(d, "chain", "save", job.run, t.remote) /\ SetTab(d, [t EXCEPT !.syncing = TRUE])
  <2>1. [t EXCEPT !.syncing = TRUE] \in KnownTabs(time) BY PageTyped DEF KnownTabs
  <2>2. tabs' \in [Devices -> KnownTabs(time)] BY <1>5, <2>1, SetTabFacts
  <2>3. /\ calls' \in [Devices -> [Procs -> KnownCalls(time)]]
        /\ key' \in [Devices -> GuestKeys \cup {None}]
    BY <1>1, <1>2, <1>5, PageTyped, SendPutTyped
  <2> QED BY <2>2, <2>3 DEF NextJob, Typed
<1> QED BY <1>3, <1>4, <1>5 DEF NextJob

LEMMA WaitingTyped ==
  ASSUME NEW n, NEW t \in KnownTabs(n)
  PROVE  Waiting(t) \in KnownTabs(n) /\ DeleteFailed(t) \in KnownTabs(n)
BY DEF Waiting, DeleteFailed, KnownTabs

LEMMA JobDoneTyped ==
  ASSUME Typed, NEW d \in Devices, NEW t \in KnownTabs(time), t.chain # <<>>, JobDone(d, t)
  PROVE  /\ tabs' \in [Devices -> KnownTabs(time)]
         /\ calls' \in [Devices -> [Procs -> KnownCalls(time)]] /\ key' = key
<1>1. t.chain \in Seq(KnownJobs(time)) BY DEF KnownTabs
<1>2. Tail(t.chain) \in Seq(KnownJobs(time)) BY <1>1
<1>3. [t EXCEPT !.chain = Tail(@)] \in KnownTabs(time) BY <1>2 DEF KnownTabs
<1>4. "chain" \in Procs BY DEF Procs
<1> QED BY <1>3, <1>4, SetTabFacts, ReturnTyped DEF JobDone

\* A function of the chain works on a job.
Working(d) == calls[d]["chain"] # Idle => tabs[d].chain # <<>>

LEMMA JobAnsweredTyped ==
  ASSUME Typed, NEW d \in Devices, Working(d), JobAnswered(d)
  PROVE  Typed'
<1> DEFINE c == calls[d]["chain"] a == c.answer t == tabs[d]
           disputed == [t EXCEPT !.conflict = [browserRun |-> t.run, accountRun |-> a.row.run],
                                 !.remote = a.row, !.error = FALSE, !.syncing = FALSE]
<1>1. a # None BY DEF JobAnswered
<1>2. t.chain # <<>> BY <1>1 DEF Working, Idle
<1>3. "chain" \in Procs /\ {"saveWar", "reread"} \subseteq Awaits BY DEF Procs, Awaits
<1>4. t \in KnownTabs(time) /\ a.row \in KnownRows(time) BY <1>1, <1>3, PageTyped
<1>5. UNCHANGED <<rows, local, session, late, time, faults, reloads>> BY DEF JobAnswered
<1>6. CASE SendPut(d, "chain", "saveWar", c.run, c.remote) /\ UNCHANGED tabs
  <2>1. /\ calls' \in [Devices -> [Procs -> KnownCalls(time)]]
        /\ key' \in [Devices -> GuestKeys \cup {None}]
    BY <1>3, <1>6, PageTyped, SendPutTyped
  <2> QED BY <1>5, <1>6, <2>1 DEF Typed
<1>7. CASE Send(d, "chain", "reread", c.run, c.remote, "get") /\ UNCHANGED <<key, tabs>>
  <2>1. calls' \in [Devices -> [Procs -> KnownCalls(time)]]
    BY <1>3, <1>7, PageTyped, SendTyped
  <2> QED BY <1>5, <1>7, <2>1 DEF Typed
<1>8. ASSUME NEW u \in KnownTabs(time), u.chain # <<>>, JobDone(d, u) PROVE Typed'
  <2>1. /\ tabs' \in [Devices -> KnownTabs(time)]
        /\ calls' \in [Devices -> [Procs -> KnownCalls(time)]] /\ key' = key
    BY <1>8, JobDoneTyped
  <2> QED BY <1>5, <2>1 DEF Typed
<1>9. CASE JobDone(d, [t EXCEPT !.remote = a.row, !.error = FALSE, !.syncing = FALSE])
  <2>1. [t EXCEPT !.remote = a.row, !.error = FALSE, !.syncing = FALSE] \in KnownTabs(time)
    BY <1>4 DEF KnownTabs
  <2>2. [t EXCEPT !.remote = a.row, !.error = FALSE, !.syncing = FALSE].chain # <<>> BY <1>2, <1>4 DEF KnownTabs
  <2> QED BY <1>8, <1>9, <2>1, <2>2
<1>10. Waiting(t) \in KnownTabs(time) /\ Waiting(t).chain # <<>> BY <1>2, <1>4, WaitingTyped DEF Waiting, KnownTabs
<1>11. CASE JobDone(d, Waiting(t)) BY <1>8, <1>10, <1>11
<1>12. CASE /\ OtherRun(a.row.run, t.run) /\ JobDone(d, disputed)
  <2>1. a.row.run \in KnownRuns(time) /\ t.run \in KnownRuns(time)
    BY <1>1, <1>3, <1>12, PageTyped DEF OtherRun, MaybeRun
  <2>2. [browserRun |-> t.run, accountRun |-> a.row.run] \in KnownConflicts(time)
    BY <2>1 DEF KnownConflicts
  <2>3. disputed \in KnownTabs(time) /\ disputed.chain # <<>> BY <1>2, <1>4, <2>2 DEF KnownTabs
  <2> QED BY <1>8, <1>12, <2>3
<1>13. CASE JobDone(d, [t EXCEPT !.remote = NoRow])
  <2>1. time \in Nat BY PageTyped
  <2>2. [t EXCEPT !.remote = NoRow] \in KnownTabs(time) /\ [t EXCEPT !.remote = NoRow].chain # <<>>
    BY <1>2, <1>4, <2>1, NothingTyped DEF KnownTabs
  <2> QED BY <1>8, <1>13, <2>2
<1>14. CASE JobDone(d, DeleteFailed(t))
  <2>1. DeleteFailed(t) \in KnownTabs(time) /\ DeleteFailed(t).chain # <<>>
    BY <1>2, <1>4, WaitingTyped DEF DeleteFailed, KnownTabs
  <2> QED BY <1>8, <1>14, <2>1
<1> QED
  <2>1. \/ SendPut(d, "chain", "saveWar", c.run, c.remote) /\ UNCHANGED tabs
        \/ Send(d, "chain", "reread", c.run, c.remote, "get") /\ UNCHANGED <<key, tabs>>
        \/ JobDone(d, [t EXCEPT !.remote = a.row, !.error = FALSE, !.syncing = FALSE])
        \/ JobDone(d, Waiting(t))
        \/ OtherRun(a.row.run, t.run) /\ JobDone(d, disputed)
        \/ JobDone(d, [t EXCEPT !.remote = NoRow]) \/ JobDone(d, DeleteFailed(t))
    BY DEF JobAnswered
  <2> QED BY <1>6, <1>7, <1>9, <1>11, <1>12, <1>13, <1>14, <2>1

LEMMA HydrateTyped ==
  ASSUME Typed, NEW d \in Devices, NEW m \in Mounts, Hydrate(d, m)
  PROVE  Typed'
<1>1. m \in Procs /\ {"adoptGuest", "load"} \subseteq Awaits BY DEF Procs, Awaits
<1>2. time \in Nat /\ NoRow \in KnownRows(time) BY PageTyped, NothingTyped
<1>3. CASE SetTab(d, Settled(tabs[d], "guest", local[d], NoRow)) /\ UNCHANGED calls
  <2>1. Settled(tabs[d], "guest", local[d], NoRow) \in KnownTabs(time)
    BY <1>2, PageTyped DEF Settled, KnownTabs
  <2>2. tabs' \in [Devices -> KnownTabs(time)] BY <1>3, <2>1, SetTabFacts
  <2> QED BY <1>3, <2>2 DEF Hydrate, Typed
<1>4. CASE /\ \/ key[d] # None /\ Send(d, m, "adoptGuest", local[d], NoRow, "adopt")
              \/ Send(d, m, "load", local[d], NoRow, "get")
           /\ UNCHANGED tabs
  <2>1. calls' \in [Devices -> [Procs -> KnownCalls(time)]]
    BY <1>1, <1>2, <1>4, PageTyped, SendTyped
  <2> QED BY <1>4, <2>1 DEF Hydrate, Typed
<1> QED BY <1>3, <1>4 DEF Hydrate

LEMMA GuestAdoptedTyped ==
  ASSUME Typed, NEW d \in Devices, NEW m \in Mounts, GuestAdopted(d, m)
  PROVE  Typed' /\ OthersWait(d, m) /\ calls'[d][m].run = calls[d][m].run
<1> DEFINE q == Request("get", d, key'[d], None, NoRow, FALSE)
<1>1. m \in Procs /\ "load" \in Awaits BY DEF Procs, Awaits
<1>2. time \in Nat /\ NoRow \in KnownRows(time) /\ None \in MaybeRun(time) BY PageTyped, NothingTyped
<1>3. key' \in [Devices -> GuestKeys \cup {None}] BY DEF GuestAdopted, Typed
<1>4. q \in KnownRequests(time) BY <1>2, <1>3, RequestTyped
<1>5. Await(d, m, "load", calls[d][m].run, NoRow, q) BY DEF GuestAdopted
<1> HIDE DEF q
<1>6. /\ calls' \in [Devices -> [Procs -> KnownCalls(time)]] /\ OthersWait(d, m)
      /\ calls'[d][m].run = calls[d][m].run
  BY <1>1, <1>2, <1>4, <1>5, PageTyped, AwaitTyped
<1> QED BY <1>3, <1>6 DEF GuestAdopted, Typed

LEMMA QueueSaveTyped ==
  ASSUME NEW n, NEW t \in KnownTabs(n), NEW run \in MaybeRun(n), NEW cond
  PROVE  /\ QueueSave(t, run) \in KnownTabs(n) /\ QueueSaveIf(cond, t, run) \in KnownTabs(n)
         /\ Replaced(t, run) \in KnownTabs(n)
<1>1. [do |-> "save", run |-> run] \in KnownJobs(n) BY DEF KnownJobs
<1>2. \A u \in KnownTabs(n) : QueueSave(u, run) \in KnownTabs(n)
  <2> SUFFICES ASSUME NEW u \in KnownTabs(n) PROVE QueueSave(u, run) \in KnownTabs(n) OBVIOUS
  <2>1. u.chain \in Seq(KnownJobs(n)) BY DEF KnownTabs
  <2>2. Append(u.chain, [do |-> "save", run |-> run]) \in Seq(KnownJobs(n)) BY <1>1, <2>1
  <2> QED BY <2>2 DEF QueueSave, KnownTabs
<1>3. [t EXCEPT !.run = run, !.error = FALSE] \in KnownTabs(n) BY DEF KnownTabs
<1> QED BY <1>2, <1>3 DEF QueueSaveIf, Replaced

LEMMA SettledTyped ==
  ASSUME NEW n, NEW t \in KnownTabs(n), NEW owner \in {"account", "guest", "none"},
         NEW run \in MaybeRun(n), NEW row \in KnownRows(n)
  PROVE  /\ Settled(t, owner, run, row) \in KnownTabs(n)
         /\ [Settled(t, owner, run, row) EXCEPT !.conflict = None] \in KnownTabs(n)
         /\ \A conflict \in KnownConflicts(n) :
              [Settled(t, owner, run, row) EXCEPT !.conflict = conflict] \in KnownTabs(n)
BY DEF Settled, KnownTabs

LEMMA HydratedTyped ==
  ASSUME Typed, NEW d \in Devices, NEW m \in Mounts, Hydrated(d, m)
  PROVE  Typed'
<1> DEFINE c == calls[d][m] browser == c.run row == c.answer.row
           run == IF Newer(browser, row.run) THEN browser ELSE Or(row.run, browser)
           u == Settled(tabs[d], "account", run, row)
           g == [Settled(tabs[d], "guest", Or(browser, row.run), row) EXCEPT !.conflict = None]
           dispute == [browserRun |-> browser, accountRun |-> row.run]
<1>1. m \in Procs /\ c.answer # None BY DEF Procs, Hydrated
<1>2. /\ tabs[d] \in KnownTabs(time) /\ browser \in MaybeRun(time) /\ row \in KnownRows(time)
      /\ row.run \in MaybeRun(time) /\ time \in Nat /\ NoRow \in KnownRows(time)
  BY <1>1, PageTyped, NothingTyped
<1>3. run \in MaybeRun(time) /\ Or(browser, row.run) \in MaybeRun(time) BY <1>2 DEF Or
<1>4. calls' \in [Devices -> [Procs -> KnownCalls(time)]] BY <1>1, ReturnTyped DEF Hydrated
<1>5. ASSUME NEW t \in KnownTabs(time), SetTab(d, t),
             \/ UNCHANGED local
             \/ \E r \in MaybeRun(time) : SetLocal(d, r)
      PROVE  Typed'
  <2>1. tabs' \in [Devices -> KnownTabs(time)] BY <1>5, SetTabFacts
  <2>2. local' \in [Devices -> MaybeRun(time)] BY <1>5, SetLocalFacts DEF Typed
  <2> QED BY <1>4, <2>1, <2>2 DEF Hydrated, Typed
<1>6. CASE c.answer.status = "fail"
  <2>1. PICK t \in {Unlinked(tabs[d], browser),
                    [Unlinked(tabs[d], browser) EXCEPT !.remote = NoRow, !.conflict = None]} :
          SetTab(d, t) /\ UNCHANGED local
    BY <1>6 DEF Hydrated
  <2>2. Unlinked(tabs[d], browser) \in KnownTabs(time) BY <1>2 DEF Unlinked, KnownTabs
  <2>3. t \in KnownTabs(time) BY <1>2, <2>1, <2>2 DEF KnownTabs
  <2> QED BY <1>5, <2>1, <2>3
<1>7. CASE c.answer.status # "fail" /\ session[d] /\ OtherRun(row.run, browser)
  <2>1. SetTab(d, [u EXCEPT !.conflict = dispute]) /\ UNCHANGED local
    BY <1>7 DEF Hydrated, AccountHydrated
  <2>2. dispute \in KnownConflicts(time) BY <1>2, <1>7 DEF OtherRun, MaybeRun, KnownConflicts
  <2>3. [u EXCEPT !.conflict = dispute] \in KnownTabs(time) BY <1>2, <1>3, <2>2, SettledTyped
  <2> QED BY <1>5, <2>1, <2>3
<1>8. CASE c.answer.status # "fail" /\ session[d] /\ ~OtherRun(row.run, browser)
  <2> DEFINE cond == browser # None /\ (row.run = None \/ Newer(browser, row.run))
  <2>1. SetLocal(d, run) /\ SetTab(d, QueueSaveIf(cond, u, browser))
    BY <1>8 DEF Hydrated, AccountHydrated
  <2>2. u \in KnownTabs(time) BY <1>2, <1>3, SettledTyped
  <2> HIDE DEF u, cond, run
  <2>3. QueueSaveIf(cond, u, browser) \in KnownTabs(time) BY <1>2, <2>2, QueueSaveTyped
  <2> QED BY <1>3, <1>5, <2>1, <2>3
<1>9. CASE c.answer.status # "fail" /\ ~session[d]
  <2> DEFINE cond == browser # None /\ ~SameRun(row.run, browser)
  <2>1. SetLocal(d, Or(browser, row.run)) /\ SetTab(d, QueueSaveIf(cond, g, browser))
    BY <1>9 DEF Hydrated, GuestHydrated
  <2>2. g \in KnownTabs(time) BY <1>2, <1>3, SettledTyped
  <2> HIDE DEF g, cond
  <2>3. QueueSaveIf(cond, g, browser) \in KnownTabs(time) BY <1>2, <2>2, QueueSaveTyped
  <2> QED BY <1>3, <1>5, <2>1, <2>3
<1> QED BY <1>6, <1>7, <1>8, <1>9

LEMMA KeepAccountRunTyped ==
  ASSUME Typed, NEW d \in Devices, KeepAccountRun(d)
  PROVE  Typed'
<1> DEFINE t == tabs[d]
           u == [t EXCEPT !.run = t.conflict.accountRun, !.conflict = None, !.error = FALSE]
<1>1. t.conflict \in KnownConflicts(time) BY PageTyped DEF KeepAccountRun
<1>2. t.conflict.accountRun \in MaybeRun(time) BY <1>1 DEF KnownConflicts, MaybeRun
<1>3. u \in KnownTabs(time) BY <1>2, PageTyped DEF KnownTabs
<1>4. SetLocal(d, t.conflict.accountRun) /\ SetTab(d, u) BY DEF KeepAccountRun
<1> HIDE DEF u
<1>5. tabs' \in [Devices -> KnownTabs(time)] /\ local' \in [Devices -> MaybeRun(time)]
  BY <1>2, <1>3, <1>4, SetTabFacts, SetLocalFacts
<1> QED BY <1>5 DEF KeepAccountRun, Typed

LEMMA AdoptBrowserRunTyped ==
  ASSUME Typed, NEW d \in Devices, AdoptBrowserRun(d)
  PROVE  Typed'
<1> DEFINE t == tabs[d]
<1>1. t.conflict \in KnownConflicts(time) BY PageTyped DEF AdoptBrowserRun
<1>2. t.conflict.browserRun \in MaybeRun(time) BY <1>1 DEF KnownConflicts, MaybeRun
<1>3. [t EXCEPT !.syncing = TRUE] \in KnownTabs(time) BY PageTyped DEF KnownTabs
<1>4. tabs' \in [Devices -> KnownTabs(time)] BY <1>3, SetTabFacts DEF AdoptBrowserRun
<1>5. "choice" \in Procs /\ "dropAccount" \in Awaits BY DEF Procs, Awaits
<1>6. calls' \in [Devices -> [Procs -> KnownCalls(time)]]
  BY <1>2, <1>5, PageTyped, SendTyped DEF AdoptBrowserRun
<1> QED BY <1>4, <1>6 DEF AdoptBrowserRun, Typed

LEMMA BrowserRunAnsweredTyped ==
  ASSUME Typed, NEW d \in Devices, BrowserRunAnswered(d)
  PROVE  Typed'
<1> DEFINE c == calls[d]["choice"] a == c.answer t == tabs[d]
           u == [t EXCEPT !.run = c.run, !.conflict = None, !.remote = a.row,
                          !.syncing = FALSE, !.error = FALSE]
<1>1. a # None /\ UNCHANGED <<rows, session, late, time, faults, reloads>> BY DEF BrowserRunAnswered
<1>2. "choice" \in Procs /\ {"saveBrowser", "saveBrowserWar"} \subseteq Awaits BY DEF Procs, Awaits
<1>3. /\ t \in KnownTabs(time) /\ a.row \in KnownRows(time) /\ c.run \in MaybeRun(time)
      /\ NoRow \in KnownRows(time)
  BY <1>1, <1>2, PageTyped, NothingTyped
<1>4. CASE /\ \E at \in {"saveBrowser", "saveBrowserWar"} : SendPut(d, "choice", at, c.run, NoRow)
           /\ UNCHANGED <<tabs, local>>
  <2>1. /\ calls' \in [Devices -> [Procs -> KnownCalls(time)]]
        /\ key' \in [Devices -> GuestKeys \cup {None}]
    BY <1>2, <1>3, <1>4, SendPutTyped
  <2> QED BY <1>1, <1>4, <2>1 DEF Typed
<1>5. CASE Return(d, "choice") /\ UNCHANGED key
  <2>1. calls' \in [Devices -> [Procs -> KnownCalls(time)]] BY <1>2, <1>5, ReturnTyped
  <2>2. u \in KnownTabs(time) /\ Waiting(t) \in KnownTabs(time) BY <1>3, WaitingTyped DEF KnownTabs
  <2>3. \/ SetLocal(d, c.run) /\ SetTab(d, u)
        \/ SetTab(d, Waiting(t)) /\ UNCHANGED local
        \/ UNCHANGED <<tabs, local>>
    BY DEF BrowserRunAnswered
  <2> HIDE DEF u
  <2>4. tabs' \in [Devices -> KnownTabs(time)] /\ local' \in [Devices -> MaybeRun(time)]
    BY <1>3, <2>2, <2>3, SetTabFacts, SetLocalFacts DEF Typed
  <2> QED BY <1>1, <1>5, <2>1, <2>4 DEF Typed
<1>6. \/ /\ \E at \in {"saveBrowser", "saveBrowserWar"} : SendPut(d, "choice", at, c.run, NoRow)
         /\ UNCHANGED <<tabs, local>>
      \/ Return(d, "choice") /\ UNCHANGED key
  BY DEF BrowserRunAnswered
<1> QED BY <1>4, <1>5, <1>6

\* A mutation is a version of its own time.
LEMMA ReplaceTyped ==
  ASSUME Typed, NEW d \in Devices, NEW t \in KnownTabs(time), NEW id \in 0..(time + 1), Replace(d, t, id)
  PROVE  Typed'
<1> DEFINE run == [id |-> id, at |-> time + 1]
<1>1. time \in Nat /\ time' = time + 1 /\ time' \in Nat /\ time <= time' BY DEF Typed, Replace
<1>2. run \in MaybeRun(time') BY <1>1 DEF MaybeRun, KnownRuns, Runs
<1>3. /\ t \in KnownTabs(time') /\ local \in [Devices -> MaybeRun(time')]
      /\ tabs \in [Devices -> KnownTabs(time')]
      /\ rows \in [Owners -> KnownRows(time')] /\ late \subseteq KnownRequests(time')
  BY <1>1, Grow DEF Typed
<1>4. calls \in [Devices -> [Procs -> KnownCalls(time')]]
  <2>1. KnownCalls(time) \subseteq KnownCalls(time') BY <1>1, Grow
  <2>2. \A e \in Devices : calls[e] \in [Procs -> KnownCalls(time')] BY <2>1 DEF Typed
  <2> QED BY <2>2 DEF Typed
<1> HIDE DEF run
<1>5. Replaced(t, run) \in KnownTabs(time') BY <1>2, <1>3, QueueSaveTyped
<1>6. tabs' = [tabs EXCEPT ![d] = Replaced(t, run)] /\ local' = [local EXCEPT ![d] = run]
  BY DEF Replace, SetTab, SetLocal, run
<1>7. tabs' \in [Devices -> KnownTabs(time')] /\ local' \in [Devices -> MaybeRun(time')]
  BY <1>2, <1>3, <1>5, <1>6
<1> QED BY <1>1, <1>3, <1>4, <1>7 DEF Replace, Typed

LEMMA PlayTyped == ASSUME Typed, NEW d \in Devices, Play(d) PROVE Typed'
<1>1. tabs[d].run \in Runs BY PageTyped DEF Play, MaybeRun, KnownRuns
<1>2. tabs[d].run.id \in 0..(time + 1) BY <1>1, PageTyped DEF Play, Runs, MaybeRun, KnownRuns
<1> QED BY <1>2, PageTyped, ReplaceTyped DEF Play

LEMMA StartTyped == ASSUME Typed, NEW d \in Devices, Start(d) PROVE Typed'
<1>1. [tabs[d] EXCEPT !.starting = FALSE] \in KnownTabs(time) BY PageTyped DEF KnownTabs
<1>2. time + 1 \in 0..(time + 1) BY PageTyped
<1> QED BY <1>1, <1>2, ReplaceTyped DEF Start

LEMMA AbandonRunTyped ==
  ASSUME Typed, NEW d \in Devices, NEW t \in KnownTabs(time), AbandonRun(d, t)
  PROVE  Typed'
<1> DEFINE job == [do |-> "delete", run |-> [id |-> t.run.id, at |-> time]]
<1>1. t.run \in KnownRuns(time) BY DEF AbandonRun, KnownTabs, MaybeRun
<1>2. time \in Nat /\ t.run.id \in 0..time /\ None \in MaybeRun(time)
  BY <1>1 DEF Typed, KnownRuns, Runs, MaybeRun
<1>3. job \in KnownJobs(time) BY <1>2 DEF KnownJobs, MaybeRun, KnownRuns, Runs
<1>4. t.chain \in Seq(KnownJobs(time)) BY DEF KnownTabs
<1> HIDE DEF job
<1>5. Append(t.chain, job) \in Seq(KnownJobs(time)) BY <1>3, <1>4
<1>6. Abandoned(t) \in KnownTabs(time) BY <1>2, <1>4, <1>5 DEF Abandoned, KnownTabs, job
<1>7. SetTab(d, Abandoned(t)) /\ SetLocal(d, None) BY DEF AbandonRun
<1>8. tabs' \in [Devices -> KnownTabs(time)] /\ local' \in [Devices -> MaybeRun(time)]
  BY <1>2, <1>6, <1>7, SetTabFacts, SetLocalFacts
<1> QED BY <1>8 DEF AbandonRun, Typed

LEMMA AbandonTyped == ASSUME Typed, NEW d \in Devices, Abandon(d) PROVE Typed'
BY PageTyped, AbandonRunTyped DEF Abandon

LEMMA StartOverTyped == ASSUME Typed, NEW d \in Devices, StartOver(d) PROVE Typed'
<1>1. [tabs[d] EXCEPT !.starting = TRUE] \in KnownTabs(time) BY PageTyped DEF KnownTabs
<1> QED BY <1>1, AbandonRunTyped DEF StartOver

LEMMA CallTyped ==
  ASSUME Typed, NEW d \in Devices, NEW p \in Procs, NEW c \in KnownCalls(time),
         calls' = [calls EXCEPT ![d][p] = c]
  PROVE  /\ calls' \in [Devices -> [Procs -> KnownCalls(time)]] /\ calls'[d][p] = c
         /\ OthersWait(d, p)
BY DEF Typed, OthersWait

\* What is awaited is over, and answered.
LEMMA AnsweredTyped ==
  ASSUME Typed, NEW d \in Devices, NEW p \in Procs, NEW a \in KnownAnswers(time),
         calls' = [calls EXCEPT ![d][p].sent = None, ![d][p].answer = a]
  PROVE  /\ calls' \in [Devices -> [Procs -> KnownCalls(time)]]
         /\ calls'[d][p] = [calls[d][p] EXCEPT !.sent = None, !.answer = a]
         /\ OthersWait(d, p)
<1> DEFINE c == [calls[d][p] EXCEPT !.sent = None, !.answer = a]
<1>1. c \in KnownCalls(time) BY PageTyped DEF KnownCalls
<1>2. calls' = [calls EXCEPT ![d][p] = c] BY PageTyped DEF KnownCalls, Typed
<1> HIDE DEF c
<1>3. /\ calls' \in [Devices -> [Procs -> KnownCalls(time)]] /\ calls'[d][p] = c
      /\ OthersWait(d, p)
  BY <1>1, <1>2, CallTyped
<1> QED BY <1>3 DEF c

LEMMA ServeTyped ==
  ASSUME Typed, NEW d \in Devices, NEW p \in Procs, Serve(d, p)
  PROVE  /\ Typed' /\ OthersWait(d, p)
         /\ calls'[d][p] = [calls[d][p] EXCEPT !.sent = None, !.answer = Result(calls[d][p].sent).answer]
<1> DEFINE q == calls[d][p].sent
<1>1. q \in KnownRequests(time) BY PageTyped DEF Serve
<1>2. /\ Result(q).rows \in [Owners -> KnownRows(time)]
      /\ Result(q).answer \in KnownAnswers(time)
  BY <1>1, ResultTyped
<1>3. /\ rows' = Result(q).rows
      /\ calls' = [calls EXCEPT ![d][p].sent = None, ![d][p].answer = Result(q).answer]
  BY DEF Serve
<1> HIDE DEF q
<1>4. /\ calls' \in [Devices -> [Procs -> KnownCalls(time)]] /\ OthersWait(d, p)
      /\ calls'[d][p] = [calls[d][p] EXCEPT !.sent = None, !.answer = Result(q).answer]
  BY <1>2, <1>3, AnsweredTyped
<1>5. Typed' BY <1>2, <1>3, <1>4 DEF Serve, Typed
<1> QED BY <1>4, <1>5 DEF q

LEMMA LoseTyped ==
  ASSUME Typed, NEW d \in Devices, NEW p \in Procs, Lose(d, p)
  PROVE  /\ Typed' /\ OthersWait(d, p)
         /\ calls'[d][p] = [calls[d][p] EXCEPT !.sent = None, !.answer = Failure]
<1>1. time \in Nat /\ faults' \in Nat BY DEF Typed, Lose
<1>2. /\ calls' \in [Devices -> [Procs -> KnownCalls(time)]] /\ OthersWait(d, p)
      /\ calls'[d][p] = [calls[d][p] EXCEPT !.sent = None, !.answer = Failure]
  BY <1>1, NothingTyped, AnsweredTyped DEF Lose
<1> QED BY <1>1, <1>2 DEF Lose, Typed

LEMMA ServeLateTyped == ASSUME Typed, NEW q \in late, ServeLate(q) PROVE Typed'
<1>1. q \in KnownRequests(time) BY DEF Typed
<1>2. rows' \in [Owners -> KnownRows(time)] BY <1>1, ResultTyped DEF ServeLate
<1> QED BY <1>2 DEF ServeLate, Typed

LEMMA LeaveTyped ==
  ASSUME Typed, NEW d \in Devices, Leave(d), session' \in [Devices -> BOOLEAN]
  PROVE  Typed'
<1>1. time \in Nat /\ reloads' \in Nat BY DEF Typed, Leave
<1>2. FreshTab(local[d]) \in KnownTabs(time) BY <1>1, NothingTyped, PageTyped
<1>3. tabs' \in [Devices -> KnownTabs(time)] BY <1>2, SetTabFacts DEF Leave
<1>4. calls' \in [Devices -> [Procs -> KnownCalls(time)]]
  BY <1>1, NothingTyped DEF Leave, Typed
<1>5. Outstanding(d) \subseteq KnownRequests(time) BY PageTyped DEF Outstanding
<1>6. late' \subseteq KnownRequests(time) BY <1>5 DEF Leave, Typed
<1> QED BY <1>1, <1>3, <1>4, <1>6 DEF Leave, Typed

----------------------------------------------------------------------------
(* What the parts of one page have to do with each other *)

\* No two scenes of the page hydrated it at once; no race befell it.
One(d) == "hydrate" \notin astray[d]
Straight(d) == astray[d] = {}

\* Until it is hydrated, by one scene at a time, a page shows what the browser holds; then the
\* two are the same, or two Runs between which the player has to choose.
Open(d) ==
  /\ local[d] = tabs[d].run \/ OtherRun(local[d], tabs[d].run)
  /\ \A m, o \in Mounts : calls[d][m] # Idle /\ calls[d][o] # Idle => m = o
  /\ tabs[d].hydrated => \A m \in Mounts : calls[d][m] = Idle
  /\ ~tabs[d].hydrated =>
       /\ local[d] = tabs[d].run /\ tabs[d].chain = <<>> /\ tabs[d].conflict = None
       /\ ~tabs[d].starting /\ calls[d]["choice"] = Idle
       /\ \A m \in Mounts : calls[d][m] # Idle => calls[d][m].run = local[d]

\* What the chain works on is its first job.
HeadInHand(t, c) ==
  c # Idle =>
    /\ c.run = Head(t.chain).run
    /\ c.at = "delete" <=> Head(t.chain).do = "delete"
    /\ c.at # "delete" => t.syncing

\* A PUT that succeeded has written what its sender holds on to.
WritesItsRun(c) ==
  c.at \in {"save", "saveWar", "saveBrowser", "saveBrowserWar"} =>
    /\ c.sent # None => c.sent.kind = "put" /\ c.sent.run = c.run
    /\ c.answer # None /\ c.answer.status = "ok" => c.answer.row.run = c.run

LastJobIsRun(t) ==
  t.hydrated /\ t.remoteOwner = "account" /\ t.chain # <<>> =>
    LET job == t.chain[Len(t.chain)] IN t.run = IF job.do = "save" THEN job.run ELSE None

ConflictStands(t, c) ==
  t.conflict # None =>
    /\ t.hydrated /\ t.run # None /\ t.conflict.accountRun = t.remote.run
    /\ ~Deletes(t.chain) /\ c = Idle

ChoiceStands(t, c) == c # Idle => t.conflict # None /\ t.chain = <<>> /\ t.syncing

\* While a DELETE waits behind a save the page shows no Run.
BuriedWaits(t) == Buried(t.chain) => t.run = None

StartsAnew(t) == t.starting => t.run = None

Quiet(t) ==
  t.hydrated /\ t.remoteOwner = "account" /\ t.chain = <<>> /\ ~t.error /\ t.conflict = None
    => t.remote.run = t.run

Joins(t, work, choice) ==
  /\ HeadInHand(t, work) /\ WritesItsRun(work) /\ WritesItsRun(choice)
  /\ LastJobIsRun(t) /\ ConflictStands(t, work) /\ ChoiceStands(t, choice)
  /\ BuriedWaits(t) /\ StartsAnew(t) /\ Quiet(t)

Joined(d) == Joins(tabs[d], calls[d]["chain"], calls[d]["choice"])

\* Nothing happens to the other pages.
Elsewhere(d) ==
  \A e \in Devices \ {d} : tabs'[e] = tabs[e] /\ calls'[e] = calls[e] /\ local'[e] = local[e]

\* Neither the browser nor the page goes back.
Ahead(d) == ~Older(local'[d], local[d]) /\ ~Older(tabs'[d].run, tabs[d].run)

----------------------------------------------------------------------------
(* Lemmas about versions and chains *)

LEMMA NotOlder ==
  ASSUME NEW n \in Nat, NEW r \in MaybeRun(n)
  PROVE  /\ ~Older(r, r) /\ ~Older(None, r)
         /\ \A s \in MaybeRun(n) : OtherRun(s, r) => ~Older(s, r) /\ ~Older(r, s)
         /\ \A id \in Nat : ~Older([id |-> id, at |-> n + 1], r)
<1>1. r = None \/ (r.at \in Nat /\ r.at <= n) BY DEF MaybeRun, KnownRuns, Runs
<1> QED BY <1>1 DEF Older, SameRun, OtherRun

LEMMA TailJobs ==
  ASSUME NEW n, NEW s \in Seq(KnownJobs(n)), s # <<>>
  PROVE  /\ Len(Tail(s)) = Len(s) - 1
         /\ Deletes(Tail(s)) => Deletes(s) /\ (Head(s).do = "save" => Buried(s))
         /\ Buried(Tail(s)) => Buried(s)
         /\ Head(s).do = "delete" => Deletes(s)
         /\ Tail(s) # <<>> => Tail(s)[Len(Tail(s))] = s[Len(s)]
         /\ Tail(s) = <<>> => s[Len(s)] = Head(s)
         /\ Head(s).do \in {"save", "delete"}
<1>1. /\ Len(s) \in Nat /\ Len(s) >= 1 /\ Head(s) = s[1] /\ Len(Tail(s)) = Len(s) - 1
      /\ \A i \in 1..Len(Tail(s)) : Tail(s)[i] = s[i + 1]
      /\ Tail(s) \in Seq(KnownJobs(n)) /\ Head(s) \in KnownJobs(n)
  OBVIOUS
<1>2. Tail(s) = <<>> <=> Len(s) = 1 BY <1>1
<1>3. Deletes(Tail(s)) => Deletes(s) /\ (Head(s).do = "save" => Buried(s))
  <2> SUFFICES ASSUME NEW i \in 1..Len(Tail(s)), Tail(s)[i].do = "delete"
               PROVE  Deletes(s) /\ (Head(s).do = "save" => Buried(s))
    BY DEF Deletes
  <2>1. s[i + 1].do = "delete" /\ i + 1 \in 1..Len(s) /\ 1 \in 1..Len(s) /\ 1 < i + 1 BY <1>1
  <2> QED BY <1>1, <2>1 DEF Deletes, Buried
<1>4. Buried(Tail(s)) => Buried(s)
  <2> SUFFICES ASSUME NEW i \in 1..Len(Tail(s)), NEW j \in 1..Len(Tail(s)), i < j,
                      Tail(s)[i].do = "save", Tail(s)[j].do = "delete"
               PROVE  Buried(s)
    BY DEF Buried
  <2>1. /\ s[i + 1].do = "save" /\ s[j + 1].do = "delete" /\ i + 1 < j + 1
        /\ i + 1 \in 1..Len(s) /\ j + 1 \in 1..Len(s)
    BY <1>1
  <2> QED BY <2>1 DEF Buried
<1>6. Head(s).do = "delete" => Deletes(s) BY <1>1 DEF Deletes
<1>7. Tail(s) # <<>> => Tail(s)[Len(Tail(s))] = s[Len(s)] BY <1>1, <1>2
<1>8. Tail(s) = <<>> => s[Len(s)] = Head(s) BY <1>1, <1>2
<1>9. Head(s).do \in {"save", "delete"} BY <1>1 DEF KnownJobs
<1> QED BY <1>1, <1>3, <1>4, <1>6, <1>7, <1>8, <1>9

LEMMA AppendJobs ==
  ASSUME NEW n, NEW s \in Seq(KnownJobs(n)), NEW job \in KnownJobs(n)
  PROVE  /\ Len(Append(s, job)) = Len(s) + 1 /\ Append(s, job) # <<>>
         /\ Append(s, job)[Len(Append(s, job))] = job
         /\ s # <<>> => Head(Append(s, job)) = Head(s)
         /\ job.do = "save" /\ Deletes(Append(s, job)) => Deletes(s)
         /\ job.do = "save" /\ Buried(Append(s, job)) => Buried(s)
<1> DEFINE a == Append(s, job)
<1>1. /\ Len(s) \in Nat /\ Len(a) = Len(s) + 1 /\ a # <<>> /\ a[Len(s) + 1] = job
      /\ \A i \in 1..Len(s) : a[i] = s[i]
      /\ s # <<>> => Head(a) = Head(s) /\ Head(s) = s[1] /\ Len(s) >= 1
      /\ Len(s) >= 1 => s # <<>>
  <2>1. Len(s) \in Nat /\ Len(a) = Len(s) + 1 /\ a \in Seq(KnownJobs(n)) OBVIOUS
  <2>2. a[Len(s) + 1] = job /\ \A i \in 1..Len(s) : a[i] = s[i] OBVIOUS
  <2>3. s # <<>> <=> Len(s) >= 1 OBVIOUS
  <2>4. a # <<>> BY <2>1
  <2>5. Head(a) = a[1] /\ Head(s) = s[1] BY <2>1
  <2> HIDE DEF a
  <2> QED BY <2>1, <2>2, <2>3, <2>4, <2>5
<1> HIDE DEF a
<1>2. job.do = "save" /\ Deletes(a) => Deletes(s)
  <2> SUFFICES ASSUME job.do = "save", NEW i \in 1..Len(a), a[i].do = "delete" PROVE Deletes(s)
    BY DEF Deletes
  <2>1. i \in 1..Len(s) BY <1>1
  <2> QED BY <1>1, <2>1 DEF Deletes
<1>3. job.do = "save" /\ Buried(a) => Buried(s)
  <2> SUFFICES ASSUME job.do = "save", NEW i \in 1..Len(a), NEW j \in 1..Len(a), i < j,
                      a[i].do = "save", a[j].do = "delete"
               PROVE  Buried(s)
    BY DEF Buried
  <2>1. i \in 1..Len(s) /\ j \in 1..Len(s) BY <1>1
  <2> QED BY <1>1, <2>1 DEF Buried
<1> QED BY <1>1, <1>2, <1>3 DEF a

LEMMA EmptyJobs == ~Deletes(<<>>) /\ ~Buried(<<>>)
BY DEF Deletes, Buried

----------------------------------------------------------------------------
(* One lemma per action: the parts of a page *)

LEMMA Distinct == /\ {"chain", "choice"} \subseteq Procs /\ Mounts \subseteq Procs
                  /\ "chain" \notin Mounts /\ "choice" \notin Mounts
BY MountAssumption DEF Procs

\* What a race leaves of the history of its page.
LEMMA RaceTraced ==
  ASSUME Traced, NEW d \in Devices, NEW race \in Races, NEW is, Race(d, race, is)
  PROVE  /\ Traced' /\ astray[d] \subseteq astray'[d]
         /\ is => race \in astray'[d]
         /\ \A e \in Devices \ {d} : astray'[e] = astray[e]
<1>1. astray' = [astray EXCEPT ![d] = IF is THEN astray[d] \cup {race} ELSE astray[d]] BY DEF Race
<1>2. astray'[d] = IF is THEN astray[d] \cup {race} ELSE astray[d] BY <1>1 DEF Traced
<1> QED BY <1>1, <1>2 DEF Traced

LEMMA SameIsAhead ==
  ASSUME Typed, NEW d \in Devices, local'[d] = local[d], tabs'[d].run = tabs[d].run
  PROVE  Ahead(d)
BY PageTyped, NotOlder DEF Ahead

LEMMA NextJobLinks ==
  ASSUME Typed, NEW d \in Devices, Working(d), NextJob(d)
  PROVE  /\ Elsewhere(d) /\ Working(d)'
         /\ Open(d) => Open(d)' /\ Ahead(d)
         /\ Open(d) /\ Joined(d) => Joined(d)'
<1> DEFINE t == tabs[d] job == Head(t.chain) c == calls[d]["chain"] choice == calls[d]["choice"]
<1>1. t.chain # <<>> /\ c = Idle /\ local' = local BY DEF NextJob, ReadyJob
<1>2. {"delete", "save"} \subseteq Awaits BY DEF Awaits
<1>3. t \in KnownTabs(time) /\ t.chain \in Seq(KnownJobs(time)) BY PageTyped
<1>4. ASSUME OthersWait(d, "chain"), \A e \in Devices \ {d} : tabs'[e] = tabs[e],
             tabs'[d].run = t.run, tabs'[d].hydrated = t.hydrated
      PROVE  /\ Elsewhere(d) /\ choice' = choice
             /\ Open(d) => Open(d)' /\ Ahead(d)
  <2>1. /\ Elsewhere(d) /\ choice' = choice /\ local'[d] = local[d]
        /\ \A m \in Mounts : calls'[d][m] = calls[d][m]
    BY <1>1, <1>4, Distinct DEF Elsewhere, OthersWait
  <2>2. Ahead(d) BY <1>4, <2>1, SameIsAhead
  <2>3. Open(d) => t.hydrated BY <1>1 DEF Open
  <2>4. Open(d) => Open(d)' BY <1>4, <2>1, <2>3 DEF Open
  <2> QED BY <2>1, <2>2, <2>4
<1>5. CASE job.do = "delete" /\ Send(d, "chain", "delete", job.run, t.remote, "delete") /\ UNCHANGED tabs
  <2>1. /\ c'.at = "delete" /\ c'.run = job.run /\ OthersWait(d, "chain")
    BY <1>1, <1>2, <1>5, Distinct, PageTyped, SendTyped
  <2>2. /\ Elsewhere(d) /\ choice' = choice
        /\ Open(d) => Open(d)' /\ Ahead(d)
    BY <1>4, <1>5, <2>1
  <2>3. ASSUME Joined(d) PROVE Joined(d)'
    <3>1. Joins(t, c, choice) BY <2>3 DEF Joined
    <3>2. Deletes(t.chain) BY <1>1, <1>3, <1>5, TailJobs
    <3>3. t.conflict = None BY <3>1, <3>2 DEF Joins, ConflictStands
    <3>4. choice = Idle BY <3>1, <3>3 DEF Joins, ChoiceStands
    <3>5. HeadInHand(t, c') /\ WritesItsRun(c') BY <1>5, <2>1 DEF HeadInHand, WritesItsRun
    <3>8. ConflictStands(t, c') /\ ChoiceStands(t, choice) BY <3>3, <3>4 DEF ConflictStands, ChoiceStands
    <3>9. Joins(t, c', choice) BY <3>1, <3>5, <3>8 DEF Joins
    <3> QED BY <1>5, <2>2, <3>9 DEF Joined
  <2>4. Working(d)' BY <1>1, <1>5 DEF Working
  <2> QED BY <2>2, <2>3, <2>4
<1>6. CASE /\ t.remoteOwner = "none" \/ t.conflict # None
           /\ job.do # "delete"
           /\ SetTab(d, [t EXCEPT !.chain = Tail(@)]) /\ UNCHANGED calls
  <2> DEFINE u == [t EXCEPT !.chain = Tail(@)]
  <2>1. /\ u.run = t.run /\ u.hydrated = t.hydrated /\ u.chain = Tail(t.chain)
        /\ u.remoteOwner = t.remoteOwner /\ u.conflict = t.conflict /\ u.remote = t.remote
        /\ u.starting = t.starting /\ u.syncing = t.syncing /\ u.error = t.error
    BY <1>3 DEF KnownTabs
  <2>2. tabs'[d] = u /\ \A e \in Devices \ {d} : tabs'[e] = tabs[e] BY <1>6, SetTabFacts
  <2> HIDE DEF u
  <2>3. OthersWait(d, "chain") BY <1>6 DEF OthersWait
  <2>4. /\ Elsewhere(d) /\ choice' = choice
        /\ Open(d) => Open(d)' /\ Ahead(d)
    BY <1>4, <2>1, <2>2, <2>3
  <2>5. ASSUME Joined(d) PROVE Joined(d)'
    <3>1. Joins(t, c, choice) BY <2>5 DEF Joined
    <3>2. /\ Deletes(u.chain) => Deletes(t.chain)
          /\ Buried(u.chain) => Buried(t.chain)
          /\ u.chain # <<>> => u.chain[Len(u.chain)] = t.chain[Len(t.chain)]
      BY <1>1, <1>3, <2>1, TailJobs
    <3>3. HeadInHand(u, c) /\ BuriedWaits(u)
      BY <1>1, <2>1, <3>1, <3>2 DEF Joins, HeadInHand, BuriedWaits
    <3>4. LastJobIsRun(u) /\ ConflictStands(u, c) /\ StartsAnew(u)
      BY <1>1, <2>1, <3>1, <3>2 DEF Joins, LastJobIsRun, ConflictStands, StartsAnew
    <3>5. Quiet(u) BY <1>6, <2>1 DEF Quiet
    <3>6. ChoiceStands(u, choice) BY <1>1, <3>1 DEF Joins, ChoiceStands
    <3>7. Joins(u, c, choice) BY <3>1, <3>2, <3>3, <3>4, <3>5, <3>6 DEF Joins
    <3>8. c' = c BY <1>6
    <3> QED BY <2>2, <2>4, <3>7, <3>8 DEF Joined
  <2>6. Working(d)' BY <1>1, <1>6 DEF Working
  <2> QED BY <2>4, <2>5, <2>6
<1>7. CASE /\ job.do # "delete" /\ t.conflict = None
           /\ SendPut(d, "chain", "save", job.run, t.remote) /\ SetTab(d, [t EXCEPT !.syncing = TRUE])
  <2> DEFINE u == [t EXCEPT !.syncing = TRUE]
  <2>1. /\ u.run = t.run /\ u.hydrated = t.hydrated /\ u.chain = t.chain
        /\ u.remoteOwner = t.remoteOwner /\ u.conflict = t.conflict /\ u.remote = t.remote
        /\ u.starting = t.starting /\ u.syncing /\ u.error = t.error
    BY <1>3 DEF KnownTabs
  <2>2. tabs'[d] = u /\ \A e \in Devices \ {d} : tabs'[e] = tabs[e] BY <1>7, SetTabFacts
  <2> HIDE DEF u
  <2>3. /\ c'.at = "save" /\ c'.run = job.run /\ c'.answer = None
        /\ c'.sent.kind = "put" /\ c'.sent.run = job.run /\ OthersWait(d, "chain")
    BY <1>1, <1>2, <1>7, Distinct, PageTyped, SendPutTyped
  <2>4. /\ Elsewhere(d) /\ choice' = choice
        /\ Open(d) => Open(d)' /\ Ahead(d)
    BY <1>4, <2>1, <2>2, <2>3
  <2>5. ASSUME Joined(d) PROVE Joined(d)'
    <3>1. Joins(t, c, choice) BY <2>5 DEF Joined
    <3>2. HeadInHand(u, c') /\ WritesItsRun(c')
      BY <1>7, <2>1, <2>3 DEF HeadInHand, WritesItsRun
    <3>3. LastJobIsRun(u) /\ StartsAnew(u) /\ Quiet(u)
      BY <1>1, <2>1, <3>1 DEF Joins, LastJobIsRun, StartsAnew, Quiet
    <3>4. ConflictStands(u, c') /\ ChoiceStands(u, choice)
      BY <1>7, <2>1, <3>1 DEF Joins, ConflictStands, ChoiceStands
    <3>5. BuriedWaits(u) BY <2>1, <3>1 DEF Joins, BuriedWaits
    <3>6. Joins(u, c', choice) BY <3>1, <3>2, <3>3, <3>4, <3>5 DEF Joins
    <3> QED BY <2>2, <2>4, <3>6 DEF Joined
  <2>6. Working(d)' BY <1>1, <2>1, <2>2 DEF Working
  <2> QED BY <2>4, <2>5, <2>6
<1> QED BY <1>5, <1>6, <1>7 DEF NextJob

\* What the end of a job leaves on the page is a conflict as it stands, or a Run that is
\* saved, unless it is an error.
Concludes(u) ==
  /\ u.conflict # None => /\ u.run # None /\ u.conflict.accountRun = u.remote.run
                          /\ ~Deletes(Tail(u.chain))
  /\ Tail(u.chain) = <<>> =>
       u.error \/ u.conflict # None \/ u.remoteOwner # "account" \/ u.remote.run = u.run

\* The end of a job: u is the page with what the answer told it.
LEMMA JobDoneLinks ==
  ASSUME Typed, NEW d \in Devices, calls[d]["chain"] # Idle, tabs[d].chain # <<>>, local' = local,
         NEW u \in KnownTabs(time),
         u.run = tabs[d].run, u.hydrated = tabs[d].hydrated, u.chain = tabs[d].chain,
         u.remoteOwner = tabs[d].remoteOwner, u.starting = tabs[d].starting,
         JobDone(d, u)
  PROVE  /\ Elsewhere(d) /\ Working(d)'
         /\ Open(d) => Open(d)' /\ Ahead(d)
         /\ Joined(d) /\ Open(d) /\ Concludes(u) => Joined(d)'
<1> DEFINE c == calls[d]["chain"] choice == calls[d]["choice"] t == tabs[d]
           v == [u EXCEPT !.chain = Tail(@)]
<1>1. /\ v.run = u.run /\ v.hydrated = u.hydrated /\ v.chain = Tail(u.chain)
      /\ v.remoteOwner = u.remoteOwner /\ v.conflict = u.conflict /\ v.remote = u.remote
      /\ v.starting = u.starting /\ v.syncing = u.syncing /\ v.error = u.error
  BY DEF KnownTabs
<1>2. tabs'[d] = v /\ \A e \in Devices \ {d} : tabs'[e] = tabs[e] BY SetTabFacts DEF JobDone
<1> HIDE DEF v
<1>3. c' = Idle /\ OthersWait(d, "chain") BY Distinct, ReturnTyped DEF JobDone
<1>4. /\ Elsewhere(d) /\ choice' = choice /\ local'[d] = local[d]
      /\ \A m \in Mounts : calls'[d][m] = calls[d][m]
  BY <1>2, <1>3, Distinct DEF Elsewhere, OthersWait
<1>5. Working(d)' BY <1>3 DEF Working
<1>6. Ahead(d) BY <1>1, <1>2, <1>4, SameIsAhead
<1>7. Open(d) => Open(d)' BY <1>1, <1>2, <1>4 DEF Open
<1>8. ASSUME Joined(d), Open(d), Concludes(u) PROVE Joined(d)'
  <2>1. Joins(t, c, choice) BY <1>8 DEF Joined
  <2>2. t.conflict = None BY <2>1 DEF Joins, ConflictStands
  <2>3. choice = Idle BY <2>1, <2>2 DEF Joins, ChoiceStands
  <2>4. t.hydrated BY <1>8 DEF Open
  <2>5. /\ Buried(v.chain) => Buried(t.chain)
        /\ v.chain # <<>> => v.chain[Len(v.chain)] = t.chain[Len(t.chain)]
    BY <1>1, PageTyped, TailJobs
  <2>6. HeadInHand(v, c') /\ WritesItsRun(c') BY <1>3 DEF HeadInHand, WritesItsRun, Idle
  <2>7. LastJobIsRun(v) /\ StartsAnew(v)
    BY <1>1, <2>1, <2>5 DEF Joins, LastJobIsRun, StartsAnew
  <2>8. ConflictStands(v, c') /\ ChoiceStands(v, choice)
    BY <1>1, <1>3, <1>8, <2>3, <2>4 DEF Concludes, ConflictStands, ChoiceStands
  <2>9. BuriedWaits(v) BY <1>1, <1>3, <2>1, <2>5 DEF Joins, BuriedWaits
  <2>10. Quiet(v) BY <1>1, <1>8 DEF Concludes, Quiet
  <2>11. Joins(v, c', choice) BY <2>1, <2>5, <2>6, <2>7, <2>8, <2>9, <2>10 DEF Joins
  <2> QED BY <1>2, <1>4, <2>11 DEF Joined
<1> QED BY <1>4, <1>5, <1>6, <1>7, <1>8

LEMMA JobAnsweredLinks ==
  ASSUME Typed, NEW d \in Devices, Working(d), JobAnswered(d)
  PROVE  /\ Elsewhere(d) /\ Working(d)'
         /\ Open(d) => Open(d)' /\ Ahead(d)
         /\ Open(d) /\ Joined(d) => Joined(d)'
<1> DEFINE c == calls[d]["chain"] choice == calls[d]["choice"] a == c.answer t == tabs[d]
<1>1. a # None /\ local' = local BY DEF JobAnswered
<1>2. c # Idle /\ t.chain # <<>> BY <1>1 DEF Working, Idle
<1>3. {"saveWar", "reread"} \subseteq Awaits BY DEF Awaits
<1>4. /\ t \in KnownTabs(time) /\ a.row \in KnownRows(time) /\ a.row.run \in MaybeRun(time)
      /\ t.run \in MaybeRun(time) /\ t.chain \in Seq(KnownJobs(time)) /\ NoRow \in KnownRows(time)
  BY <1>1, Distinct, PageTyped, NothingTyped
<1>5. Joined(d) => /\ t.conflict = None /\ choice = Idle /\ HeadInHand(t, c) /\ WritesItsRun(c)
                   /\ LastJobIsRun(t) /\ BuriedWaits(t)
  BY <1>2 DEF Joined, Joins, ConflictStands, ChoiceStands
<1>6. /\ Deletes(Tail(t.chain)) /\ Head(t.chain).do = "save" => Buried(t.chain)
      /\ Tail(t.chain) = <<>> => t.chain[Len(t.chain)] = Head(t.chain)
      /\ Head(t.chain).do \in {"save", "delete"}
  BY <1>2, <1>4, TailJobs
<1>7. ASSUME OthersWait(d, "chain"), UNCHANGED tabs, c'.at \in {"saveWar", "reread"}, c.at # "delete",
             c'.run = c.run, c'.answer = None,
             c'.at = "saveWar" => c'.sent.kind = "put" /\ c'.sent.run = c.run
      PROVE  /\ Elsewhere(d) /\ Working(d)'
             /\ Open(d) => Open(d)' /\ Ahead(d)
             /\ Open(d) /\ Joined(d) => Joined(d)'
  <2>1. /\ Elsewhere(d) /\ choice' = choice /\ local'[d] = local[d] /\ tabs'[d] = t
        /\ \A m \in Mounts : calls'[d][m] = calls[d][m]
    BY <1>1, <1>7, Distinct DEF Elsewhere, OthersWait
  <2>2. Working(d)' BY <1>2, <2>1 DEF Working
  <2>3. Ahead(d) BY <2>1, SameIsAhead
  <2>4. Open(d) => Open(d)' BY <2>1 DEF Open
  <2>5. ASSUME Joined(d) PROVE Joined(d)'
    <3>1. Joins(t, c, choice) BY <2>5 DEF Joined
    <3>2. HeadInHand(t, c') /\ WritesItsRun(c')
      BY <1>2, <1>5, <1>7, <2>5 DEF HeadInHand, WritesItsRun
    <3>3. ConflictStands(t, c') BY <1>5, <2>5 DEF ConflictStands
    <3>4. Joins(t, c', choice) BY <3>1, <3>2, <3>3 DEF Joins
    <3> QED BY <2>1, <3>4 DEF Joined
  <2> QED BY <2>1, <2>2, <2>3, <2>4, <2>5
<1>8. CASE c.at = "save" /\ SendPut(d, "chain", "saveWar", c.run, c.remote) /\ UNCHANGED tabs
  <2>1. /\ c'.at = "saveWar" /\ c'.run = c.run /\ c'.answer = None /\ OthersWait(d, "chain")
        /\ c'.sent.kind = "put" /\ c'.sent.run = c.run
    BY <1>3, <1>8, Distinct, PageTyped, SendPutTyped
  <2> QED BY <1>7, <1>8, <2>1
<1>9. CASE c.at \in {"save", "saveWar"} /\ Send(d, "chain", "reread", c.run, c.remote, "get") /\ UNCHANGED tabs
  <2>1. c'.at = "reread" /\ c'.run = c.run /\ c'.answer = None /\ OthersWait(d, "chain")
    BY <1>3, <1>9, Distinct, PageTyped, SendTyped
  <2> QED BY <1>7, <1>9, <2>1
<1>10. CASE /\ c.at \in {"save", "saveWar"} /\ a.status = "ok"
            /\ JobDone(d, [t EXCEPT !.remote = a.row, !.error = FALSE, !.syncing = FALSE])
  <2> DEFINE u == [t EXCEPT !.remote = a.row, !.error = FALSE, !.syncing = FALSE]
  <2>1. /\ u \in KnownTabs(time) /\ u.run = t.run /\ u.hydrated = t.hydrated /\ u.chain = t.chain
        /\ u.remoteOwner = t.remoteOwner /\ u.starting = t.starting
        /\ u.conflict = t.conflict /\ u.remote = a.row
    BY <1>4 DEF KnownTabs
  <2>2. JobDone(d, u) BY <1>10
  <2> HIDE DEF u
  <2>3. ASSUME Joined(d), Open(d) PROVE Concludes(u)
    <3>1. t.hydrated BY <1>2, <2>3 DEF Open
    <3>2. a.row.run = Head(t.chain).run /\ Head(t.chain).do = "save"
      BY <1>1, <1>2, <1>5, <1>6, <1>10, <2>3 DEF HeadInHand, WritesItsRun
    <3>3. Tail(t.chain) = <<>> /\ t.remoteOwner = "account" => t.run = a.row.run
      BY <1>2, <1>5, <1>6, <2>3, <3>1, <3>2 DEF LastJobIsRun
    <3> QED BY <1>5, <2>1, <2>3, <3>3 DEF Concludes
  <2> QED BY <1>1, <1>2, <2>1, <2>2, <2>3, JobDoneLinks
<1>11. CASE JobDone(d, Waiting(t)) \/ JobDone(d, DeleteFailed(t))
  <2>1. PICK u \in {Waiting(t), DeleteFailed(t)} : JobDone(d, u) BY <1>11
  <2>2. /\ u \in KnownTabs(time) /\ u.run = t.run /\ u.hydrated = t.hydrated /\ u.chain = t.chain
        /\ u.remoteOwner = t.remoteOwner /\ u.starting = t.starting
        /\ u.conflict = t.conflict /\ u.error
    <3>1. CASE u = Waiting(t) BY <1>4, <3>1, WaitingTyped DEF Waiting, KnownTabs
    <3>2. CASE u = DeleteFailed(t) BY <1>4, <3>2, WaitingTyped DEF DeleteFailed, KnownTabs
    <3> QED BY <2>1, <3>1, <3>2
  <2>3. Joined(d) => Concludes(u) BY <1>5, <2>2 DEF Concludes
  <2> QED BY <1>1, <1>2, <2>1, <2>2, <2>3, JobDoneLinks
<1>12. CASE /\ c.at = "reread" /\ OtherRun(a.row.run, t.run)
            /\ JobDone(d, [t EXCEPT !.conflict = [browserRun |-> t.run, accountRun |-> a.row.run],
                                    !.remote = a.row, !.error = FALSE, !.syncing = FALSE])
  <2> DEFINE dispute == [browserRun |-> t.run, accountRun |-> a.row.run]
             u == [t EXCEPT !.conflict = dispute, !.remote = a.row, !.error = FALSE, !.syncing = FALSE]
  <2>1. dispute \in KnownConflicts(time) BY <1>4, <1>12 DEF OtherRun, MaybeRun, KnownConflicts
  <2>2. dispute.accountRun = a.row.run OBVIOUS
  <2>3. JobDone(d, u) BY <1>12
  <2> HIDE DEF dispute
  <2>4. /\ u \in KnownTabs(time) /\ u.run = t.run /\ u.hydrated = t.hydrated /\ u.chain = t.chain
        /\ u.remoteOwner = t.remoteOwner /\ u.starting = t.starting
        /\ u.conflict = dispute /\ u.remote = a.row
    BY <1>4, <2>1 DEF KnownTabs
  <2>5. dispute # None
    <3>1. time \in Nat BY PageTyped
    <3>2. dispute \in Conflicts BY <2>1, <3>1 DEF KnownConflicts, Conflicts, KnownRuns
    <3> QED BY <3>2, NoRunAssumption
  <2> HIDE DEF u
  <2>6. ASSUME Joined(d) PROVE Concludes(u)
    <3>1. t.run # None BY <1>12 DEF OtherRun
    <3>2. Head(t.chain).do = "save" BY <1>2, <1>5, <1>6, <1>12, <2>6 DEF HeadInHand
    <3>3. ~Deletes(Tail(t.chain)) BY <1>5, <1>6, <2>6, <3>1, <3>2 DEF BuriedWaits
    <3> QED BY <2>2, <2>4, <2>5, <3>1, <3>3 DEF Concludes
  <2> QED BY <1>1, <1>2, <2>3, <2>4, <2>6, JobDoneLinks
<1>13. CASE c.at = "delete" /\ JobDone(d, [t EXCEPT !.remote = NoRow])
  <2> DEFINE u == [t EXCEPT !.remote = NoRow]
  <2>1. /\ u \in KnownTabs(time) /\ u.run = t.run /\ u.hydrated = t.hydrated /\ u.chain = t.chain
        /\ u.remoteOwner = t.remoteOwner /\ u.starting = t.starting
        /\ u.conflict = t.conflict /\ u.remote = NoRow
    BY <1>4 DEF KnownTabs
  <2>2. JobDone(d, u) BY <1>13
  <2> HIDE DEF u
  <2>3. ASSUME Joined(d), Open(d) PROVE Concludes(u)
    <3>1. t.hydrated BY <1>2, <2>3 DEF Open
    <3>2. Head(t.chain).do = "delete" BY <1>2, <1>5, <1>13, <2>3 DEF HeadInHand
    <3>3. Tail(t.chain) = <<>> /\ t.remoteOwner = "account" => t.run = None
      BY <1>2, <1>5, <1>6, <2>3, <3>1, <3>2 DEF LastJobIsRun
    <3> QED BY <1>5, <2>1, <2>3, <3>3 DEF Concludes, NoRow
  <2> QED BY <1>1, <1>2, <2>1, <2>2, <2>3, JobDoneLinks
<1> QED BY <1>8, <1>9, <1>10, <1>11, <1>12, <1>13 DEF JobAnswered

\* A scene's function goes on: the rest of its page stays as it is.
LEMMA SceneLinks ==
  ASSUME Typed, NEW d \in Devices, NEW m \in Mounts, UNCHANGED <<tabs, local>>,
         OthersWait(d, m), Open(d) => ~tabs[d].hydrated, Open(d) => calls'[d][m].run = local[d]
  PROVE  /\ Elsewhere(d) /\ Ahead(d)
         /\ Open(d) /\ (\A o \in Mounts \ {m} : calls[d][o] = Idle) => Open(d)'
         /\ Joined(d) => Joined(d)'
<1>1. /\ calls'[d]["chain"] = calls[d]["chain"] /\ calls'[d]["choice"] = calls[d]["choice"]
      /\ \A o \in Mounts \ {m} : calls'[d][o] = calls[d][o]
  BY Distinct DEF OthersWait
<1>2. Elsewhere(d) BY DEF Elsewhere, OthersWait
<1>3. Ahead(d) BY SameIsAhead
<1>4. ASSUME Open(d), \A o \in Mounts \ {m} : calls[d][o] = Idle PROVE Open(d)'
  <2>1. \A o \in Mounts \ {m} : calls'[d][o] = Idle BY <1>1, <1>4
  <2> QED BY <1>1, <1>4, <2>1 DEF Open
<1>5. Joined(d) => Joined(d)' BY <1>1 DEF Joined
<1> QED BY <1>2, <1>3, <1>4, <1>5

LEMMA HydrateLinks ==
  ASSUME Typed, Traced, NEW d \in Devices, NEW m \in Mounts, Hydrate(d, m)
  PROVE  /\ Elsewhere(d) /\ (Working(d) => Working(d)')
         /\ Open(d) => (One(d)' => Open(d)') /\ Ahead(d)
         /\ Open(d) /\ Joined(d) => Joined(d)'
<1> DEFINE t == tabs[d] u == Settled(t, "guest", local[d], NoRow)
<1>0. One(d)' => \A o \in Mounts : calls[d][o] = Idle
  <2>1. Race(d, "hydrate", \E o \in Mounts : calls[d][o] # Idle) /\ "hydrate" \in Races
    BY DEF Hydrate, Races
  <2>2. (\E o \in Mounts : calls[d][o] # Idle) => "hydrate" \in astray'[d] BY <2>1, RaceTraced
  <2> QED BY <2>2 DEF One
<1>1. ~t.hydrated /\ calls[d][m] = Idle /\ local' = local BY DEF Hydrate
<1>2. m \in Procs /\ {"adoptGuest", "load"} \subseteq Awaits BY DEF Procs, Awaits
<1>3. time \in Nat /\ NoRow \in KnownRows(time) /\ local[d] \in MaybeRun(time) /\ t \in KnownTabs(time)
  BY PageTyped, NothingTyped
<1>4. CASE SetTab(d, u) /\ UNCHANGED calls
  <2>1. /\ u.run = local[d] /\ u.hydrated /\ u.chain = t.chain /\ u.remoteOwner = "guest"
        /\ u.conflict = t.conflict /\ u.starting = t.starting /\ u.syncing = t.syncing
    BY <1>3 DEF Settled, KnownTabs
  <2>2. tabs'[d] = u /\ \A e \in Devices \ {d} : tabs'[e] = tabs[e] BY <1>4, SetTabFacts
  <2> HIDE DEF u
  <2>3. Elsewhere(d) BY <1>1, <1>4, <2>2 DEF Elsewhere
  <2>4. Working(d) => Working(d)' BY <1>4, <2>1, <2>2 DEF Working
  <2>5. ASSUME Open(d) PROVE (One(d)' => Open(d)') /\ Ahead(d)
    <3>1. t.run = local[d] BY <1>1, <2>5 DEF Open
    <3>2. Ahead(d) BY <1>1, <2>1, <2>2, <3>1, SameIsAhead
    <3>3. One(d)' => Open(d)' BY <1>0, <1>1, <1>4, <2>1, <2>2 DEF Open
    <3> QED BY <3>2, <3>3
  <2>6. ASSUME Open(d), Joined(d) PROVE Joined(d)'
    <3>1. Joins(t, calls[d]["chain"], calls[d]["choice"]) BY <2>6 DEF Joined
    <3>2. t.chain = <<>> /\ t.conflict = None /\ calls[d]["choice"] = Idle /\ ~t.starting
      BY <1>1, <2>6 DEF Open
    <3>3. Joins(u, calls[d]["chain"], calls[d]["choice"])
      BY <2>1, <3>1, <3>2, EmptyJobs
      DEF Joins, HeadInHand, LastJobIsRun, ConflictStands, ChoiceStands, BuriedWaits, StartsAnew, Quiet
    <3> QED BY <1>4, <2>2, <3>3 DEF Joined
  <2> QED BY <2>3, <2>4, <2>5, <2>6
<1>5. CASE /\ \/ key[d] # None /\ Send(d, m, "adoptGuest", local[d], NoRow, "adopt")
              \/ Send(d, m, "load", local[d], NoRow, "get")
           /\ UNCHANGED tabs
  <2>1. calls'[d][m].run = local[d] /\ OthersWait(d, m)
    BY <1>2, <1>3, <1>5, SendTyped
  <2>2. Elsewhere(d) BY <1>1, <1>5, <2>1 DEF Elsewhere, OthersWait
  <2>3. Working(d) => Working(d)' BY <1>5, <2>1, Distinct DEF Working, OthersWait
  <2> QED BY <1>0, <1>1, <1>5, <2>1, <2>2, <2>3, SceneLinks
<1> QED BY <1>4, <1>5 DEF Hydrate

LEMMA GuestAdoptedLinks ==
  ASSUME Typed, NEW d \in Devices, NEW m \in Mounts, GuestAdopted(d, m)
  PROVE  /\ Elsewhere(d) /\ (Working(d) => Working(d)')
         /\ Open(d) => Open(d)' /\ Ahead(d)
         /\ Open(d) /\ Joined(d) => Joined(d)'
<1>1. OthersWait(d, m) /\ calls'[d][m].run = calls[d][m].run BY GuestAdoptedTyped
<1>2. calls[d][m] # Idle /\ UNCHANGED <<tabs, local>> BY DEF GuestAdopted, Idle
<1>3. Elsewhere(d) BY <1>1, <1>2 DEF Elsewhere, OthersWait
<1>4. Working(d) => Working(d)' BY <1>1, <1>2, Distinct DEF Working, OthersWait
<1>5. Open(d) => /\ ~tabs[d].hydrated /\ calls'[d][m].run = local[d]
                 /\ \A o \in Mounts \ {m} : calls[d][o] = Idle
  BY <1>1, <1>2 DEF Open
<1> QED BY <1>1, <1>2, <1>3, <1>4, <1>5, SceneLinks

\* What becomes of the page when the row is read: the same Run as the browser's, or a conflict.
LEMMA HydratedTab ==
  ASSUME Typed, NEW d \in Devices, NEW m \in Mounts, Hydrated(d, m), tabs[d].chain = <<>>,
         tabs[d].conflict = None, calls[d][m].run = local[d]
  PROVE  LET t == tabs[d] u == tabs'[d] IN
         /\ u.hydrated /\ u.starting = t.starting
         /\ local'[d] = u.run \/ (OtherRun(local'[d], u.run) /\ local'[d] = local[d])
         /\ ~Older(u.run, local[d])
         /\ u.conflict # None => u.run # None /\ u.conflict.accountRun = u.remote.run /\ u.chain = <<>>
         /\ u.chain # <<>> => u.chain = <<[do |-> "save", run |-> local[d]]>>
         /\ u.chain # <<>> /\ u.remoteOwner = "account" => u.run = local[d]
         /\ u.chain = <<>> /\ u.remoteOwner = "account" /\ u.conflict = None => u.remote.run = u.run
<1> DEFINE t == tabs[d] browser == calls[d][m].run row == calls[d][m].answer.row
           run == IF Newer(browser, row.run) THEN browser ELSE Or(row.run, browser)
           v == Settled(t, "account", run, row)
           g == [Settled(t, "guest", Or(browser, row.run), row) EXCEPT !.conflict = None]
           dispute == [browserRun |-> browser, accountRun |-> row.run]
           job == [do |-> "save", run |-> browser]
<1>1. m \in Procs /\ calls[d][m].answer # None BY DEF Procs, Hydrated
<1>2. /\ t \in KnownTabs(time) /\ browser \in MaybeRun(time) /\ row.run \in MaybeRun(time)
      /\ time \in Nat /\ browser = local[d]
  BY <1>1, PageTyped
<1>3. ~Older(browser, browser) /\ ~Older(None, browser) BY <1>2, NotOlder
<1>4. CASE calls[d][m].answer.status = "fail"
  <2>1. PICK u \in {Unlinked(t, browser), [Unlinked(t, browser) EXCEPT !.remote = NoRow, !.conflict = None]} :
          SetTab(d, u) /\ UNCHANGED local
    BY <1>4 DEF Hydrated
  <2>2. /\ u.hydrated /\ u.starting = t.starting /\ u.run = browser /\ u.conflict = None
        /\ u.chain = <<>> /\ u.remoteOwner = "none"
    <3>1. CASE u = Unlinked(t, browser) BY <1>2, <3>1 DEF Unlinked, KnownTabs
    <3>2. CASE u = [Unlinked(t, browser) EXCEPT !.remote = NoRow, !.conflict = None]
      BY <1>2, <3>2 DEF Unlinked, KnownTabs
    <3> QED BY <2>1, <3>1, <3>2
  <2>3. tabs'[d] = u /\ local'[d] = local[d] BY <2>1, SetTabFacts
  <2> QED BY <1>2, <1>3, <2>2, <2>3
<1>5. /\ v.hydrated /\ v.starting = t.starting /\ v.run = run /\ v.conflict = None /\ v.remote = row
      /\ v.chain = <<>> /\ v.remoteOwner = "account"
  BY <1>2 DEF Settled, KnownTabs
<1>6. Append(<<>>, job) = <<job>> /\ <<job>> # <<>> OBVIOUS
<1>7. CASE calls[d][m].answer.status # "fail" /\ session[d] /\ OtherRun(row.run, browser)
  <2> DEFINE u == [v EXCEPT !.conflict = dispute]
  <2>1. SetTab(d, u) /\ UNCHANGED local BY <1>7 DEF Hydrated, AccountHydrated
  <2>2. run = row.run /\ run # None /\ OtherRun(browser, run) /\ run \in MaybeRun(time)
    BY <1>2, <1>7 DEF OtherRun, Newer, SameRun, Or
  <2>3. v \in KnownTabs(time)
    <3>1. row \in KnownRows(time) BY <1>1, PageTyped
    <3> QED BY <1>2, <2>2, <3>1, SettledTyped
  <2>4. dispute.accountRun = row.run OBVIOUS
  <2> HIDE DEF v, dispute
  <2>5. /\ u.hydrated /\ u.starting = t.starting /\ u.run = run /\ u.remote = row
        /\ u.conflict = dispute /\ u.chain = <<>>
    BY <1>5, <2>3 DEF KnownTabs
  <2>6. dispute # None
    <3>1. browser \in Runs /\ row.run \in Runs BY <1>2, <1>7 DEF OtherRun, MaybeRun, KnownRuns
    <3>2. dispute \in Conflicts BY <3>1 DEF dispute, Conflicts
    <3> QED BY <3>2, NoRunAssumption
  <2>7. tabs'[d] = u /\ local'[d] = local[d] BY <2>1, SetTabFacts
  <2>8. ~Older(run, browser) BY <1>2, <2>2, NotOlder
  <2> QED BY <1>2, <2>2, <2>4, <2>5, <2>6, <2>7, <2>8
<1>8. CASE calls[d][m].answer.status # "fail" /\ session[d] /\ ~OtherRun(row.run, browser)
  <2> DEFINE cond == browser # None /\ (row.run = None \/ Newer(browser, row.run))
             u == QueueSaveIf(cond, v, browser)
  <2>1. SetLocal(d, run) /\ SetTab(d, u) BY <1>8 DEF Hydrated, AccountHydrated
  <2>2. /\ cond => run = browser
        /\ ~cond => run = row.run
        /\ ~Older(run, browser)
    <3>1. CASE browser = None BY <1>3, <3>1 DEF Newer, SameRun, Or, Older
    <3>2. CASE browser # None /\ row.run = None BY <1>3, <3>2 DEF Newer, SameRun, Or
    <3>3. CASE browser # None /\ row.run # None
      <4>1. browser.at \in Nat /\ row.run.at \in Nat BY <1>2, <3>3 DEF MaybeRun, KnownRuns, Runs
      <4> QED BY <1>3, <3>3, <4>1 DEF Newer, SameRun, Or, Older
    <3> QED BY <3>1, <3>2, <3>3
  <2>3. v \in KnownTabs(time)
    <3>1. row \in KnownRows(time) /\ run \in MaybeRun(time) BY <1>1, <1>2, PageTyped DEF Or
    <3> QED BY <1>2, <3>1, SettledTyped
  <2> HIDE DEF v, cond, run, job
  <2>4. /\ u.hydrated /\ u.starting = t.starting /\ u.run = run /\ u.remote = row
        /\ u.conflict = None /\ u.remoteOwner = "account"
        /\ u.chain = IF cond THEN <<job>> ELSE <<>>
    BY <1>5, <1>6, <2>3 DEF QueueSaveIf, QueueSave, KnownTabs, job
  <2>5. tabs'[d] = u /\ local'[d] = run BY <2>1, SetTabFacts, SetLocalFacts
  <2>6. CASE cond BY <1>2, <1>6, <2>2, <2>4, <2>5, <2>6 DEF job
  <2>7. CASE ~cond BY <1>2, <2>2, <2>4, <2>5, <2>7
  <2> QED BY <2>6, <2>7
<1>9. CASE calls[d][m].answer.status # "fail" /\ ~session[d]
  <2> DEFINE cond == browser # None /\ ~SameRun(row.run, browser)
             u == QueueSaveIf(cond, g, browser)
  <2>1. SetLocal(d, Or(browser, row.run)) /\ SetTab(d, u) BY <1>9 DEF Hydrated, GuestHydrated
  <2>2. /\ g.hydrated /\ g.starting = t.starting /\ g.run = Or(browser, row.run)
        /\ g.conflict = None /\ g.chain = <<>> /\ g.remoteOwner = "guest"
    BY <1>2 DEF Settled, KnownTabs
  <2>3. g \in KnownTabs(time)
    <3>1. row \in KnownRows(time) /\ Or(browser, row.run) \in MaybeRun(time) BY <1>1, <1>2, PageTyped DEF Or
    <3> QED BY <1>2, <3>1, SettledTyped
  <2>4. ~Older(Or(browser, row.run), browser) BY <1>3 DEF Or, Older, SameRun
  <2> HIDE DEF g, cond, job
  <2>5. /\ u.hydrated /\ u.starting = t.starting /\ u.run = Or(browser, row.run)
        /\ u.conflict = None /\ u.remoteOwner = "guest"
        /\ u.chain = IF cond THEN <<job>> ELSE <<>>
    BY <1>6, <2>2, <2>3 DEF QueueSaveIf, QueueSave, KnownTabs, job
  <2>6. tabs'[d] = u /\ local'[d] = Or(browser, row.run) BY <2>1, SetTabFacts, SetLocalFacts
  <2> QED BY <1>2, <2>4, <2>5, <2>6 DEF job
<1> QED BY <1>4, <1>7, <1>8, <1>9

LEMMA QueueKeepsJobs ==
  ASSUME NEW n, NEW t \in KnownTabs(n), t.chain # <<>>, NEW run \in MaybeRun(n), NEW cond
  PROVE  QueueSaveIf(cond, t, run).chain # <<>>
<1>1. t.chain \in Seq(KnownJobs(n)) BY DEF KnownTabs
<1>2. \A job \in KnownJobs(n) : Append(t.chain, job) # <<>> BY <1>1, AppendJobs
<1>3. [do |-> "save", run |-> run] \in KnownJobs(n) BY DEF KnownJobs
<1>4. QueueSave(t, run).chain = Append(t.chain, [do |-> "save", run |-> run])
  BY DEF QueueSave, KnownTabs
<1> QED BY <1>2, <1>3, <1>4 DEF QueueSaveIf

\* Also a second scene that hydrates leaves the jobs there are.
LEMMA HydratedKeepsJobs ==
  ASSUME Typed, NEW d \in Devices, NEW m \in Mounts, Hydrated(d, m), tabs[d].chain # <<>>
  PROVE  tabs'[d].chain # <<>>
<1> DEFINE t == tabs[d] browser == calls[d][m].run row == calls[d][m].answer.row
           run == IF Newer(browser, row.run) THEN browser ELSE Or(row.run, browser)
           v == Settled(t, "account", run, row)
           g == [Settled(t, "guest", Or(browser, row.run), row) EXCEPT !.conflict = None]
           dispute == [browserRun |-> browser, accountRun |-> row.run]
<1>1. m \in Procs /\ calls[d][m].answer # None BY DEF Procs, Hydrated
<1>2. /\ t \in KnownTabs(time) /\ browser \in MaybeRun(time) /\ row.run \in MaybeRun(time)
      /\ row \in KnownRows(time)
  BY <1>1, PageTyped
<1>3. run \in MaybeRun(time) /\ Or(browser, row.run) \in MaybeRun(time) BY <1>2 DEF Or
<1>4. v \in KnownTabs(time) /\ g \in KnownTabs(time) BY <1>2, <1>3, SettledTyped
<1>5. /\ v.chain = t.chain /\ g.chain = t.chain /\ [v EXCEPT !.conflict = dispute].chain = t.chain
      /\ Unlinked(t, browser).chain = t.chain
      /\ [Unlinked(t, browser) EXCEPT !.remote = NoRow, !.conflict = None].chain = t.chain
  BY <1>2 DEF Settled, Unlinked, KnownTabs
<1>6. \/ SetTab(d, Unlinked(t, browser))
      \/ SetTab(d, [Unlinked(t, browser) EXCEPT !.remote = NoRow, !.conflict = None])
      \/ SetTab(d, [v EXCEPT !.conflict = dispute])
      \/ SetTab(d, QueueSaveIf(browser # None /\ (row.run = None \/ Newer(browser, row.run)), v, browser))
      \/ SetTab(d, QueueSaveIf(browser # None /\ ~SameRun(row.run, browser), g, browser))
  BY DEF Hydrated, AccountHydrated, GuestHydrated
<1> HIDE DEF v, g, dispute
<1>7. \A cond : /\ QueueSaveIf(cond, v, browser).chain # <<>>
                /\ QueueSaveIf(cond, g, browser).chain # <<>>
  BY <1>2, <1>4, <1>5, QueueKeepsJobs
<1> QED BY <1>5, <1>6, <1>7, SetTabFacts

LEMMA HydratedLinks ==
  ASSUME Typed, NEW d \in Devices, NEW m \in Mounts, Working(d), Hydrated(d, m)
  PROVE  /\ Elsewhere(d) /\ Working(d)'
         /\ Open(d) => Open(d)' /\ Ahead(d)
         /\ Open(d) /\ Joined(d) => Joined(d)'
<1> DEFINE t == tabs[d] u == tabs'[d]
           work == calls[d]["chain"] choice == calls[d]["choice"]
<1>1. /\ calls[d][m] # Idle /\ calls'[d][m] = Idle /\ OthersWait(d, m)
      /\ work' = work /\ choice' = choice
  <2>1. calls[d][m] # Idle /\ Return(d, m) BY DEF Hydrated, Idle
  <2>2. calls'[d][m] = Idle /\ OthersWait(d, m) BY <2>1, Distinct, ReturnTyped
  <2> QED BY <2>1, <2>2, Distinct DEF OthersWait
<1>2. Elsewhere(d)
  <2>1. \A e \in Devices \ {d} : tabs'[e] = tabs[e] /\ local'[e] = local[e]
    BY DEF Hydrated, AccountHydrated, GuestHydrated, SetTab, SetLocal, Typed
  <2> QED BY <1>1, <2>1 DEF Elsewhere, OthersWait
<1>3. Working(d)' BY <1>1, HydratedKeepsJobs DEF Working
<1>4. ASSUME Open(d)
      PROVE  /\ t.chain = <<>> /\ t.conflict = None /\ calls[d][m].run = local[d] /\ ~t.starting
             /\ t.run = local[d] /\ work = Idle /\ choice = Idle
  <2>1. ~t.hydrated BY <1>1, <1>4 DEF Open
  <2> QED BY <1>1, <1>4, <2>1 DEF Open, Working
<1>5. ASSUME Open(d)
      PROVE  /\ u.hydrated /\ u.starting = t.starting
             /\ local'[d] = u.run \/ (OtherRun(local'[d], u.run) /\ local'[d] = local[d])
             /\ ~Older(u.run, local[d])
             /\ u.conflict # None =>
                  u.run # None /\ u.conflict.accountRun = u.remote.run /\ u.chain = <<>>
             /\ u.chain # <<>> => u.chain = <<[do |-> "save", run |-> local[d]]>>
             /\ u.chain # <<>> /\ u.remoteOwner = "account" => u.run = local[d]
             /\ u.chain = <<>> /\ u.remoteOwner = "account" /\ u.conflict = None => u.remote.run = u.run
  BY <1>4, <1>5, HydratedTab
<1>6. ASSUME Open(d) PROVE Open(d)' /\ Ahead(d)
  <2>1. \A o \in Mounts : calls'[d][o] = Idle
    <3>1. \A o \in Mounts \ {m} : calls[d][o] = Idle BY <1>1, <1>6 DEF Open
    <3> QED BY <1>1, <3>1, Distinct DEF OthersWait
  <2>2. Open(d)' BY <1>5, <1>6, <2>1 DEF Open
  <2>3. ~Older(local[d], local[d])
    <3>1. time \in Nat /\ local[d] \in MaybeRun(time) BY PageTyped
    <3> QED BY <3>1, NotOlder
  <2>4. Ahead(d) BY <1>4, <1>5, <1>6, <2>3 DEF Ahead
  <2> QED BY <2>2, <2>4
<1>7. ASSUME Open(d), Joined(d) PROVE Joined(d)'
  <2> DEFINE job == [do |-> "save", run |-> local[d]]
  <2>1. Joins(t, work, choice) BY <1>7 DEF Joined
  <2>2. job.do = "save" /\ job.run = local[d] OBVIOUS
  <2> HIDE DEF job
  <2>3. u.chain = <<>> \/ u.chain = <<job>> BY <1>5, <1>7 DEF job
  <2>4. /\ ~Deletes(u.chain) /\ ~Buried(u.chain)
        /\ u.chain # <<>> => u.chain[Len(u.chain)] = job
    <3>1. CASE u.chain = <<>> BY <3>1 DEF Deletes, Buried
    <3>2. CASE u.chain = <<job>>
      <4>1. Len(u.chain) = 1 /\ u.chain[1] = job BY <3>2
      <4> QED BY <2>2, <4>1 DEF Deletes, Buried
    <3> QED BY <2>3, <3>1, <3>2
  <2>5. HeadInHand(u, work) /\ ConflictStands(u, work) /\ ChoiceStands(u, choice) /\ BuriedWaits(u)
    BY <1>4, <1>5, <1>7, <2>4 DEF HeadInHand, ConflictStands, ChoiceStands, BuriedWaits
  <2>6. LastJobIsRun(u) /\ StartsAnew(u) /\ Quiet(u)
    BY <1>4, <1>5, <1>7, <2>2, <2>4 DEF LastJobIsRun, StartsAnew, Quiet
  <2>7. Joins(u, work, choice) BY <2>1, <2>4, <2>5, <2>6 DEF Joins
  <2> QED BY <1>1, <2>7 DEF Joined
<1> QED BY <1>2, <1>3, <1>6, <1>7

\* A page that no race befell is not interrupted while the player's choice is on its way.
LEMMA StraightOn ==
  ASSUME Traced, NEW d \in Devices, Race(d, "choice", Choosing(d)), Straight(d)'
  PROVE  calls[d]["choice"] = Idle
<1>1. "choice" \in Races BY DEF Races
<1>2. Choosing(d) => "choice" \in astray'[d] BY <1>1, RaceTraced
<1> QED BY <1>2 DEF Straight, Choosing

LEMMA KeepAccountRunLinks ==
  ASSUME Typed, Traced, NEW d \in Devices, KeepAccountRun(d)
  PROVE  /\ Elsewhere(d) /\ (Working(d) => Working(d)')
         /\ Open(d) => Open(d)'
         /\ Straight(d)' /\ Joined(d) /\ ~ReadyJob(d) => Joined(d)'
<1> DEFINE t == tabs[d] run == t.conflict.accountRun
           u == [t EXCEPT !.run = run, !.conflict = None, !.error = FALSE]
           work == calls[d]["chain"] choice == calls[d]["choice"]
<1>1. /\ t.conflict # None /\ UNCHANGED calls
      /\ Race(d, "choice", Choosing(d)) /\ SetLocal(d, run) /\ SetTab(d, u)
  BY DEF KeepAccountRun
<1>2. /\ u.run = run /\ u.conflict = None /\ u.hydrated = t.hydrated /\ u.chain = t.chain
      /\ u.remoteOwner = t.remoteOwner /\ u.remote = t.remote /\ u.starting = t.starting
      /\ u.syncing = t.syncing
  BY PageTyped DEF KnownTabs
<1> HIDE DEF u, run
<1>3. /\ tabs'[d] = u /\ local'[d] = run
      /\ \A e \in Devices \ {d} : tabs'[e] = tabs[e] /\ local'[e] = local[e]
  BY <1>1, SetTabFacts, SetLocalFacts
<1>4. Elsewhere(d) BY <1>1, <1>3 DEF Elsewhere
<1>5. Working(d) => Working(d)' BY <1>1, <1>2, <1>3 DEF Working
<1>6. Open(d) => Open(d)' BY <1>1, <1>2, <1>3 DEF Open
<1>7. ASSUME Straight(d)', Joined(d), ~ReadyJob(d) PROVE Joined(d)'
  <2>1. Joins(t, work, choice) BY <1>7 DEF Joined
  <2>2. choice = Idle BY <1>1, <1>7, StraightOn
  <2>3. work = Idle /\ t.run # None /\ run = t.remote.run BY <1>1, <2>1 DEF Joins, ConflictStands, run
  <2>4. t.chain = <<>> BY <1>7, <2>3 DEF ReadyJob
  <2>5. ~t.starting BY <2>1, <2>3 DEF Joins, StartsAnew
  <2>6. Joins(u, work, choice)
    BY <1>2, <2>1, <2>2, <2>3, <2>4, <2>5, EmptyJobs
    DEF Joins, HeadInHand, LastJobIsRun, ConflictStands, ChoiceStands, BuriedWaits, StartsAnew, Quiet
  <2> QED BY <1>1, <1>3, <2>6 DEF Joined
<1> QED BY <1>4, <1>5, <1>6, <1>7

LEMMA AdoptBrowserRunLinks ==
  ASSUME Typed, NEW d \in Devices, AdoptBrowserRun(d)
  PROVE  /\ Elsewhere(d) /\ (Working(d) => Working(d)')
         /\ Open(d) => Open(d)' /\ Ahead(d)
         /\ Joined(d) /\ ~ReadyJob(d) => Joined(d)'
<1> DEFINE t == tabs[d] u == [t EXCEPT !.syncing = TRUE]
           work == calls[d]["chain"] choice == calls[d]["choice"]
<1>1. t.conflict # None /\ SetTab(d, u) /\ local' = local BY DEF AdoptBrowserRun
<1>2. /\ u.run = t.run /\ u.conflict = t.conflict /\ u.hydrated = t.hydrated /\ u.chain = t.chain
      /\ u.remoteOwner = t.remoteOwner /\ u.remote = t.remote /\ u.starting = t.starting
      /\ u.syncing
  BY PageTyped DEF KnownTabs
<1> HIDE DEF u
<1>3. tabs'[d] = u /\ \A e \in Devices \ {d} : tabs'[e] = tabs[e] BY <1>1, SetTabFacts
<1>4. choice'.at = "dropAccount" /\ OthersWait(d, "choice")
  <2>1. t.conflict \in KnownConflicts(time) BY <1>1, PageTyped
  <2>2. t.conflict.browserRun \in MaybeRun(time) BY <2>1 DEF KnownConflicts, MaybeRun
  <2>3. "dropAccount" \in Awaits BY DEF Awaits
  <2>4. Send(d, "choice", "dropAccount", t.conflict.browserRun, t.remote, "delete")
    BY DEF AdoptBrowserRun
  <2>5. t.remote \in KnownRows(time) BY PageTyped
  <2> QED BY <2>2, <2>3, <2>4, <2>5, Distinct, SendTyped
<1>5. work' = work /\ (\A m \in Mounts : calls'[d][m] = calls[d][m])
  BY <1>4, Distinct DEF OthersWait
<1>6. Elsewhere(d) BY <1>1, <1>3, <1>4 DEF Elsewhere, OthersWait
<1>7. Working(d) => Working(d)' BY <1>2, <1>3, <1>5 DEF Working
<1>8. Open(d) => Open(d)' BY <1>1, <1>2, <1>3, <1>5 DEF Open
<1>9. Ahead(d) BY <1>1, <1>2, <1>3, SameIsAhead
<1>10. ASSUME Joined(d), ~ReadyJob(d) PROVE Joined(d)'
  <2>1. Joins(t, work, choice) BY <1>10 DEF Joined
  <2>2. work = Idle BY <1>1, <2>1 DEF Joins, ConflictStands
  <2>3. t.chain = <<>> BY <1>10, <2>2 DEF ReadyJob
  <2>4. WritesItsRun(choice') BY <1>4 DEF WritesItsRun
  <2>5. Joins(u, work, choice')
    BY <1>1, <1>2, <2>1, <2>2, <2>3, <2>4, EmptyJobs
    DEF Joins, HeadInHand, LastJobIsRun, ConflictStands, ChoiceStands, BuriedWaits, StartsAnew, Quiet
  <2> QED BY <1>3, <1>5, <2>5 DEF Joined
<1> QED BY <1>6, <1>7, <1>8, <1>9, <1>10

LEMMA BrowserRunAnsweredLinks ==
  ASSUME Typed, NEW d \in Devices, BrowserRunAnswered(d)
  PROVE  /\ Elsewhere(d) /\ (Working(d) => Working(d)')
         /\ Open(d) => Open(d)'
         /\ Joined(d) => Joined(d)'
<1> DEFINE t == tabs[d] c == calls[d]["choice"] work == calls[d]["chain"] a == c.answer
<1>1. a # None /\ c # Idle BY DEF BrowserRunAnswered, Idle
<1>2. /\ t \in KnownTabs(time) /\ c.run \in MaybeRun(time) /\ NoRow \in KnownRows(time)
      /\ a.row \in KnownRows(time)
  BY <1>1, Distinct, PageTyped, NothingTyped
<1>3. Open(d) => t.hydrated BY <1>1 DEF Open
<1>4. ASSUME Joined(d)
      PROVE  /\ Joins(t, work, c) /\ t.conflict # None /\ t.chain = <<>> /\ t.syncing
             /\ work = Idle /\ t.run # None /\ ~t.starting /\ WritesItsRun(c)
  BY <1>1, <1>4 DEF Joined, Joins, ChoiceStands, ConflictStands, StartsAnew
<1>5. CASE /\ \E at \in {"saveBrowser", "saveBrowserWar"} : SendPut(d, "choice", at, c.run, NoRow)
           /\ UNCHANGED <<tabs, local>>
  <2>1. {"saveBrowser", "saveBrowserWar"} \subseteq Awaits BY DEF Awaits
  <2>2. /\ OthersWait(d, "choice") /\ c'.run = c.run /\ c'.answer = None
        /\ c'.sent.kind = "put" /\ c'.sent.run = c.run
    BY <1>2, <1>5, <2>1, Distinct, SendPutTyped
  <2>3. work' = work /\ (\A m \in Mounts : calls'[d][m] = calls[d][m])
    BY <2>2, Distinct DEF OthersWait
  <2>4. Elsewhere(d) BY <1>5, <2>2 DEF Elsewhere, OthersWait
  <2>5. Working(d) => Working(d)' BY <1>5, <2>3 DEF Working
  <2>6. Open(d) => Open(d)' BY <1>3, <1>5, <2>3 DEF Open
  <2>7. ASSUME Joined(d) PROVE Joined(d)'
    <3>1. WritesItsRun(c') BY <2>2 DEF WritesItsRun
    <3>2. ChoiceStands(t, c') BY <1>4, <2>7 DEF ChoiceStands
    <3>3. Joins(t, work, c') BY <1>4, <2>7, <3>1, <3>2 DEF Joins
    <3> QED BY <1>5, <2>3, <3>3 DEF Joined
  <2> QED BY <2>4, <2>5, <2>6, <2>7
<1>6. CASE Return(d, "choice") /\ SetTab(d, Waiting(t)) /\ UNCHANGED local
  <2> DEFINE u == Waiting(t)
  <2>1. /\ u.run = t.run /\ u.conflict = t.conflict /\ u.hydrated = t.hydrated /\ u.chain = t.chain
        /\ u.remoteOwner = t.remoteOwner /\ u.remote = t.remote /\ u.starting = t.starting
    BY <1>2 DEF Waiting, KnownTabs
  <2>2. tabs'[d] = u /\ \A e \in Devices \ {d} : tabs'[e] = tabs[e] BY <1>6, SetTabFacts
  <2> HIDE DEF u
  <2>3. c' = Idle /\ OthersWait(d, "choice") BY <1>6, Distinct, ReturnTyped
  <2>4. work' = work /\ (\A m \in Mounts : calls'[d][m] = calls[d][m])
    BY <2>3, Distinct DEF OthersWait
  <2>5. Elsewhere(d) BY <1>6, <2>2, <2>3 DEF Elsewhere, OthersWait
  <2>6. Working(d) => Working(d)' BY <2>1, <2>2, <2>4 DEF Working
  <2>7. Open(d) => Open(d)' BY <1>3, <1>6, <2>1, <2>2, <2>4 DEF Open
  <2>8. ASSUME Joined(d) PROVE Joined(d)'
    <3>1. WritesItsRun(c') BY <2>3 DEF WritesItsRun, Idle
    <3>2. Joins(u, work, c')
      BY <1>4, <2>1, <2>3, <2>8, <3>1, EmptyJobs
      DEF Joins, HeadInHand, LastJobIsRun, ConflictStands, ChoiceStands, BuriedWaits, StartsAnew, Quiet
    <3> QED BY <2>2, <2>4, <3>2 DEF Joined
  <2> QED BY <2>5, <2>6, <2>7, <2>8
<1>7. CASE /\ c.at \in {"saveBrowser", "saveBrowserWar"} /\ a.status = "ok"
           /\ SetLocal(d, c.run)
           /\ SetTab(d, [t EXCEPT !.run = c.run, !.conflict = None, !.remote = a.row,
                                  !.syncing = FALSE, !.error = FALSE])
           /\ Return(d, "choice")
  <2> DEFINE u == [t EXCEPT !.run = c.run, !.conflict = None, !.remote = a.row,
                            !.syncing = FALSE, !.error = FALSE]
  <2>1. /\ u.run = c.run /\ u.conflict = None /\ u.hydrated = t.hydrated /\ u.chain = t.chain
        /\ u.remoteOwner = t.remoteOwner /\ u.remote = a.row /\ u.starting = t.starting
    BY <1>2 DEF KnownTabs
  <2>2. /\ tabs'[d] = u /\ local'[d] = c.run
        /\ \A e \in Devices \ {d} : tabs'[e] = tabs[e] /\ local'[e] = local[e]
    BY <1>7, SetTabFacts, SetLocalFacts
  <2> HIDE DEF u
  <2>3. c' = Idle /\ OthersWait(d, "choice") BY <1>7, Distinct, ReturnTyped
  <2>4. work' = work /\ (\A m \in Mounts : calls'[d][m] = calls[d][m])
    BY <2>3, Distinct DEF OthersWait
  <2>5. Elsewhere(d) BY <2>2, <2>3 DEF Elsewhere, OthersWait
  <2>6. Working(d) => Working(d)' BY <2>1, <2>2, <2>4 DEF Working
  <2>7. Open(d) => Open(d)' BY <1>3, <2>1, <2>2, <2>4 DEF Open
  <2>8. ASSUME Joined(d) PROVE Joined(d)'
    <3>1. WritesItsRun(c') BY <2>3 DEF WritesItsRun, Idle
    <3>2. a.row.run = c.run BY <1>1, <1>4, <1>7, <2>8 DEF WritesItsRun
    <3>3. Joins(u, work, c')
      BY <1>4, <2>1, <2>3, <2>8, <3>1, <3>2, EmptyJobs
      DEF Joins, HeadInHand, LastJobIsRun, ConflictStands, ChoiceStands, BuriedWaits, StartsAnew, Quiet
    <3> QED BY <2>2, <2>4, <3>3 DEF Joined
  <2> QED BY <2>5, <2>6, <2>7, <2>8
<1> QED BY <1>5, <1>6, <1>7 DEF BrowserRunAnswered

\* A mutation or a new Run: t is the page, but for whether it is starting.
LEMMA ReplaceLinks ==
  ASSUME Typed, NEW d \in Devices, NEW id \in 0..(time + 1), NEW t \in KnownTabs(time),
         Replace(d, t, id), t.run = tabs[d].run, t.hydrated = tabs[d].hydrated, t.chain = tabs[d].chain,
         t.remoteOwner = tabs[d].remoteOwner, t.conflict = tabs[d].conflict,
         t.remote = tabs[d].remote, t.syncing = tabs[d].syncing
  PROVE  /\ Elsewhere(d) /\ Working(d)'
         /\ Open(d) /\ t.hydrated => Open(d)' /\ Ahead(d)
         /\ Working(d) /\ Joined(d) /\ t.hydrated /\ calls[d]["choice"] = Idle
              /\ ~Buried(t.chain) /\ ~t.starting => Joined(d)'
<1> DEFINE run == [id |-> id, at |-> time + 1] u == Replaced(t, run) s == tabs[d]
           job == [do |-> "save", run |-> run]
           work == calls[d]["chain"] choice == calls[d]["choice"]
<1>1. time \in Nat /\ s.run \in MaybeRun(time) /\ local[d] \in MaybeRun(time) BY PageTyped
<1>2. run \in KnownRuns(time + 1) /\ run # None
  BY <1>1, NoRunAssumption DEF KnownRuns, Runs
<1>3. ~Older(run, s.run) /\ ~Older(run, local[d]) BY <1>1, NotOlder
<1>4. job.do = "save" /\ job.run = run OBVIOUS
<1>5. /\ SetLocal(d, run) /\ SetTab(d, u) /\ UNCHANGED calls /\ Len(t.chain) < MaxChain
  BY DEF Replace
<1> HIDE DEF run
<1>6. /\ u.run = run /\ u.conflict = t.conflict /\ u.hydrated = t.hydrated
      /\ u.chain = Append(t.chain, job)
      /\ u.remoteOwner = t.remoteOwner /\ u.remote = t.remote /\ u.starting = t.starting
      /\ u.syncing = t.syncing
  BY DEF Replaced, QueueSave, KnownTabs
<1> HIDE DEF u, job
<1>7. /\ tabs'[d] = u /\ local'[d] = run
      /\ \A e \in Devices \ {d} : tabs'[e] = tabs[e] /\ local'[e] = local[e]
  BY <1>5, SetTabFacts, SetLocalFacts
<1>8. /\ Len(u.chain) = Len(t.chain) + 1 /\ u.chain # <<>> /\ u.chain[Len(u.chain)] = job
      /\ t.chain # <<>> => Head(u.chain) = Head(t.chain)
      /\ Deletes(u.chain) => Deletes(t.chain)
      /\ Buried(u.chain) => Buried(t.chain)
      /\ Len(t.chain) \in Nat
  <2>1. t.chain \in Seq(KnownJobs(time + 1)) /\ job \in KnownJobs(time + 1)
    <3>1. time + 1 \in Nat /\ time <= time + 1 BY <1>1
    <3>2. t \in KnownTabs(time + 1) BY <1>1, <3>1, Grow
    <3> QED BY <1>2, <3>2 DEF KnownTabs, KnownJobs, MaybeRun, job
  <2> QED BY <1>4, <1>6, <2>1, AppendJobs
<1>9. Elsewhere(d) BY <1>5, <1>7 DEF Elsewhere
<1>10. Working(d)' BY <1>7, <1>8 DEF Working
<1>11. Open(d) /\ t.hydrated => Open(d)' BY <1>5, <1>6, <1>7 DEF Open
<1>12. Ahead(d) BY <1>3, <1>6, <1>7 DEF Ahead
<1>13. ASSUME Working(d), Joined(d), t.hydrated, choice = Idle, ~Buried(t.chain), ~t.starting
       PROVE  Joined(d)'
  <2>1. Joins(s, work, choice) BY <1>13 DEF Joined
  <2>3. HeadInHand(u, work)
    BY <1>6, <1>8, <1>13, <2>1 DEF Joins, HeadInHand, Working
  <2>4. LastJobIsRun(u) /\ StartsAnew(u) /\ Quiet(u) /\ BuriedWaits(u)
    BY <1>4, <1>6, <1>8, <1>13 DEF LastJobIsRun, StartsAnew, Quiet, BuriedWaits
  <2>5. ConflictStands(u, work) /\ ChoiceStands(u, choice)
    BY <1>2, <1>6, <1>8, <1>13, <2>1 DEF Joins, ConflictStands, ChoiceStands
  <2>6. Joins(u, work, choice) BY <2>1, <2>3, <2>4, <2>5 DEF Joins
  <2> QED BY <1>5, <1>7, <2>6 DEF Joined
<1> QED BY <1>9, <1>10, <1>11, <1>12, <1>13

LEMMA PlayLinks ==
  ASSUME Typed, Traced, NEW d \in Devices, Play(d)
  PROVE  /\ Elsewhere(d) /\ Working(d)'
         /\ Open(d) => Open(d)' /\ Ahead(d)
         /\ Straight(d)' /\ Working(d) /\ Joined(d) => Joined(d)'
<1> DEFINE t == tabs[d]
<1>1. t.hydrated /\ t.run # None /\ Race(d, "choice", Choosing(d)) /\ Replace(d, t, t.run.id)
  BY DEF Play
<1>2. t \in KnownTabs(time) /\ t.run.id \in 0..(time + 1)
  BY <1>1, PageTyped DEF MaybeRun, KnownRuns, Runs
<1>3. Joined(d) => ~Buried(t.chain) /\ ~t.starting
  BY <1>1 DEF Joined, Joins, BuriedWaits, StartsAnew
<1>4. Straight(d)' => calls[d]["choice"] = Idle BY <1>1, StraightOn
<1> QED BY <1>1, <1>2, <1>3, <1>4, ReplaceLinks

LEMMA StartLinks ==
  ASSUME Typed, Traced, NEW d \in Devices, Start(d)
  PROVE  /\ Elsewhere(d) /\ Working(d)'
         /\ Open(d) => Open(d)' /\ Ahead(d)
         /\ Straight(d)' /\ Open(d) /\ Working(d) /\ Joined(d) => Joined(d)'
<1> DEFINE s == tabs[d] t == [s EXCEPT !.starting = FALSE]
           work == calls[d]["chain"] choice == calls[d]["choice"]
<1>1. /\ t \in KnownTabs(time) /\ t.run = s.run /\ t.hydrated = s.hydrated /\ t.chain = s.chain
      /\ t.remoteOwner = s.remoteOwner /\ t.conflict = s.conflict /\ t.remote = s.remote
      /\ t.syncing = s.syncing /\ ~t.starting /\ time + 1 \in Nat
  <2>1. s \in KnownTabs(time) /\ time + 1 \in Nat BY PageTyped
  <2> QED BY <2>1 DEF KnownTabs
<1>2. /\ Replace(d, t, time + 1) /\ Race(d, "queue", Buried(s.chain))
      /\ (s.hydrated /\ s.run = None) \/ s.starting
  BY DEF Start, MayStart
<1> HIDE DEF t
<1>3. Open(d) => t.hydrated BY <1>1, <1>2 DEF Open
<1>4. Joined(d) => choice = Idle
  <2>1. Joins(s, work, choice) => s.run = None BY <1>2 DEF Joins, StartsAnew
  <2> QED BY <2>1 DEF Joined, Joins, ConflictStands, ChoiceStands
<1>5. Straight(d)' => ~Buried(t.chain)
  <2>1. "queue" \in Races BY DEF Races
  <2>2. Buried(s.chain) => "queue" \in astray'[d] BY <1>2, <2>1, RaceTraced
  <2> QED BY <1>1, <2>2 DEF Straight
<1> QED BY <1>1, <1>2, <1>3, <1>4, <1>5, ReplaceLinks

\* The end of a Run: t is the page, but for whether it is starting.
LEMMA AbandonRunLinks ==
  ASSUME Typed, Traced, NEW d \in Devices, NEW t \in KnownTabs(time), AbandonRun(d, t),
         t.run = tabs[d].run, t.hydrated = tabs[d].hydrated, t.chain = tabs[d].chain,
         t.remoteOwner = tabs[d].remoteOwner, t.syncing = tabs[d].syncing
  PROVE  /\ Elsewhere(d) /\ (Working(d) => Working(d)')
         /\ Open(d) => Open(d)' /\ Ahead(d)
         /\ Straight(d)' /\ Working(d) /\ Joined(d) => Joined(d)'
<1> DEFINE job == [do |-> "delete", run |-> [id |-> t.run.id, at |-> time]] u == Abandoned(t)
           s == tabs[d] work == calls[d]["chain"] choice == calls[d]["choice"]
<1>1. /\ t.hydrated /\ t.run # None /\ Race(d, "choice", Choosing(d))
      /\ SetLocal(d, None) /\ SetTab(d, u) /\ UNCHANGED calls
  BY DEF AbandonRun
<1>2. job \in KnownJobs(time) /\ job.do = "delete" /\ t.chain \in Seq(KnownJobs(time))
  <2>1. time \in Nat /\ t.run.id \in 0..time
    BY <1>1, PageTyped DEF KnownTabs, MaybeRun, KnownRuns, Runs
  <2>2. job.run \in MaybeRun(time) BY <2>1 DEF MaybeRun, KnownRuns, Runs
  <2> QED BY <2>2 DEF KnownJobs, KnownTabs
<1>3. /\ u.run = None /\ u.conflict = None /\ u.hydrated = t.hydrated
      /\ u.remoteOwner = t.remoteOwner /\ u.syncing = t.syncing
      /\ u.chain = IF t.remoteOwner = "none" THEN t.chain ELSE Append(t.chain, job)
  BY DEF Abandoned, KnownTabs
<1> HIDE DEF u, job
<1>4. /\ tabs'[d] = u /\ local'[d] = None
      /\ \A e \in Devices \ {d} : tabs'[e] = tabs[e] /\ local'[e] = local[e]
  BY <1>1, SetTabFacts, SetLocalFacts
<1>5. /\ t.chain # <<>> => u.chain # <<>> /\ Head(u.chain) = Head(t.chain)
      /\ t.remoteOwner # "none" => u.chain # <<>> /\ u.chain[Len(u.chain)].do = "delete"
  BY <1>2, <1>3, AppendJobs
<1>6. Elsewhere(d) BY <1>1, <1>4 DEF Elsewhere
<1>7. Working(d) => Working(d)' BY <1>1, <1>4, <1>5 DEF Working
<1>8. Open(d) => Open(d)' BY <1>1, <1>3, <1>4 DEF Open
<1>9. Ahead(d) BY <1>3, <1>4 DEF Ahead, Older, SameRun
<1>10. ASSUME Straight(d)', Working(d), Joined(d) PROVE Joined(d)'
  <2>1. Joins(s, work, choice) /\ choice = Idle BY <1>1, <1>10, StraightOn DEF Joined
  <2>2. HeadInHand(u, work)
    BY <1>3, <1>5, <1>10, <2>1 DEF Joins, HeadInHand, Working
  <2>3. LastJobIsRun(u) /\ StartsAnew(u) /\ Quiet(u) /\ BuriedWaits(u)
    BY <1>3, <1>5 DEF LastJobIsRun, StartsAnew, Quiet, BuriedWaits
  <2>4. ConflictStands(u, work) /\ ChoiceStands(u, choice)
    BY <1>3, <2>1 DEF ConflictStands, ChoiceStands
  <2>5. Joins(u, work, choice) BY <2>1, <2>2, <2>3, <2>4 DEF Joins
  <2> QED BY <1>1, <1>4, <2>5 DEF Joined
<1> QED BY <1>6, <1>7, <1>8, <1>9, <1>10

LEMMA AbandonLinks ==
  ASSUME Typed, Traced, NEW d \in Devices, Abandon(d)
  PROVE  /\ Elsewhere(d) /\ (Working(d) => Working(d)')
         /\ Open(d) => Open(d)' /\ Ahead(d)
         /\ Straight(d)' /\ Working(d) /\ Joined(d) => Joined(d)'
<1>1. tabs[d] \in KnownTabs(time) /\ AbandonRun(d, tabs[d]) BY PageTyped DEF Abandon
<1> QED BY <1>1, AbandonRunLinks

LEMMA StartOverLinks ==
  ASSUME Typed, Traced, NEW d \in Devices, StartOver(d)
  PROVE  /\ Elsewhere(d) /\ (Working(d) => Working(d)')
         /\ Open(d) => Open(d)' /\ Ahead(d)
         /\ Straight(d)' /\ Working(d) /\ Joined(d) => Joined(d)'
<1> DEFINE t == [tabs[d] EXCEPT !.starting = TRUE]
<1>1. /\ t \in KnownTabs(time)
      /\ t.run = tabs[d].run /\ t.hydrated = tabs[d].hydrated /\ t.chain = tabs[d].chain
      /\ t.remoteOwner = tabs[d].remoteOwner /\ t.syncing = tabs[d].syncing
  <2>1. tabs[d] \in KnownTabs(time) BY PageTyped
  <2> QED BY <2>1 DEF KnownTabs
<1>2. AbandonRun(d, t) BY DEF StartOver
<1> HIDE DEF t
<1> QED BY <1>1, <1>2, AbandonRunLinks

\* A PUT that succeeds writes its Run.
LEMMA PutWrites ==
  ASSUME NEW q, q.kind = "put", Result(q).answer.status = "ok"
  PROVE  Result(q).answer.row.run = q.run
<1>1. q.owner # None BY DEF Result, Failure, Answer
<1>2. Result(q) = PutResult(q) BY <1>1 DEF Result
<1> QED BY <1>2 DEF PutResult, Answer

\* An answer, or its loss, changes nothing until the page goes on with it.
LEMMA AnsweredLinks ==
  ASSUME Typed, NEW d \in Devices, NEW p \in Procs, NEW a, UNCHANGED <<tabs, local>>,
         OthersWait(d, p), calls[d][p] # Idle,
         calls'[d][p] = [calls[d][p] EXCEPT !.sent = None, !.answer = a],
         a.status = "ok" => /\ calls[d][p].sent # None
                            /\ calls[d][p].sent.kind = "put" => a.row.run = calls[d][p].sent.run
  PROVE  /\ Elsewhere(d) /\ (Working(d) => Working(d)') /\ Ahead(d)
         /\ Open(d) => Open(d)'
         /\ Joined(d) => Joined(d)'
<1> DEFINE t == tabs[d] c == calls[d][p]
<1>1. /\ c'.at = c.at /\ c'.run = c.run /\ c'.sent = None /\ c'.answer = a
      /\ \A o \in Procs \ {p} : calls'[d][o] = calls[d][o]
  BY PageTyped DEF KnownCalls, OthersWait
<1>2. Elsewhere(d) /\ Ahead(d) BY SameIsAhead DEF Elsewhere, OthersWait
<1>3. Working(d) => Working(d)' BY <1>1, Distinct DEF Working
<1>4. ASSUME Open(d) PROVE Open(d)'
  <2>1. CASE t.hydrated
    <3>1. p \notin Mounts BY <1>4, <2>1 DEF Open
    <3>2. \A m \in Mounts : calls'[d][m] = calls[d][m] BY <1>1, <3>1, Distinct
    <3> QED BY <1>4, <2>1, <3>2 DEF Open
  <2>2. CASE ~t.hydrated
    <3>1. p # "choice" BY <1>4, <2>2 DEF Open
    <3>2. calls'[d]["choice"] = Idle BY <1>1, <1>4, <2>2, <3>1, Distinct DEF Open
    <3>3. \A m \in Mounts : calls'[d][m] # Idle => calls[d][m] # Idle /\ calls'[d][m].run = local[d]
      BY <1>1, <1>4, <2>2, Distinct DEF Open
    <3> QED BY <1>4, <2>2, <3>2, <3>3 DEF Open
  <2> QED BY <2>1, <2>2
<1>5. WritesItsRun(c) => WritesItsRun(c') BY <1>1 DEF WritesItsRun
<1>6. ASSUME Joined(d) PROVE Joined(d)'
  <2> DEFINE work == calls[d]["chain"] choice == calls[d]["choice"]
  <2>1. Joins(t, work, choice) BY <1>6 DEF Joined
  <2>2. CASE p = "chain"
    <3>1. choice' = choice BY <1>1, <2>2, Distinct
    <3>2. HeadInHand(t, work') /\ WritesItsRun(work')
      BY <1>1, <1>5, <2>1, <2>2 DEF Joins, HeadInHand
    <3>3. ConflictStands(t, work') BY <2>1, <2>2 DEF Joins, ConflictStands
    <3>4. Joins(t, work', choice) BY <2>1, <3>2, <3>3 DEF Joins
    <3> QED BY <3>1, <3>4 DEF Joined
  <2>3. CASE p = "choice"
    <3>1. work' = work BY <1>1, <2>3, Distinct
    <3>2. WritesItsRun(choice') /\ ChoiceStands(t, choice')
      BY <1>5, <2>1, <2>3 DEF Joins, ChoiceStands
    <3>3. Joins(t, work, choice') BY <2>1, <3>2 DEF Joins
    <3> QED BY <3>1, <3>3 DEF Joined
  <2>4. CASE p \notin {"chain", "choice"}
    <3>1. work' = work /\ choice' = choice BY <1>1, <2>4, Distinct
    <3> QED BY <2>1, <3>1 DEF Joined
  <2> QED BY <2>2, <2>3, <2>4
<1> QED BY <1>2, <1>3, <1>4, <1>6

LEMMA ServeLinks ==
  ASSUME Typed, NEW d \in Devices, NEW p \in Procs, Serve(d, p)
  PROVE  /\ Elsewhere(d) /\ (Working(d) => Working(d)') /\ Ahead(d)
         /\ Open(d) => Open(d)'
         /\ Joined(d) => Joined(d)'
<1> DEFINE q == calls[d][p].sent a == Result(q).answer
<1>1. q # None /\ UNCHANGED <<tabs, local>> BY DEF Serve
<1>2. calls[d][p] # Idle BY <1>1 DEF Idle
<1>3. a.status = "ok" /\ q.kind = "put" => a.row.run = q.run BY PutWrites
<1>4. OthersWait(d, p) /\ calls'[d][p] = [calls[d][p] EXCEPT !.sent = None, !.answer = a]
  BY ServeTyped
<1> HIDE DEF a
<1> QED BY <1>1, <1>2, <1>3, <1>4, AnsweredLinks

LEMMA LoseLinks ==
  ASSUME Typed, NEW d \in Devices, NEW p \in Procs, Lose(d, p)
  PROVE  /\ Elsewhere(d) /\ (Working(d) => Working(d)') /\ Ahead(d)
         /\ Open(d) => Open(d)'
         /\ Joined(d) => Joined(d)'
<1>1. /\ calls[d][p].sent # None \/ calls[d][p].answer # None
      /\ UNCHANGED <<tabs, local>>
  BY DEF Lose
<1>2. calls[d][p] # Idle BY <1>1 DEF Idle
<1>3. Failure.status # "ok" BY DEF Failure, Answer
<1> QED BY <1>1, <1>2, <1>3, LoseTyped, AnsweredLinks

LEMMA LeaveLinks ==
  ASSUME Typed, NEW d \in Devices, Leave(d)
  PROVE  /\ Elsewhere(d) /\ Working(d)' /\ Open(d)' /\ Joined(d)'
         /\ Open(d) => Ahead(d)
<1> DEFINE t == FreshTab(local[d])
<1>1. /\ SetTab(d, t) /\ calls' = [calls EXCEPT ![d] = [p \in Procs |-> Idle]] /\ local' = local
  BY DEF Leave
<1>2. /\ t.run = local[d] /\ ~t.hydrated /\ t.chain = <<>> /\ t.conflict = None /\ ~t.starting
  BY DEF FreshTab
<1> HIDE DEF t
<1>3. tabs'[d] = t /\ \A e \in Devices \ {d} : tabs'[e] = tabs[e] BY <1>1, SetTabFacts
<1>4. /\ \A p \in Procs : calls'[d][p] = Idle
      /\ \A e \in Devices \ {d} : calls'[e] = calls[e]
  BY <1>1 DEF Typed
<1>5. Elsewhere(d) BY <1>1, <1>3, <1>4 DEF Elsewhere
<1>6. Working(d)' BY <1>4, Distinct DEF Working
<1>7. Open(d)' BY <1>1, <1>2, <1>3, <1>4, Distinct DEF Open
<1>8. Joined(d)'
  <2>1. WritesItsRun(Idle) BY DEF WritesItsRun, Idle
  <2>2. Joins(t, Idle, Idle)
    BY <1>2, <2>1, EmptyJobs
    DEF Joins, HeadInHand, LastJobIsRun, ConflictStands, ChoiceStands, BuriedWaits, StartsAnew, Quiet
  <2> QED BY <1>3, <1>4, <2>2, Distinct DEF Joined
<1>9. Open(d) => Ahead(d)
  BY <1>1, <1>2, <1>3, PageTyped, NotOlder DEF Open, Ahead
<1> QED BY <1>5, <1>6, <1>7, <1>8, <1>9

----------------------------------------------------------------------------
(* The whole system *)

\* One page, or the server for it.
Acts(d) ==
  \/ NextJob(d)
  \/ /\ ~ReadyJob(d)
     /\ \/ JobAnswered(d)
        \/ \E m \in Mounts : Hydrate(d, m) \/ GuestAdopted(d, m) \/ Hydrated(d, m)
        \/ KeepAccountRun(d) \/ AdoptBrowserRun(d) \/ BrowserRunAnswered(d)
        \/ Play(d) \/ Abandon(d) \/ StartOver(d) \/ Start(d)
        \/ Reload(d) \/ Sign(d)
  \/ \E p \in Procs : Serve(d, p) \/ Lose(d, p)

\* A player chooses between two Runs.
Chooses(d) == KeepAccountRun(d) \/ BrowserRunAnswered(d)

LEMMA Actors == Next <=> (\E d \in Devices : Acts(d)) \/ (\E q \in late : ServeLate(q))
BY DEF Next, Acts

LEMMA ActsTyped ==
  ASSUME Typed, NEW d \in Devices, Working(d), Acts(d)
  PROVE  Typed'
<1>1. CASE NextJob(d) BY <1>1, NextJobTyped
<1>2. CASE JobAnswered(d) BY <1>2, JobAnsweredTyped
<1>3. CASE \E m \in Mounts : Hydrate(d, m) \/ GuestAdopted(d, m) \/ Hydrated(d, m)
  BY <1>3, HydrateTyped, GuestAdoptedTyped, HydratedTyped
<1>4. CASE KeepAccountRun(d) BY <1>4, KeepAccountRunTyped
<1>5. CASE AdoptBrowserRun(d) BY <1>5, AdoptBrowserRunTyped
<1>6. CASE BrowserRunAnswered(d) BY <1>6, BrowserRunAnsweredTyped
<1>7. CASE Play(d) BY <1>7, PlayTyped
<1>8. CASE Abandon(d) BY <1>8, AbandonTyped
<1>9. CASE StartOver(d) BY <1>9, StartOverTyped
<1>10. CASE Start(d) BY <1>10, StartTyped
<1>11. CASE Reload(d) \/ Sign(d)
  <2>1. Leave(d) /\ session' \in [Devices -> BOOLEAN] BY <1>11 DEF Reload, Sign, Typed
  <2> QED BY <2>1, LeaveTyped
<1>12. CASE \E p \in Procs : Serve(d, p) \/ Lose(d, p) BY <1>12, ServeTyped, LoseTyped
<1> QED
  BY <1>1, <1>2, <1>3, <1>4, <1>5, <1>6, <1>7, <1>8, <1>9, <1>10, <1>11, <1>12 DEF Acts

\* What befell a page it keeps until it is left, and the other pages keep theirs.
LEMMA ActsTraced ==
  ASSUME Traced, NEW d \in Devices, Acts(d)
  PROVE  /\ Traced' /\ \A e \in Devices \ {d} : astray'[e] = astray[e]
         /\ astray[d] \subseteq astray'[d] \/ Leave(d)
<1>1. CASE UNCHANGED astray BY <1>1 DEF Traced
<1>2. CASE \E race \in Races : \E is : Race(d, race, is) BY <1>2, RaceTraced
<1>3. CASE Leave(d)
  <2>1. astray' = [astray EXCEPT ![d] = {}] BY <1>3 DEF Leave
  <2> QED BY <1>3, <2>1 DEF Traced
<1>4. {"hydrate", "choice", "queue"} \subseteq Races BY DEF Races
<1>5. CASE NextJob(d) \/ JobAnswered(d) \/ AdoptBrowserRun(d) \/ BrowserRunAnswered(d)
  BY <1>1, <1>5 DEF NextJob, JobAnswered, AdoptBrowserRun, BrowserRunAnswered
<1>6. CASE \E m \in Mounts : Hydrate(d, m) \/ GuestAdopted(d, m) \/ Hydrated(d, m)
  BY <1>1, <1>2, <1>4, <1>6 DEF Hydrate, GuestAdopted, Hydrated
<1>7. CASE KeepAccountRun(d) \/ Play(d) \/ Start(d)
  BY <1>2, <1>4, <1>7 DEF KeepAccountRun, Play, Start
<1>8. CASE Abandon(d) \/ StartOver(d)
  BY <1>2, <1>4, <1>8 DEF Abandon, StartOver, AbandonRun
<1>9. CASE Reload(d) \/ Sign(d) BY <1>3, <1>9 DEF Reload, Sign
<1>10. CASE \E p \in Procs : Serve(d, p) \/ Lose(d, p) BY <1>1, <1>10 DEF Serve, Lose
<1> QED BY <1>5, <1>6, <1>7, <1>8, <1>9, <1>10 DEF Acts

LEMMA ActsLinks ==
  ASSUME Typed, Traced, NEW d \in Devices, Working(d), Acts(d)
  PROVE  /\ Elsewhere(d) /\ Working(d)'
         /\ Open(d) => (One(d)' => Open(d)') /\ (Chooses(d) \/ Ahead(d))
         /\ Straight(d)' /\ Open(d) /\ Joined(d) => Joined(d)'
         /\ Leave(d) => Open(d)' /\ Joined(d)'
<1> DEFINE Links == /\ Elsewhere(d) /\ Working(d)'
                    /\ Open(d) => (One(d)' => Open(d)') /\ (Chooses(d) \/ Ahead(d))
                    /\ Straight(d)' /\ Open(d) /\ Joined(d) => Joined(d)'
<1>0. Leave(d) => Open(d)' /\ Joined(d)' BY LeaveLinks
<1> SUFFICES Links BY <1>0
<1>1. CASE NextJob(d) BY <1>1, NextJobLinks
<1>2. CASE JobAnswered(d) BY <1>2, JobAnsweredLinks
<1>3. CASE \E m \in Mounts : Hydrate(d, m) \/ GuestAdopted(d, m) \/ Hydrated(d, m)
  BY <1>3, HydrateLinks, GuestAdoptedLinks, HydratedLinks
<1>4. CASE KeepAccountRun(d) /\ ~ReadyJob(d) BY <1>4, KeepAccountRunLinks DEF Chooses
<1>5. CASE AdoptBrowserRun(d) /\ ~ReadyJob(d) BY <1>5, AdoptBrowserRunLinks
<1>6. CASE BrowserRunAnswered(d) BY <1>6, BrowserRunAnsweredLinks DEF Chooses
<1>7. CASE Play(d) BY <1>7, PlayLinks
<1>8. CASE Abandon(d) BY <1>8, AbandonLinks
<1>9. CASE StartOver(d) BY <1>9, StartOverLinks
<1>10. CASE Start(d) BY <1>10, StartLinks
<1>11. CASE Reload(d) \/ Sign(d)
  <2>1. Leave(d) BY <1>11 DEF Reload, Sign
  <2> QED BY <2>1, LeaveLinks
<1>12. CASE \E p \in Procs : Serve(d, p) \/ Lose(d, p) BY <1>12, ServeLinks, LoseLinks
<1> QED
  BY <1>1, <1>2, <1>3, <1>4, <1>5, <1>6, <1>7, <1>8, <1>9, <1>10, <1>11, <1>12 DEF Acts

LEMMA ElsewhereKeeps ==
  ASSUME Typed, NEW d \in Devices, NEW e \in Devices, Elsewhere(d), e # d
  PROVE  /\ Working(e) => Working(e)'
         /\ Open(e) => Open(e)'
         /\ Joined(e) => Joined(e)'
         /\ Ahead(e)
<1>1. tabs'[e] = tabs[e] /\ calls'[e] = calls[e] /\ local'[e] = local[e] BY DEF Elsewhere
<1> QED BY <1>1, SameIsAhead DEF Working, Open, Joined

Base == Typed /\ Traced /\ \A d \in Devices : Working(d)
AllOpen == \A d \in Devices : One(d) => Open(d)
AllJoined == \A d \in Devices : Straight(d) => Joined(d)

LEMMA Starts == Init => Base /\ AllOpen /\ AllJoined
<1> SUFFICES ASSUME Init PROVE Base /\ AllOpen /\ AllJoined OBVIOUS
<1>1. ASSUME NEW d \in Devices PROVE Working(d) /\ Open(d) /\ Joined(d)
  <2> DEFINE t == FreshTab(None)
  <2>1. tabs[d] = t /\ local[d] = None /\ \A p \in Procs : calls[d][p] = Idle BY DEF Init
  <2>2. t.run = None /\ ~t.hydrated /\ t.chain = <<>> /\ t.conflict = None /\ ~t.starting
    BY DEF FreshTab
  <2> HIDE DEF t
  <2>3. WritesItsRun(Idle) BY DEF WritesItsRun, Idle
  <2>4. Joins(t, Idle, Idle)
    BY <2>2, <2>3, EmptyJobs
    DEF Joins, HeadInHand, LastJobIsRun, ConflictStands, ChoiceStands, BuriedWaits, StartsAnew, Quiet
  <2>5. Joined(d) BY <2>1, <2>4, Distinct DEF Joined
  <2>6. Working(d) BY <2>1, Distinct DEF Working
  <2>7. Open(d) BY <2>1, <2>2, Distinct DEF Open
  <2> QED BY <2>5, <2>6, <2>7
<1>2. Traced BY DEF Init, Traced
<1> QED BY <1>1, <1>2, InitTyped DEF Base, AllOpen, AllJoined

LEMMA Step ==
  ASSUME Base, [Next]_vars
  PROVE  /\ Base'
         /\ AllOpen => AllOpen' /\ \A e \in Devices : One(e) => Chooses(e) \/ Ahead(e)
         /\ AllOpen /\ AllJoined => AllJoined'
<1>1. CASE \E d \in Devices : Acts(d)
  <2>1. PICK d \in Devices : Acts(d) BY <1>1
  <2>2. Typed /\ Traced /\ Working(d) BY DEF Base
  <2>3. Typed' BY <2>1, <2>2, ActsTyped
  <2>4. /\ Elsewhere(d) /\ Working(d)'
        /\ Open(d) => (One(d)' => Open(d)') /\ (Chooses(d) \/ Ahead(d))
        /\ Straight(d)' /\ Open(d) /\ Joined(d) => Joined(d)'
        /\ Leave(d) => Open(d)' /\ Joined(d)'
    BY <2>1, <2>2, ActsLinks
  <2>5. \A e \in Devices \ {d} :
          /\ Working(e) => Working(e)'
          /\ Open(e) => Open(e)'
          /\ Joined(e) => Joined(e)'
          /\ Ahead(e)
    BY <2>2, <2>4, ElsewhereKeeps
  <2>6. /\ Traced' /\ \A e \in Devices \ {d} : astray'[e] = astray[e]
        /\ astray[d] \subseteq astray'[d] \/ Leave(d)
    BY <2>1, <2>2, ActsTraced
  <2>7. /\ \A e \in Devices \ {d} : (One(e)' => One(e)) /\ (Straight(e)' => Straight(e))
        /\ Leave(d) \/ ((One(d)' => One(d)) /\ (Straight(d)' => Straight(d)))
        /\ Straight(d) => One(d)
    BY <2>6 DEF One, Straight
  <2>8. Base' BY <2>3, <2>4, <2>5, <2>6 DEF Base
  <2>9. ASSUME AllOpen PROVE AllOpen' /\ \A e \in Devices : One(e) => Chooses(e) \/ Ahead(e)
    <3>1. \A e \in Devices : One(e) => Open(e) BY <2>9 DEF AllOpen
    <3>2. One(d)' => Open(d)' BY <2>4, <2>7, <3>1
    <3>3. \A e \in Devices \ {d} : One(e)' => Open(e)' BY <2>5, <2>7, <3>1
    <3>4. \A e \in Devices : One(e) => Chooses(e) \/ Ahead(e) BY <2>4, <2>5, <3>1
    <3> QED BY <3>2, <3>3, <3>4 DEF AllOpen
  <2>10. ASSUME AllOpen, AllJoined PROVE AllJoined'
    <3>1. \A e \in Devices : (One(e) => Open(e)) /\ (Straight(e) => Joined(e))
      BY <2>10 DEF AllOpen, AllJoined
    <3>2. Straight(d)' => Joined(d)' BY <2>4, <2>7, <3>1
    <3>3. \A e \in Devices \ {d} : Straight(e)' => Joined(e)' BY <2>5, <2>7, <3>1
    <3> QED BY <3>2, <3>3 DEF AllJoined
  <2> QED BY <2>8, <2>9, <2>10
<1>2. CASE UNCHANGED <<tabs, calls, local, astray>> /\ Typed'
  <2>1. \A e \in Devices :
          /\ Working(e) => Working(e)'
          /\ Open(e) => Open(e)'
          /\ Joined(e) => Joined(e)'
          /\ Ahead(e)
    BY <1>2, SameIsAhead DEF Base, Working, Open, Joined
  <2>2. Traced' /\ \A e \in Devices : (One(e)' => One(e)) /\ (Straight(e)' => Straight(e))
    BY <1>2 DEF Base, Traced, One, Straight
  <2> QED BY <1>2, <2>1, <2>2 DEF Base, AllOpen, AllJoined
<1>3. CASE \E q \in late : ServeLate(q)
  <2>1. Typed' BY <1>3, ServeLateTyped DEF Base
  <2>2. UNCHANGED <<tabs, calls, local, astray>> BY <1>3 DEF ServeLate
  <2> QED BY <1>2, <2>1, <2>2
<1>4. CASE UNCHANGED vars
  <2>1. Typed' BY <1>4 DEF vars, Base, Typed
  <2>2. UNCHANGED <<tabs, calls, local, astray>> BY <1>4 DEF vars
  <2> QED BY <1>2, <2>1, <2>2
<1> QED BY <1>1, <1>3, <1>4, Actors

LEMMA BaseAlways == Spec => []Base
<1>1. Base /\ [Next]_vars => Base' BY Step
<1> QED BY <1>1, Starts, PTL DEF Spec

LEMMA OpenAlways == Spec => []AllOpen
<1>1. Base /\ AllOpen /\ [Next]_vars => AllOpen' BY Step
<1> QED BY <1>1, BaseAlways, Starts, PTL DEF Spec

LEMMA JoinedAlways == Spec => []AllJoined
<1>1. Base /\ AllOpen /\ AllJoined /\ [Next]_vars => AllJoined' BY Step
<1> QED BY <1>1, OpenAlways, BaseAlways, Starts, PTL DEF Spec

----------------------------------------------------------------------------
(* Where a Run can be *)

\* The Run, if it is one, is another than that of the id.
No(run, id) == run = None \/ run.id # id

RequestFree(q, id) == No(q.run, id) /\ No(q.seen.run, id)

\* A function neither holds the Run, nor sends it, nor is told of it.
CallFree(c, id) ==
  /\ No(c.run, id) /\ No(c.remote.run, id)
  /\ c.sent # None => RequestFree(c.sent, id)
  /\ c.answer # None => No(c.answer.row.run, id)

ChainFree(s, id) == \A i \in 1..Len(s) : No(s[i].run, id)
ConflictFree(t, id) ==
  t.conflict # None => No(t.conflict.browserRun, id) /\ No(t.conflict.accountRun, id)
TabFree(t, id) ==
  No(t.run, id) /\ No(t.remote.run, id) /\ ConflictFree(t, id) /\ ChainFree(t.chain, id)

RowsFree(id) == \A o \in Owners : No(rows[o].run, id)
ServerFree(id) == RowsFree(id) /\ \A q \in late : RequestFree(q, id)
CallsFree(d, id) == \A p \in Procs : CallFree(calls[d][p], id)
PageFree(d, id) == No(local[d], id) /\ TabFree(tabs[d], id) /\ CallsFree(d, id)

LEMMA NothingFree ==
  ASSUME NEW id
  PROVE  /\ No(None, id) /\ No(NoRow.run, id) /\ CallFree(Idle, id)
         /\ \A run : No(run, id) => TabFree(FreshTab(run), id)
<1>1. No(None, id) /\ No(NoRow.run, id) BY DEF No, NoRow
<1>2. CallFree(Idle, id) BY <1>1 DEF CallFree, Idle
<1>3. ASSUME NEW run, No(run, id) PROVE TabFree(FreshTab(run), id)
  BY <1>1, <1>3 DEF TabFree, FreshTab, ConflictFree, ChainFree
<1> QED BY <1>1, <1>2, <1>3

LEMMA ChainsFree ==
  ASSUME NEW S, NEW s \in Seq(S), NEW id
  PROVE  /\ ChainFree(s, id) /\ s # <<>> => No(Head(s).run, id) /\ ChainFree(Tail(s), id)
         /\ \A job \in S : ChainFree(s, id) /\ No(job.run, id) => ChainFree(Append(s, job), id)
<1>1. ASSUME ChainFree(s, id), s # <<>> PROVE No(Head(s).run, id) /\ ChainFree(Tail(s), id)
  <2>1. /\ Len(s) \in Nat /\ Len(s) >= 1 /\ Head(s) = s[1] /\ Len(Tail(s)) = Len(s) - 1
        /\ \A i \in 1..Len(Tail(s)) : Tail(s)[i] = s[i + 1]
    BY <1>1
  <2> QED BY <1>1, <2>1 DEF ChainFree
<1>2. ASSUME NEW job \in S, ChainFree(s, id), No(job.run, id) PROVE ChainFree(Append(s, job), id)
  <2> DEFINE a == Append(s, job)
  <2>1. /\ Len(s) \in Nat /\ Len(a) = Len(s) + 1 /\ a[Len(s) + 1] = job
        /\ \A i \in 1..Len(s) : a[i] = s[i]
    OBVIOUS
  <2> HIDE DEF a
  <2>2. \A i \in 1..Len(a) : No(a[i].run, id) BY <1>2, <2>1 DEF ChainFree
  <2> QED BY <2>2 DEF ChainFree, a
<1> QED BY <1>1, <1>2

\* A handler spreads no Run but those of the rows and of its request.
LEMMA ResultFree ==
  ASSUME Typed, NEW q \in KnownRequests(time), NEW id, RowsFree(id), RequestFree(q, id)
  PROVE  /\ \A o \in Owners : No(Result(q).rows[o].run, id)
         /\ No(Result(q).answer.row.run, id)
<1>1. /\ rows \in [Owners -> KnownRows(time)]
      /\ q.owner \in Owners \cup {None}
      /\ q.kind = "adopt" => q.key \in Owners
  BY DEF Typed, KnownRequests, Owners
<1>2. No(NoRow.run, id) /\ \A o \in Owners : No(rows[o].run, id) BY NothingFree DEF RowsFree
<1>3. No(q.run, id) BY DEF RequestFree
<1>4. \A status, row : Answer(status, row).row = row BY DEF Answer
<1>5. CASE q.owner = None BY <1>2, <1>4, <1>5 DEF Result, Failure
<1>6. CASE q.owner # None
  <2>1. q.owner \in Owners BY <1>1, <1>6
  <2>2. CASE q.kind = "put"
    <3> DEFINE next == [run |-> q.run, revision |-> rows[q.owner].revision + 1]
    <3>1. next.run = q.run OBVIOUS
    <3>2. Result(q) = PutResult(q) BY <1>6, <2>2 DEF Result
    <3>3. /\ Result(q).rows \in {rows, [rows EXCEPT ![q.owner] = next]}
          /\ Result(q).answer.row \in {rows[q.owner], next}
      BY <1>4, <3>2 DEF PutResult
    <3> HIDE DEF next
    <3>4. \A o \in Owners : [rows EXCEPT ![q.owner] = next][o] \in {rows[o], next} BY <1>1
    <3> QED BY <1>2, <1>3, <2>1, <3>1, <3>3, <3>4
  <2>3. CASE q.kind = "delete"
    <3>1. Result(q) = DeleteResult(q) BY <1>6, <2>3 DEF Result
    <3>2. /\ Result(q).rows \in {rows, [rows EXCEPT ![q.owner] = NoRow]}
          /\ Result(q).answer.row \in {rows[q.owner], NoRow}
      BY <1>4, <3>1 DEF DeleteResult
    <3>3. \A o \in Owners : [rows EXCEPT ![q.owner] = NoRow][o] \in {rows[o], NoRow} BY <1>1
    <3> QED BY <1>2, <2>1, <3>2, <3>3
  <2>4. CASE q.kind = "adopt"
    <3>1. Result(q) = AdoptResult(q) /\ q.key \in Owners BY <1>1, <1>6, <2>4 DEF Result
    <3> DEFINE moved == [rows EXCEPT ![q.key] = NoRow, ![q.owner] = IF @ = NoRow THEN rows[q.key] ELSE @]
    <3>2. Result(q).rows \in {rows, moved} /\ Result(q).answer.row = NoRow
      BY <1>4, <3>1 DEF AdoptResult
    <3>3. \A o \in Owners : moved[o] \in {rows[o], NoRow, rows[q.key]} BY <1>1
    <3> HIDE DEF moved
    <3> QED BY <1>2, <3>1, <3>2, <3>3
  <2>5. CASE q.kind \notin {"put", "delete", "adopt"}
    <3>1. Result(q) = [rows |-> rows, answer |-> Answer("ok", rows[q.owner])]
      BY <1>6, <2>5 DEF Result
    <3> QED BY <1>2, <1>4, <2>1, <3>1
  <2> QED BY <2>2, <2>3, <2>4, <2>5
<1> QED BY <1>5, <1>6

LEMMA AwaitFree ==
  ASSUME Typed, NEW d \in Devices, NEW p \in Procs, NEW at, NEW run, NEW row, NEW q, NEW id,
         CallsFree(d, id), No(run, id), No(row.run, id), RequestFree(q, id),
         Await(d, p, at, run, row, q)
  PROVE  CallsFree(d, id)'
<1> DEFINE c == [at |-> at, run |-> run, remote |-> row, sent |-> q, answer |-> None]
<1>1. CallFree(c, id) BY DEF CallFree
<1>2. calls' = [calls EXCEPT ![d][p] = c] BY DEF Await
<1> HIDE DEF c
<1>3. \A o \in Procs : calls'[d][o] \in {calls[d][o], c} BY <1>2 DEF Typed
<1> QED BY <1>1, <1>3 DEF CallsFree

LEMMA ReturnFree ==
  ASSUME Typed, NEW d \in Devices, NEW p \in Procs, NEW id, CallsFree(d, id), Return(d, p)
  PROVE  CallsFree(d, id)'
<1>1. \A o \in Procs : calls'[d][o] \in {calls[d][o], Idle} BY DEF Return, Typed
<1> QED BY <1>1, NothingFree DEF CallsFree

LEMMA RequestsFree ==
  ASSUME NEW kind, NEW d, NEW k, NEW run, NEW row, NEW war, NEW id, No(run, id), No(row.run, id)
  PROVE  RequestFree(Request(kind, d, k, run, row, war), id)
BY DEF RequestFree, Request

LEMMA SendFree ==
  ASSUME Typed, NEW d \in Devices, NEW p \in Procs, NEW at, NEW run, NEW row, NEW kind, NEW id,
         CallsFree(d, id), No(run, id), No(row.run, id), Send(d, p, at, run, row, kind)
  PROVE  CallsFree(d, id)'
<1> DEFINE q == Request(kind, d, key[d], None, row, FALSE)
<1>1. RequestFree(q, id) BY NothingFree, RequestsFree
<1>2. Await(d, p, at, run, row, q) BY DEF Send
<1> HIDE DEF q
<1> QED BY <1>1, <1>2, AwaitFree

LEMMA SendPutFree ==
  ASSUME Typed, NEW d \in Devices, NEW p \in Procs, NEW at, NEW run, NEW row, NEW id,
         CallsFree(d, id), No(run, id), No(row.run, id), SendPut(d, p, at, run, row)
  PROVE  CallsFree(d, id)'
<1> DEFINE q(k) == Request("put", d, k, run, row, at \in {"saveWar", "saveBrowserWar"})
<1>1. PICK k \in Minted(d) : Await(d, p, at, run, row, q(k)) BY DEF SendPut
<1>2. RequestFree(q(k), id) BY RequestsFree
<1> HIDE DEF q
<1> QED BY <1>1, <1>2, AwaitFree

\* What page d becomes holds the Run no more than d did.
LEMMA BecomesFree ==
  ASSUME Typed, NEW d \in Devices, NEW id, CallsFree(d, id)', No(local'[d], id),
         NEW t, SetTab(d, t), TabFree(t, id)
  PROVE  PageFree(d, id)'
BY SetTabFacts DEF PageFree

LEMMA NextJobFree ==
  ASSUME Typed, NEW d \in Devices, NEW id, CallsFree(d, id), No(tabs[d].remote.run, id),
         No(Head(tabs[d].chain).run, id), NextJob(d)
  PROVE  /\ CallsFree(d, id)' /\ UNCHANGED <<rows, local, late>>
         /\ \E t : /\ SetTab(d, t) /\ t.run = tabs[d].run /\ t.remote = tabs[d].remote
                   /\ t.conflict = tabs[d].conflict
                   /\ t.chain = tabs[d].chain \/ (tabs[d].chain # <<>> /\ t.chain = Tail(tabs[d].chain))
<1> DEFINE t == tabs[d] job == Head(t.chain)
           u == [t EXCEPT !.chain = Tail(@)] v == [t EXCEPT !.syncing = TRUE]
<1>1. /\ t \in KnownTabs(time) /\ "chain" \in Procs /\ UNCHANGED <<rows, local, late>> /\ t.chain # <<>>
  BY PageTyped, Distinct DEF NextJob, ReadyJob
<1>2. /\ u.run = t.run /\ u.remote = t.remote /\ u.conflict = t.conflict /\ u.chain = Tail(t.chain)
      /\ v.run = t.run /\ v.remote = t.remote /\ v.conflict = t.conflict /\ v.chain = t.chain
  BY <1>1 DEF KnownTabs
<1>3. SetTab(d, t) <=> tabs' = tabs BY DEF SetTab, Typed
<1>4. CASE Send(d, "chain", "delete", job.run, t.remote, "delete") /\ UNCHANGED <<key, tabs>>
  <2>1. CallsFree(d, id)' BY <1>1, <1>4, SendFree
  <2> QED BY <1>1, <1>3, <1>4, <2>1
<1>5. CASE SetTab(d, u) /\ UNCHANGED <<key, calls>>
  <2> HIDE DEF u
  <2>1. CallsFree(d, id)' BY <1>5 DEF CallsFree
  <2> QED BY <1>1, <1>2, <1>5, <2>1
<1>6. CASE SendPut(d, "chain", "save", job.run, t.remote) /\ SetTab(d, v)
  <2> HIDE DEF v
  <2>1. CallsFree(d, id)' BY <1>1, <1>6, SendPutFree
  <2> QED BY <1>1, <1>2, <1>6, <2>1
<1> QED BY <1>4, <1>5, <1>6 DEF NextJob

\* Only the row that was reread is learnt, and only where the page does not hold the Run may
\* the conflict be asked about.
LEMMA JobAnsweredFree ==
  ASSUME Typed, NEW d \in Devices, Working(d), NEW id, CallsFree(d, id), No(tabs[d].remote.run, id),
         JobAnswered(d)
  PROVE  /\ CallsFree(d, id)' /\ UNCHANGED <<rows, local, late>>
         /\ \E t : /\ SetTab(d, t) /\ t.run = tabs[d].run /\ No(t.remote.run, id)
                   /\ No(t.run, id) /\ ConflictFree(tabs[d], id) => ConflictFree(t, id)
                   /\ t.chain = tabs[d].chain \/ (tabs[d].chain # <<>> /\ t.chain = Tail(tabs[d].chain))
<1> DEFINE c == calls[d]["chain"] a == c.answer t == tabs[d]
           disputed == [t EXCEPT !.conflict = [browserRun |-> t.run, accountRun |-> a.row.run],
                                 !.remote = a.row, !.error = FALSE, !.syncing = FALSE]
           saved == [t EXCEPT !.remote = a.row, !.error = FALSE, !.syncing = FALSE]
           dropped == [t EXCEPT !.remote = NoRow]
<1>1. a # None /\ UNCHANGED <<rows, local, late>> BY DEF JobAnswered
<1>2. t \in KnownTabs(time) /\ t.chain # <<>> /\ "chain" \in Procs
  BY <1>1, PageTyped, Distinct DEF Working, Idle
<1>3. No(c.run, id) /\ No(c.remote.run, id) /\ No(a.row.run, id) /\ No(NoRow.run, id)
  BY <1>1, <1>2, NothingFree DEF CallsFree, CallFree
<1>4. SetTab(d, t) <=> tabs' = tabs BY DEF SetTab, Typed
<1>5. CASE /\ \/ SendPut(d, "chain", "saveWar", c.run, c.remote)
              \/ Send(d, "chain", "reread", c.run, c.remote, "get")
           /\ UNCHANGED tabs
  <2>1. CallsFree(d, id)' BY <1>2, <1>3, <1>5, SendFree, SendPutFree
  <2> QED BY <1>1, <1>4, <1>5, <2>1
<1>6. ASSUME NEW u, u \in KnownTabs(time), JobDone(d, u), u.run = t.run, u.chain = t.chain,
             No(u.remote.run, id), No(u.run, id) /\ ConflictFree(t, id) => ConflictFree(u, id)
      PROVE  /\ CallsFree(d, id)'
             /\ \E v : /\ SetTab(d, v) /\ v.run = t.run /\ No(v.remote.run, id)
                       /\ No(v.run, id) /\ ConflictFree(t, id) => ConflictFree(v, id)
                       /\ v.chain = Tail(t.chain)
  <2> DEFINE v == [u EXCEPT !.chain = Tail(@)]
  <2>1. v.run = u.run /\ v.remote = u.remote /\ v.conflict = u.conflict /\ v.chain = Tail(u.chain)
    BY <1>6 DEF KnownTabs
  <2>2. SetTab(d, v) /\ Return(d, "chain") BY <1>6 DEF JobDone
  <2> HIDE DEF v
  <2>3. CallsFree(d, id)' BY <1>2, <2>2, ReturnFree
  <2>4. ConflictFree(v, id) <=> ConflictFree(u, id) BY <2>1 DEF ConflictFree
  <2> QED BY <1>6, <2>1, <2>2, <2>3, <2>4
<1>7. /\ saved \in KnownTabs(time) /\ Waiting(t) \in KnownTabs(time)
      /\ dropped \in KnownTabs(time) /\ DeleteFailed(t) \in KnownTabs(time)
  <2>1. a.row \in KnownRows(time) /\ NoRow \in KnownRows(time) BY <1>1, <1>2, PageTyped, NothingTyped
  <2> QED BY <1>2, <2>1, WaitingTyped DEF KnownTabs
<1>8. /\ saved.run = t.run /\ saved.remote = a.row /\ saved.conflict = t.conflict /\ saved.chain = t.chain
      /\ Waiting(t).run = t.run /\ Waiting(t).remote = t.remote
      /\ Waiting(t).conflict = t.conflict /\ Waiting(t).chain = t.chain
      /\ DeleteFailed(t).run = t.run /\ DeleteFailed(t).remote = t.remote
      /\ DeleteFailed(t).conflict = t.conflict /\ DeleteFailed(t).chain = t.chain
      /\ dropped.run = t.run /\ dropped.remote = NoRow
      /\ dropped.conflict = t.conflict /\ dropped.chain = t.chain
  BY <1>2 DEF KnownTabs, Waiting, DeleteFailed
<1>9. /\ disputed.run = t.run /\ disputed.remote = a.row /\ disputed.chain = t.chain
      /\ disputed.conflict.browserRun = t.run /\ disputed.conflict.accountRun = a.row.run
  BY <1>2 DEF KnownTabs
<1>10. ASSUME OtherRun(a.row.run, t.run) PROVE disputed \in KnownTabs(time)
  <2>1. a.row.run \in KnownRuns(time) /\ t.run \in KnownRuns(time) /\ a.row \in KnownRows(time)
    BY <1>1, <1>2, <1>10, PageTyped DEF OtherRun, MaybeRun
  <2> QED BY <1>2, <2>1 DEF KnownTabs, KnownConflicts
<1>11. /\ ConflictFree(t, id) => ConflictFree(saved, id) /\ ConflictFree(dropped, id)
                                 /\ ConflictFree(Waiting(t), id) /\ ConflictFree(DeleteFailed(t), id)
       /\ No(t.run, id) => ConflictFree(disputed, id)
  BY <1>3, <1>8, <1>9 DEF ConflictFree
<1>12. \/ SendPut(d, "chain", "saveWar", c.run, c.remote) /\ UNCHANGED tabs
       \/ Send(d, "chain", "reread", c.run, c.remote, "get") /\ UNCHANGED <<key, tabs>>
       \/ JobDone(d, saved)
       \/ JobDone(d, Waiting(t))
       \/ OtherRun(a.row.run, t.run) /\ JobDone(d, disputed)
       \/ JobDone(d, dropped) \/ JobDone(d, DeleteFailed(t))
  BY DEF JobAnswered
<1> HIDE DEF saved, dropped, disputed
<1>13. CASE JobDone(d, saved) BY <1>1, <1>2, <1>3, <1>6, <1>7, <1>8, <1>11, <1>13
<1>14. CASE JobDone(d, dropped) BY <1>1, <1>2, <1>3, <1>6, <1>7, <1>8, <1>11, <1>14
<1>15. CASE OtherRun(a.row.run, t.run) /\ JobDone(d, disputed)
  BY <1>1, <1>2, <1>3, <1>6, <1>9, <1>10, <1>11, <1>15
<1>16. CASE JobDone(d, Waiting(t)) \/ JobDone(d, DeleteFailed(t))
  <2>1. PICK u \in {Waiting(t), DeleteFailed(t)} : JobDone(d, u) BY <1>16
  <2> QED BY <1>1, <1>2, <1>6, <1>7, <1>8, <1>11, <2>1
<1> QED BY <1>5, <1>12, <1>13, <1>14, <1>15, <1>16

LEMMA HydrateFree ==
  ASSUME Typed, NEW d \in Devices, NEW m \in Mounts, NEW id, PageFree(d, id), Hydrate(d, m)
  PROVE  PageFree(d, id)' /\ UNCHANGED <<rows, late>>
<1> DEFINE t == Settled(tabs[d], "guest", local[d], NoRow)
<1>1. /\ m \in Procs /\ UNCHANGED <<rows, late, local>>
      /\ tabs[d] \in KnownTabs(time) /\ No(NoRow.run, id)
      /\ No(local[d], id) /\ TabFree(tabs[d], id) /\ CallsFree(d, id)
  BY Distinct, PageTyped, NothingFree DEF Hydrate, PageFree
<1>2. CASE SetTab(d, t) /\ UNCHANGED calls
  <2>1. t.run = local[d] /\ t.remote = NoRow /\ t.conflict = tabs[d].conflict /\ t.chain = tabs[d].chain
    BY <1>1 DEF Settled, KnownTabs
  <2> HIDE DEF t
  <2>2. TabFree(t, id) BY <1>1, <2>1 DEF TabFree, ConflictFree
  <2>3. CallsFree(d, id)' BY <1>1, <1>2 DEF CallsFree
  <2> QED BY <1>1, <1>2, <2>2, <2>3, BecomesFree
<1>3. CASE /\ \/ Send(d, m, "adoptGuest", local[d], NoRow, "adopt")
              \/ Send(d, m, "load", local[d], NoRow, "get")
           /\ UNCHANGED tabs
  <2>1. CallsFree(d, id)' BY <1>1, <1>3, SendFree
  <2> QED BY <1>1, <1>3, <2>1 DEF PageFree
<1> QED BY <1>2, <1>3 DEF Hydrate

LEMMA GuestAdoptedFree ==
  ASSUME Typed, NEW d \in Devices, NEW m \in Mounts, NEW id, PageFree(d, id), GuestAdopted(d, m)
  PROVE  PageFree(d, id)' /\ UNCHANGED <<rows, late>>
<1> DEFINE q == Request("get", d, key'[d], None, NoRow, FALSE)
<1>1. m \in Procs /\ UNCHANGED <<rows, late, local, tabs>> /\ CallsFree(d, id)
  BY Distinct DEF GuestAdopted, PageFree
<1>2. No(calls[d][m].run, id) BY <1>1 DEF CallsFree, CallFree
<1>3. RequestFree(q, id) /\ No(NoRow.run, id) BY NothingFree, RequestsFree
<1>4. Await(d, m, "load", calls[d][m].run, NoRow, q) BY DEF GuestAdopted
<1> HIDE DEF q
<1>5. CallsFree(d, id)' BY <1>1, <1>2, <1>3, <1>4, AwaitFree
<1> QED BY <1>1, <1>5 DEF PageFree

LEMMA QueuedFree ==
  ASSUME NEW n, NEW t \in KnownTabs(n), NEW run \in MaybeRun(n), NEW cond, NEW id,
         TabFree(t, id), No(run, id)
  PROVE  TabFree(QueueSave(t, run), id) /\ TabFree(QueueSaveIf(cond, t, run), id)
<1> DEFINE job == [do |-> "save", run |-> run] u == QueueSave(t, run)
<1>1. job \in KnownJobs(n) /\ job.run = run /\ t.chain \in Seq(KnownJobs(n)) BY DEF KnownJobs, KnownTabs
<1>2. u.run = t.run /\ u.remote = t.remote /\ u.conflict = t.conflict /\ u.chain = Append(t.chain, job)
  BY DEF QueueSave, KnownTabs
<1> HIDE DEF u, job
<1>3. ChainFree(u.chain, id) BY <1>1, <1>2, ChainsFree DEF TabFree
<1>4. TabFree(u, id) BY <1>2, <1>3 DEF TabFree, ConflictFree
<1> QED BY <1>4 DEF QueueSaveIf, u

LEMMA HydratedFree ==
  ASSUME Typed, NEW d \in Devices, NEW m \in Mounts, NEW id, PageFree(d, id), Hydrated(d, m)
  PROVE  PageFree(d, id)' /\ UNCHANGED <<rows, late>>
<1> DEFINE t == tabs[d] browser == calls[d][m].run row == calls[d][m].answer.row
           run == IF Newer(browser, row.run) THEN browser ELSE Or(row.run, browser)
           v == Settled(t, "account", run, row)
           g == [Settled(t, "guest", Or(browser, row.run), row) EXCEPT !.conflict = None]
           dispute == [browserRun |-> browser, accountRun |-> row.run]
           cut == Unlinked(t, browser)
           cutOff == [Unlinked(t, browser) EXCEPT !.remote = NoRow, !.conflict = None]
<1>1. /\ m \in Procs /\ calls[d][m].answer # None /\ UNCHANGED <<rows, late>>
      /\ No(local[d], id) /\ TabFree(t, id) /\ CallsFree(d, id)
  BY Distinct DEF Hydrated, PageFree
<1>2. /\ t \in KnownTabs(time) /\ browser \in MaybeRun(time) /\ row.run \in MaybeRun(time)
      /\ row \in KnownRows(time)
  BY <1>1, PageTyped
<1>3. No(browser, id) /\ No(row.run, id) /\ No(NoRow.run, id)
  BY <1>1, NothingFree DEF CallsFree, CallFree
<1>4. CallsFree(d, id)' BY <1>1, ReturnFree DEF Hydrated
<1>5. /\ run \in MaybeRun(time) /\ Or(browser, row.run) \in MaybeRun(time)
      /\ No(run, id) /\ No(Or(browser, row.run), id)
  BY <1>2, <1>3 DEF Or
<1>6. /\ v \in KnownTabs(time) /\ g \in KnownTabs(time)
      /\ OtherRun(row.run, browser) => [v EXCEPT !.conflict = dispute] \in KnownTabs(time)
  <2>1. OtherRun(row.run, browser) => dispute \in KnownConflicts(time)
    BY <1>2 DEF OtherRun, MaybeRun, KnownConflicts
  <2> HIDE DEF run, dispute
  <2> QED BY <1>2, <1>5, <2>1, SettledTyped
<1>7. /\ v.run = run /\ v.remote = row /\ v.conflict = t.conflict /\ v.chain = t.chain
      /\ g.run = Or(browser, row.run) /\ g.remote = row /\ g.conflict = None /\ g.chain = t.chain
      /\ cut.run = browser /\ cut.remote = t.remote /\ cut.conflict = t.conflict /\ cut.chain = t.chain
      /\ cutOff.run = browser /\ cutOff.remote = NoRow /\ cutOff.conflict = None /\ cutOff.chain = t.chain
  BY <1>2 DEF Settled, Unlinked, KnownTabs
<1>8. dispute.browserRun = browser /\ dispute.accountRun = row.run OBVIOUS
<1> DEFINE w == [v EXCEPT !.conflict = dispute]
<1> HIDE DEF run, v, g, dispute, cut, cutOff
<1>9. w.run = run /\ w.remote = row /\ w.conflict = dispute /\ w.chain = t.chain
  BY <1>6, <1>7 DEF KnownTabs
<1> HIDE DEF w
<1>10. TabFree(v, id) /\ TabFree(g, id) /\ TabFree(w, id) /\ TabFree(cut, id) /\ TabFree(cutOff, id)
  BY <1>1, <1>3, <1>5, <1>7, <1>8, <1>9 DEF TabFree, ConflictFree
<1>11. ASSUME NEW u, SetTab(d, u), TabFree(u, id),
              \/ UNCHANGED local
              \/ SetLocal(d, run)
              \/ SetLocal(d, Or(browser, row.run))
       PROVE  PageFree(d, id)'
  <2>1. No(local'[d], id) BY <1>1, <1>5, <1>11, SetLocalFacts
  <2> QED BY <1>4, <1>11, <2>1, BecomesFree
<1>12. CASE calls[d][m].answer.status = "fail"
  <2>1. (SetTab(d, cut) \/ SetTab(d, cutOff)) /\ UNCHANGED local
    BY <1>12 DEF Hydrated, cut, cutOff
  <2> QED BY <1>1, <1>10, <1>11, <2>1
<1>13. CASE calls[d][m].answer.status # "fail" /\ session[d] /\ OtherRun(row.run, browser)
  <2>1. SetTab(d, w) /\ UNCHANGED local
    BY <1>13 DEF Hydrated, AccountHydrated, w, v, run, dispute
  <2> QED BY <1>1, <1>10, <1>11, <2>1
<1>14. CASE calls[d][m].answer.status # "fail" /\ session[d] /\ ~OtherRun(row.run, browser)
  <2> DEFINE cond == browser # None /\ (row.run = None \/ Newer(browser, row.run))
  <2>1. SetLocal(d, run) /\ SetTab(d, QueueSaveIf(cond, v, browser))
    BY <1>14 DEF Hydrated, AccountHydrated, v, run
  <2> HIDE DEF cond
  <2>2. TabFree(QueueSaveIf(cond, v, browser), id) BY <1>2, <1>3, <1>6, <1>10, QueuedFree
  <2> QED BY <1>1, <1>11, <2>1, <2>2
<1>15. CASE calls[d][m].answer.status # "fail" /\ ~session[d]
  <2> DEFINE cond == browser # None /\ ~SameRun(row.run, browser)
  <2>1. SetLocal(d, Or(browser, row.run)) /\ SetTab(d, QueueSaveIf(cond, g, browser))
    BY <1>15 DEF Hydrated, GuestHydrated, g
  <2> HIDE DEF cond
  <2>2. TabFree(QueueSaveIf(cond, g, browser), id) BY <1>2, <1>3, <1>6, <1>10, QueuedFree
  <2> QED BY <1>1, <1>11, <2>1, <2>2
<1> QED BY <1>1, <1>12, <1>13, <1>14, <1>15

LEMMA KeepAccountRunFree ==
  ASSUME Typed, NEW d \in Devices, NEW id, PageFree(d, id), KeepAccountRun(d)
  PROVE  PageFree(d, id)' /\ UNCHANGED <<rows, late>>
<1> DEFINE t == tabs[d]
           u == [t EXCEPT !.run = t.conflict.accountRun, !.conflict = None, !.error = FALSE]
<1>1. /\ TabFree(t, id) /\ CallsFree(d, id) /\ t.conflict # None
      /\ SetLocal(d, t.conflict.accountRun) /\ SetTab(d, u) /\ UNCHANGED <<rows, late, calls>>
  BY DEF KeepAccountRun, PageFree
<1>2. u.run = t.conflict.accountRun /\ u.remote = t.remote /\ u.conflict = None /\ u.chain = t.chain
  BY PageTyped DEF KnownTabs
<1> HIDE DEF u
<1>3. TabFree(u, id) /\ No(t.conflict.accountRun, id) BY <1>1, <1>2 DEF TabFree, ConflictFree
<1>4. No(local'[d], id) BY <1>1, <1>3, SetLocalFacts
<1>5. CallsFree(d, id)' BY <1>1 DEF CallsFree
<1> QED BY <1>1, <1>3, <1>4, <1>5, BecomesFree

LEMMA AdoptBrowserRunFree ==
  ASSUME Typed, NEW d \in Devices, NEW id, PageFree(d, id), AdoptBrowserRun(d)
  PROVE  PageFree(d, id)' /\ UNCHANGED <<rows, late>>
<1> DEFINE t == tabs[d] u == [t EXCEPT !.syncing = TRUE]
<1>1. /\ TabFree(t, id) /\ CallsFree(d, id) /\ t.conflict # None /\ "choice" \in Procs
      /\ SetTab(d, u) /\ UNCHANGED <<rows, late, local>> /\ No(local[d], id)
      /\ Send(d, "choice", "dropAccount", t.conflict.browserRun, t.remote, "delete")
  BY Distinct DEF AdoptBrowserRun, PageFree
<1>2. u.run = t.run /\ u.remote = t.remote /\ u.conflict = t.conflict /\ u.chain = t.chain
  BY PageTyped DEF KnownTabs
<1> HIDE DEF u
<1>3. TabFree(u, id) /\ No(t.conflict.browserRun, id) /\ No(t.remote.run, id)
  BY <1>1, <1>2 DEF TabFree, ConflictFree
<1>4. CallsFree(d, id)' BY <1>1, <1>3, SendFree
<1> QED BY <1>1, <1>3, <1>4, BecomesFree

LEMMA BrowserRunAnsweredFree ==
  ASSUME Typed, NEW d \in Devices, NEW id, PageFree(d, id), BrowserRunAnswered(d)
  PROVE  PageFree(d, id)' /\ UNCHANGED <<rows, late>>
<1> DEFINE c == calls[d]["choice"] a == c.answer t == tabs[d]
           u == [t EXCEPT !.run = c.run, !.conflict = None, !.remote = a.row,
                          !.syncing = FALSE, !.error = FALSE]
<1>1. /\ TabFree(t, id) /\ CallsFree(d, id) /\ a # None /\ "choice" \in Procs
      /\ UNCHANGED <<rows, late>> /\ No(local[d], id)
  BY Distinct DEF BrowserRunAnswered, PageFree
<1>2. /\ u.run = c.run /\ u.remote = a.row /\ u.conflict = None /\ u.chain = t.chain
      /\ Waiting(t).run = t.run /\ Waiting(t).remote = t.remote
      /\ Waiting(t).conflict = t.conflict /\ Waiting(t).chain = t.chain
  BY PageTyped DEF KnownTabs, Waiting
<1>3. No(c.run, id) /\ No(a.row.run, id) /\ No(NoRow.run, id)
  BY <1>1, NothingFree DEF CallsFree, CallFree
<1>4. TabFree(u, id) /\ TabFree(Waiting(t), id)
  <2> HIDE DEF u
  <2> QED BY <1>1, <1>2, <1>3 DEF TabFree, ConflictFree
<1>5. \/ /\ \E at \in {"saveBrowser", "saveBrowserWar"} : SendPut(d, "choice", at, c.run, NoRow)
         /\ UNCHANGED <<tabs, local>>
      \/ SetLocal(d, c.run) /\ SetTab(d, u) /\ Return(d, "choice")
      \/ SetTab(d, Waiting(t)) /\ Return(d, "choice") /\ UNCHANGED local
  BY DEF BrowserRunAnswered
<1> HIDE DEF u
<1>6. CallsFree(d, id)' BY <1>1, <1>3, <1>5, SendPutFree, ReturnFree
<1>7. No(local'[d], id) BY <1>1, <1>3, <1>5, SetLocalFacts
<1>8. CASE UNCHANGED <<tabs, local>> BY <1>1, <1>6, <1>8 DEF PageFree
<1>9. CASE SetTab(d, u) \/ SetTab(d, Waiting(t)) BY <1>1, <1>4, <1>6, <1>7, <1>9, BecomesFree
<1> QED BY <1>5, <1>8, <1>9

\* A mutation, or a Run with another id; t is the page, but for whether it is starting.
LEMMA ReplaceFree ==
  ASSUME Typed, NEW d \in Devices, NEW t \in KnownTabs(time), NEW other \in 0..(time + 1), NEW id,
         PageFree(d, id), TabFree(t, id), other # id, Replace(d, t, other)
  PROVE  PageFree(d, id)' /\ UNCHANGED <<rows, late>>
<1> DEFINE run == [id |-> other, at |-> time + 1] u == [t EXCEPT !.run = run, !.error = FALSE]
<1>1. /\ SetLocal(d, run) /\ SetTab(d, Replaced(t, run)) /\ UNCHANGED <<rows, late, calls>>
      /\ CallsFree(d, id) /\ time \in Nat
  BY PageTyped DEF Replace, PageFree
<1>2. run \in MaybeRun(time + 1) /\ No(run, id)
  BY <1>1 DEF MaybeRun, KnownRuns, Runs, No
<1>3. t \in KnownTabs(time + 1)
  <2>1. time + 1 \in Nat /\ time <= time + 1 BY <1>1
  <2> QED BY <1>1, <2>1, Grow
<1>4. u \in KnownTabs(time + 1) BY <1>2, <1>3 DEF KnownTabs
<1>5. u.run = run /\ u.remote = t.remote /\ u.conflict = t.conflict /\ u.chain = t.chain
  BY DEF KnownTabs
<1>6. Replaced(t, run) = QueueSave(u, run) BY DEF Replaced
<1> HIDE DEF u, run
<1>7. TabFree(u, id) BY <1>2, <1>5 DEF TabFree, ConflictFree
<1>8. TabFree(Replaced(t, run), id) BY <1>2, <1>4, <1>6, <1>7, QueuedFree
<1>9. No(local'[d], id) BY <1>1, <1>2, SetLocalFacts
<1>10. CallsFree(d, id)' BY <1>1 DEF CallsFree
<1> QED BY <1>1, <1>8, <1>9, <1>10, BecomesFree

LEMMA AbandonRunFree ==
  ASSUME Typed, NEW d \in Devices, NEW t \in KnownTabs(time), NEW id,
         PageFree(d, id), TabFree(t, id), AbandonRun(d, t)
  PROVE  PageFree(d, id)' /\ UNCHANGED <<rows, late>>
<1> DEFINE job == [do |-> "delete", run |-> [id |-> t.run.id, at |-> time]] u == Abandoned(t)
<1>1. /\ SetLocal(d, None) /\ SetTab(d, u) /\ UNCHANGED <<rows, late, calls>> /\ t.run # None
      /\ CallsFree(d, id) /\ t.run \in KnownRuns(time) /\ time \in Nat
  BY PageTyped DEF AbandonRun, PageFree, KnownTabs, MaybeRun
<1>2. No(job.run, id) BY <1>1 DEF TabFree, No
<1>3. job \in KnownJobs(time) /\ t.chain \in Seq(KnownJobs(time))
  BY <1>1 DEF KnownJobs, MaybeRun, KnownRuns, Runs, KnownTabs
<1>4. /\ u.run = None /\ u.conflict = None /\ u.remote = t.remote
      /\ u.chain = IF t.remoteOwner = "none" THEN t.chain ELSE Append(t.chain, job)
  BY DEF Abandoned, KnownTabs
<1> HIDE DEF u, job
<1>5. ChainFree(t.chain, id) /\ No(t.remote.run, id) BY DEF TabFree
<1>6. ChainFree(u.chain, id) BY <1>2, <1>3, <1>4, <1>5, ChainsFree
<1>7. TabFree(u, id) /\ No(None, id) BY <1>4, <1>5, <1>6, NothingFree DEF TabFree, ConflictFree
<1>8. No(local'[d], id) BY <1>1, <1>7, SetLocalFacts
<1>9. CallsFree(d, id)' BY <1>1 DEF CallsFree
<1> QED BY <1>1, <1>7, <1>8, <1>9, BecomesFree

LEMMA LeaveFree ==
  ASSUME Typed, NEW d \in Devices, NEW id, ServerFree(id), PageFree(d, id), Leave(d)
  PROVE  ServerFree(id)' /\ PageFree(d, id)'
<1>1. /\ SetTab(d, FreshTab(local[d])) /\ UNCHANGED <<rows, local>> /\ No(local[d], id)
      /\ calls' = [calls EXCEPT ![d] = [p \in Procs |-> Idle]] /\ CallsFree(d, id)
      /\ \A q \in late' : q \in late \/ q \in Outstanding(d)
  BY DEF Leave, PageFree
<1>2. \A q \in Outstanding(d) : RequestFree(q, id) BY <1>1 DEF Outstanding, CallsFree, CallFree
<1>3. ServerFree(id)' BY <1>1, <1>2 DEF ServerFree, RowsFree
<1>4. \A p \in Procs : calls'[d][p] = Idle BY <1>1 DEF Typed
<1>5. CallsFree(d, id)' BY <1>4, NothingFree DEF CallsFree
<1>6. TabFree(FreshTab(local[d]), id) BY <1>1, NothingFree
<1> QED BY <1>1, <1>3, <1>5, <1>6, BecomesFree

LEMMA ServeFree ==
  ASSUME Typed, NEW d \in Devices, NEW p \in Procs, NEW id, ServerFree(id), CallsFree(d, id),
         Serve(d, p) \/ Lose(d, p)
  PROVE  ServerFree(id)' /\ CallsFree(d, id)' /\ UNCHANGED <<tabs, local>>
<1> DEFINE c == calls[d][p] q == c.sent
<1>1. /\ UNCHANGED <<tabs, local, late>> /\ RowsFree(id) /\ CallFree(c, id)
      /\ \A r \in late : RequestFree(r, id)
  BY DEF Serve, Lose, ServerFree, CallsFree
<1>2. ASSUME NEW a, OthersWait(d, p), calls'[d][p] = [c EXCEPT !.sent = None, !.answer = a],
             No(a.row.run, id)
      PROVE  CallsFree(d, id)'
  <2> DEFINE new == [c EXCEPT !.sent = None, !.answer = a]
  <2>1. new.run = c.run /\ new.remote = c.remote /\ new.sent = None /\ new.answer = a
    BY PageTyped DEF KnownCalls
  <2>2. calls'[d][p] = new BY <1>2
  <2> HIDE DEF new
  <2>3. CallFree(new, id) BY <1>1, <1>2, <2>1 DEF CallFree
  <2>4. \A o \in Procs : calls'[d][o] \in {calls[d][o], new} BY <1>2, <2>2 DEF OthersWait
  <2> QED BY <2>3, <2>4 DEF CallsFree
<1>3. CASE Serve(d, p)
  <2>1. q # None /\ q \in KnownRequests(time) /\ RequestFree(q, id)
    BY <1>1, <1>3, PageTyped DEF Serve, CallFree
  <2> DEFINE a == Result(q).answer
  <2>2. (\A o \in Owners : No(Result(q).rows[o].run, id)) /\ No(a.row.run, id)
    BY <1>1, <2>1, ResultFree
  <2>3. OthersWait(d, p) /\ calls'[d][p] = [c EXCEPT !.sent = None, !.answer = a]
    BY <1>3, ServeTyped
  <2>4. rows' = Result(q).rows BY <1>3 DEF Serve
  <2> HIDE DEF q, a
  <2>5. CallsFree(d, id)' BY <1>2, <2>2, <2>3
  <2>6. RowsFree(id)' BY <2>2, <2>4 DEF RowsFree
  <2> QED BY <1>1, <2>5, <2>6 DEF ServerFree
<1>4. CASE Lose(d, p)
  <2>1. OthersWait(d, p) /\ calls'[d][p] = [c EXCEPT !.sent = None, !.answer = Failure]
    BY <1>4, LoseTyped
  <2>2. No(Failure.row.run, id) BY NothingFree DEF Failure, Answer
  <2>3. CallsFree(d, id)' BY <1>2, <2>1, <2>2
  <2>4. rows' = rows BY <1>4 DEF Lose
  <2> QED BY <1>1, <2>3, <2>4 DEF ServerFree, RowsFree
<1> QED BY <1>3, <1>4

LEMMA ServeLateFree ==
  ASSUME Typed, NEW q \in late, NEW id, ServerFree(id), ServeLate(q)
  PROVE  ServerFree(id)'
<1>1. q \in KnownRequests(time) /\ RequestFree(q, id) /\ RowsFree(id) BY DEF Typed, ServerFree
<1>2. \A o \in Owners : No(Result(q).rows[o].run, id) BY <1>1, ResultFree
<1>3. rows' = Result(q).rows /\ late' \subseteq late BY DEF ServeLate
<1>4. RowsFree(id)' BY <1>2, <1>3 DEF RowsFree
<1> QED BY <1>3, <1>4 DEF ServerFree

\* A page that does not hold a Run comes by it only from the rows, unless it starts it now.
LEMMA ActsFree ==
  ASSUME Typed, NEW d \in Devices, Working(d), NEW id, id # time + 1,
         ServerFree(id), PageFree(d, id), Acts(d)
  PROVE  ServerFree(id)' /\ PageFree(d, id)'
<1>1. /\ tabs[d] \in KnownTabs(time) /\ tabs[d].chain \in Seq(KnownJobs(time)) /\ time \in Nat
      /\ tabs[d].run \in MaybeRun(time)
      /\ No(local[d], id) /\ TabFree(tabs[d], id) /\ CallsFree(d, id)
  BY PageTyped DEF PageFree
<1>2. ASSUME UNCHANGED <<rows, late>> PROVE ServerFree(id)' BY <1>2 DEF ServerFree, RowsFree
<1>3. ASSUME UNCHANGED local, CallsFree(d, id)',
             NEW t, SetTab(d, t), t.run = tabs[d].run, No(t.remote.run, id), ConflictFree(t, id),
             t.chain = tabs[d].chain \/ (tabs[d].chain # <<>> /\ t.chain = Tail(tabs[d].chain))
      PROVE  PageFree(d, id)'
  <2>1. ChainFree(t.chain, id) BY <1>1, <1>3, ChainsFree DEF TabFree
  <2>2. TabFree(t, id) BY <1>1, <1>3, <2>1 DEF TabFree
  <2>3. No(local'[d], id) BY <1>1, <1>3
  <2> QED BY <1>3, <2>2, <2>3, BecomesFree
<1>4. CASE NextJob(d)
  <2>1. No(tabs[d].remote.run, id) /\ No(Head(tabs[d].chain).run, id)
    BY <1>1, <1>4, ChainsFree DEF TabFree, NextJob, ReadyJob
  <2>2. CallsFree(d, id)' /\ UNCHANGED <<rows, local, late>> BY <1>1, <1>4, <2>1, NextJobFree
  <2>3. PICK t : /\ SetTab(d, t) /\ t.run = tabs[d].run /\ t.remote = tabs[d].remote
                 /\ t.conflict = tabs[d].conflict
                 /\ t.chain = tabs[d].chain \/ (tabs[d].chain # <<>> /\ t.chain = Tail(tabs[d].chain))
    BY <1>1, <1>4, <2>1, NextJobFree
  <2>4. ConflictFree(t, id) BY <1>1, <2>3 DEF TabFree, ConflictFree
  <2> QED BY <1>2, <1>3, <2>1, <2>2, <2>3, <2>4
<1>5. CASE JobAnswered(d)
  <2>1. No(tabs[d].remote.run, id) /\ No(tabs[d].run, id) /\ ConflictFree(tabs[d], id) BY <1>1 DEF TabFree
  <2>2. CallsFree(d, id)' /\ UNCHANGED <<rows, local, late>> BY <1>1, <1>5, <2>1, JobAnsweredFree
  <2>3. PICK t : /\ SetTab(d, t) /\ t.run = tabs[d].run /\ No(t.remote.run, id)
                 /\ No(t.run, id) /\ ConflictFree(tabs[d], id) => ConflictFree(t, id)
                 /\ t.chain = tabs[d].chain \/ (tabs[d].chain # <<>> /\ t.chain = Tail(tabs[d].chain))
    BY <1>1, <1>5, <2>1, JobAnsweredFree
  <2> QED BY <1>2, <1>3, <2>1, <2>2, <2>3
<1>6. CASE \E m \in Mounts : Hydrate(d, m) \/ GuestAdopted(d, m) \/ Hydrated(d, m)
  BY <1>2, <1>6, HydrateFree, GuestAdoptedFree, HydratedFree
<1>7. CASE KeepAccountRun(d) BY <1>2, <1>7, KeepAccountRunFree
<1>8. CASE AdoptBrowserRun(d) BY <1>2, <1>8, AdoptBrowserRunFree
<1>9. CASE BrowserRunAnswered(d) BY <1>2, <1>9, BrowserRunAnsweredFree
<1>10. CASE Play(d)
  <2>1. tabs[d].run.id \in 0..(time + 1) /\ tabs[d].run.id # id
    BY <1>1, <1>10 DEF Play, MaybeRun, KnownRuns, Runs, TabFree, No
  <2> QED BY <1>1, <1>2, <1>10, <2>1, ReplaceFree DEF Play
<1> DEFINE anew(b) == [tabs[d] EXCEPT !.starting = b]
<1>11. \A b \in BOOLEAN :
         /\ anew(b) \in KnownTabs(time)
         /\ anew(b).run = tabs[d].run /\ anew(b).remote = tabs[d].remote
         /\ anew(b).conflict = tabs[d].conflict /\ anew(b).chain = tabs[d].chain
  BY <1>1 DEF KnownTabs
<1>12. Start(d) => Replace(d, anew(FALSE), time + 1) BY DEF Start
<1>13. StartOver(d) => AbandonRun(d, anew(TRUE)) BY DEF StartOver
<1> HIDE DEF anew
<1>14. \A b \in BOOLEAN : TabFree(anew(b), id) BY <1>1, <1>11 DEF TabFree, ConflictFree
<1>15. CASE Start(d)
  <2>1. time + 1 \in 0..(time + 1) BY <1>1
  <2> QED BY <1>2, <1>11, <1>12, <1>14, <1>15, <2>1, ReplaceFree
<1>16. CASE StartOver(d) BY <1>2, <1>11, <1>13, <1>14, <1>16, AbandonRunFree
<1>17. CASE Abandon(d) BY <1>1, <1>2, <1>17, AbandonRunFree DEF Abandon
<1>18. CASE Reload(d) \/ Sign(d) BY <1>18, LeaveFree DEF Reload, Sign
<1>19. CASE \E p \in Procs : Serve(d, p) \/ Lose(d, p)
  <2>1. ServerFree(id)' /\ CallsFree(d, id)' /\ UNCHANGED <<tabs, local>> BY <1>1, <1>19, ServeFree
  <2> QED BY <1>1, <2>1 DEF PageFree
<1> QED
  BY <1>4, <1>5, <1>6, <1>7, <1>8, <1>9, <1>10, <1>15, <1>16, <1>17, <1>18, <1>19 DEF Acts

----------------------------------------------------------------------------
(* What an abandoned Run's DELETE can meet *)

\* Nobody has been told of the Run but the page that shows it.
Unsent(d, id) ==
  /\ ServerFree(id) /\ \A e \in Devices \ {d} : PageFree(e, id)
  /\ No(tabs[d].remote.run, id) /\ CallsFree(d, id)

\* Behind a DELETE that was decided before the page's Run was started, the Run is still unsent,
\* and no job up to the DELETE writes it.
Spared(d) ==
  \A id \in Nat : \A i \in 1..Len(tabs[d].chain) :
    LET s == tabs[d].chain IN
    /\ tabs[d].run # None /\ tabs[d].run.id = id
    /\ s[i].do = "delete" /\ ~(id <= s[i].run.at)
    => Unsent(d, id) /\ \A j \in 1..i : No(s[j].run, id)

\* Only the chain sends a DELETE of its own.
Home(d) == \A p \in Procs : calls[d][p].at = "delete" => p = "chain"

LEMMA IdKnown ==
  ASSUME Typed, NEW d \in Devices, tabs[d].run # None
  PROVE  tabs[d].run.id \in Nat /\ tabs[d].run.id # time + 1
<1>1. tabs[d].run \in KnownRuns(time) /\ time \in Nat BY PageTyped DEF MaybeRun
<1> QED BY <1>1 DEF KnownRuns, Runs

\* No Run has the id of the next one.
LEMMA FreshFree ==
  ASSUME Typed
  PROVE  ServerFree(time + 1) /\ \A e \in Devices : PageFree(e, time + 1)
<1> DEFINE id == time + 1
<1>1. time \in Nat BY DEF Typed
<1>2. \A r \in MaybeRun(time) : No(r, id) BY <1>1 DEF MaybeRun, KnownRuns, Runs, No
<1> HIDE DEF id
<1>3. RowsFree(id) BY <1>2 DEF RowsFree, Typed, KnownRows
<1>4. \A q \in KnownRequests(time) : RequestFree(q, id)
  BY <1>2 DEF KnownRequests, KnownRows, RequestFree
<1>5. ServerFree(id) BY <1>3, <1>4 DEF ServerFree, Typed
<1>6. ASSUME NEW e \in Devices PROVE PageFree(e, id)
  <2>1. /\ local[e] \in MaybeRun(time) /\ tabs[e].run \in MaybeRun(time)
        /\ tabs[e].remote.run \in MaybeRun(time)
        /\ tabs[e].conflict \in KnownConflicts(time) \cup {None}
        /\ tabs[e].chain \in Seq(KnownJobs(time))
    BY PageTyped
  <2>2. \A job \in KnownJobs(time) : No(job.run, id) BY <1>2 DEF KnownJobs
  <2>3. \A i \in 1..Len(tabs[e].chain) : tabs[e].chain[i] \in KnownJobs(time) BY <2>1
  <2>4. ChainFree(tabs[e].chain, id) BY <2>2, <2>3 DEF ChainFree
  <2>5. ConflictFree(tabs[e], id) BY <1>2, <2>1 DEF ConflictFree, KnownConflicts, MaybeRun
  <2>6. ASSUME NEW p \in Procs PROVE CallFree(calls[e][p], id)
    <3>1. /\ calls[e][p].run \in MaybeRun(time) /\ calls[e][p].remote \in KnownRows(time)
          /\ calls[e][p].sent \in KnownRequests(time) \cup {None}
          /\ calls[e][p].answer # None => calls[e][p].answer.row.run \in MaybeRun(time)
      BY PageTyped
    <3>2. calls[e][p].remote.run \in MaybeRun(time) BY <3>1 DEF KnownRows
    <3> QED BY <1>2, <1>4, <3>1, <3>2 DEF CallFree
  <2> QED BY <1>2, <2>1, <2>4, <2>5, <2>6 DEF PageFree, TabFree, CallsFree
<1> QED BY <1>5, <1>6 DEF id

LEMMA SparedIdle ==
  ASSUME NEW d \in Devices, NEW t, tabs'[d] = t, t.run = None \/ ~Deletes(t.chain)
  PROVE  Spared(d)'
BY DEF Spared, Deletes

\* The page goes on with its chain: nothing else is told of its Run.
LEMMA SparedOn ==
  ASSUME Typed, NEW d \in Devices, Elsewhere(d), Spared(d), UNCHANGED <<rows, late>>,
         NEW t, tabs'[d] = t, t.run = tabs[d].run,
         t.chain = tabs[d].chain \/ (tabs[d].chain # <<>> /\ t.chain = Tail(tabs[d].chain)),
         \A id : Unsent(d, id) /\ No(Head(tabs[d].chain).run, id)
                   => CallsFree(d, id)' /\ No(t.remote.run, id)
  PROVE  Spared(d)'
<1> DEFINE s == tabs[d].chain
<1>1. SUFFICES ASSUME NEW id \in Nat, NEW i \in 1..Len(t.chain), t.run # None, t.run.id = id,
                      t.chain[i].do = "delete", ~(id <= t.chain[i].run.at)
               PROVE  Unsent(d, id)' /\ \A j \in 1..i : No(t.chain[j].run, id)
  BY DEF Spared
<1>2. s \in Seq(KnownJobs(time)) BY PageTyped
<1>3. PICK k \in {0, 1} : /\ i + k \in 1..Len(s)
                          /\ \A j \in 1..i : t.chain[j] = s[j + k] /\ j + k \in 1..(i + k)
                          /\ Head(s) = s[1] /\ 1 \in 1..(i + k)
  <2>1. CASE t.chain = s
    <3>1. s # <<>> BY <2>1
    <3>2. Head(s) = s[1] /\ Len(s) \in Nat BY <1>2, <3>1
    <3>3. i + 0 \in 1..Len(s) /\ \A j \in 1..i : t.chain[j] = s[j + 0] /\ j + 0 \in 1..(i + 0)
      BY <2>1, <3>2
    <3>4. 1 \in 1..(i + 0) BY <2>1, <3>2
    <3> QED BY <3>2, <3>3, <3>4
  <2>2. CASE s # <<>> /\ t.chain = Tail(s)
    <3>1. /\ Head(s) = s[1] /\ Len(s) \in Nat /\ Len(t.chain) = Len(s) - 1
          /\ \A j \in 1..Len(t.chain) : t.chain[j] = s[j + 1]
      BY <1>2, <2>2
    <3>2. i + 1 \in 1..Len(s) /\ \A j \in 1..i : t.chain[j] = s[j + 1] /\ j + 1 \in 1..(i + 1)
      BY <3>1
    <3>3. 1 \in 1..(i + 1) OBVIOUS
    <3> QED BY <3>1, <3>2, <3>3
  <2> QED BY <2>1, <2>2
<1>4. i \in 1..i BY <1>2
<1>5. s[i + k].do = "delete" /\ ~(id <= s[i + k].run.at) BY <1>1, <1>3, <1>4
<1>6. Unsent(d, id) /\ \A j \in 1..(i + k) : No(s[j].run, id) BY <1>1, <1>3, <1>5 DEF Spared
<1>7. CallsFree(d, id)' /\ No(t.remote.run, id) BY <1>3, <1>6
<1>8. ServerFree(id)' BY <1>6 DEF Unsent, ServerFree, RowsFree
<1>9. \A e \in Devices \ {d} : PageFree(e, id)'
  <2> SUFFICES ASSUME NEW e \in Devices \ {d} PROVE PageFree(e, id)' OBVIOUS
  <2>1. tabs'[e] = tabs[e] /\ calls'[e] = calls[e] /\ local'[e] = local[e] BY DEF Elsewhere
  <2>2. PageFree(e, id) BY <1>6 DEF Unsent
  <2> QED BY <2>1, <2>2 DEF PageFree, CallsFree
<1>10. Unsent(d, id)' BY <1>7, <1>8, <1>9 DEF Unsent
<1>11. \A j \in 1..i : No(t.chain[j].run, id) BY <1>3, <1>6
<1> QED BY <1>10, <1>11

\* A request is served, or lost.
LEMMA SparedServed ==
  ASSUME Typed, NEW d \in Devices, NEW p \in Procs, Elsewhere(d), Spared(d),
         Serve(d, p) \/ Lose(d, p)
  PROVE  Spared(d)'
<1>1. UNCHANGED tabs BY DEF Serve, Lose
<1>2. ASSUME NEW id \in Nat, Unsent(d, id) PROVE Unsent(d, id)'
  <2>1. ServerFree(id) /\ CallsFree(d, id) BY <1>2 DEF Unsent
  <2>2. ServerFree(id)' /\ CallsFree(d, id)' BY <2>1, ServeFree
  <2>3. \A e \in Devices \ {d} : PageFree(e, id)' BY <1>2 DEF Unsent, Elsewhere, PageFree, CallsFree
  <2> QED BY <1>1, <1>2, <2>2, <2>3 DEF Unsent
<1> QED BY <1>1, <1>2 DEF Spared

\* The page changes its Run, or starts one: an old DELETE is still before it.
LEMMA SparedReplaced ==
  ASSUME Typed, NEW d \in Devices, Elsewhere(d), Spared(d), NEW other \in 0..(time + 1),
         NEW t \in KnownTabs(time), t.chain = tabs[d].chain, t.remote = tabs[d].remote,
         Replace(d, t, other),
         other = time + 1 \/ (tabs[d].run # None /\ other = tabs[d].run.id)
  PROVE  Spared(d)'
<1> DEFINE run == [id |-> other, at |-> time + 1] u == Replaced(t, run) s == tabs[d].chain
           job == [do |-> "save", run |-> run]
<1>1. /\ SetTab(d, u) /\ UNCHANGED <<rows, calls, late>> /\ time \in Nat /\ s \in Seq(KnownJobs(time))
      /\ run.id = other /\ job.do = "save"
  BY PageTyped DEF Replace
<1>2. u.run = run /\ u.chain = Append(s, job) /\ u.remote = tabs[d].remote
  BY DEF Replaced, QueueSave, KnownTabs
<1> HIDE DEF u, run, job
<1>3. tabs'[d] = u BY <1>1, SetTabFacts
<1>4. Len(s) \in Nat /\ Len(u.chain) = Len(s) + 1 /\ u.chain[Len(s) + 1] = job
      /\ \A i \in 1..Len(s) : u.chain[i] = s[i]
  BY <1>1, <1>2
<1>5. ASSUME NEW i \in 1..Len(u.chain), u.chain[i].do = "delete", ~(other <= u.chain[i].run.at)
      PROVE  Unsent(d, other)' /\ \A j \in 1..i : No(u.chain[j].run, other)
  <2>1. i \in 1..Len(s) /\ s[i].do = "delete" /\ ~(other <= s[i].run.at)
        /\ \A j \in 1..i : j \in 1..Len(s) /\ u.chain[j] = s[j]
    BY <1>1, <1>4, <1>5
  <2>2. Unsent(d, other) /\ \A j \in 1..i : No(s[j].run, other)
    <3>1. CASE other = time + 1
      <4>1. ServerFree(other) /\ \A e \in Devices : PageFree(e, other) BY <3>1, FreshFree
      <4>2. Unsent(d, other) BY <4>1 DEF Unsent, PageFree, TabFree
      <4>3. \A j \in 1..Len(s) : No(s[j].run, other) BY <4>1 DEF PageFree, TabFree, ChainFree
      <4> QED BY <2>1, <4>2, <4>3
    <3>2. CASE tabs[d].run # None /\ other = tabs[d].run.id
      <4>1. other \in Nat BY <1>1
      <4> QED BY <2>1, <3>2, <4>1 DEF Spared
    <3> QED BY <3>1, <3>2
  <2>3. ServerFree(other)' /\ CallsFree(d, other)'
    BY <1>1, <2>2 DEF Unsent, ServerFree, RowsFree, CallsFree
  <2>4. \A e \in Devices \ {d} : PageFree(e, other)'
    BY <2>2 DEF Unsent, Elsewhere, PageFree, CallsFree
  <2>5. No(tabs'[d].remote.run, other) BY <1>2, <1>3, <2>2 DEF Unsent
  <2>6. Unsent(d, other)' BY <2>3, <2>4, <2>5 DEF Unsent
  <2> QED BY <2>1, <2>2, <2>6
<1>6. \A id \in Nat : \A i \in 1..Len(u.chain) :
        /\ u.run # None /\ u.run.id = id
        /\ u.chain[i].do = "delete" /\ ~(id <= u.chain[i].run.at)
        => Unsent(d, id)' /\ \A j \in 1..i : No(u.chain[j].run, id)
  BY <1>1, <1>2, <1>5
<1> QED BY <1>3, <1>6 DEF Spared

\* A page that is left has no jobs.
LEMMA SparedLeft ==
  ASSUME Typed, NEW d \in Devices, Leave(d)
  PROVE  Spared(d)'
<1> DEFINE u == FreshTab(local[d])
<1>1. u.chain = <<>> BY DEF FreshTab
<1> HIDE DEF u
<1>2. SetTab(d, u) BY DEF Leave, u
<1>3. tabs'[d].chain = <<>> BY <1>1, <1>2, SetTabFacts
<1> QED BY <1>3, EmptyJobs, SparedIdle

\* What a page itself does.
LEMMA SparedActs ==
  ASSUME Typed, NEW d \in Devices, Working(d), Open(d), Joined(d), Elsewhere(d), Spared(d), Acts(d)
  PROVE  Spared(d)'
<1> DEFINE t == tabs[d]
<1>1. /\ t \in KnownTabs(time) /\ t.chain \in Seq(KnownJobs(time)) /\ time \in Nat
      /\ CallsFree(d, time + 1) /\ TabFree(t, time + 1)
  BY PageTyped, FreshFree DEF PageFree
<1>2. /\ ConflictStands(t, calls[d]["chain"]) /\ ChoiceStands(t, calls[d]["choice"])
  BY DEF Joined, Joins
<1>3. CASE NextJob(d)
  <2>1. t.chain # <<>> /\ UNCHANGED <<rows, late>> BY <1>3 DEF NextJob, ReadyJob
  <2>2. No(Head(t.chain).run, time + 1) /\ No(t.remote.run, time + 1)
    BY <1>1, <2>1, ChainsFree DEF TabFree
  <2>3. PICK u : /\ SetTab(d, u) /\ u.run = t.run /\ u.remote = t.remote
                 /\ u.chain = t.chain \/ (t.chain # <<>> /\ u.chain = Tail(t.chain))
    BY <1>1, <1>3, <2>2, NextJobFree
  <2>4. tabs'[d] = u BY <2>3, SetTabFacts
  <2>5. ASSUME NEW id, Unsent(d, id), No(Head(t.chain).run, id)
        PROVE  CallsFree(d, id)' /\ No(u.remote.run, id)
    <3>1. CallsFree(d, id) /\ No(t.remote.run, id) BY <2>5 DEF Unsent
    <3>2. CallsFree(d, id)' BY <1>3, <2>5, <3>1, NextJobFree
    <3> QED BY <2>3, <3>1, <3>2
  <2> QED BY <2>1, <2>3, <2>4, <2>5, SparedOn
<1>4. CASE JobAnswered(d)
  <2>1. UNCHANGED <<rows, late>> BY <1>4 DEF JobAnswered
  <2>2. No(t.remote.run, time + 1) BY <1>1 DEF TabFree
  <2>3. PICK u : /\ SetTab(d, u) /\ u.run = t.run
                 /\ u.chain = t.chain \/ (t.chain # <<>> /\ u.chain = Tail(t.chain))
    BY <1>1, <1>4, <2>2, JobAnsweredFree
  <2>4. tabs'[d] = u BY <2>3, SetTabFacts
  <2>5. ASSUME NEW id, Unsent(d, id), No(Head(t.chain).run, id)
        PROVE  CallsFree(d, id)' /\ No(u.remote.run, id)
    <3>1. CallsFree(d, id) /\ No(t.remote.run, id) BY <2>5 DEF Unsent
    <3>2. CallsFree(d, id)' BY <1>4, <3>1, JobAnsweredFree
    <3>3. PICK v : SetTab(d, v) /\ No(v.remote.run, id) BY <1>4, <3>1, JobAnsweredFree
    <3>4. v = u BY <2>4, <3>3, SetTabFacts
    <3> QED BY <3>2, <3>3, <3>4
  <2> QED BY <2>1, <2>3, <2>4, <2>5, SparedOn
<1>5. CASE \E m \in Mounts : Hydrate(d, m) \/ GuestAdopted(d, m) \/ Hydrated(d, m)
  <2>1. PICK m \in Mounts : Hydrate(d, m) \/ GuestAdopted(d, m) \/ Hydrated(d, m) BY <1>5
  <2>2. m \in Procs BY Distinct
  <2>3. ~t.hydrated
    <3>1. CASE Hydrate(d, m) BY <3>1 DEF Hydrate
    <3>2. CASE GuestAdopted(d, m) \/ Hydrated(d, m)
      <4>1. calls[d][m].at \in {"adoptGuest", "load"} BY <3>2 DEF GuestAdopted, Hydrated
      <4>2. calls[d][m] # Idle BY <4>1 DEF Idle
      <4> QED BY <4>2 DEF Open
    <3> QED BY <2>1, <3>1, <3>2
  <2>4. t.chain = <<>> /\ t.conflict = None BY <2>3 DEF Open
  <2>5. CASE Hydrate(d, m) \/ GuestAdopted(d, m)
    <3> DEFINE u == Settled(t, "guest", local[d], NoRow)
    <3>1. u.chain = t.chain BY <1>1 DEF Settled, KnownTabs
    <3> HIDE DEF u
    <3>2. tabs' = tabs \/ SetTab(d, u) BY <2>5 DEF Hydrate, GuestAdopted, u
    <3>3. tabs'[d].chain = <<>> BY <2>4, <3>1, <3>2, SetTabFacts
    <3> QED BY <3>3, EmptyJobs, SparedIdle
  <2>6. CASE Hydrated(d, m)
    <3>1. calls[d][m] # Idle BY <2>6 DEF Hydrated, Idle
    <3>2. calls[d][m].run = local[d] BY <2>3, <3>1 DEF Open
    <3> DEFINE job == [do |-> "save", run |-> local[d]]
    <3>3. tabs'[d].chain # <<>> => tabs'[d].chain = <<job>> BY <2>4, <2>6, <3>2, HydratedTab
    <3>4. ~Deletes(<<job>>) BY DEF Deletes
    <3> HIDE DEF job
    <3>5. ~Deletes(tabs'[d].chain) BY <3>3, <3>4, EmptyJobs
    <3> QED BY <3>5, SparedIdle
  <2> QED BY <2>1, <2>5, <2>6
<1>6. CASE KeepAccountRun(d) \/ AdoptBrowserRun(d)
  <2> DEFINE u == [t EXCEPT !.run = t.conflict.accountRun, !.conflict = None, !.error = FALSE]
             v == [t EXCEPT !.syncing = TRUE]
  <2>1. u.chain = t.chain /\ v.chain = t.chain BY <1>1 DEF KnownTabs
  <2> HIDE DEF u, v
  <2>2. t.conflict # None /\ (SetTab(d, u) \/ SetTab(d, v))
    BY <1>6 DEF KeepAccountRun, AdoptBrowserRun, u, v
  <2>3. ~Deletes(t.chain) BY <1>2, <2>2 DEF ConflictStands
  <2>4. ~Deletes(tabs'[d].chain) BY <2>1, <2>2, <2>3, SetTabFacts
  <2> QED BY <2>4, SparedIdle
<1>7. CASE BrowserRunAnswered(d)
  <2> DEFINE c == calls[d]["choice"]
             u == [t EXCEPT !.run = c.run, !.conflict = None, !.remote = c.answer.row,
                            !.syncing = FALSE, !.error = FALSE]
             v == Waiting(t)
  <2>1. u.chain = t.chain /\ v.chain = t.chain BY <1>1 DEF KnownTabs, Waiting
  <2> HIDE DEF u, v
  <2>2. c.answer # None /\ (tabs' = tabs \/ SetTab(d, u) \/ SetTab(d, v))
    BY <1>7 DEF BrowserRunAnswered, u, v
  <2>3. c # Idle BY <2>2 DEF Idle
  <2>4. t.chain = <<>> BY <1>2, <2>3 DEF ChoiceStands
  <2>5. tabs'[d].chain = <<>> BY <2>1, <2>2, <2>4, SetTabFacts
  <2> QED BY <2>5, EmptyJobs, SparedIdle
<1>8. CASE Play(d)
  <2>1. t.run # None /\ Replace(d, t, t.run.id) BY <1>8 DEF Play
  <2>2. t.run \in KnownRuns(time) BY <2>1, PageTyped DEF MaybeRun
  <2>3. t.run.id \in 0..(time + 1) BY <1>1, <2>2 DEF KnownRuns, Runs
  <2> QED BY <1>1, <2>1, <2>3, SparedReplaced
<1>9. CASE Start(d)
  <2> DEFINE u == [t EXCEPT !.starting = FALSE]
  <2>1. u \in KnownTabs(time) /\ u.chain = t.chain /\ u.remote = t.remote BY <1>1 DEF KnownTabs
  <2> HIDE DEF u
  <2>2. Replace(d, u, time + 1) BY <1>9 DEF Start, u
  <2>3. time + 1 \in 0..(time + 1) BY <1>1
  <2> QED BY <2>1, <2>2, <2>3, SparedReplaced
<1>10. CASE Abandon(d) \/ StartOver(d)
  <2>1. PICK v \in {t, [t EXCEPT !.starting = TRUE]} : AbandonRun(d, v)
    BY <1>10 DEF Abandon, StartOver
  <2> DEFINE u == Abandoned(v)
  <2>2. v \in KnownTabs(time) BY <1>1, <2>1 DEF KnownTabs
  <2>3. u.run = None BY <2>2 DEF Abandoned, KnownTabs
  <2> HIDE DEF u
  <2>4. SetTab(d, u) BY <2>1 DEF AbandonRun, u
  <2>5. tabs'[d] = u BY <2>4, SetTabFacts
  <2> QED BY <2>3, <2>5, SparedIdle
<1>11. CASE Reload(d) \/ Sign(d) BY <1>11, SparedLeft DEF Reload, Sign
<1>12. CASE \E p \in Procs : Serve(d, p) \/ Lose(d, p) BY <1>12, SparedServed
<1> QED
  BY <1>3, <1>4, <1>5, <1>6, <1>7, <1>8, <1>9, <1>10, <1>11, <1>12 DEF Acts

\* What another page does, or the server for it: it cannot come by the Run.
LEMMA SparedElsewhere ==
  ASSUME Typed, NEW d \in Devices, NEW e \in Devices \ {d}, Working(e), Elsewhere(e), Spared(d),
         Acts(e)
  PROVE  Spared(d)'
<1>1. tabs'[d] = tabs[d] /\ calls'[d] = calls[d] BY DEF Elsewhere
<1>2. ASSUME NEW id \in Nat, tabs[d].run # None, tabs[d].run.id = id, Unsent(d, id)
      PROVE  Unsent(d, id)'
  <2>1. id # time + 1 BY <1>2, IdKnown
  <2>2. ServerFree(id) /\ \A f \in Devices \ {d} : PageFree(f, id) BY <1>2 DEF Unsent
  <2>3. ServerFree(id)' /\ PageFree(e, id)' BY <2>1, <2>2, ActsFree
  <2>4. ASSUME NEW f \in Devices \ {d} PROVE PageFree(f, id)'
    <3>1. CASE f = e BY <2>3, <3>1
    <3>2. CASE f # e
      <4>1. tabs'[f] = tabs[f] /\ calls'[f] = calls[f] /\ local'[f] = local[f]
        BY <3>2 DEF Elsewhere
      <4> QED BY <2>2, <4>1 DEF PageFree, CallsFree
    <3> QED BY <3>1, <3>2
  <2>5. No(tabs[d].remote.run, id)' /\ CallsFree(d, id)' BY <1>1, <1>2 DEF Unsent, CallsFree
  <2> QED BY <2>3, <2>4, <2>5 DEF Unsent
<1> QED BY <1>1, <1>2 DEF Spared

\* A request nobody waits for is served.
LEMMA SparedLate ==
  ASSUME Typed, NEW d \in Devices, NEW q \in late, Spared(d), ServeLate(q)
  PROVE  Spared(d)'
<1>1. UNCHANGED <<tabs, calls, local>> BY DEF ServeLate
<1>2. ASSUME NEW id \in Nat, Unsent(d, id) PROVE Unsent(d, id)'
  <2>1. ServerFree(id)' BY <1>2, ServeLateFree DEF Unsent
  <2> QED BY <1>1, <1>2, <2>1 DEF Unsent, PageFree, CallsFree
<1> QED BY <1>1, <1>2 DEF Spared

----------------------------------------------------------------------------
(* Who sends a DELETE *)

LEMMA AwaitHome ==
  ASSUME Typed, NEW d \in Devices, NEW p \in Procs, NEW at, NEW run, NEW row, NEW q, Home(d),
         p = "chain" \/ at # "delete", Await(d, p, at, run, row, q)
  PROVE  Home(d)'
<1> DEFINE c == [at |-> at, run |-> run, remote |-> row, sent |-> q, answer |-> None]
<1>1. c.at = at OBVIOUS
<1>2. calls' = [calls EXCEPT ![d][p] = c] BY DEF Await
<1> HIDE DEF c
<1>3. calls'[d][p] = c /\ \A o \in Procs \ {p} : calls'[d][o] = calls[d][o] BY <1>2 DEF Typed
<1> QED BY <1>1, <1>3 DEF Home

LEMMA SendHome ==
  ASSUME Typed, NEW d \in Devices, NEW p \in Procs, NEW at, NEW run, NEW row, NEW kind, Home(d),
         p = "chain" \/ at # "delete", Send(d, p, at, run, row, kind) \/ SendPut(d, p, at, run, row)
  PROVE  Home(d)'
<1>1. PICK q : Await(d, p, at, run, row, q) BY DEF Send, SendPut
<1> QED BY <1>1, AwaitHome

LEMMA ReturnHome ==
  ASSUME Typed, NEW d \in Devices, NEW p \in Procs, Home(d), Return(d, p)
  PROVE  Home(d)'
<1>1. calls'[d][p] = Idle /\ \A o \in Procs \ {p} : calls'[d][o] = calls[d][o]
  BY ReturnTyped DEF OthersWait
<1>2. Idle.at # "delete" BY DEF Idle
<1> QED BY <1>1, <1>2 DEF Home

LEMMA ActsHome ==
  ASSUME Typed, NEW d \in Devices, Home(d), Acts(d)
  PROVE  Home(d)'
<1>1. CASE UNCHANGED calls BY <1>1 DEF Home
<1>2. CASE \E p \in Procs : Return(d, p) BY <1>2, ReturnHome
<1>3. CASE \E at, run, row, kind : Send(d, "chain", at, run, row, kind) \/ SendPut(d, "chain", at, run, row)
  BY <1>3, SendHome, Distinct
<1>4. CASE \E p \in Procs : \E run, row, kind :
             \E at \in {"adoptGuest", "load", "dropAccount", "saveBrowser", "saveBrowserWar"} :
               Send(d, p, at, run, row, kind) \/ SendPut(d, p, at, run, row)
  BY <1>4, SendHome
<1>5. CASE NextJob(d) BY <1>1, <1>3, <1>5 DEF NextJob
<1>6. CASE JobAnswered(d) BY <1>2, <1>3, <1>6, Distinct DEF JobAnswered, JobDone
<1>7. CASE \E m \in Mounts : Hydrate(d, m) \/ GuestAdopted(d, m) \/ Hydrated(d, m)
  <2>1. PICK m \in Mounts : Hydrate(d, m) \/ GuestAdopted(d, m) \/ Hydrated(d, m) BY <1>7
  <2>2. m \in Procs BY Distinct
  <2>3. CASE Hydrate(d, m) BY <1>1, <1>4, <2>2, <2>3 DEF Hydrate
  <2>4. CASE GuestAdopted(d, m)
    <3>1. PICK run, row, q : Await(d, m, "load", run, row, q) BY <2>4 DEF GuestAdopted
    <3> QED BY <2>2, <3>1, AwaitHome
  <2>5. CASE Hydrated(d, m) BY <1>2, <2>2, <2>5 DEF Hydrated
  <2> QED BY <2>1, <2>3, <2>4, <2>5
<1>8. CASE KeepAccountRun(d) \/ Play(d) \/ Abandon(d) \/ StartOver(d) \/ Start(d)
  BY <1>1, <1>8 DEF KeepAccountRun, Play, Start, Replace, Abandon, StartOver, AbandonRun
<1>9. CASE AdoptBrowserRun(d) BY <1>4, <1>9, Distinct DEF AdoptBrowserRun
<1>10. CASE BrowserRunAnswered(d) BY <1>2, <1>4, <1>10, Distinct DEF BrowserRunAnswered
<1>11. CASE Reload(d) \/ Sign(d)
  <2>1. calls' = [calls EXCEPT ![d] = [p \in Procs |-> Idle]] BY <1>11 DEF Reload, Sign, Leave
  <2>2. \A p \in Procs : calls'[d][p] = Idle BY <2>1 DEF Typed
  <2>3. Idle.at # "delete" BY DEF Idle
  <2> QED BY <2>2, <2>3 DEF Home
<1>12. CASE \E p \in Procs : Serve(d, p) \/ Lose(d, p)
  <2>1. PICK p \in Procs : \E a : calls' = [calls EXCEPT ![d][p].sent = None, ![d][p].answer = a]
    BY <1>12 DEF Serve, Lose
  <2>2. PICK a : calls' = [calls EXCEPT ![d][p].sent = None, ![d][p].answer = a] BY <2>1
  <2>3. calls'[d][p] = [calls[d][p] EXCEPT !.sent = None, !.answer = a]
        /\ \A o \in Procs \ {p} : calls'[d][o] = calls[d][o]
    BY <2>2 DEF Typed
  <2>4. \A o \in Procs : calls[d][o] \in KnownCalls(time) BY PageTyped
  <2>5. [calls[d][p] EXCEPT !.sent = None, !.answer = a].at = calls[d][p].at
    BY <2>4 DEF KnownCalls
  <2> QED BY <2>3, <2>5 DEF Home
<1> QED BY <1>5, <1>6, <1>7, <1>8, <1>9, <1>10, <1>11, <1>12 DEF Acts

AllSpared == \A d \in Devices : (Straight(d) => Spared(d)) /\ Home(d)

LEMMA SparedAlways == Spec => []AllSpared
<1>1. Init => AllSpared
  <2> SUFFICES ASSUME Init, NEW d \in Devices PROVE Spared(d) /\ Home(d) BY DEF AllSpared
  <2>1. tabs[d] = FreshTab(None) /\ \A p \in Procs : calls[d][p] = Idle BY DEF Init
  <2> QED BY <2>1 DEF Spared, Home, FreshTab, Idle
<1>2. ASSUME Base, AllOpen, AllJoined, AllSpared, [Next]_vars PROVE AllSpared'
  <2>1. Typed /\ Traced BY <1>2 DEF Base
  <2>2. CASE \E e \in Devices : Acts(e)
    <3>1. PICK e \in Devices : Acts(e) BY <2>2
    <3>2. /\ Working(e) /\ Home(e)
          /\ Straight(e) => Open(e) /\ Joined(e) /\ Spared(e)
      BY <1>2 DEF Base, AllOpen, AllJoined, AllSpared, One, Straight
    <3>3. Elsewhere(e) BY <2>1, <3>1, <3>2, ActsLinks
    <3>4. /\ \A d \in Devices \ {e} : astray'[d] = astray[d]
          /\ astray[e] \subseteq astray'[e] \/ Leave(e)
      BY <2>1, <3>1, ActsTraced
    <3>5. Home(e)' BY <2>1, <3>1, <3>2, ActsHome
    <3>6. ASSUME Straight(e)' PROVE Spared(e)'
      <4>1. CASE Leave(e) BY <2>1, <4>1, SparedLeft
      <4>2. CASE astray[e] \subseteq astray'[e]
        <5>1. Straight(e) BY <3>6, <4>2 DEF Straight
        <5> QED BY <2>1, <3>1, <3>2, <3>3, <5>1, SparedActs
      <4> QED BY <3>4, <4>1, <4>2
    <3>7. ASSUME NEW d \in Devices, d # e PROVE (Straight(d)' => Spared(d)') /\ Home(d)'
      <4>1. (Straight(d) => Spared(d)) /\ Home(d) /\ calls'[d] = calls[d] /\ astray'[d] = astray[d]
        BY <1>2, <3>3, <3>4, <3>7 DEF AllSpared, Elsewhere
      <4>2. e \in Devices \ {d} BY <3>7
      <4>3. Spared(d) => Spared(d)' BY <2>1, <3>1, <3>2, <3>3, <4>2, SparedElsewhere
      <4> QED BY <4>1, <4>3 DEF Home, Straight
    <3> QED BY <3>5, <3>6, <3>7 DEF AllSpared
  <2>3. CASE \E q \in late : ServeLate(q)
    <3>1. UNCHANGED <<calls, astray>> BY <2>3 DEF ServeLate
    <3>2. \A d \in Devices : Spared(d) => Spared(d)' BY <2>1, <2>3, SparedLate
    <3> QED BY <1>2, <3>1, <3>2 DEF AllSpared, Home, Straight
  <2>4. CASE UNCHANGED vars
    BY <1>2, <2>4
    DEF vars, AllSpared, Straight, Spared, Home, Unsent, ServerFree, RowsFree, PageFree, CallsFree
  <2> QED BY <1>2, <2>2, <2>3, <2>4, Actors
<1> QED BY <1>1, <1>2, OpenAlways, JoinedAlways, BaseAlways, PTL DEF Spec

----------------------------------------------------------------------------
(* The theorems *)

\* Every Run of a row, a page, a browser or a message is one that was made, or none, and a
\* page, its chain and what its functions wait for keep their shape: whatever the requests
\* and answers lost, the reloads and the order of the answers.
THEOREM TypeCorrect == Spec => []TypeOK
<1>1. Base => TypeOK BY TypedIsTypeOK DEF Base
<1> QED BY <1>1, BaseAlways, PTL

\* No answer, reload, mutation or sign-in takes a page or a browser back to an older version of
\* its Run, unless two scenes of that page hydrated it at once: only a choice between two Runs
\* does, whatever the player does while it is on its way and however long the chain grows.
THEOREM NothingOlder == Spec => NeverOlder
<1>1. ASSUME Base, AllOpen, [Next]_vars
      PROVE  \A d \in Devices :
               \/ KeepAccountRun(d) \/ BrowserRunAnswered(d)
               \/ "hydrate" \in astray[d]
               \/ ~Older(local'[d], local[d]) /\ ~Older(tabs'[d].run, tabs[d].run)
  <2>1. \A d \in Devices : One(d) => Chooses(d) \/ Ahead(d) BY <1>1, Step
  <2> QED BY <2>1 DEF Chooses, Ahead, One
<1> QED BY <1>1, OpenAlways, BaseAlways, PTL DEF Spec, NeverOlder

\* A page that no race befell, has nothing left to send, and shows neither an error nor a
\* conflict, shows the Run of its row.
THEOREM SettledSaved == Spec => []SettledMeansSaved
<1>1. AllJoined => SettledMeansSaved
  BY DEF AllJoined, Straight, Joined, Joins, Quiet, SettledMeansSaved
<1> QED BY <1>1, JoinedAlways, PTL

\* The DELETE of an abandoned Run never takes the row of the Run that its page, if no race
\* befell it, started after it: whatever the requests and answers lost, the reloads and
\* what befalls the other pages.
THEOREM ReplacementSpared == Spec => DeleteSparesReplacement
<1>1. ASSUME Base, AllJoined, AllSpared
      PROVE  \A d \in Devices, p \in Procs :
               LET c == calls[d][p] IN
               /\ c.at = "delete" /\ Serve(d, p) /\ c.sent.owner # None /\ rows' # rows
               /\ astray[d] = {}
               => LET row == rows[c.sent.owner] IN
                  SameRun(row.run, tabs[d].run) => row.run.id <= c.run.at
  <2> DEFINE c(d, p) == calls[d][p]
  <2> SUFFICES ASSUME NEW d \in Devices, NEW p \in Procs, c(d, p).at = "delete", Serve(d, p),
                      c(d, p).sent.owner # None, astray[d] = {},
                      SameRun(rows[c(d, p).sent.owner].run, tabs[d].run),
                      ~(rows[c(d, p).sent.owner].run.id <= c(d, p).run.at)
               PROVE  FALSE
    OBVIOUS
  <2> DEFINE t == tabs[d] o == calls[d][p].sent.owner id == t.run.id
  <2>1. Typed /\ Working(d) /\ Spared(d) /\ Home(d) /\ HeadInHand(t, calls[d]["chain"])
    BY <1>1 DEF Base, AllJoined, Straight, Joined, Joins, AllSpared
  <2>2. p = "chain" BY <2>1 DEF Home
  <2>3. calls[d]["chain"] # Idle BY <2>2 DEF Idle
  <2>4. t.chain # <<>> BY <2>1, <2>3 DEF Working
  <2>5. Head(t.chain).do = "delete" /\ Head(t.chain).run = calls[d]["chain"].run
    BY <2>1, <2>2, <2>3 DEF HeadInHand
  <2>6. t.chain \in Seq(KnownJobs(time)) BY <2>1, PageTyped
  <2>7. 1 \in 1..Len(t.chain) /\ Head(t.chain) = t.chain[1] BY <2>4, <2>6
  <2>8. t.run # None /\ id = rows[o].run.id /\ rows[o].run # None BY DEF SameRun
  <2>9. id \in Nat BY <2>1, <2>8, IdKnown
  <2>10. t.chain[1].do = "delete" /\ ~(id <= t.chain[1].run.at) BY <2>2, <2>5, <2>7, <2>8
  <2>11. Unsent(d, id) BY <2>1, <2>7, <2>8, <2>9, <2>10 DEF Spared
  <2>12. o \in Owners
    <3>1. calls[d][p].sent \in KnownRequests(time) BY <2>1, PageTyped DEF Serve
    <3> QED BY <3>1 DEF KnownRequests
  <2>13. No(rows[o].run, id) BY <2>11, <2>12 DEF Unsent, ServerFree, RowsFree
  <2> QED BY <2>8, <2>13 DEF No
<1>2. Spec => []AllJoined /\ []AllSpared BY JoinedAlways, SparedAlways
<1> QED BY <1>1, <1>2, BaseAlways, PTL DEF Spec, DeleteSparesReplacement
=============================================================================
