------------------------- MODULE MasterSessionsProof -------------------------
(***************************************************************************)
(* The invariants of MasterSessions, for any number of game servers,       *)
(* accounts, slots, workers and messages on their way.                     *)
(*                                                                         *)
(* What the event loop does is a composition of helpers that lead from one *)
(* state of the master to another.  A state of the master is Good for the  *)
(* completions that are still to be handled; each helper leads from a good *)
(* state to a good one, and LoopLemmas takes care of the loops.            *)
(***************************************************************************)
EXTENDS MasterSessions, LoopLemmas

Flushes ==
    [kind : {"flush"}, ran : BOOLEAN, ok : BOOLEAN, acct : Accounts, data : Progress,
     version : Nat]
Joins ==
    [kind : {"join"}, ran : BOOLEAN, ok : BOOLEAN, acct : Accounts,
     data : Progress \cup {NoRow}, link : Links, pos : Slots, nonce : Nonces, late : BOOLEAN]
Jobs == Flushes \cup Joins
Answers ==
    [type : {"joined"}, pos : Slots, nonce : Nonces, acct : Accounts, data : Progress]
    \cup [type : {"kick"}, pos : Slots, nonce : Nonces]
Requests ==
    [type : {"join"}, acct : Accounts, pos : Slots, nonce : Nonces]
    \cup [type : {"leave"}, acct : Accounts]
    \cup [type : {"save"}, acct : Accounts, data : 1 .. MaxProgress]
Kicks == [acct : Accounts, drop : BOOLEAN]
Masters ==
    [links : SUBSET Links, player : [Accounts -> PlayerRecords],
     uuids : [Links -> [Slots -> Accounts \cup {NoAccount}]],
     waiting : Seq(Joins), jobs : Seq(Jobs), out : [Links -> Seq(Answers)]]

\* A slot of an open link names who is online in that slot.
Named(m, open) ==
    /\ \A l \in Links, i \in Slots :
          LET a == m.uuids[l][i] IN
          a # NoAccount => l \in open /\ m.player[a].link = l /\ m.player[a].pos = i
    /\ \A a \in Accounts : m.player[a].link # NoLink => m.player[a].pos \in Slots

\* Where the write of a player's row is, and that there is one at most; rest are the
\* completions that are not handled yet.
FlushAt(q, i, a) == q[i].kind = "flush" /\ q[i].acct = a
OneFlush(p, jobs, rest, a) ==
    /\ p.flushing <=> \/ \E i \in DOMAIN jobs : FlushAt(jobs, i, a)
                      \/ \E i \in rest : FlushAt(done, i, a)
    /\ \A i, k \in DOMAIN jobs : FlushAt(jobs, i, a) /\ FlushAt(jobs, k, a) => i = k
    /\ \A i, k \in rest : FlushAt(done, i, a) /\ FlushAt(done, k, a) => i = k
    /\ \A i \in DOMAIN jobs, k \in rest : ~(FlushAt(jobs, i, a) /\ FlushAt(done, k, a))

\* A write on its way is newer than what is known to be written, and no newer than
\* what the cache holds.
FlushNewer(f, p) == f.version \in p.flushed + 1 .. p.version
\* Of an account with a row: it is of a save; if it is the newest, it has the newest
\* data, and once it has been done the row has.
FlushSaves(f, p, a) ==
    /\ f.data # 0
    /\ f.version = p.version => f.data = p.data /\ (f.ok => db[a] = accepted[a])
Old(a) == a \in OldAccounts
FlushOK(q, i, p, a) ==
    FlushAt(q, i, a) => FlushNewer(q[i], p) /\ (Old(a) => FlushSaves(q[i], p, a))

\* What the cache holds of a player with a row is saved, or is the newest.
PlayerSaved(p, a) ==
    IF Dirty(p) THEN p.data = accepted[a] /\ p.data # 0 ELSE db[a] = accepted[a]

PlayerOK(p, jobs, rest, a) ==
    /\ p.flushed <= p.version /\ ~p.deleted
    /\ OneFlush(p, jobs, rest, a)
    /\ \A i \in DOMAIN jobs : FlushOK(jobs, i, p, a)
    /\ \A i \in rest : FlushOK(done, i, p, a)
    /\ Old(a) => PlayerSaved(p, a)

\* What a join has read of an account with a row is a row.
JoinRead(j) == j.acct \in Spared /\ Old(j.acct) => j.data # NoRow /\ j.data # 0
JoinOK(j) == j.kind = "join" /\ j.ok => JoinRead(j)

Good(m, rest, open) ==
    /\ m \in Masters /\ Spared \subseteq Accounts
    /\ Named(m, open)
    /\ \A a \in Spared : PlayerOK(m.player[a], m.jobs, rest, a)
    /\ \A i \in DOMAIN m.waiting : JoinRead(m.waiting[i])
    /\ \A i \in DOMAIN m.jobs : JoinOK(m.jobs[i])

\* The slots of a game server: a slot in use has an account.
SlotTables ==
    {s \in [Slots -> SlotRecords] :
        \A i \in Slots : s[i].status # "free" => s[i].acct \in Accounts}

\* The types of what is outside of the master, and what rows and messages hold.
Typed ==
    /\ done \in Seq(Jobs) /\ kicks \in Seq(Kicks)
    /\ stage \in {"running", "stopping", "joined", "stopped"}
    /\ account \subseteq Accounts /\ deleting \subseteq account \cap Deletable
    /\ db \in [Accounts -> Progress \cup {NoRow}]
    /\ slot \in [Links -> SlotTables]
    /\ toMaster \in [Links -> Seq(Requests)]
    /\ logins \in Nonces
    /\ accepted \in [Accounts -> Progress]

RowsKept == \A a \in Spared : Old(a) => db[a] \notin {NoRow, 0} /\ accepted[a] # 0
KicksSpare == \A i \in DOMAIN kicks : kicks[i].drop => kicks[i].acct \notin Spared
DoneRead == \A i \in DOMAIN done : JoinOK(done[i])

\* What is over at the end: no link, no job, no completion, and nothing unwritten.
Ended ==
    /\ stage \in {"joined", "stopped"} =>
          master.links = {} /\ master.jobs = <<>> /\ done = <<>>
    /\ stage = "stopped" =>
          \A a \in Spared : Old(a) => DbMayFail \/ ~Dirty(master.player[a])

IInv ==
    /\ Typed /\ RowsKept /\ KicksSpare /\ DoneRead /\ Ended
    /\ Good(master, DOMAIN done, master.links)

-----------------------------------------------------------------------------
(* Messages and jobs.                                                       *)
LEMMA Constants ==
    /\ MaxLogins \in Nat /\ MaxProgress \in Nat \ {0} /\ Workers \in Nat \ {0}
    /\ NoLink \notin Links /\ NoAccount \notin Accounts
    /\ IsFiniteSet(Links) /\ IsFiniteSet(Accounts) /\ IsFiniteSet(Slots)
    /\ OldAccounts \subseteq Accounts /\ Deletable \subseteq Accounts
BY LinksAssumption, BoundsAssumption

LEMMA NoPlayerIsOne == NoPlayer \in PlayerRecords
BY Constants DEF NoPlayer, PlayerRecords, Nonces, Progress

\* Nothing differs from m to n but what is on its way to the game servers.
OnlyOut(m, n) ==
    /\ n \in Masters
    /\ n.links = m.links /\ n.player = m.player /\ n.uuids = m.uuids
    /\ n.waiting = m.waiting /\ n.jobs = m.jobs

LEMMA SendOnly ==
    ASSUME NEW m \in Masters, NEW l, NEW msg \in Answers
    PROVE  OnlyOut(m, Send(m, l, msg))
<1>1. CASE l \notin m.links
  BY <1>1 DEF Send, OnlyOut
<1>2. CASE l \in m.links
  <2> DEFINE q == Append(m.out[l], msg)
             out == [m.out EXCEPT ![l] = q]
  <2>1. l \in Links /\ m.out \in [Links -> Seq(Answers)]
    BY <1>2 DEF Masters
  <2>2. q \in Seq(Answers)
    BY <2>1
  <2> HIDE DEF q
  <2>3. out \in [Links -> Seq(Answers)]
    BY <2>1, <2>2
  <2>4. Send(m, l, msg) = [m EXCEPT !.out = out]
    BY <1>2 DEF Send, Masters, q
  <2> HIDE DEF out
  <2>5. QED
    BY <2>3, <2>4 DEF OnlyOut, Masters
<1>3. QED
  BY <1>1, <1>2

LEMMA OutDoesNotMatter ==
    ASSUME NEW m, NEW n, NEW rest, NEW open, Good(m, rest, open), OnlyOut(m, n)
    PROVE  Good(n, rest, open)
BY DEF Good, OnlyOut, Named

LEMMA SendGood ==
    ASSUME NEW m, NEW rest, NEW open, Good(m, rest, open), NEW l, NEW msg \in Answers
    PROVE  Good(Send(m, l, msg), rest, open) /\ OnlyOut(m, Send(m, l, msg))
BY SendOnly, OutDoesNotMatter DEF Good

LEMMA KickSessionGood ==
    ASSUME NEW m, NEW rest, NEW open, Good(m, rest, open), NEW a \in Accounts, Online(m, a)
    PROVE  Good(KickSession(m, a), rest, open) /\ OnlyOut(m, KickSession(m, a))
<1> DEFINE msg == [type |-> "kick", pos |-> m.player[a].pos, nonce |-> m.player[a].nonce]
<1>1. msg \in Answers
  BY DEF Good, Named, Online, Masters, PlayerRecords, Answers
<1> HIDE DEF msg
<1>2. KickSession(m, a) = Send(m, m.player[a].link, msg)
  BY DEF KickSession, SendKick, msg
<1>3. QED
  BY <1>1, <1>2, SendGood

\* A job is appended.
Submitted(m, n, job) ==
    /\ n \in Masters
    /\ n.links = m.links /\ n.uuids = m.uuids /\ n.waiting = m.waiting
    /\ n.jobs = Append(m.jobs, job)

LEMMA Appended ==
    ASSUME NEW S, NEW q \in Seq(S), NEW x
    PROVE  /\ DOMAIN Append(q, x) = DOMAIN q \cup {Len(q) + 1}
           /\ Append(q, x)[Len(q) + 1] = x
           /\ \A i \in DOMAIN q : Append(q, x)[i] = q[i]
           /\ Len(q) + 1 \notin DOMAIN q
OBVIOUS

LEMMA Changed ==
    ASSUME NEW S, NEW q \in Seq(S), NEW i \in DOMAIN q, NEW x \in S
    PROVE  /\ [q EXCEPT ![i] = x] \in Seq(S) /\ DOMAIN [q EXCEPT ![i] = x] = DOMAIN q
           /\ \A k \in DOMAIN q : [q EXCEPT ![i] = x][k] = IF k = i THEN x ELSE q[k]
OBVIOUS

LEMMA SubmitOnly ==
    ASSUME NEW m \in Masters, NEW job \in Jobs
    PROVE  Submitted(m, Submit(m, job), job) /\ Submit(m, job).player = m.player
<1> DEFINE q == Append(m.jobs, job)
<1>1. q \in Seq(Jobs)
  BY DEF Masters
<1>2. Submit(m, job) = [m EXCEPT !.jobs = q] /\ q = Append(m.jobs, job)
  BY DEF Submit
<1> HIDE DEF q
<1>3. QED
  BY <1>1, <1>2 DEF Submitted, Masters

LEMMA SubmitJoinGood ==
    ASSUME NEW m, NEW rest, NEW open, Good(m, rest, open), NEW j \in Joins, ~j.ok
    PROVE  Good(Submit(m, j), rest, open)
<1> DEFINE n == Submit(m, j)
<1>1. Submitted(m, n, j) /\ n.player = m.player
  BY SubmitOnly DEF Good, Jobs
<1> HIDE DEF n
<1>2. m.jobs \in Seq(Jobs) /\ j.kind = "join" /\ m \in Masters
  BY DEF Good, Masters, Joins
<1>3. /\ DOMAIN n.jobs = DOMAIN m.jobs \cup {Len(m.jobs) + 1}
      /\ n.jobs[Len(m.jobs) + 1] = j
      /\ \A i \in DOMAIN m.jobs : n.jobs[i] = m.jobs[i]
  BY <1>1, <1>2, Appended DEF Submitted
<1>4. ASSUME NEW a \in Spared
      PROVE  PlayerOK(n.player[a], n.jobs, rest, a)
  <2>1. PlayerOK(m.player[a], m.jobs, rest, a)
    BY DEF Good
  <2>2. \A i \in DOMAIN n.jobs : FlushAt(n.jobs, i, a) => i \in DOMAIN m.jobs
    BY <1>2, <1>3 DEF FlushAt
  <2>3. \A i \in DOMAIN m.jobs : FlushAt(n.jobs, i, a) <=> FlushAt(m.jobs, i, a)
    BY <1>3 DEF FlushAt
  <2>4. OneFlush(n.player[a], n.jobs, rest, a)
    BY <1>1, <1>3, <2>1, <2>2, <2>3 DEF PlayerOK, OneFlush
  <2>5. \A i \in DOMAIN n.jobs : FlushOK(n.jobs, i, n.player[a], a)
    BY <1>1, <1>3, <2>1, <2>2, <2>3 DEF PlayerOK, FlushOK
  <2>6. QED
    BY <1>1, <2>1, <2>4, <2>5 DEF PlayerOK
<1>5. \A i \in DOMAIN n.jobs : JoinOK(n.jobs[i])
  BY <1>3 DEF Good, JoinOK
<1>6. QED
  BY <1>1, <1>4, <1>5 DEF Good, Named, Submitted, n

-----------------------------------------------------------------------------
(* One player changes.                                                      *)

\* Nothing differs from m to n but the player of a, the slots' uuids and what is on
\* its way.
OnlyPlayer(m, n, a) ==
    /\ n \in Masters
    /\ n.links = m.links /\ n.waiting = m.waiting /\ n.jobs = m.jobs
    /\ \A b \in Accounts \ {a} : n.player[b] = m.player[b]

LEMMA OnePlayerGood ==
    ASSUME NEW m, NEW n, NEW rest, NEW open, NEW a \in Accounts,
           Good(m, rest, open), OnlyPlayer(m, n, a), Named(n, open),
           a \in Spared => PlayerOK(n.player[a], m.jobs, rest, a)
    PROVE  Good(n, rest, open)
<1>1. ASSUME NEW b \in Spared
      PROVE  PlayerOK(n.player[b], n.jobs, rest, b)
  BY DEF Good, OnlyPlayer
<1>2. QED
  BY <1>1 DEF Good, OnlyPlayer

\* Where a session is does not say what is saved of it.
Alike(p, q) ==
    /\ q.data = p.data /\ q.version = p.version /\ q.flushed = p.flushed
    /\ q.flushing = p.flushing /\ q.deleted = p.deleted

LEMMA AlikeOK ==
    ASSUME NEW p, NEW q, NEW jobs, NEW rest, NEW a, PlayerOK(p, jobs, rest, a), Alike(p, q)
    PROVE  PlayerOK(q, jobs, rest, a)
<1>1. OneFlush(q, jobs, rest, a)
  BY DEF PlayerOK, OneFlush, Alike
<1>2. /\ \A i \in DOMAIN jobs : FlushOK(jobs, i, q, a)
      /\ \A i \in rest : FlushOK(done, i, q, a)
  BY DEF PlayerOK, FlushOK, FlushNewer, FlushSaves, Alike
<1>3. Old(a) => PlayerSaved(q, a)
  BY DEF PlayerOK, PlayerSaved, Dirty, Alike
<1>4. QED
  BY <1>1, <1>2, <1>3 DEF PlayerOK, Alike

\* A player is written to the database: StartFlush.
Flush(p, a) ==
    [kind |-> "flush", ran |-> FALSE, ok |-> FALSE, acct |-> a, data |-> p.data,
     version |-> p.version]

LEMMA FlushIsJob ==
    ASSUME NEW p \in PlayerRecords, NEW a \in Accounts
    PROVE  Flush(p, a) \in Flushes /\ Flush(p, a) \in Jobs
BY DEF Flush, Flushes, Jobs, PlayerRecords

LEMMA StartFlushOne ==
    ASSUME NEW p \in PlayerRecords, NEW jobs \in Seq(Jobs), NEW rest, NEW a \in Accounts,
           PlayerOK(p, jobs, rest, a), ~p.flushing, Dirty(p)
    PROVE  PlayerOK([p EXCEPT !.flushing = TRUE], Append(jobs, Flush(p, a)), rest, a)
<1> DEFINE q == [p EXCEPT !.flushing = TRUE]
           f == Flush(p, a)
           more == Append(jobs, f)
           n == Len(jobs) + 1
<1>1. /\ q.flushing /\ q.data = p.data /\ q.version = p.version /\ q.flushed = p.flushed
      /\ q.deleted = p.deleted /\ p.version \in Nat /\ p.flushed \in Nat
  BY DEF PlayerRecords
<1>2. f.kind = "flush" /\ f.acct = a /\ f.data = p.data /\ f.version = p.version /\ ~f.ok
  BY DEF Flush
<1>3. /\ DOMAIN more = DOMAIN jobs \cup {n} /\ more[n] = f
      /\ \A i \in DOMAIN jobs : more[i] = jobs[i]
  BY Appended
<1> HIDE DEF q, f, more, n
<1>4. /\ \A i \in DOMAIN jobs : ~FlushAt(jobs, i, a)
      /\ \A i \in rest : ~FlushAt(done, i, a)
  BY DEF PlayerOK, OneFlush
<1>5. \A i \in DOMAIN more : FlushAt(more, i, a) <=> i = n
  BY <1>2, <1>3, <1>4 DEF FlushAt
<1>6. OneFlush(q, more, rest, a)
  BY <1>1, <1>3, <1>4, <1>5 DEF OneFlush
<1>7. \A i \in DOMAIN more : FlushOK(more, i, q, a)
  <2>1. p.flushed < p.version
    BY <1>1 DEF PlayerOK, Dirty
  <2>2. FlushNewer(f, q) /\ (Old(a) => FlushSaves(f, q, a))
    BY <1>1, <1>2, <2>1 DEF FlushNewer, FlushSaves, PlayerOK, PlayerSaved
  <2>3. QED
    BY <1>3, <1>5, <2>2 DEF FlushOK
<1>8. \A i \in rest : FlushOK(done, i, q, a)
  BY <1>4 DEF FlushOK
<1>9. Old(a) => PlayerSaved(q, a)
  BY <1>1 DEF PlayerOK, PlayerSaved, Dirty
<1>10. QED
  BY <1>1, <1>6, <1>7, <1>8, <1>9 DEF PlayerOK, q, more, f

LEMMA StartFlushGood ==
    ASSUME NEW m, NEW rest, NEW open, Good(m, rest, open), NEW a \in Accounts
    PROVE  /\ Good(StartFlush(m, a), rest, open)
           /\ StartFlush(m, a).links = m.links
<1> DEFINE p == m.player[a]
           q == [p EXCEPT !.flushing = TRUE]
           f == Flush(p, a)
           player == [m.player EXCEPT ![a] = q]
           k == [m EXCEPT !.player = player]
           n == Submit(k, f)
<1>1. CASE p.deleted \/ p.flushing \/ ~Dirty(p)
  BY <1>1 DEF StartFlush
<1>2. CASE ~(p.deleted \/ p.flushing \/ ~Dirty(p))
  <2>1. m \in Masters /\ p \in PlayerRecords /\ m.player \in [Accounts -> PlayerRecords]
    BY DEF Good, Masters
  <2>2. q \in PlayerRecords /\ q.link = p.link /\ q.pos = p.pos
    BY <2>1 DEF PlayerRecords
  <2>3. StartFlush(m, a) = n
    BY <1>2, <2>1 DEF StartFlush, Flush, Masters
  <2>4. PlayerOK(p, m.jobs, rest, a) => PlayerOK(q, Append(m.jobs, f), rest, a)
    BY <1>2, <2>1, StartFlushOne DEF Masters
  <2>5. f \in Flushes /\ f \in Jobs
    BY <2>1, FlushIsJob
  <2> HIDE DEF q, f, p
  <2>6. /\ player \in [Accounts -> PlayerRecords] /\ player[a] = q
        /\ \A b \in Accounts \ {a} : player[b] = m.player[b]
    BY <2>1, <2>2
  <2> HIDE DEF player
  <2>7. /\ k \in Masters /\ k.player = player /\ k.links = m.links /\ k.uuids = m.uuids
        /\ k.waiting = m.waiting /\ k.jobs = m.jobs
    BY <2>1, <2>6 DEF Masters
  <2> HIDE DEF k
  <2>8. Submitted(k, n, f) /\ n.player = player
    BY <2>5, <2>7, SubmitOnly
  <2> HIDE DEF n
  <2>9. n \in Masters /\ n.links = m.links /\ n.jobs = Append(m.jobs, f)
        /\ n.uuids = m.uuids /\ n.waiting = m.waiting
    BY <2>7, <2>8 DEF Submitted
  <2>10. Named(n, open)
    <3>1. \A b \in Accounts : n.player[b].link = m.player[b].link
                             /\ n.player[b].pos = m.player[b].pos
      BY <2>2, <2>6, <2>8 DEF p
    <3>2. \A l \in Links, i \in Slots :
              m.uuids[l][i] # NoAccount => m.uuids[l][i] \in Accounts
      BY DEF Good, Masters
    <3>3. QED
      BY <2>9, <3>1, <3>2 DEF Good, Named
  <2>11. m.jobs \in Seq(Jobs)
    BY <2>1 DEF Masters
  <2>12. /\ DOMAIN n.jobs = DOMAIN m.jobs \cup {Len(m.jobs) + 1}
         /\ n.jobs[Len(m.jobs) + 1] = f
         /\ \A i \in DOMAIN m.jobs : n.jobs[i] = m.jobs[i]
    BY <2>9, <2>11, Appended
  <2>13. f.kind = "flush" /\ f.acct = a
    BY DEF f, Flush
  <2>14. ASSUME NEW b \in Spared
         PROVE  PlayerOK(n.player[b], n.jobs, rest, b)
    <3>1. CASE b = a
      BY <2>4, <2>6, <2>8, <2>9, <3>1 DEF Good, p
    <3>2. CASE b # a
      <4>1. PlayerOK(m.player[b], m.jobs, rest, b) /\ n.player[b] = m.player[b]
        BY <2>6, <2>8, <3>2 DEF Good
      <4>2. \A i \in DOMAIN n.jobs : FlushAt(n.jobs, i, b) =>
                i \in DOMAIN m.jobs /\ FlushAt(m.jobs, i, b)
        BY <2>12, <2>13, <3>2 DEF FlushAt
      <4>3. \A i \in DOMAIN m.jobs : FlushAt(m.jobs, i, b) => FlushAt(n.jobs, i, b)
        BY <2>12 DEF FlushAt
      <4>4. OneFlush(n.player[b], n.jobs, rest, b)
        BY <2>12, <4>1, <4>2, <4>3 DEF PlayerOK, OneFlush
      <4>5. \A i \in DOMAIN n.jobs : FlushOK(n.jobs, i, n.player[b], b)
        BY <2>12, <4>1, <4>2 DEF PlayerOK, FlushOK
      <4>6. QED
        BY <4>1, <4>4, <4>5 DEF PlayerOK
    <3>3. QED
      BY <3>1, <3>2
  <2>15. \A i \in DOMAIN n.jobs : JoinOK(n.jobs[i])
    BY <2>12, <2>13 DEF Good, JoinOK
  <2>16. Good(n, rest, open)
    BY <2>9, <2>10, <2>14, <2>15 DEF Good
  <2>17. QED
    BY <2>3, <2>9, <2>16
<1>3. QED
  BY <1>1, <1>2

-----------------------------------------------------------------------------
(* A completion of a write: FlushDone.                                      *)
LEMMA RestShrinks ==
    ASSUME NEW p, NEW jobs, NEW rest, NEW i, NEW b, PlayerOK(p, jobs, rest, b),
           ~FlushAt(done, i, b)
    PROVE  PlayerOK(p, jobs, rest \ {i}, b)
<1>1. OneFlush(p, jobs, rest \ {i}, b)
  BY DEF PlayerOK, OneFlush
<1>2. QED
  BY <1>1 DEF PlayerOK

Flushed(p, f) ==
    [p EXCEPT !.flushing = FALSE,
              !.flushed = IF f.ok /\ f.version > p.flushed THEN f.version ELSE p.flushed]

LEMMA FlushedOK ==
    ASSUME NEW p \in PlayerRecords, NEW jobs, NEW rest, NEW i \in rest, NEW a,
           PlayerOK(p, jobs, rest, a), FlushAt(done, i, a), done[i] \in Flushes
    PROVE  /\ PlayerOK(Flushed(p, done[i]), jobs, rest \ {i}, a)
           /\ done[i].ok /\ ~Dirty(Flushed(p, done[i]))
                  => PlayerOK(NoPlayer, jobs, rest \ {i}, a)
<1> DEFINE f == done[i]
           q == Flushed(p, f)
<1>1. /\ FlushNewer(f, p) /\ (Old(a) => FlushSaves(f, p, a))
      /\ OneFlush(p, jobs, rest, a) /\ ~p.deleted
  BY DEF PlayerOK, FlushOK
<1>2. /\ f.version \in Nat /\ f.ok \in BOOLEAN /\ p.version \in Nat /\ p.flushed \in Nat
      /\ p.flushed < f.version /\ f.version <= p.version
  BY <1>1 DEF FlushNewer, Flushes, PlayerRecords
<1>3. /\ q.flushing = FALSE /\ q.version = p.version /\ q.data = p.data
      /\ q.deleted = p.deleted /\ q.flushed = IF f.ok THEN f.version ELSE p.flushed
  BY <1>2 DEF Flushed, PlayerRecords
<1> HIDE DEF q
<1>4. /\ \A k \in rest \ {i} : ~FlushAt(done, k, a)
      /\ \A k \in DOMAIN jobs : ~FlushAt(jobs, k, a)
  BY <1>1 DEF OneFlush
<1>5. \A r : ~r.flushing => OneFlush(r, jobs, rest \ {i}, a)
  BY <1>4 DEF OneFlush
<1>6. \A r : /\ \A k \in DOMAIN jobs : FlushOK(jobs, k, r, a)
             /\ \A k \in rest \ {i} : FlushOK(done, k, r, a)
  BY <1>4 DEF FlushOK
<1>7. Old(a) => PlayerSaved(q, a)
  <2>1. Dirty(p)
    BY <1>2 DEF Dirty
  <2>2. CASE f.ok /\ f.version = p.version
    BY <1>1, <1>3, <2>2 DEF PlayerSaved, Dirty, FlushSaves
  <2>3. CASE ~(f.ok /\ f.version = p.version)
    <3>1. Dirty(q)
      BY <1>2, <1>3, <2>3 DEF Dirty
    <3>2. QED
      BY <1>3, <2>1, <3>1 DEF PlayerSaved, PlayerOK
  <2>4. QED
    BY <2>2, <2>3
<1>8. PlayerOK(q, jobs, rest \ {i}, a)
  <2>1. q.flushed <= q.version /\ ~q.deleted
    BY <1>1, <1>2, <1>3
  <2>2. QED
    BY <1>3, <1>5, <1>6, <1>7, <2>1 DEF PlayerOK
<1>9. ASSUME f.ok, ~Dirty(q)
      PROVE  PlayerOK(NoPlayer, jobs, rest \ {i}, a)
  <2>1. /\ NoPlayer.flushing = FALSE /\ NoPlayer.deleted = FALSE
        /\ NoPlayer.version = 0 /\ NoPlayer.flushed = 0
    BY DEF NoPlayer
  <2>2. Old(a) => PlayerSaved(NoPlayer, a)
    BY <1>7, <1>9, <2>1 DEF PlayerSaved, Dirty
  <2>3. QED
    BY <1>5, <1>6, <2>1, <2>2 DEF PlayerOK
<1>10. QED
  BY <1>8, <1>9 DEF q

LEMMA FlushedIsRecord ==
    ASSUME NEW p \in PlayerRecords, NEW f \in Flushes
    PROVE  /\ Flushed(p, f) \in PlayerRecords
           /\ Flushed(p, f).link = p.link /\ Flushed(p, f).pos = p.pos
<1> DEFINE v == IF f.ok /\ f.version > p.flushed THEN f.version ELSE p.flushed
<1>1. v \in Nat
  BY DEF PlayerRecords, Flushes
<1>2. Flushed(p, f) = [p EXCEPT !.flushing = FALSE, !.flushed = v]
  BY DEF Flushed
<1> HIDE DEF v
<1>3. QED
  BY <1>1, <1>2 DEF PlayerRecords

\* The player of a is replaced by one who is as far online or not at all.
Replace(m, a, p) == [m EXCEPT !.player = [m.player EXCEPT ![a] = p]]

LEMMA ReplaceOnly ==
    ASSUME NEW m \in Masters, NEW a \in Accounts, NEW p \in PlayerRecords
    PROVE  /\ OnlyPlayer(m, Replace(m, a, p), a) /\ Replace(m, a, p).player[a] = p
           /\ Replace(m, a, p).uuids = m.uuids
<1> DEFINE player == [m.player EXCEPT ![a] = p]
<1>1. /\ player \in [Accounts -> PlayerRecords] /\ player[a] = p
      /\ \A b \in Accounts \ {a} : player[b] = m.player[b]
  BY DEF Masters
<1> HIDE DEF player
<1>2. QED
  BY <1>1 DEF Replace, OnlyPlayer, Masters, player

LEMMA NamedStill ==
    ASSUME NEW m \in Masters, NEW n, NEW open, NEW a \in Accounts, Named(m, open),
           OnlyPlayer(m, n, a), n.uuids = m.uuids,
           n.player[a].link = m.player[a].link, n.player[a].pos = m.player[a].pos
    PROVE  Named(n, open)
<1>1. \A l \in Links, i \in Slots : m.uuids[l][i] # NoAccount => m.uuids[l][i] \in Accounts
  BY DEF Masters
<1>2. \A b \in Accounts : n.player[b].link = m.player[b].link
                         /\ n.player[b].pos = m.player[b].pos
  BY DEF OnlyPlayer
<1>3. QED
  BY <1>1, <1>2 DEF Named

\* A player who is offline is in no slot, so nothing but the player goes.
LEMMA NamedWithout ==
    ASSUME NEW m \in Masters, NEW n, NEW open, NEW a \in Accounts, Named(m, open),
           OnlyPlayer(m, n, a), n.uuids = m.uuids,
           m.player[a].link = NoLink, n.player[a].link = NoLink
    PROVE  Named(n, open)
<1>1. \A l \in Links, i \in Slots : m.uuids[l][i] # NoAccount => m.uuids[l][i] \in Accounts
  BY DEF Masters
<1>2. \A l \in Links, i \in Slots : m.uuids[l][i] # a
  BY Constants DEF Named
<1>3. QED
  BY <1>1, <1>2 DEF Named, OnlyPlayer

LEMMA FlushDoneGood ==
    ASSUME NEW m, NEW rest, NEW open, Good(m, rest, open), NEW i \in rest,
           done[i] \in Flushes
    PROVE  /\ Good(FlushDone(m, done[i]), rest \ {i}, open)
           /\ FlushDone(m, done[i]).links = m.links /\ FlushDone(m, done[i]).jobs = m.jobs
<1> DEFINE f == done[i]
           a == f.acct
           p == m.player[a]
           q == Flushed(p, f)
           free == f.ok /\ p.link = NoLink /\ ~Dirty(q)
           r == IF free THEN NoPlayer ELSE q
<1>1. /\ a \in Accounts /\ f.kind = "flush" /\ m \in Masters /\ p \in PlayerRecords
      /\ FlushAt(done, i, a)
  BY DEF Flushes, Good, Masters, FlushAt
<1>2. Good(m, rest \ {i}, open) \/ (a \in Spared /\ p.flushing)
  <2>1. ASSUME a \in Spared => ~p.flushing
        PROVE  Good(m, rest \ {i}, open)
    <3>1. \A b \in Spared : ~FlushAt(done, i, b)
      BY <2>1 DEF Good, PlayerOK, OneFlush, FlushAt
    <3>2. QED
      BY <3>1, RestShrinks DEF Good
  <2>2. QED
    BY <2>1
<1>3. CASE ~Cached(m, a)
  <2>1. p.flushing = FALSE
    BY <1>3 DEF Cached, NoPlayer
  <2>2. QED
    BY <1>2, <1>3, <2>1 DEF FlushDone
<1>4. CASE Cached(m, a)
  <2>1. FlushDone(m, f) = Replace(m, a, r)
    BY <1>1, <1>4 DEF FlushDone, Replace, Flushed, Masters
  <2>2. /\ q \in PlayerRecords /\ q.link = p.link /\ q.pos = p.pos
    BY <1>1, FlushedIsRecord
  <2>3. r \in PlayerRecords
    BY <2>2, NoPlayerIsOne
  <2>4. a \in Spared => PlayerOK(r, m.jobs, rest \ {i}, a)
    BY <1>1, FlushedOK DEF Good
  <2> DEFINE n == Replace(m, a, r)
  <2>5. OnlyPlayer(m, n, a) /\ n.player[a] = r /\ n.uuids = m.uuids
    BY <1>1, <2>3, ReplaceOnly
  <2> HIDE DEF n, q
  <2>6. Named(n, open)
    <3>1. CASE free
      <4>1. n.player[a].link = NoLink /\ p.link = NoLink
        BY <2>5, <3>1 DEF NoPlayer
      <4>2. QED
        BY <1>1, <2>5, <4>1, NamedWithout DEF Good
    <3>2. CASE ~free
      BY <1>1, <2>2, <2>5, <3>2, NamedStill DEF Good
    <3>3. QED
      BY <3>1, <3>2
  <2> HIDE DEF r, p
  <2>7. ASSUME NEW b \in Spared
        PROVE  PlayerOK(n.player[b], n.jobs, rest \ {i}, b)
    <3>1. CASE b = a
      BY <2>4, <2>5, <3>1 DEF OnlyPlayer
    <3>2. CASE b # a
      <4>1. ~FlushAt(done, i, b) /\ n.player[b] = m.player[b] /\ n.jobs = m.jobs
        BY <2>5, <3>2 DEF FlushAt, OnlyPlayer, Good
      <4>2. QED
        BY <4>1, RestShrinks DEF Good
    <3>3. QED
      BY <3>1, <3>2
  <2>8. Good(n, rest \ {i}, open)
    BY <2>5, <2>6, <2>7 DEF Good, OnlyPlayer
  <2>9. QED
    BY <2>1, <2>5, <2>8 DEF OnlyPlayer, n
<1>5. QED
  BY <1>3, <1>4

-----------------------------------------------------------------------------
(* A join is adopted: Adopt.                                                *)

\* What Adopt starts from.
OldPlayer(m, j) == IF Cached(m, j.acct) THEN m.player[j.acct] ELSE NewPlayer(j)

LEMMA NewPlayerIsOne ==
    ASSUME NEW j \in Joins
    PROVE  /\ NewPlayer(j) \in PlayerRecords
           /\ NewPlayer(j).link = NoLink /\ NewPlayer(j).deleted = FALSE
           /\ NewPlayer(j).flushing = FALSE
           /\ NewPlayer(j).version = 1
           /\ NewPlayer(j).flushed = IF j.data > 0 THEN 1 ELSE 0
<1> DEFINE d == IF j.data = NoRow THEN 0 ELSE j.data
           v == IF j.data > 0 THEN 1 ELSE 0
<1>1. d \in Progress /\ v \in Nat
  BY Constants DEF Joins, Progress, NoRow
<1>2. NewPlayer(j) = [NoPlayer EXCEPT !.data = d, !.version = 1, !.flushed = v]
  BY DEF NewPlayer
<1>3. NoPlayer \in PlayerRecords
  BY NoPlayerIsOne
<1> HIDE DEF d, v
<1>4. NewPlayer(j) \in PlayerRecords /\ NewPlayer(j).flushed = v
  <2> DEFINE r == NoPlayer
             p == [r EXCEPT !.data = d, !.version = 1, !.flushed = v]
  <2>1. r \in PlayerRecords
    BY <1>3
  <2> HIDE DEF r
  <2>2. p \in PlayerRecords /\ p.flushed = v
    BY <1>1, <2>1 DEF PlayerRecords
  <2>3. QED
    BY <1>2, <2>2 DEF r
<1>5. /\ NewPlayer(j).link = NoLink /\ NewPlayer(j).deleted = FALSE
      /\ NewPlayer(j).flushing = FALSE /\ NewPlayer(j).version = 1
  BY <1>2 DEF NoPlayer
<1>6. QED
  BY <1>4, <1>5 DEF v

\* A session that starts from a row that was read is as good as none.
LEMMA NewPlayerOK ==
    ASSUME NEW j \in Joins, JoinRead(j), NEW jobs, NEW rest,
           j.acct \in Spared, PlayerOK(NoPlayer, jobs, rest, j.acct)
    PROVE  PlayerOK(NewPlayer(j), jobs, rest, j.acct)
<1> DEFINE p == NewPlayer(j)
           a == j.acct
<1>1. /\ p.deleted = FALSE /\ p.flushing = FALSE /\ p.version = 1
      /\ p.flushed = IF j.data > 0 THEN 1 ELSE 0
  BY NewPlayerIsOne
<1> HIDE DEF p
<1>2. NoPlayer.flushing = FALSE /\ ~Dirty(NoPlayer)
  BY DEF NoPlayer, Dirty
<1>3. OneFlush(p, jobs, rest, a)
  BY <1>1, <1>2 DEF PlayerOK, OneFlush
<1>4. /\ \A i \in DOMAIN jobs : FlushOK(jobs, i, p, a)
      /\ \A i \in rest : FlushOK(done, i, p, a)
  BY <1>1, <1>3 DEF OneFlush, FlushOK
<1>5. Old(a) => PlayerSaved(p, a)
  <2>1. ASSUME Old(a)
        PROVE  ~Dirty(p) /\ db[a] = accepted[a]
    <3>1. j.data > 0
      BY <2>1, Constants DEF JoinRead, Joins, Progress, NoRow
    <3>2. QED
      BY <1>1, <1>2, <2>1, <3>1 DEF PlayerOK, PlayerSaved, Dirty
  <2>2. QED
    BY <2>1 DEF PlayerSaved
<1>6. QED
  BY <1>1, <1>3, <1>4, <1>5 DEF PlayerOK, p

LEMMA OldPlayerIsOne ==
    ASSUME NEW m, NEW rest, NEW open, Good(m, rest, open), NEW j \in Joins, JoinRead(j)
    PROVE  /\ OldPlayer(m, j) \in PlayerRecords
           /\ j.acct \in Spared => PlayerOK(OldPlayer(m, j), m.jobs, rest, j.acct)
           /\ OldPlayer(m, j).link = m.player[j.acct].link
           /\ OldPlayer(m, j).link # NoLink => OldPlayer(m, j) = m.player[j.acct]
<1>1. j.acct \in Accounts /\ m.player[j.acct] \in PlayerRecords
  BY DEF Joins, Good, Masters
<1>2. CASE Cached(m, j.acct)
  BY <1>1, <1>2 DEF OldPlayer, Good
<1>3. CASE ~Cached(m, j.acct)
  <2>1. m.player[j.acct] = NoPlayer /\ NoPlayer.link = NoLink
    BY <1>3 DEF Cached, NoPlayer
  <2>2. OldPlayer(m, j) = NewPlayer(j)
    BY <1>3 DEF OldPlayer
  <2>3. j.acct \in Spared => PlayerOK(NewPlayer(j), m.jobs, rest, j.acct)
    BY <2>1, NewPlayerOK DEF Good
  <2>4. QED
    BY <2>1, <2>2, <2>3, NewPlayerIsOne
<1>4. QED
  BY <1>2, <1>3

LEMMA AdoptGood ==
    ASSUME NEW m, NEW rest, NEW open, Good(m, rest, open),
           NEW j \in Joins, JoinRead(j), j.link \in open
    PROVE  /\ Good(Adopt(m, j), rest, open)
           /\ Adopt(m, j).links = m.links /\ Adopt(m, j).jobs = m.jobs
<1> DEFINE a == j.acct
           old == OldPlayer(m, j)
           p == [old EXCEPT !.link = j.link, !.pos = j.pos, !.nonce = j.nonce]
           left == IF old.link = NoLink THEN m.uuids
                   ELSE [m.uuids EXCEPT ![old.link][old.pos] = NoAccount]
           uuids == [left EXCEPT ![j.link][j.pos] = a]
           player == [m.player EXCEPT ![a] = p]
           n == [m EXCEPT !.player = player, !.uuids = uuids]
           msg == [type |-> "joined", pos |-> j.pos, nonce |-> j.nonce, acct |-> a,
                   data |-> old.data]
<1>1. /\ m \in Masters /\ a \in Accounts /\ j.link \in Links /\ j.pos \in Slots
      /\ j.nonce \in Nonces /\ m.player \in [Accounts -> PlayerRecords]
      /\ m.uuids \in [Links -> [Slots -> Accounts \cup {NoAccount}]]
  BY DEF Good, Masters, Joins
<1>2. /\ old \in PlayerRecords /\ old.link = m.player[a].link
      /\ old.link # NoLink => old = m.player[a]
      /\ a \in Spared => PlayerOK(old, m.jobs, rest, a)
  BY OldPlayerIsOne
<1>3. Adopt(m, j) = Send(n, j.link, msg)
  BY <1>1 DEF Adopt, OldPlayer, Masters
<1> HIDE DEF old
<1>4. p \in PlayerRecords /\ Alike(old, p) /\ p.link = j.link /\ p.pos = j.pos
  BY <1>1, <1>2 DEF PlayerRecords, Alike
<1>5. msg \in Answers
  BY <1>1, <1>2 DEF Answers, PlayerRecords
<1> HIDE DEF p, msg
<1>6. /\ player \in [Accounts -> PlayerRecords] /\ player[a] = p
      /\ \A b \in Accounts \ {a} : player[b] = m.player[b]
  BY <1>1, <1>4
<1>7. /\ left \in [Links -> [Slots -> Accounts \cup {NoAccount}]]
      /\ \A l \in Links, i \in Slots :
             left[l][i] # NoAccount => /\ left[l][i] = m.uuids[l][i]
                                       /\ ~(l = old.link /\ i = old.pos)
  <2>1. CASE old.link = NoLink
    BY <1>1, <2>1, Constants
  <2>2. CASE old.link # NoLink
    <3>1. old.link \in Links /\ old.pos \in Slots
      BY <1>1, <1>2, <2>2 DEF PlayerRecords, Good, Named
    <3>2. left = [m.uuids EXCEPT ![old.link] = [m.uuids[old.link] EXCEPT ![old.pos] = NoAccount]]
      BY <1>1, <2>2
    <3>3. QED
      BY <1>1, <3>1, <3>2
  <2>3. QED
    BY <2>1, <2>2
<1> HIDE DEF left
<1>8. /\ uuids \in [Links -> [Slots -> Accounts \cup {NoAccount}]]
      /\ \A l \in Links, i \in Slots :
             uuids[l][i] = IF l = j.link /\ i = j.pos THEN a ELSE left[l][i]
  <2>1. uuids = [left EXCEPT ![j.link] = [left[j.link] EXCEPT ![j.pos] = a]]
    BY <1>1, <1>7
  <2>2. QED
    BY <1>1, <1>7, <2>1
<1> HIDE DEF uuids, player
<1>9. /\ n \in Masters /\ n.player = player /\ n.uuids = uuids /\ n.links = m.links
      /\ n.waiting = m.waiting /\ n.jobs = m.jobs
  BY <1>1, <1>6, <1>8 DEF Masters
<1> HIDE DEF n
<1>10. OnlyPlayer(m, n, a) /\ n.player[a] = p
  BY <1>6, <1>9 DEF OnlyPlayer
<1>11. Named(n, open)
  <2>1. \A b \in Accounts : n.player[b].link # NoLink => n.player[b].pos \in Slots
    BY <1>1, <1>4, <1>6, <1>9 DEF Good, Named
  <2>2. ASSUME NEW l \in Links, NEW i \in Slots, n.uuids[l][i] # NoAccount
        PROVE  /\ l \in open /\ n.player[n.uuids[l][i]].link = l
               /\ n.player[n.uuids[l][i]].pos = i
    <3>1. CASE l = j.link /\ i = j.pos
      BY <1>4, <1>6, <1>8, <1>9, <3>1
    <3>2. CASE ~(l = j.link /\ i = j.pos)
      <4> DEFINE b == m.uuids[l][i]
      <4>1. n.uuids[l][i] = b /\ b # NoAccount /\ ~(l = old.link /\ i = old.pos)
        BY <1>7, <1>8, <1>9, <2>2, <3>2
      <4>2. b \in Accounts /\ l \in open /\ m.player[b].link = l /\ m.player[b].pos = i
        BY <1>1, <4>1 DEF Good, Named
      <4>3. b # a
        BY <1>2, <4>1, <4>2, Constants
      <4>4. QED
        BY <1>6, <1>9, <4>1, <4>2, <4>3
    <3>3. QED
      BY <3>1, <3>2
  <2>3. QED
    BY <2>1, <2>2 DEF Named
<1>12. a \in Spared => PlayerOK(p, m.jobs, rest, a)
  BY <1>2, <1>4, AlikeOK
<1>13. Good(n, rest, open)
  BY <1>1, <1>10, <1>11, <1>12, OnePlayerGood
<1>14. QED
  BY <1>3, <1>5, <1>9, <1>13, SendGood DEF OnlyOut

-----------------------------------------------------------------------------
(* Waiting joins: JoinDone, Resolve.                                        *)
Waits(m, q) == [m EXCEPT !.waiting = q]

LEMMA WaitsGood ==
    ASSUME NEW m, NEW rest, NEW open, Good(m, rest, open),
           NEW q \in Seq(Joins), \A i \in DOMAIN q : JoinRead(q[i])
    PROVE  /\ Good(Waits(m, q), rest, open) /\ Waits(m, q).waiting = q
           /\ Waits(m, q).links = m.links /\ Waits(m, q).jobs = m.jobs
           /\ Waits(m, q).player = m.player
<1> DEFINE n == Waits(m, q)
<1>1. /\ n \in Masters /\ n.waiting = q /\ n.links = m.links /\ n.jobs = m.jobs
      /\ n.player = m.player /\ n.uuids = m.uuids
  BY DEF Waits, Good, Masters
<1> HIDE DEF n
<1>2. Good(n, rest, open)
  BY <1>1 DEF Good, Named
<1>3. QED
  BY <1>1, <1>2 DEF n

LEMMA JoinDoneGood ==
    ASSUME NEW m, NEW rest, NEW open, Good(m, rest, open), m.links \subseteq open,
           NEW i \in rest, done[i] \in Joins, JoinOK(done[i])
    PROVE  /\ Good(JoinDone(m, done[i]), rest \ {i}, open)
           /\ JoinDone(m, done[i]).links = m.links /\ JoinDone(m, done[i]).jobs = m.jobs
<1> DEFINE j == done[i]
           msg == [type |-> "kick", pos |-> j.pos, nonce |-> j.nonce]
<1>1. Good(m, rest \ {i}, open)
  <2>1. \A b : ~FlushAt(done, i, b)
    BY DEF FlushAt, Joins
  <2>2. QED
    BY <2>1, RestShrinks DEF Good
<1>2. j \in Joins /\ j.acct \in Accounts /\ msg \in Answers /\ m \in Masters
  BY DEF Joins, Answers, Good
<1> HIDE DEF j
<1>3. CASE j.link \notin m.links
  BY <1>1, <1>3 DEF JoinDone, j
<1>4. CASE j.link \in m.links /\ ~j.ok
  <2>1. JoinDone(m, j) = Send(m, j.link, msg)
    BY <1>4 DEF JoinDone, SendKick
  <2> HIDE DEF msg
  <2>2. QED
    BY <1>1, <1>2, <2>1, SendGood DEF OnlyOut, j
<1>5. CASE j.link \in m.links /\ j.ok /\ Online(m, j.acct)
  <2> DEFINE k == KickSession(m, j.acct)
             q == <<j>> \o k.waiting
  <2>1. /\ Good(k, rest \ {i}, open) /\ k.links = m.links /\ k.jobs = m.jobs
    BY <1>1, <1>2, <1>5, KickSessionGood DEF OnlyOut
  <2>2. JoinDone(m, j) = Waits(k, q)
    BY <1>5 DEF JoinDone, Waits
  <2> HIDE DEF k
  <2>3. k.waiting \in Seq(Joins) /\ \A h \in DOMAIN k.waiting : JoinRead(k.waiting[h])
    BY <2>1 DEF Good, Masters
  <2>4. JoinRead(j)
    BY <1>2, <1>5 DEF JoinOK, Joins, j
  <2>5. /\ q \in Seq(Joins) /\ DOMAIN q = 1 .. Len(k.waiting) + 1 /\ q[1] = j
        /\ \A h \in DOMAIN q : h # 1 => q[h] = k.waiting[h - 1]
    BY <1>2, <2>3
  <2>6. \A h \in DOMAIN q : JoinRead(q[h])
    <3>1. DOMAIN k.waiting = 1 .. Len(k.waiting) /\ Len(k.waiting) \in Nat
      BY <2>3
    <3> HIDE DEF q
    <3>2. \A h \in DOMAIN q : h # 1 => h - 1 \in DOMAIN k.waiting
      BY <2>5, <3>1
    <3>3. QED
      BY <2>3, <2>4, <2>5, <3>2
  <2> HIDE DEF q
  <2>7. QED
    BY <2>1, <2>2, <2>5, <2>6, WaitsGood DEF j
<1>6. CASE j.link \in m.links /\ j.ok /\ ~Online(m, j.acct)
  <2>1. JoinDone(m, j) = Adopt(m, j)
    BY <1>6 DEF JoinDone
  <2>2. JoinRead(j) /\ j.link \in open
    BY <1>2, <1>6 DEF JoinOK, Joins, j
  <2>3. QED
    BY <1>1, <1>2, <2>1, <2>2, AdoptGood DEF j
<1>7. QED
  BY <1>3, <1>4, <1>5, <1>6

\* One turn of the loop over the waiting joins.
ResolveOne(n, j) ==
    IF Online(n, j.acct) /\ ~j.late THEN [n EXCEPT !.waiting = Append(@, j)]
    ELSE IF j.link \in n.links THEN Adopt(n, j)
    ELSE n

\* Good states with the given links; nothing else is kept by every loop.
GoodOnes(rest, open, links) == {n \in Masters : Good(n, rest, open) /\ n.links = links}

LEMMA ResolveOneGood ==
    ASSUME NEW rest, NEW open, NEW links, links \subseteq open,
           NEW n \in GoodOnes(rest, open, links), NEW j \in Joins, JoinRead(j)
    PROVE  ResolveOne(n, j) \in GoodOnes(rest, open, links)
<1>1. n \in Masters /\ Good(n, rest, open) /\ n.links = links
  BY DEF GoodOnes
<1>2. CASE Online(n, j.acct) /\ ~j.late
  <2> DEFINE q == Append(n.waiting, j)
  <2>1. n.waiting \in Seq(Joins) /\ \A h \in DOMAIN n.waiting : JoinRead(n.waiting[h])
    BY <1>1 DEF Good, Masters
  <2>2. q \in Seq(Joins) /\ \A h \in DOMAIN q : JoinRead(q[h])
    BY <2>1, Appended
  <2>3. ResolveOne(n, j) = Waits(n, q)
    BY <1>2 DEF ResolveOne, Waits
  <2> HIDE DEF q
  <2>4. Good(Waits(n, q), rest, open) /\ Waits(n, q).links = links
    BY <1>1, <2>2, WaitsGood
  <2>5. QED
    BY <2>3, <2>4 DEF GoodOnes, Good
<1>3. CASE ~(Online(n, j.acct) /\ ~j.late) /\ j.link \in n.links
  <2>1. ResolveOne(n, j) = Adopt(n, j)
    BY <1>3 DEF ResolveOne
  <2>2. QED
    BY <1>1, <1>3, <2>1, AdoptGood DEF GoodOnes, Good
<1>4. CASE ~(Online(n, j.acct) /\ ~j.late) /\ j.link \notin n.links
  BY <1>4 DEF ResolveOne
<1>5. QED
  BY <1>2, <1>3, <1>4

\* The greatest of some numbers of a sequence is one of them.
LEMMA MaxIsOne ==
    ASSUME NEW n \in Nat, NEW s \in SUBSET (1 .. n), s # {}
    PROVE  Max(s) \in s
<1> DEFINE T == {n - i : i \in s}
<1>1. PICK k \in T : \A h \in T : k <= h
  <2>1. T \in SUBSET Nat /\ T # {}
    <3>1. \A i \in s : i \in Nat /\ n - i \in Nat
      OBVIOUS
    <3>2. QED
      BY <3>1
  <2> HIDE DEF T
  <2>2. QED
    BY <2>1, Least
<1>2. PICK i \in s : k = n - i
  BY <1>1
<1>3. \A h \in s : i >= h
  <2>1. \A h \in s : h \in Int /\ n - h \in T
    OBVIOUS
  <2> HIDE DEF T
  <2>2. \A h \in s : n - i <= n - h
    BY <1>1, <1>2, <2>1
  <2>3. QED
    BY <2>1, <2>2
<1>4. QED
  BY <1>3 DEF Max

LEMMA ResolveGood ==
    ASSUME NEW m, NEW rest, NEW open, Good(m, rest, open), m.links \subseteq open
    PROVE  Good(Resolve(m), rest, open) /\ Resolve(m).links = m.links
<1> DEFINE q == m.waiting
           S == DOMAIN q
           X == GoodOnes(rest, open, m.links)
           I == [s \in SUBSET S |-> X]
           start == Waits(m, <<>>)
           pick == [s \in SUBSET S |-> Max(s)]
           g == [i \in S |-> [n \in X |-> ResolveOne(n, q[i])]]
           Body(f, s) == IF s = {} THEN start
                         ELSE ResolveOne(f[s \ {Max(s)}], q[Max(s)])
           it == CHOOSE f : f = [s \in SUBSET S |-> Body(f, s)]
<1>1. Resolve(m) = it[S]
  BY DEF Resolve, FoldLeft, MapThenFoldSet, ResolveOne, Waits
<1>2. /\ q \in Seq(Joins) /\ m.links \subseteq open
      /\ \A i \in S : q[i] \in Joins /\ JoinRead(q[i])
  BY DEF Good, Masters
<1>3. /\ S = 1 .. Len(q) /\ Len(q) \in Nat /\ IsFiniteSet(S)
  BY <1>2, FS_Interval
<1>4. start \in X
  <2>1. <<>> \in Seq(Joins) /\ DOMAIN <<>> = {}
    OBVIOUS
  <2>2. QED
    BY <2>1, WaitsGood DEF GoodOnes, Good
<1>5. \A s \in SUBSET S : s # {} => Max(s) \in s
  BY <1>3, MaxIsOne
<1> HIDE DEF start, q, S
<1>6. \A i \in S : \A n \in X : ResolveOne(n, q[i]) \in X
  BY <1>2, ResolveOneGood
<1> HIDE DEF X
<1>7. \E f : f = [s \in SUBSET S |-> Body(f, s)]
  <2>1. \E f : IsFold(f, SUBSET S, start, pick, g) /\ \A s \in SUBSET S : f[s] \in I[s]
    <3>1. \A s \in SUBSET S : s # {} =>
              pick[s] \in s /\ \A x \in I[s \ {pick[s]}] : g[pick[s]][x] \in I[s]
      BY <1>5, <1>6
    <3>2. start \in I[{}]
      BY <1>4
    <3> HIDE DEF I, pick, g
    <3>3. QED
      BY <1>3, <3>1, <3>2, FoldExists
  <2>2. PICK f : IsFold(f, SUBSET S, start, pick, g) /\ \A s \in SUBSET S : f[s] \in I[s]
    BY <2>1
  <2>3. f = [s \in SUBSET S |-> IF s = {} THEN start ELSE g[pick[s]][f[s \ {pick[s]}]]]
    BY <2>2 DEF IsFold
  <2>4. ASSUME NEW s \in SUBSET S
        PROVE  Body(f, s) = IF s = {} THEN start ELSE g[pick[s]][f[s \ {pick[s]}]]
    <3>1. CASE s = {}
      BY <3>1
    <3>2. CASE s # {}
      <4>1. pick[s] = Max(s) /\ Max(s) \in S /\ f[s \ {Max(s)}] \in X
        BY <1>5, <2>2, <3>2
      <4> HIDE DEF pick
      <4>2. QED
        BY <3>2, <4>1
    <3>3. QED
      BY <3>1, <3>2
  <2> HIDE DEF Body, g, pick
  <2>5. f = [s \in SUBSET S |-> Body(f, s)]
    BY <2>3, <2>4
  <2>6. QED
    BY <2>5
<1>8. it = [s \in SUBSET S |-> Body(it, s)]
  <2> HIDE DEF Body
  <2>1. QED
    BY <1>7
<1> HIDE DEF it
<1>9. it[{}] \in I[{}]
  BY <1>4, <1>8
<1>10. ASSUME NEW s \in SUBSET S, s # {}
       PROVE  /\ pick[s] \in s
              /\ it[s \ {pick[s]}] \in I[s \ {pick[s]}] => it[s] \in I[s]
  <2>1. pick[s] = Max(s) /\ Max(s) \in s /\ Max(s) \in S
    BY <1>5, <1>10
  <2>2. it[s] = ResolveOne(it[s \ {Max(s)}], q[Max(s)])
    BY <1>8, <1>10
  <2> HIDE DEF pick
  <2>3. QED
    BY <1>6, <2>1, <2>2
<1>11. it[S] \in I[S]
  <2> HIDE DEF I, pick
  <2>1. QED
    BY <1>3, <1>9, <1>10, FoldStays
<1>12. QED
  BY <1>1, <1>11 DEF X, GoodOnes

-----------------------------------------------------------------------------
(* A session ends: PlayerLeft, KickUuid.                                    *)

\* Who has nothing to save can be forgotten.
LEMMA ForgottenOK ==
    ASSUME NEW p, NEW jobs, NEW rest, NEW a, PlayerOK(p, jobs, rest, a),
           ~Dirty(p), ~p.flushing
    PROVE  PlayerOK(NoPlayer, jobs, rest, a)
<1>1. /\ NoPlayer.flushing = FALSE /\ NoPlayer.deleted = FALSE
      /\ NoPlayer.version = 0 /\ NoPlayer.flushed = 0
  BY DEF NoPlayer
<1>2. OneFlush(NoPlayer, jobs, rest, a)
  BY <1>1 DEF PlayerOK, OneFlush
<1>3. /\ \A i \in DOMAIN jobs : FlushOK(jobs, i, NoPlayer, a)
      /\ \A i \in rest : FlushOK(done, i, NoPlayer, a)
  BY <1>1, <1>2 DEF OneFlush, FlushOK
<1>4. Old(a) => PlayerSaved(NoPlayer, a)
  BY <1>1 DEF PlayerOK, PlayerSaved, Dirty
<1>5. QED
  BY <1>1, <1>2, <1>3, <1>4 DEF PlayerOK

Offline(m, a) ==
    [m EXCEPT !.uuids[m.player[a].link][m.player[a].pos] = NoAccount,
              !.player[a].link = NoLink]

LEMMA OfflineGood ==
    ASSUME NEW m, NEW rest, NEW open, Good(m, rest, open), NEW a \in Accounts, Online(m, a)
    PROVE  /\ Good(Offline(m, a), rest, open) /\ Offline(m, a).links = m.links
           /\ Offline(m, a).player[a] = [m.player[a] EXCEPT !.link = NoLink]
<1> DEFINE p == m.player[a]
           q == [p EXCEPT !.link = NoLink]
           uuids == [m.uuids EXCEPT ![p.link][p.pos] = NoAccount]
           player == [m.player EXCEPT ![a] = q]
           n == [m EXCEPT !.uuids = uuids, !.player = player]
<1>1. /\ m \in Masters /\ p \in PlayerRecords /\ m.player \in [Accounts -> PlayerRecords]
      /\ m.uuids \in [Links -> [Slots -> Accounts \cup {NoAccount}]]
      /\ p.link \in Links /\ p.pos \in Slots
  BY DEF Good, Masters, Online, PlayerRecords, Named
<1>2. Offline(m, a) = n
  BY <1>1 DEF Offline, Masters
<1>3. q \in PlayerRecords /\ Alike(p, q) /\ q.link = NoLink
  BY <1>1 DEF PlayerRecords, Alike
<1>4. /\ uuids \in [Links -> [Slots -> Accounts \cup {NoAccount}]]
      /\ \A l \in Links, i \in Slots :
             uuids[l][i] = IF l = p.link /\ i = p.pos THEN NoAccount ELSE m.uuids[l][i]
  <2>1. uuids = [m.uuids EXCEPT ![p.link] = [m.uuids[p.link] EXCEPT ![p.pos] = NoAccount]]
    BY <1>1
  <2>2. QED
    BY <1>1, <2>1
<1>5. q = [m.player[a] EXCEPT !.link = NoLink]
  OBVIOUS
<1> HIDE DEF q, uuids
<1>6. /\ player \in [Accounts -> PlayerRecords] /\ player[a] = q
      /\ \A b \in Accounts \ {a} : player[b] = m.player[b]
  BY <1>1, <1>3
<1> HIDE DEF player
<1>7. /\ n \in Masters /\ n.player = player /\ n.uuids = uuids /\ n.links = m.links
      /\ n.waiting = m.waiting /\ n.jobs = m.jobs
  BY <1>1, <1>4, <1>6 DEF Masters
<1> HIDE DEF n
<1>8. OnlyPlayer(m, n, a)
  BY <1>6, <1>7 DEF OnlyPlayer
<1>9. Named(n, open)
  <2>1. \A b \in Accounts : n.player[b].link # NoLink => n.player[b].pos \in Slots
    BY <1>3, <1>6, <1>7 DEF Good, Named
  <2>2. ASSUME NEW l \in Links, NEW i \in Slots, n.uuids[l][i] # NoAccount
        PROVE  /\ l \in open /\ n.player[n.uuids[l][i]].link = l
               /\ n.player[n.uuids[l][i]].pos = i
    <3> DEFINE b == m.uuids[l][i]
    <3>1. n.uuids[l][i] = b /\ b # NoAccount /\ ~(l = p.link /\ i = p.pos)
      BY <1>4, <1>7, <2>2
    <3>2. b \in Accounts /\ l \in open /\ m.player[b].link = l /\ m.player[b].pos = i
      BY <1>1, <3>1 DEF Good, Named
    <3>3. b # a
      BY <3>1, <3>2
    <3>4. QED
      BY <1>6, <1>7, <3>1, <3>2, <3>3
  <2>3. QED
    BY <2>1, <2>2 DEF Named
<1>10. a \in Spared => PlayerOK(q, m.jobs, rest, a)
  <2>1. a \in Spared => PlayerOK(p, m.jobs, rest, a)
    BY DEF Good
  <2>2. QED
    BY <1>3, <2>1, AlikeOK
<1>11. Good(n, rest, open)
  BY <1>6, <1>7, <1>8, <1>9, <1>10, OnePlayerGood
<1>12. QED
  BY <1>2, <1>5, <1>6, <1>7, <1>11

\* A player who is offline is forgotten.
LEMMA ForgetGood ==
    ASSUME NEW m, NEW rest, NEW open, Good(m, rest, open), NEW a \in Accounts,
           ~Online(m, a), a \in Spared => ~Dirty(m.player[a]) /\ ~m.player[a].flushing
    PROVE  /\ Good(Replace(m, a, NoPlayer), rest, open)
           /\ Replace(m, a, NoPlayer).links = m.links
<1> DEFINE n == Replace(m, a, NoPlayer)
<1>1. m \in Masters /\ NoPlayer \in PlayerRecords /\ NoPlayer.link = NoLink
  BY NoPlayerIsOne DEF Good, NoPlayer
<1>2. OnlyPlayer(m, n, a) /\ n.player[a] = NoPlayer /\ n.uuids = m.uuids
  BY <1>1, ReplaceOnly
<1> HIDE DEF n
<1>3. Named(n, open)
  BY <1>1, <1>2, NamedWithout DEF Good, Online
<1>4. a \in Spared => PlayerOK(NoPlayer, m.jobs, rest, a)
  BY ForgottenOK DEF Good
<1>5. QED
  BY <1>2, <1>3, <1>4, OnePlayerGood DEF OnlyPlayer, n

LEMMA PlayerLeftGood ==
    ASSUME NEW m, NEW rest, NEW open, Good(m, rest, open), m.links \subseteq open,
           NEW a \in Accounts, Online(m, a)
    PROVE  Good(PlayerLeft(m, a), rest, open) /\ PlayerLeft(m, a).links = m.links
<1> DEFINE p == m.player[a]
           out == Offline(m, a)
           k == IF p.deleted \/ (~Dirty(p) /\ ~p.flushing) THEN Replace(out, a, NoPlayer)
                ELSE StartFlush(out, a)
<1>1. /\ Good(out, rest, open) /\ out.links = m.links
      /\ out.player[a] = [p EXCEPT !.link = NoLink]
  BY OfflineGood
<1>2. p \in PlayerRecords
  BY DEF Good, Masters
<1>3. PlayerLeft(m, a) = Resolve(k)
  BY DEF PlayerLeft, Replace, Offline
<1> HIDE DEF out
<1>4. /\ out.player[a].link = NoLink /\ out.player[a].deleted = p.deleted
      /\ out.player[a].flushing = p.flushing /\ (Dirty(out.player[a]) <=> Dirty(p))
  BY <1>1, <1>2 DEF PlayerRecords, Dirty
<1>5. Good(k, rest, open) /\ k.links = m.links
  <2>1. CASE p.deleted \/ (~Dirty(p) /\ ~p.flushing)
    <3>1. a \in Spared => ~p.deleted
      BY DEF Good, PlayerOK
    <3>2. ~Online(out, a)
      BY <1>4 DEF Online
    <3>3. a \in Spared => ~Dirty(out.player[a]) /\ ~out.player[a].flushing
      BY <1>4, <2>1, <3>1
    <3>4. k = Replace(out, a, NoPlayer)
      BY <2>1
    <3> HIDE DEF k, p
    <3>5. QED
      BY <1>1, <3>2, <3>3, <3>4, ForgetGood
  <2>2. CASE ~(p.deleted \/ (~Dirty(p) /\ ~p.flushing))
    BY <1>1, <2>2, StartFlushGood
  <2>3. QED
    BY <2>1, <2>2
<1> HIDE DEF k
<1>6. QED
  BY <1>3, <1>5, ResolveGood

LEMMA KickUuidGood ==
    ASSUME NEW m, NEW rest, NEW open, Good(m, rest, open),
           NEW k \in Kicks, k.drop => k.acct \notin Spared
    PROVE  Good(KickUuid(m, k), rest, open) /\ KickUuid(m, k).links = m.links
<1> DEFINE a == k.acct
           p == m.player[a]
           q == [p EXCEPT !.deleted = TRUE, !.flushed = p.version]
           dropped == Replace(m, a, q)
<1>1. a \in Accounts /\ m \in Masters /\ p \in PlayerRecords
  BY DEF Kicks, Good, Masters
<1>2. CASE ~Cached(m, a)
  BY <1>2 DEF KickUuid
<1>3. CASE Cached(m, a) /\ ~k.drop
  <2>1. KickUuid(m, k) = IF Online(m, a) THEN KickSession(m, a) ELSE m
    BY <1>3 DEF KickUuid
  <2>2. QED
    BY <1>1, <2>1, KickSessionGood DEF OnlyOut
<1>4. CASE Cached(m, a) /\ k.drop
  <2>1. KickUuid(m, k) = IF Online(m, a) THEN KickSession(dropped, a)
                         ELSE IF p.flushing THEN dropped
                         ELSE Replace(m, a, NoPlayer)
    BY <1>1, <1>4 DEF KickUuid, Replace, Masters
  <2>2. q \in PlayerRecords /\ q.link = p.link /\ q.pos = p.pos
    BY <1>1 DEF PlayerRecords
  <2> HIDE DEF q
  <2>3. OnlyPlayer(m, dropped, a) /\ dropped.player[a] = q /\ dropped.uuids = m.uuids
    BY <1>1, <2>2, ReplaceOnly
  <2>4. Named(dropped, open)
    BY <1>1, <2>2, <2>3, NamedStill DEF Good
  <2>5. a \notin Spared
    BY <1>4
  <2> HIDE DEF dropped
  <2>6. Good(dropped, rest, open) /\ dropped.links = m.links
    BY <1>1, <2>3, <2>4, <2>5, OnePlayerGood DEF OnlyPlayer
  <2>7. CASE Online(m, a)
    <3>1. Online(dropped, a)
      BY <2>2, <2>3, <2>7 DEF Online
    <3>2. QED
      BY <1>1, <2>1, <2>6, <2>7, <3>1, KickSessionGood DEF OnlyOut
  <2>8. CASE ~Online(m, a)
    BY <1>1, <2>1, <2>5, <2>6, <2>8, ForgetGood
  <2>9. QED
    BY <2>7, <2>8
<1>5. QED
  BY <1>2, <1>3, <1>4

-----------------------------------------------------------------------------
(* The round of the event loop: the completions, then ms_games_tick.        *)
LEMMA KicksGood ==
    ASSUME NEW m, NEW rest, NEW open, Good(m, rest, open), kicks \in Seq(Kicks), KicksSpare
    PROVE  /\ Good(FoldLeft(KickUuid, m, kicks), rest, open)
           /\ FoldLeft(KickUuid, m, kicks).links = m.links
<1> DEFINE S == DOMAIN kicks
           X == GoodOnes(rest, open, m.links)
           start == m
           I == [s \in SUBSET S |-> X]
           Top(s) == Max(s)
           Turn(n, i) == KickUuid(n, kicks[i])
           pick == [s \in SUBSET S |-> Top(s)]
           g == [i \in S |-> [n \in X |-> Turn(n, i)]]
           Body(f, s) == IF s = {} THEN start ELSE Turn(f[s \ {Top(s)}], Top(s))
           it == CHOOSE f : f = [s \in SUBSET S |-> Body(f, s)]
<1>1. FoldLeft(KickUuid, m, kicks) = it[S]
  BY DEF FoldLeft, MapThenFoldSet
<1>2. S = 1 .. Len(kicks) /\ Len(kicks) \in Nat /\ IsFiniteSet(S)
  BY FS_Interval
<1>3. start \in X
  BY DEF GoodOnes, Good
<1>4. \A s \in SUBSET S : s # {} => Top(s) \in s
  BY <1>2, MaxIsOne
<1>5. \A i \in S : \A n \in X : Turn(n, i) \in X
  <2>1. \A i \in S : kicks[i] \in Kicks /\ (kicks[i].drop => kicks[i].acct \notin Spared)
    BY DEF KicksSpare
  <2> HIDE DEF S
  <2>2. ASSUME NEW i \in S, NEW n \in X
        PROVE  Turn(n, i) \in X
    <3>1. Good(n, rest, open) /\ n.links = m.links
      BY DEF GoodOnes
    <3>2. Good(KickUuid(n, kicks[i]), rest, open) /\ KickUuid(n, kicks[i]).links = m.links
      BY <2>1, <3>1, KickUuidGood
    <3>3. QED
      BY <3>2 DEF GoodOnes, Good
  <2>3. QED
    BY <2>2
<1> HIDE DEF start, S, X, Top, Turn
<1>6. \E f : f = [s \in SUBSET S |-> Body(f, s)]
  <2>1. \E f : IsFold(f, SUBSET S, start, pick, g) /\ \A s \in SUBSET S : f[s] \in I[s]
    <3>1. \A s \in SUBSET S : s # {} =>
              pick[s] \in s /\ \A x \in I[s \ {pick[s]}] : g[pick[s]][x] \in I[s]
      BY <1>4, <1>5
    <3>2. start \in I[{}]
      BY <1>3
    <3> HIDE DEF I, pick, g
    <3>3. QED
      BY <1>2, <3>1, <3>2, FoldExists
  <2>2. PICK f : IsFold(f, SUBSET S, start, pick, g) /\ \A s \in SUBSET S : f[s] \in I[s]
    BY <2>1
  <2>3. f = [s \in SUBSET S |-> IF s = {} THEN start ELSE g[pick[s]][f[s \ {pick[s]}]]]
    BY <2>2 DEF IsFold
  <2>4. ASSUME NEW s \in SUBSET S
        PROVE  Body(f, s) = IF s = {} THEN start ELSE g[pick[s]][f[s \ {pick[s]}]]
    <3>1. CASE s = {}
      BY <3>1
    <3>2. CASE s # {}
      <4>1. pick[s] = Top(s) /\ Top(s) \in S /\ f[s \ {Top(s)}] \in X
        BY <1>4, <2>2, <3>2
      <4> HIDE DEF pick
      <4>2. QED
        BY <3>2, <4>1
    <3>3. QED
      BY <3>1, <3>2
  <2> HIDE DEF Body, g, pick
  <2>5. f = [s \in SUBSET S |-> Body(f, s)]
    BY <2>3, <2>4
  <2>6. QED
    BY <2>5
<1>7. it = [s \in SUBSET S |-> Body(it, s)]
  <2> HIDE DEF Body
  <2>1. QED
    BY <1>6
<1> HIDE DEF it
<1>8. it[{}] \in I[{}]
  BY <1>3, <1>7
<1>9. ASSUME NEW s \in SUBSET S, s # {}
       PROVE  /\ pick[s] \in s
              /\ it[s \ {pick[s]}] \in I[s \ {pick[s]}] => it[s] \in I[s]
  <2>1. pick[s] = Top(s) /\ Top(s) \in s /\ Top(s) \in S
    BY <1>4, <1>9
  <2>2. it[s] = Turn(it[s \ {Top(s)}], Top(s))
    BY <1>7, <1>9
  <2> HIDE DEF pick
  <2>3. QED
    BY <1>5, <2>1, <2>2
<1>10. it[S] \in I[S]
  <2> HIDE DEF I, pick
  <2>1. QED
    BY <1>2, <1>8, <1>9, FoldStays
<1>11. QED
  BY <1>1, <1>10 DEF X, GoodOnes

LEMMA FlushDueGood ==
    ASSUME NEW m, NEW rest, NEW open, Good(m, rest, open), NEW due
    PROVE  /\ Good(FlushDue(m, due), rest, open)
           /\ FlushDue(m, due).links = m.links
<1> DEFINE S == Accounts
           X == GoodOnes(rest, open, m.links)
           start == m
           I == [s \in SUBSET S |-> X]
           Top(s) == CHOOSE x \in s : TRUE
           Turn(n, i) == IF ~Online(n, i) \/ i \in due THEN StartFlush(n, i) ELSE n
           pick == [s \in SUBSET S |-> Top(s)]
           g == [i \in S |-> [n \in X |-> Turn(n, i)]]
           Body(f, s) == IF s = {} THEN start ELSE Turn(f[s \ {Top(s)}], Top(s))
           it == CHOOSE f : f = [s \in SUBSET S |-> Body(f, s)]
<1>1. FlushDue(m, due) = it[S]
  BY DEF FlushDue, FoldSet, MapThenFoldSet
<1>2. IsFiniteSet(S)
  BY Constants
<1>3. start \in X
  BY DEF GoodOnes, Good
<1>4. \A s \in SUBSET S : s # {} => Top(s) \in s
  OBVIOUS
<1>5. \A i \in S : \A n \in X : Turn(n, i) \in X
  <2>1. ASSUME NEW i \in S, NEW n \in X
        PROVE  Turn(n, i) \in X
    <3>1. Good(n, rest, open) /\ n.links = m.links
      BY DEF GoodOnes
    <3>2. Good(Turn(n, i), rest, open) /\ Turn(n, i).links = m.links
      BY <3>1, StartFlushGood
    <3> HIDE DEF Turn
    <3>3. QED
      BY <3>2 DEF GoodOnes, Good
  <2>2. QED
    BY <2>1
<1> HIDE DEF start, S, X, Top, Turn
<1>6. \E f : f = [s \in SUBSET S |-> Body(f, s)]
  <2>1. \E f : IsFold(f, SUBSET S, start, pick, g) /\ \A s \in SUBSET S : f[s] \in I[s]
    <3>1. \A s \in SUBSET S : s # {} =>
              pick[s] \in s /\ \A x \in I[s \ {pick[s]}] : g[pick[s]][x] \in I[s]
      BY <1>4, <1>5
    <3>2. start \in I[{}]
      BY <1>3
    <3> HIDE DEF I, pick, g
    <3>3. QED
      BY <1>2, <3>1, <3>2, FoldExists
  <2>2. PICK f : IsFold(f, SUBSET S, start, pick, g) /\ \A s \in SUBSET S : f[s] \in I[s]
    BY <2>1
  <2>3. f = [s \in SUBSET S |-> IF s = {} THEN start ELSE g[pick[s]][f[s \ {pick[s]}]]]
    BY <2>2 DEF IsFold
  <2>4. ASSUME NEW s \in SUBSET S
        PROVE  Body(f, s) = IF s = {} THEN start ELSE g[pick[s]][f[s \ {pick[s]}]]
    <3>1. CASE s = {}
      BY <3>1
    <3>2. CASE s # {}
      <4>1. pick[s] = Top(s) /\ Top(s) \in S /\ f[s \ {Top(s)}] \in X
        BY <1>4, <2>2, <3>2
      <4> HIDE DEF pick
      <4>2. QED
        BY <3>2, <4>1
    <3>3. QED
      BY <3>1, <3>2
  <2> HIDE DEF Body, g, pick
  <2>5. f = [s \in SUBSET S |-> Body(f, s)]
    BY <2>3, <2>4
  <2>6. QED
    BY <2>5
<1>7. it = [s \in SUBSET S |-> Body(it, s)]
  <2> HIDE DEF Body
  <2>1. QED
    BY <1>6
<1> HIDE DEF it
<1>8. it[{}] \in I[{}]
  BY <1>3, <1>7
<1>9. ASSUME NEW s \in SUBSET S, s # {}
       PROVE  /\ pick[s] \in s
              /\ it[s \ {pick[s]}] \in I[s \ {pick[s]}] => it[s] \in I[s]
  <2>1. pick[s] = Top(s) /\ Top(s) \in s /\ Top(s) \in S
    BY <1>4, <1>9
  <2>2. it[s] = Turn(it[s \ {Top(s)}], Top(s))
    BY <1>7, <1>9
  <2> HIDE DEF pick
  <2>3. QED
    BY <1>5, <2>1, <2>2
<1>10. it[S] \in I[S]
  <2> HIDE DEF I, pick
  <2>1. QED
    BY <1>2, <1>8, <1>9, FoldStays
<1>11. QED
  BY <1>1, <1>10 DEF X, GoodOnes

\* One completion is handled.
Completion(n, j) == IF j.kind = "flush" THEN FlushDone(n, j) ELSE JoinDone(n, j)

LEMMA CompletionGood ==
    ASSUME NEW m, NEW rest, NEW open, Good(m, rest, open), m.links \subseteq open,
           NEW i \in rest, done[i] \in Jobs, JoinOK(done[i])
    PROVE  /\ Good(Completion(m, done[i]), rest \ {i}, open)
           /\ Completion(m, done[i]).links = m.links
           /\ Completion(m, done[i]).jobs = m.jobs
<1>1. CASE done[i] \in Flushes
  <2>1. Completion(m, done[i]) = FlushDone(m, done[i])
    BY <1>1 DEF Flushes, Completion
  <2>2. /\ Good(FlushDone(m, done[i]), rest \ {i}, open)
        /\ FlushDone(m, done[i]).links = m.links /\ FlushDone(m, done[i]).jobs = m.jobs
    BY <1>1, FlushDoneGood
  <2>3. QED
    BY <2>1, <2>2
<1>2. CASE done[i] \in Joins
  <2>1. Completion(m, done[i]) = JoinDone(m, done[i])
    BY <1>2 DEF Joins, Completion
  <2>2. /\ Good(JoinDone(m, done[i]), rest \ {i}, open)
        /\ JoinDone(m, done[i]).links = m.links /\ JoinDone(m, done[i]).jobs = m.jobs
    BY <1>2, JoinDoneGood
  <2>3. QED
    BY <2>1, <2>2
<1>3. QED
  BY <1>1, <1>2 DEF Jobs

LEMMA DrainDoneGood ==
    ASSUME NEW m, NEW open, Good(m, DOMAIN done, open), m.links \subseteq open,
           done \in Seq(Jobs), DoneRead
    PROVE  /\ Good(DrainDone(m), {}, open)
           /\ DrainDone(m).links = m.links /\ DrainDone(m).jobs = m.jobs
<1> DEFINE S == DOMAIN done
           start == m
           I == [s \in SUBSET S |->
                    {n \in GoodOnes(S \ s, open, m.links) : n.jobs = m.jobs}]
           Top(s) == Max(s)
           Turn(n, i) == Completion(n, done[i])
           pick == [s \in SUBSET S |-> Top(s)]
           g == [i \in S |-> [n \in Masters |-> Turn(n, i)]]
           Body(f, s) == IF s = {} THEN start ELSE Turn(f[s \ {Top(s)}], Top(s))
           it == CHOOSE f : f = [s \in SUBSET S |-> Body(f, s)]
<1>1. DrainDone(m) = it[S]
  BY DEF DrainDone, FoldLeft, MapThenFoldSet, Completion
<1>2. S = 1 .. Len(done) /\ Len(done) \in Nat /\ IsFiniteSet(S)
  BY FS_Interval
<1>3. start \in I[{}]
  BY DEF GoodOnes, Good
<1>4. \A s \in SUBSET S : s # {} => Top(s) \in s
  BY <1>2, MaxIsOne
<1>5. \A s \in SUBSET S : s # {} =>
          \A n \in I[s \ {Top(s)}] : Turn(n, Top(s)) \in I[s]
  <2>1. \A i \in S : done[i] \in Jobs /\ JoinOK(done[i])
    BY DEF DoneRead
  <2> HIDE DEF S, Top
  <2>2. SUFFICES ASSUME NEW s \in SUBSET S, s # {}, NEW n \in I[s \ {Top(s)}]
                 PROVE  Turn(n, Top(s)) \in I[s]
    OBVIOUS
  <2> DEFINE i == Top(s)
             rest == S \ (s \ {i})
  <2>3. i \in s /\ i \in rest /\ rest \ {i} = S \ s /\ i \in S
    BY <1>4, <2>2
  <2> HIDE DEF i
  <2>4. Good(n, rest, open) /\ n.links = m.links /\ n.jobs = m.jobs
    BY <2>2, <2>3 DEF GoodOnes, i
  <2> HIDE DEF rest
  <2>5. /\ Good(Turn(n, i), rest \ {i}, open)
        /\ Turn(n, i).links = m.links /\ Turn(n, i).jobs = m.jobs
    <3>1. done[i] \in Jobs /\ JoinOK(done[i]) /\ n.links \subseteq open
      BY <2>1, <2>3, <2>4
    <3> HIDE DEF I, pick, g, Body, it
    <3>2. QED
      BY <2>3, <2>4, <3>1, CompletionGood
  <2> HIDE DEF Turn
  <2>6. QED
    BY <2>3, <2>5 DEF GoodOnes, Good, i
<1>6. \A u \in SUBSET S : \A x \in I[u] : x \in Masters
  BY DEF GoodOnes
<1> HIDE DEF start, S, Top, Turn
<1>7. \E f : f = [s \in SUBSET S |-> Body(f, s)]
  <2>1. \E f : IsFold(f, SUBSET S, start, pick, g) /\ \A s \in SUBSET S : f[s] \in I[s]
    <3>1. \A s \in SUBSET S : s # {} =>
              pick[s] \in s /\ \A x \in I[s \ {pick[s]}] : g[pick[s]][x] \in I[s]
      <4>1. SUFFICES ASSUME NEW s \in SUBSET S, s # {}
                     PROVE  /\ pick[s] \in s
                            /\ \A x \in I[s \ {pick[s]}] : g[pick[s]][x] \in I[s]
        OBVIOUS
      <4>2. pick[s] = Top(s) /\ Top(s) \in s /\ Top(s) \in S
        BY <1>4, <4>1
      <4>3. \A x \in I[s \ {Top(s)}] : x \in Masters
        BY <1>6
      <4> HIDE DEF I, pick
      <4>4. \A x \in I[s \ {Top(s)}] : g[Top(s)][x] = Turn(x, Top(s))
        BY <4>2, <4>3
      <4> HIDE DEF g
      <4>5. QED
        BY <1>5, <4>1, <4>2, <4>4
    <3>2. start \in I[{}]
      BY <1>3 DEF I
    <3> HIDE DEF I, pick, g
    <3>3. QED
      BY <1>2, <3>1, <3>2, FoldExists
  <2>2. PICK f : IsFold(f, SUBSET S, start, pick, g) /\ \A s \in SUBSET S : f[s] \in I[s]
    BY <2>1
  <2>3. f = [s \in SUBSET S |-> IF s = {} THEN start ELSE g[pick[s]][f[s \ {pick[s]}]]]
    BY <2>2 DEF IsFold
  <2>4. ASSUME NEW s \in SUBSET S
        PROVE  Body(f, s) = IF s = {} THEN start ELSE g[pick[s]][f[s \ {pick[s]}]]
    <3>1. CASE s = {}
      BY <3>1
    <3>2. CASE s # {}
      <4>1. pick[s] = Top(s) /\ Top(s) \in S /\ f[s \ {Top(s)}] \in Masters
        BY <1>4, <1>6, <2>2, <3>2
      <4> HIDE DEF pick
      <4>2. QED
        BY <3>2, <4>1
    <3>3. QED
      BY <3>1, <3>2
  <2> HIDE DEF Body, g, pick
  <2>5. f = [s \in SUBSET S |-> Body(f, s)]
    BY <2>3, <2>4
  <2>6. QED
    BY <2>5
<1>8. it = [s \in SUBSET S |-> Body(it, s)]
  <2> HIDE DEF Body
  <2>1. QED
    BY <1>7
<1> HIDE DEF it
<1>9. it[{}] \in I[{}]
  BY <1>3, <1>8
<1>10. ASSUME NEW s \in SUBSET S, s # {}
       PROVE  /\ pick[s] \in s
              /\ it[s \ {pick[s]}] \in I[s \ {pick[s]}] => it[s] \in I[s]
  <2>1. pick[s] = Top(s) /\ Top(s) \in s /\ Top(s) \in S
    BY <1>4, <1>10
  <2>2. it[s] = Turn(it[s \ {Top(s)}], Top(s))
    BY <1>8, <1>10
  <2> HIDE DEF pick, I
  <2>3. QED
    BY <1>5, <1>10, <2>1, <2>2
<1>11. it[S] \in I[S]
  <2> HIDE DEF I, pick
  <2>1. QED
    BY <1>2, <1>9, <1>10, FoldStays
<1>12. QED
  BY <1>1, <1>11 DEF GoodOnes

LEMMA GamesTickGood ==
    ASSUME NEW m, NEW open, NEW rest, Good(m, rest, open), m.links \subseteq open, NEW due,
           kicks \in Seq(Kicks), KicksSpare
    PROVE  /\ Good(GamesTick(m, due), rest, open)
           /\ GamesTick(m, due).links = m.links
<1> DEFINE k == FoldLeft(KickUuid, m, kicks)
<1>1. Good(k, rest, open) /\ k.links = m.links
  BY KicksGood
<1>2. GamesTick(m, due) = FlushDue(Resolve(k), due)
  BY DEF GamesTick
<1> HIDE DEF k
<1>3. Good(Resolve(k), rest, open) /\ Resolve(k).links = m.links
  BY <1>1, ResolveGood
<1>4. QED
  BY <1>2, <1>3, FlushDueGood

-----------------------------------------------------------------------------
(* A link closes.                                                           *)

\* The player in a slot of the link leaves.
SlotLeft(m, l, i) ==
    LET a == m.uuids[l][i]
    IN  IF a # NoAccount /\ m.player[a].link = l THEN PlayerLeft(m, a) ELSE m

LEMMA SlotLeftGood ==
    ASSUME NEW m, NEW rest, NEW open, Good(m, rest, open), m.links \subseteq open,
           NEW l \in Links, NEW i \in Slots
    PROVE  /\ Good(SlotLeft(m, l, i), rest, open)
           /\ SlotLeft(m, l, i).links = m.links
<1> DEFINE a == m.uuids[l][i]
<1>1. a \in Accounts \cup {NoAccount}
  BY DEF Good, Masters
<1>2. CASE a # NoAccount /\ m.player[a].link = l
  <2>1. a \in Accounts /\ Online(m, a) /\ SlotLeft(m, l, i) = PlayerLeft(m, a)
    BY <1>1, <1>2, Constants DEF Online, SlotLeft
  <2> HIDE DEF a
  <2>2. QED
    BY <2>1, PlayerLeftGood
<1>3. CASE ~(a # NoAccount /\ m.player[a].link = l)
  BY <1>3 DEF SlotLeft
<1>4. QED
  BY <1>2, <1>3

SlotsLeft(m, l) == FoldSet(LAMBDA i, n : SlotLeft(n, l, i), m, Slots)

LEMMA SlotsLeftGood ==
    ASSUME NEW m, NEW rest, NEW open, Good(m, rest, open), m.links \subseteq open,
           NEW l \in Links
    PROVE  /\ Good(SlotsLeft(m, l), rest, open)
           /\ SlotsLeft(m, l).links = m.links
<1> DEFINE S == Slots
           X == GoodOnes(rest, open, m.links)
           start == m
           I == [s \in SUBSET S |-> X]
           Top(s) == CHOOSE x \in s : TRUE
           Turn(n, i) == SlotLeft(n, l, i)
           pick == [s \in SUBSET S |-> Top(s)]
           g == [i \in S |-> [n \in X |-> Turn(n, i)]]
           Body(f, s) == IF s = {} THEN start ELSE Turn(f[s \ {Top(s)}], Top(s))
           it == CHOOSE f : f = [s \in SUBSET S |-> Body(f, s)]
<1>1. SlotsLeft(m, l) = it[S]
  BY DEF SlotsLeft, FoldSet, MapThenFoldSet
<1>2. IsFiniteSet(S)
  BY Constants
<1>3. start \in X
  BY DEF GoodOnes, Good
<1>4. \A s \in SUBSET S : s # {} => Top(s) \in s
  OBVIOUS
<1>5. \A i \in S : \A n \in X : Turn(n, i) \in X
  <2>1. ASSUME NEW i \in S, NEW n \in X
        PROVE  Turn(n, i) \in X
    <3>1. Good(n, rest, open) /\ n.links = m.links
      BY DEF GoodOnes
    <3>2. Good(SlotLeft(n, l, i), rest, open) /\ SlotLeft(n, l, i).links = m.links
      BY <3>1, SlotLeftGood
    <3>3. QED
      BY <3>2 DEF GoodOnes, Good
  <2>2. QED
    BY <2>1
<1> HIDE DEF start, S, X, Top, Turn
<1>6. \E f : f = [s \in SUBSET S |-> Body(f, s)]
  <2>1. \E f : IsFold(f, SUBSET S, start, pick, g) /\ \A s \in SUBSET S : f[s] \in I[s]
    <3>1. \A s \in SUBSET S : s # {} =>
              pick[s] \in s /\ \A x \in I[s \ {pick[s]}] : g[pick[s]][x] \in I[s]
      BY <1>4, <1>5
    <3>2. start \in I[{}]
      BY <1>3
    <3> HIDE DEF I, pick, g
    <3>3. QED
      BY <1>2, <3>1, <3>2, FoldExists
  <2>2. PICK f : IsFold(f, SUBSET S, start, pick, g) /\ \A s \in SUBSET S : f[s] \in I[s]
    BY <2>1
  <2>3. f = [s \in SUBSET S |-> IF s = {} THEN start ELSE g[pick[s]][f[s \ {pick[s]}]]]
    BY <2>2 DEF IsFold
  <2>4. ASSUME NEW s \in SUBSET S
        PROVE  Body(f, s) = IF s = {} THEN start ELSE g[pick[s]][f[s \ {pick[s]}]]
    <3>1. CASE s = {}
      BY <3>1
    <3>2. CASE s # {}
      <4>1. pick[s] = Top(s) /\ Top(s) \in S /\ f[s \ {Top(s)}] \in X
        BY <1>4, <2>2, <3>2
      <4> HIDE DEF pick
      <4>2. QED
        BY <3>2, <4>1
    <3>3. QED
      BY <3>1, <3>2
  <2> HIDE DEF Body, g, pick
  <2>5. f = [s \in SUBSET S |-> Body(f, s)]
    BY <2>3, <2>4
  <2>6. QED
    BY <2>5
<1>7. it = [s \in SUBSET S |-> Body(it, s)]
  <2> HIDE DEF Body
  <2>1. QED
    BY <1>6
<1> HIDE DEF it
<1>8. it[{}] \in I[{}]
  BY <1>3, <1>7
<1>9. ASSUME NEW s \in SUBSET S, s # {}
       PROVE  /\ pick[s] \in s
              /\ it[s \ {pick[s]}] \in I[s \ {pick[s]}] => it[s] \in I[s]
  <2>1. pick[s] = Top(s) /\ Top(s) \in s /\ Top(s) \in S
    BY <1>4, <1>9
  <2>2. it[s] = Turn(it[s \ {Top(s)}], Top(s))
    BY <1>7, <1>9
  <2> HIDE DEF pick
  <2>3. QED
    BY <1>5, <2>1, <2>2
<1>10. it[S] \in I[S]
  <2> HIDE DEF I, pick
  <2>1. QED
    BY <1>2, <1>8, <1>9, FoldStays
<1>11. QED
  BY <1>1, <1>10 DEF X, GoodOnes

\* The link is closed: nothing more is sent on it, everyone in its slots leaves, and
\* then its slots name nobody.
Closed(m, l) == [m EXCEPT !.links = m.links \ {l}, !.out = [m.out EXCEPT ![l] = <<>>]]
Emptied(m, l) ==
    [m EXCEPT !.uuids = [m.uuids EXCEPT ![l] = [i \in Slots |-> NoAccount]]]

LEMMA ClosedGood ==
    ASSUME NEW m, NEW rest, NEW open, Good(m, rest, open), NEW l \in Links
    PROVE  Good(Closed(m, l), rest, open) /\ Closed(m, l).links = m.links \ {l}
<1> DEFINE n == Closed(m, l)
           out == [m.out EXCEPT ![l] = <<>>]
           links == m.links \ {l}
<1>1. m \in Masters /\ out \in [Links -> Seq(Answers)] /\ links \subseteq Links
  BY DEF Good, Masters
<1>2. n = [m EXCEPT !.links = links, !.out = out]
  BY DEF Closed
<1> HIDE DEF out, links, n
<1>3. /\ n \in Masters /\ n.links = links /\ n.player = m.player /\ n.uuids = m.uuids
      /\ n.waiting = m.waiting /\ n.jobs = m.jobs
  BY <1>1, <1>2 DEF Masters
<1>4. Good(n, rest, open)
  BY <1>3 DEF Good, Named
<1>5. QED
  BY <1>3, <1>4 DEF n, links

LEMMA EmptiedGood ==
    ASSUME NEW m, NEW rest, NEW open, Good(m, rest, open), NEW l \in Links
    PROVE  Good(Emptied(m, l), rest, open \ {l}) /\ Emptied(m, l).links = m.links
<1> DEFINE n == Emptied(m, l)
           uuids == [m.uuids EXCEPT ![l] = [i \in Slots |-> NoAccount]]
<1>1. /\ m \in Masters /\ uuids \in [Links -> [Slots -> Accounts \cup {NoAccount}]]
      /\ \A i \in Slots : uuids[l][i] = NoAccount
      /\ \A k \in Links \ {l} : uuids[k] = m.uuids[k]
  BY DEF Good, Masters
<1>2. n = [m EXCEPT !.uuids = uuids]
  BY DEF Emptied
<1> HIDE DEF uuids, n
<1>3. /\ n \in Masters /\ n.links = m.links /\ n.player = m.player /\ n.uuids = uuids
      /\ n.waiting = m.waiting /\ n.jobs = m.jobs
  BY <1>1, <1>2 DEF Masters
<1>4. Named(n, open \ {l})
  BY <1>1, <1>3 DEF Good, Named
<1>5. Good(n, rest, open \ {l})
  BY <1>3, <1>4 DEF Good
<1>6. QED
  BY <1>3, <1>5 DEF n

LEMMA LinkClosedGood ==
    ASSUME NEW m, NEW rest, Good(m, rest, m.links), NEW l \in Links
    PROVE  LET n == Emptied(SlotsLeft(Closed(m, l), l), l)
           IN  Good(n, rest, m.links \ {l}) /\ n.links = m.links \ {l}
<1>1. Good(Closed(m, l), rest, m.links) /\ Closed(m, l).links = m.links \ {l}
  BY ClosedGood
<1> DEFINE k == SlotsLeft(Closed(m, l), l)
<1>2. Good(k, rest, m.links) /\ k.links = m.links \ {l}
  BY <1>1, SlotsLeftGood
<1> HIDE DEF k
<1>3. Good(Emptied(k, l), rest, m.links \ {l}) /\ Emptied(k, l).links = k.links
  BY <1>2, EmptiedGood
<1>4. QED
  BY <1>2, <1>3 DEF k

-----------------------------------------------------------------------------
(* The actions.                                                             *)

\* A step that does not touch what is saved of the accounts that stay.
LEMMA GoodStill ==
    ASSUME NEW rest, Good(master', rest, master.links'), DOMAIN done' = rest,
           \A i \in rest : done'[i] = done[i],
           Spared' \subseteq Spared,
           \A a \in Spared' : db'[a] = db[a] /\ accepted'[a] = accepted[a]
    PROVE  Good(master, DOMAIN done, master.links)'
<1>1. /\ master' \in Masters /\ Spared' \subseteq Accounts /\ Named(master', master.links')
      /\ \A a \in Spared' : PlayerOK(master'.player[a], master'.jobs, rest, a)
      /\ \A i \in DOMAIN master'.waiting : JoinRead(master'.waiting[i])
      /\ \A i \in DOMAIN master'.jobs : JoinOK(master'.jobs[i])
  BY DEF Good
<1>2. \A j : JoinRead(j) => JoinRead(j)'
  BY DEF JoinRead, Old
<1>3. ASSUME NEW a \in Spared'
      PROVE  PlayerOK(master.player[a], master.jobs, DOMAIN done, a)'
  <2> DEFINE p == master'.player[a]
  <2>1. PlayerOK(p, master'.jobs, rest, a)
    BY <1>1
  <2>2. db'[a] = db[a] /\ accepted'[a] = accepted[a]
    OBVIOUS
  <2>3. OneFlush(master.player[a], master.jobs, DOMAIN done, a)'
    BY <2>1 DEF PlayerOK, OneFlush, FlushAt
  <2>4. \A i \in DOMAIN master'.jobs : FlushOK(master.jobs, i, master.player[a], a)'
    BY <2>1, <2>2 DEF PlayerOK, FlushOK, FlushAt, FlushNewer, FlushSaves, Old
  <2>5. \A i \in DOMAIN done' : FlushOK(done, i, master.player[a], a)'
    BY <2>1, <2>2 DEF PlayerOK, FlushOK, FlushAt, FlushNewer, FlushSaves, Old
  <2>6. (Old(a) => PlayerSaved(master.player[a], a))'
    BY <2>1, <2>2 DEF PlayerOK, PlayerSaved, Dirty, Old
  <2>7. QED
    BY <2>1, <2>3, <2>4, <2>5, <2>6 DEF PlayerOK
<1>4. \A i \in DOMAIN master'.waiting : JoinRead(master.waiting[i])'
  BY <1>1, <1>2
<1>5. \A i \in DOMAIN master'.jobs : JoinOK(master.jobs[i])'
  BY <1>1, <1>2 DEF JoinOK
<1>6. QED
  BY <1>1, <1>3, <1>4, <1>5 DEF Good, Named

\* Such a step keeps the invariant, if it keeps the types and the parts that tell of
\* the kicks and of the end.
LEMMA Keeps ==
    ASSUME IInv, Typed', NEW rest, Good(master', rest, master.links'), DOMAIN done' = rest,
           rest \subseteq DOMAIN done, \A i \in rest : done'[i] = done[i],
           Spared' \subseteq Spared,
           \A a \in Spared' : db'[a] = db[a] /\ accepted'[a] = accepted[a],
           KicksSpare', Ended'
    PROVE  IInv'
<1>1. Good(master, DOMAIN done, master.links)'
  BY GoodStill
<1>2. RowsKept'
  BY DEF IInv, RowsKept, Old
<1>3. DoneRead'
  BY DEF IInv, DoneRead, JoinOK, JoinRead, Old
<1>4. QED
  BY <1>1, <1>2, <1>3 DEF IInv

\* The game servers' steps leave the master's state alone, but for an answer that is read.
LEMMA ServerKeeps ==
    ASSUME IInv, slot' \in [Links -> SlotTables], toMaster' \in [Links -> Seq(Requests)],
           logins' \in Nonces, Good(master', DOMAIN done, master.links'),
           master'.links = master.links, master'.jobs = master.jobs,
           master'.player = master.player,
           UNCHANGED <<done, kicks, stage, database, accepted>>
    PROVE  IInv'
<1>1. Typed'
  BY DEF IInv, Typed, database
<1>2. Spared' = Spared
  BY DEF Spared, database
<1>3. KicksSpare' /\ Ended'
  BY <1>2 DEF IInv, KicksSpare, Ended, Old, database
<1>4. QED
  BY <1>1, <1>2, <1>3, Keeps DEF database

LEMMA SlotWritten ==
    ASSUME NEW s \in [Slots -> SlotRecords], \A i \in Slots : s[i].status # "free" => s[i].acct \in Accounts,
           NEW t \in [Links -> SlotTables], NEW l \in Links
    PROVE  [t EXCEPT ![l] = s] \in [Links -> SlotTables]
BY DEF SlotTables

LEMMA OneSlotWritten ==
    ASSUME NEW t \in [Links -> SlotTables], NEW l \in Links, NEW i \in Slots,
           NEW r \in SlotRecords, r.status # "free" => r.acct \in Accounts
    PROVE  [t EXCEPT ![l] = [t[l] EXCEPT ![i] = r]] \in [Links -> SlotTables]
<1> DEFINE s == [t[l] EXCEPT ![i] = r]
<1>1. t[l] \in SlotTables
  OBVIOUS
<1>2. s \in [Slots -> SlotRecords] /\ \A k \in Slots : s[k].status # "free" => s[k].acct \in Accounts
  BY <1>1 DEF SlotTables
<1> HIDE DEF s
<1>3. [t EXCEPT ![l] = s] \in [Links -> SlotTables]
  BY <1>2, SlotWritten
<1>4. QED
  BY <1>3 DEF s

LEMMA FreeSlotIsOne == FreeSlot \in SlotRecords
BY Constants DEF FreeSlot, SlotRecords, Nonces, Progress

LEMMA FreeTable ==
    ASSUME NEW t \in [Links -> SlotTables], NEW l \in Links
    PROVE  [t EXCEPT ![l] = [i \in Slots |-> FreeSlot]] \in [Links -> SlotTables]
BY FreeSlotIsOne, SlotWritten DEF FreeSlot

LEMMA Told ==
    ASSUME NEW l \in Links, NEW msg \in Requests, Tell(l, msg),
           toMaster \in [Links -> Seq(Requests)]
    PROVE  toMaster' \in [Links -> Seq(Requests)]
<1> DEFINE q == Append(toMaster[l], msg)
<1>1. q \in Seq(Requests)
  OBVIOUS
<1>2. toMaster' = [toMaster EXCEPT ![l] = q]
  BY DEF Tell
<1> HIDE DEF q
<1>3. QED
  BY <1>1, <1>2

LEMMA LoginKeeps ==
    ASSUME IInv, NEW l \in Links, NEW i \in Slots, NEW a \in Accounts, Login(l, i, a)
    PROVE  IInv'
<1> DEFINE r == [FreeSlot EXCEPT !.status = "asked", !.acct = a, !.nonce = logins + 1]
           msg == [type |-> "join", acct |-> a, pos |-> i, nonce |-> logins + 1]
<1>1. logins + 1 \in Nonces /\ slot \in [Links -> SlotTables]
  BY Constants DEF IInv, Typed, Login, Nonces
<1>2. r \in SlotRecords /\ r.acct \in Accounts
  BY <1>1, FreeSlotIsOne DEF FreeSlot, SlotRecords
<1>3. msg \in Requests
  BY <1>1 DEF Requests
<1>4. slot' = [slot EXCEPT ![l] = [slot[l] EXCEPT ![i] = r]] /\ Tell(l, msg)
  BY DEF Login
<1> HIDE DEF r, msg
<1>5. slot' \in [Links -> SlotTables]
  BY <1>1, <1>2, <1>4, OneSlotWritten
<1>6. toMaster' \in [Links -> Seq(Requests)]
  BY <1>3, <1>4, Told DEF IInv, Typed
<1>7. QED
  BY <1>1, <1>5, <1>6, ServerKeeps DEF Login, IInv

LEMMA LogoutKeeps ==
    ASSUME IInv, NEW l \in Links, NEW i \in Slots, Logout(l, i)
    PROVE  IInv'
<1> DEFINE s == slot[l][i]
           r == IF s.status = "asked" \/ s.kicked THEN FreeSlot
                ELSE [s EXCEPT !.status = "lost"]
           msg == [type |-> "leave", acct |-> s.acct]
<1>1. slot \in [Links -> SlotTables] /\ s \in SlotRecords /\ s.acct \in Accounts
  BY DEF IInv, Typed, SlotTables, Logout
<1>2. slot' = [slot EXCEPT ![l] = [slot[l] EXCEPT ![i] = r]] /\ Tell(l, msg)
  BY DEF Logout
<1>3. msg \in Requests
  BY <1>1 DEF Requests
<1> HIDE DEF s, msg
<1>4. r \in SlotRecords /\ (r.status # "free" => r.acct \in Accounts)
  BY <1>1, FreeSlotIsOne DEF FreeSlot, SlotRecords
<1> HIDE DEF r
<1>5. slot' \in [Links -> SlotTables]
  BY <1>1, <1>2, <1>4, OneSlotWritten
<1>6. toMaster' \in [Links -> Seq(Requests)]
  BY <1>2, <1>3, Told DEF IInv, Typed
<1>7. QED
  BY <1>5, <1>6, ServerKeeps DEF Logout, IInv, Typed

LEMMA ForgetKeeps ==
    ASSUME IInv, NEW l \in Links, NEW i \in Slots, Forget(l, i)
    PROVE  IInv'
<1>1. slot \in [Links -> SlotTables]
  BY DEF IInv, Typed
<1>2. slot' = [slot EXCEPT ![l] = [slot[l] EXCEPT ![i] = FreeSlot]]
  BY DEF Forget
<1>3. slot' \in [Links -> SlotTables]
  BY <1>1, <1>2, FreeSlotIsOne, OneSlotWritten DEF FreeSlot
<1>4. QED
  BY <1>3, ServerKeeps DEF Forget, IInv, Typed

LEMMA PlayKeeps ==
    ASSUME IInv, NEW l \in Links, NEW i \in Slots, Play(l, i)
    PROVE  IInv'
<1> DEFINE s == slot[l][i]
           more == s.data + 1
           r == [s EXCEPT !.data = more]
           msg == [type |-> "save", acct |-> s.acct, data |-> more]
<1>1. slot \in [Links -> SlotTables] /\ s \in SlotRecords /\ s.acct \in Accounts
  BY DEF IInv, Typed, SlotTables, Play
<1>2. slot' = [slot EXCEPT ![l] = [slot[l] EXCEPT ![i] = r]] /\ Tell(l, msg)
  BY DEF Play
<1>3. more \in 1 .. MaxProgress
  BY <1>1, Constants DEF Play, SlotRecords, Progress
<1> HIDE DEF s, more
<1>4. msg \in Requests /\ r \in SlotRecords /\ r.acct \in Accounts
  BY <1>1, <1>3, Constants DEF Requests, SlotRecords, Progress
<1> HIDE DEF r, msg
<1>5. slot' \in [Links -> SlotTables]
  BY <1>1, <1>2, <1>4, OneSlotWritten
<1>6. toMaster' \in [Links -> Seq(Requests)]
  BY <1>2, <1>4, Told DEF IInv, Typed
<1>7. QED
  BY <1>5, <1>6, ServerKeeps DEF Play, IInv, Typed

LEMMA CrashKeeps ==
    ASSUME IInv, NEW l \in Links, Crash(l)
    PROVE  IInv'
<1>1. slot' \in [Links -> SlotTables]
  BY FreeTable DEF Crash, IInv, Typed
<1>2. QED
  BY <1>1, ServerKeeps DEF Crash, IInv, Typed

\* An answer is read: the slot it is for stays a slot, and so do the twins it ends.
LEMMA AnswerRead ==
    ASSUME NEW s \in SlotTables, NEW msg \in Answers
    PROVE  /\ s[msg.pos].status \notin {"free", "lost"} /\ msg.type = "joined"
                  => ReadAccount(s, msg.pos, msg) \in SlotTables
           /\ ReceiveKick(s, msg.pos, msg) \in SlotTables
<1> DEFINE i == msg.pos
<1>1. i \in Slots /\ s \in [Slots -> SlotRecords]
      /\ \A k \in Slots : s[k].status # "free" => s[k].acct \in Accounts
  BY DEF Answers, SlotTables
<1>2. /\ \A k \in Slots : /\ [s[k] EXCEPT !.kicked = TRUE] \in SlotRecords
                          /\ [s[k] EXCEPT !.kicked = TRUE].status = s[k].status
                          /\ [s[k] EXCEPT !.kicked = TRUE].acct = s[k].acct
  BY <1>1 DEF SlotRecords
<1>3. ReceiveKick(s, i, msg) \in SlotTables
  <2> DEFINE r == [s[i] EXCEPT !.kicked = TRUE]
             t == [s EXCEPT ![i] = r]
  <2>1. ReceiveKick(s, i, msg) = s \/ ReceiveKick(s, i, msg) = t
    BY <1>1 DEF ReceiveKick
  <2>2. r \in SlotRecords /\ (r.status # "free" => r.acct \in Accounts)
    BY <1>1, <1>2
  <2> HIDE DEF r, i
  <2>3. t \in SlotTables
    BY <1>1, <2>2 DEF SlotTables
  <2>4. QED
    BY <2>1, <2>3
<1>4. ASSUME s[i].status \notin {"free", "lost"}, msg.type = "joined"
      PROVE  ReadAccount(s, i, msg) \in SlotTables
  <2>1. CASE s[i].nonce # msg.nonce
    <3> DEFINE r == [s[i] EXCEPT !.data = 0, !.kicked = TRUE]
               t == [s EXCEPT ![i] = r]
    <3>1. ReadAccount(s, i, msg) = t
      <4>1. ReadAccount(s, i, msg) = [s EXCEPT ![i].data = 0, ![i].kicked = TRUE]
        BY <2>1 DEF ReadAccount
      <4>2. QED
        BY <1>1, <4>1 DEF SlotRecords
    <3>2. r \in SlotRecords /\ (r.status # "free" => r.acct \in Accounts)
      <4>1. s[i] \in SlotRecords /\ (s[i].status # "free" => s[i].acct \in Accounts)
        BY <1>1
      <4>2. 0 \in Progress
        BY Constants DEF Progress
      <4> HIDE DEF i
      <4>3. /\ r \in SlotRecords /\ r.status = s[i].status /\ r.acct = s[i].acct
        BY <4>1, <4>2 DEF SlotRecords
      <4>4. QED
        BY <4>1, <4>3
    <3> HIDE DEF r, i
    <3>3. t \in SlotTables
      BY <1>1, <3>2 DEF SlotTables
    <3>4. QED
      BY <3>1, <3>3
  <2>2. CASE s[i].nonce = msg.nonce
    <3> DEFINE twin == {k \in Slots \ {i} : s[k].status \in {"playing", "lost"}
                                            /\ ~s[k].kicked /\ s[k].acct = msg.acct}
               R(k) == IF k = i THEN [s[i] EXCEPT !.status = "playing", !.data = msg.data]
                       ELSE IF k \notin twin THEN s[k]
                       ELSE IF s[k].status = "lost" THEN FreeSlot
                       ELSE [s[k] EXCEPT !.kicked = TRUE]
    <3>1. ReadAccount(s, i, msg) = [k \in Slots |-> R(k)]
      BY <2>2 DEF ReadAccount
    <3>2. ASSUME NEW k \in Slots
          PROVE  R(k) \in SlotRecords /\ (R(k).status # "free" => R(k).acct \in Accounts)
      <4> HIDE DEF twin
      <4>1. CASE k = i
        <5> DEFINE r == [s[i] EXCEPT !.status = "playing", !.data = msg.data]
        <5>1. msg.data \in Progress /\ s[i] \in SlotRecords /\ s[i].acct \in Accounts
          BY <1>1, <1>4 DEF Answers
        <5>2. r \in SlotRecords /\ r.acct \in Accounts
          BY <5>1 DEF SlotRecords
        <5>3. R(k) = r
          BY <4>1
        <5> HIDE DEF r, R
        <5>4. QED
          BY <5>2, <5>3
      <4>2. CASE k # i
        BY <1>1, <1>2, <4>2, FreeSlotIsOne DEF FreeSlot
      <4>3. QED
        BY <4>1, <4>2
    <3> HIDE DEF R, i
    <3>3. QED
      BY <3>1, <3>2 DEF SlotTables
  <2>3. QED
    BY <2>1, <2>2
<1>5. QED
  BY <1>3, <1>4

LEMMA ReceiveKeeps ==
    ASSUME IInv, NEW l \in Links, Receive(l)
    PROVE  IInv'
<1> DEFINE q == master.out[l]
           msg == Head(q)
           out == [master.out EXCEPT ![l] = Tail(q)]
           s == slot[l]
           t == IF s[msg.pos].status \in {"free", "lost"} THEN s
                ELSE IF msg.type = "joined" THEN ReadAccount(s, msg.pos, msg)
                ELSE ReceiveKick(s, msg.pos, msg)
<1>1. /\ master \in Masters /\ slot \in [Links -> SlotTables]
      /\ q \in Seq(Answers) /\ q # <<>>
  BY DEF IInv, Typed, Good, Masters, Receive
<1>2. msg \in Answers /\ Tail(q) \in Seq(Answers)
  BY <1>1
<1>3. master' = [master EXCEPT !.out = out] /\ slot' = [slot EXCEPT ![l] = t]
  BY DEF Receive
<1>4. out \in [Links -> Seq(Answers)]
  BY <1>1, <1>2 DEF Masters
<1>5. s \in SlotTables
  BY <1>1
<1> HIDE DEF q, msg, s, out
<1>6. t \in SlotTables
  BY <1>2, <1>5, AnswerRead
<1> HIDE DEF t
<1>7. slot' \in [Links -> SlotTables]
  BY <1>1, <1>3, <1>6
<1>8. OnlyOut(master, master')
  BY <1>1, <1>3, <1>4 DEF OnlyOut, Masters
<1>9. Good(master', DOMAIN done, master.links)
  BY <1>8, OutDoesNotMatter DEF IInv
<1>10. QED
  BY <1>7, <1>8, <1>9, ServerKeeps DEF Receive, OnlyOut, IInv, Typed

\* The event loop's steps.
LEMMA LinkUpKeeps ==
    ASSUME IInv, NEW l \in Links, LinkUp(l)
    PROVE  IInv'
<1> DEFINE links == master.links \cup {l}
<1>1. master' = [master EXCEPT !.links = links] /\ master \in Masters
  BY DEF LinkUp, IInv, Good
<1>2. links \subseteq Links /\ master.links \subseteq links
  BY <1>1 DEF Masters
<1> HIDE DEF links
<1>3. /\ master' \in Masters /\ master'.links = links /\ master'.player = master.player
      /\ master'.uuids = master.uuids /\ master'.waiting = master.waiting
      /\ master'.jobs = master.jobs
  BY <1>1, <1>2 DEF Masters
<1>4. Good(master', DOMAIN done, links)
  BY <1>2, <1>3 DEF IInv, Good, Named
<1>5. Typed' /\ KicksSpare' /\ Spared' = Spared
  BY DEF IInv, Typed, KicksSpare, Spared, LinkUp, database
<1>6. Ended'
  BY DEF LinkUp, Ended
<1>7. QED
  BY <1>3, <1>4, <1>5, <1>6, Keeps DEF LinkUp, database

\* What the steps that run with the master have in common.
LEMMA RunningKeeps ==
    ASSUME IInv, stage' = "running", Good(master', DOMAIN done, master.links'),
           toMaster' \in [Links -> Seq(Requests)], slot' \in [Links -> SlotTables],
           UNCHANGED <<done, kicks, database, logins, accepted>>
    PROVE  IInv'
<1>1. Typed' /\ KicksSpare' /\ Spared' = Spared
  BY DEF IInv, Typed, KicksSpare, Spared, database
<1>2. Ended'
  BY DEF Ended
<1>3. QED
  BY <1>1, <1>2, Keeps DEF database

LEMMA RunningServiceKeeps ==
    ASSUME IInv, stage = "running", UNCHANGED <<stage, database, servers, accepted>>,
           NEW rest, Good(master', rest, master.links'), DOMAIN done' = rest,
           rest \subseteq DOMAIN done, \A i \in rest : done'[i] = done[i],
           done' \in Seq(Jobs), kicks' \in Seq(Kicks), KicksSpare'
    PROVE  IInv'
<1>1. Typed' /\ Spared' = Spared
  BY DEF IInv, Typed, Spared, database, servers
<1>2. Ended'
  BY DEF Ended
<1>3. QED
  BY <1>1, <1>2, Keeps DEF database

LEMMA ServiceKeeps ==
    ASSUME IInv, Service
    PROVE  IInv'
<1>1. PICK due \in SUBSET Accounts : master' = GamesTick(DrainDone(master), due)
  BY DEF Service
<1> DEFINE k == DrainDone(master)
<1>2. Good(k, {}, master.links) /\ k.links = master.links
  BY DrainDoneGood DEF IInv, Typed
<1> HIDE DEF k
<1>3. Good(GamesTick(k, due), {}, master.links) /\ GamesTick(k, due).links = master.links
  BY <1>2, GamesTickGood DEF IInv, Typed
<1>4. Good(master', {}, master.links')
  BY <1>1, <1>3 DEF k
<1>5. done' = <<>> /\ kicks' = <<>> /\ DOMAIN done' = {}
  BY DEF Service
<1>6. KicksSpare'
  BY <1>5 DEF KicksSpare
<1>7. QED
  BY <1>4, <1>5, <1>6, RunningServiceKeeps DEF Service

LEMMA LeaveGood ==
    ASSUME IInv, NEW l \in Links, NEW msg
    PROVE  LET n == OnLeave(master, l, msg)
           IN  msg.acct \in Accounts => Good(n, DOMAIN done, master.links) /\ n.links = master.links
BY PlayerLeftGood DEF OnLeave, IInv

\* What is saved of a player stays as it was.
LEMMA PlayerStill ==
    ASSUME NEW p, NEW jobs, NEW a, PlayerOK(p, jobs, DOMAIN done, a),
           done' = done, db'[a] = db[a], accepted'[a] = accepted[a]
    PROVE  PlayerOK(p, jobs, DOMAIN done, a)'
<1>1. OneFlush(p, jobs, DOMAIN done, a)'
  BY DEF PlayerOK, OneFlush, FlushAt
<1>2. /\ \A i \in DOMAIN jobs : FlushOK(jobs, i, p, a)'
      /\ \A i \in DOMAIN done' : FlushOK(done, i, p, a)'
  BY DEF PlayerOK, FlushOK, FlushAt, FlushNewer, FlushSaves, Old
<1>3. (Old(a) => PlayerSaved(p, a))'
  BY DEF PlayerOK, PlayerSaved, Dirty, Old
<1>4. QED
  BY <1>1, <1>2, <1>3 DEF PlayerOK

\* A save is taken: the newest one.
Newer(p, d) == [p EXCEPT !.data = d, !.version = p.version + 1]

LEMMA NewerIsOne ==
    ASSUME NEW p \in PlayerRecords, NEW d \in Progress
    PROVE  /\ Newer(p, d) \in PlayerRecords
           /\ Newer(p, d).data = d /\ Newer(p, d).version = p.version + 1
           /\ Newer(p, d).flushed = p.flushed /\ Newer(p, d).flushing = p.flushing
           /\ Newer(p, d).deleted = p.deleted
           /\ Newer(p, d).link = p.link /\ Newer(p, d).pos = p.pos
<1> DEFINE v == p.version + 1
<1>1. v \in Nat
  BY DEF PlayerRecords
<1>2. Newer(p, d) = [p EXCEPT !.data = d, !.version = v]
  BY DEF Newer
<1> HIDE DEF v
<1>3. /\ Newer(p, d) \in PlayerRecords
      /\ Newer(p, d).data = d /\ Newer(p, d).version = v
      /\ Newer(p, d).flushed = p.flushed /\ Newer(p, d).flushing = p.flushing
      /\ Newer(p, d).deleted = p.deleted
      /\ Newer(p, d).link = p.link /\ Newer(p, d).pos = p.pos
  BY <1>1, <1>2 DEF PlayerRecords
<1>4. QED
  BY <1>3 DEF v

LEMMA NewerOK ==
    ASSUME NEW p \in PlayerRecords, NEW d \in Progress, d # 0, NEW jobs, NEW a,
           PlayerOK(p, jobs, DOMAIN done, a), done' = done, db' = db, accepted'[a] = d
    PROVE  PlayerOK(Newer(p, d), jobs, DOMAIN done, a)'
<1> DEFINE q == Newer(p, d)
<1>1. /\ q.data = d /\ q.version = p.version + 1 /\ q.flushed = p.flushed
      /\ q.flushing = p.flushing /\ q.deleted = p.deleted
      /\ p.version \in Nat /\ p.flushed \in Nat
  BY NewerIsOne DEF PlayerRecords
<1> HIDE DEF q
<1>2. q.flushed <= q.version /\ ~q.deleted /\ q.version # q.flushed
  BY <1>1 DEF PlayerOK
<1>3. OneFlush(q, jobs, DOMAIN done, a)'
  BY <1>1 DEF PlayerOK, OneFlush, FlushAt
<1>4. \A f : FlushNewer(f, p) => FlushNewer(f, q) /\ f.version # q.version
  BY <1>1 DEF FlushNewer
<1>5. \A f : FlushSaves(f, p, a) /\ FlushNewer(f, p) => FlushSaves(f, q, a)'
  BY <1>4 DEF FlushSaves
<1>6. /\ \A i \in DOMAIN jobs : FlushOK(jobs, i, q, a)'
      /\ \A i \in DOMAIN done' : FlushOK(done, i, q, a)'
  BY <1>4, <1>5 DEF PlayerOK, FlushOK, FlushAt, Old, FlushNewer
<1>7. (Old(a) => PlayerSaved(q, a))'
  BY <1>1, <1>2 DEF PlayerSaved, Dirty
<1>8. PlayerOK(q, jobs, DOMAIN done, a)'
  BY <1>2, <1>3, <1>6, <1>7 DEF PlayerOK
<1>9. QED
  BY <1>8 DEF q

LEMMA SaveKeeps ==
    ASSUME IInv, NEW l \in Links, NEW a \in Accounts, NEW d \in 1 .. MaxProgress,
           stage = "running", master' = Replace(master, a, Newer(master.player[a], d)),
           accepted' = [accepted EXCEPT ![a] = d],
           toMaster' \in [Links -> Seq(Requests)],
           UNCHANGED <<done, kicks, stage, database, slot, logins>>
    PROVE  IInv'
<1> DEFINE p == master.player[a]
           q == Newer(p, d)
<1>1. master \in Masters /\ p \in PlayerRecords /\ d \in Progress /\ d # 0
  BY Constants DEF IInv, Good, Masters, Progress
<1>2. q \in PlayerRecords /\ q.link = p.link /\ q.pos = p.pos
  BY <1>1, NewerIsOne
<1> HIDE DEF p, q
<1>3. /\ OnlyPlayer(master, Replace(master, a, q), a) /\ Replace(master, a, q).player[a] = q
      /\ Replace(master, a, q).uuids = master.uuids
  BY <1>1, <1>2, ReplaceOnly
<1>4. OnlyPlayer(master, master', a) /\ master'.player[a] = q /\ master'.uuids = master.uuids
  BY <1>3 DEF q, p
<1>5. Named(master', master.links)
  BY <1>1, <1>2, <1>4, NamedStill DEF IInv, Good, p
<1>6. /\ Spared' = Spared /\ Spared \subseteq Accounts /\ db' = db /\ done' = done
      /\ accepted \in [Accounts -> Progress]
  BY DEF Spared, database, IInv, Good, Typed
<1>7. accepted'[a] = d /\ \A b \in Accounts \ {a} : accepted'[b] = accepted[b]
  BY <1>6
<1>8. /\ master' \in Masters /\ master'.links = master.links
      /\ master'.waiting = master.waiting /\ master'.jobs = master.jobs
      /\ \A b \in Accounts \ {a} : master'.player[b] = master.player[b]
  BY <1>4 DEF OnlyPlayer
<1>9. ASSUME NEW b \in Spared
      PROVE  PlayerOK(master.player[b], master.jobs, DOMAIN done, b)'
  <2>1. PlayerOK(master.player[b], master.jobs, DOMAIN done, b) /\ b \in Accounts
    BY <1>6 DEF IInv, Good
  <2>2. CASE b # a
    <3>1. master'.player[b] = master.player[b] /\ accepted'[b] = accepted[b]
      BY <1>7, <1>8, <2>1, <2>2
    <3>2. QED
      BY <1>6, <1>8, <2>1, <3>1, PlayerStill
  <2>3. CASE b = a
    <3>1. PlayerOK(p, master.jobs, DOMAIN done, a)
      BY <2>1, <2>3 DEF p
    <3>2. \A x : x = q => PlayerOK(x, master.jobs, DOMAIN done, a)'
      BY <1>1, <1>6, <1>7, <1>8, <3>1, NewerOK DEF q
    <3>3. QED
      BY <1>4, <1>8, <2>3, <3>2
  <2>4. QED
    BY <2>2, <2>3
<1>10. Good(master, DOMAIN done, master.links)'
  <2>1. \A j : JoinRead(j) => JoinRead(j)'
    BY <1>6 DEF JoinRead, Old
  <2>2. \A j : JoinOK(j) => JoinOK(j)'
    BY <2>1 DEF JoinOK
  <2>3. /\ \A i \in DOMAIN master'.waiting : JoinRead(master.waiting[i])'
        /\ \A i \in DOMAIN master'.jobs : JoinOK(master.jobs[i])'
    BY <1>8, <2>1, <2>2 DEF IInv, Good
  <2>4. Named(master, master.links)'
    BY <1>5, <1>8 DEF Named
  <2>5. QED
    BY <1>6, <1>8, <1>9, <2>3, <2>4 DEF Good
<1>11. Typed'
  <2>1. accepted' \in [Accounts -> Progress]
    BY <1>1, <1>6
  <2>2. QED
    BY <2>1 DEF IInv, Typed, database
<1>12. RowsKept'
  BY <1>1, <1>6, <1>7 DEF IInv, RowsKept, Old
<1>13. DoneRead' /\ KicksSpare' /\ Ended'
  BY <1>6 DEF IInv, DoneRead, JoinOK, JoinRead, Old, KicksSpare, Ended
<1>14. QED
  BY <1>10, <1>11, <1>12, <1>13 DEF IInv

LEMMA OnSaveIsReplace ==
    ASSUME NEW m \in Masters, NEW l, NEW msg \in Requests, Accepts(m, l, msg)
    PROVE  OnSave(m, l, msg) = Replace(m, msg.acct, Newer(m.player[msg.acct], msg.data))
<1> DEFINE a == msg.acct
           p == m.player[a]
           r == [p EXCEPT !.data = msg.data]
           player == [m.player EXCEPT ![a] = r]
           v == p.version + 1
<1>1. a \in Accounts /\ p \in PlayerRecords /\ m.player \in [Accounts -> PlayerRecords]
  BY DEF Accepts, Requests, Masters
<1>2. OnSave(m, l, msg) =
          [m EXCEPT !.player[a].data = msg.data, !.player[a].version = v]
  BY <1>1 DEF OnSave, Masters, PlayerRecords
<1>3. OnSave(m, l, msg) =
          [[m EXCEPT !.player = player] EXCEPT !.player[a].version = v]
  BY <1>2
<1>4. [m EXCEPT !.player = player].player = player
  BY DEF Masters
<1>5. [player EXCEPT ![a] = [player[a] EXCEPT !.version = v]]
          = [m.player EXCEPT ![a] = Newer(p, msg.data)]
  BY <1>1 DEF Newer, PlayerRecords
<1> DEFINE w == [player EXCEPT ![a] = [player[a] EXCEPT !.version = v]]
<1>6. OnSave(m, l, msg) = [[m EXCEPT !.player = player] EXCEPT !.player = w]
  BY <1>3, <1>4
<1> HIDE DEF player, w
<1>7. [[m EXCEPT !.player = player] EXCEPT !.player = w] = [m EXCEPT !.player = w]
  BY DEF Masters
<1>8. QED
  BY <1>5, <1>6, <1>7 DEF Replace, w

LEMMA HandleMessageKeeps ==
    ASSUME IInv, NEW l \in Links, HandleMessage(l)
    PROVE  IInv'
<1> DEFINE q == toMaster[l]
           msg == Head(q)
<1>1. /\ master \in Masters /\ toMaster \in [Links -> Seq(Requests)]
      /\ q \in Seq(Requests) /\ q # <<>> /\ stage = "running"
      /\ slot \in [Links -> SlotTables] /\ accepted \in [Accounts -> Progress]
  BY DEF HandleMessage, IInv, Good, Typed
<1>2. msg \in Requests /\ Tail(q) \in Seq(Requests)
  BY <1>1
<1>3. /\ toMaster' = [toMaster EXCEPT ![l] = Tail(q)]
      /\ UNCHANGED <<done, kicks, stage, database, slot, logins>>
  BY DEF HandleMessage
<1>4. toMaster' \in [Links -> Seq(Requests)]
  BY <1>1, <1>2, <1>3
<1>5. /\ master' = CASE msg.type = "join" -> OnJoin(master, l, msg)
                     [] msg.type = "leave" -> OnLeave(master, l, msg)
                     [] msg.type = "save" -> OnSave(master, l, msg)
      /\ accepted' = IF Accepts(master, l, msg)
                     THEN [accepted EXCEPT ![msg.acct] = msg.data] ELSE accepted
  BY DEF HandleMessage
<1>6. Good(master, DOMAIN done, master.links)
  BY DEF IInv
<1> HIDE DEF msg, q
<1>7. msg.type \in {"join", "leave", "save"} /\ msg.acct \in Accounts
  BY <1>2 DEF Requests
<1>8. msg.type # "save" => accepted' = accepted
  BY <1>5 DEF Accepts
<1>9. CASE msg.type = "join"
  <2> DEFINE j == [kind |-> "join", ran |-> FALSE, ok |-> FALSE, acct |-> msg.acct,
                   data |-> NoRow, link |-> l, pos |-> msg.pos, nonce |-> msg.nonce,
                   late |-> FALSE]
  <2>1. master' = Submit(master, j)
    BY <1>5, <1>9 DEF OnJoin
  <2>2. j \in Joins /\ j.ok = FALSE
    BY <1>2, <1>9 DEF Joins, Requests
  <2> HIDE DEF j
  <2>3. Good(Submit(master, j), DOMAIN done, master.links)
    BY <1>6, <2>2, SubmitJoinGood
  <2>4. Submit(master, j).links = master.links
    BY <1>1, <2>2, SubmitOnly DEF Submitted, Jobs
  <2>5. Good(master', DOMAIN done, master'.links)
    BY <2>1, <2>3, <2>4
  <2>6. QED
    BY <1>1, <1>3, <1>4, <1>8, <1>9, <2>5, RunningKeeps
<1>10. CASE msg.type = "leave"
  <2>1. master' = OnLeave(master, l, msg)
    BY <1>5, <1>10
  <2>2. /\ Good(OnLeave(master, l, msg), DOMAIN done, master.links)
        /\ OnLeave(master, l, msg).links = master.links
    BY <1>7, LeaveGood
  <2>3. Good(master', DOMAIN done, master'.links)
    BY <2>1, <2>2
  <2>4. QED
    BY <1>1, <1>3, <1>4, <1>8, <1>10, <2>3, RunningKeeps
<1>11. CASE msg.type = "save"
  <2>1. master' = OnSave(master, l, msg)
    BY <1>5, <1>11
  <2>2. CASE Accepts(master, l, msg)
    <3>1. master' = Replace(master, msg.acct, Newer(master.player[msg.acct], msg.data))
      BY <1>1, <1>2, <2>1, <2>2, OnSaveIsReplace
    <3>2. msg.data \in 1 .. MaxProgress
      BY <1>2, <1>11 DEF Requests
    <3>3. accepted' = [accepted EXCEPT ![msg.acct] = msg.data]
      BY <1>5, <2>2
    <3> DEFINE a == msg.acct
               d == msg.data
    <3>4. a \in Accounts /\ d \in 1 .. MaxProgress
          /\ master' = Replace(master, a, Newer(master.player[a], d))
          /\ accepted' = [accepted EXCEPT ![a] = d]
      BY <1>7, <3>1, <3>2, <3>3
    <3> HIDE DEF a, d
    <3>5. QED
      BY <1>1, <1>3, <1>4, <3>4, SaveKeeps
  <2>3. CASE ~Accepts(master, l, msg)
    <3>1. master' = master /\ accepted' = accepted
      BY <1>5, <2>1, <2>3 DEF OnSave
    <3>2. QED
      BY <1>1, <1>3, <1>4, <1>6, <3>1, RunningKeeps
  <2>4. QED
    BY <2>2, <2>3
<1>12. QED
  BY <1>7, <1>9, <1>10, <1>11

LEMMA LinkClosedKeeps ==
    ASSUME IInv, NEW l \in Links, LinkClosed(l)
    PROVE  IInv'
<1> DEFINE n == Emptied(SlotsLeft(Closed(master, l), l), l)
<1>1. master' = n
  BY DEF LinkClosed, Emptied, SlotsLeft, SlotLeft, Closed
<1>2. Good(n, DOMAIN done, master.links \ {l}) /\ n.links = master.links \ {l}
  BY LinkClosedGood DEF IInv
<1> HIDE DEF n
<1>3. Good(master', DOMAIN done, master'.links)
  BY <1>1, <1>2
<1>4. slot' \in [Links -> SlotTables] /\ toMaster' \in [Links -> Seq(Requests)]
  <2>1. slot \in [Links -> SlotTables] /\ toMaster \in [Links -> Seq(Requests)]
    BY DEF IInv, Typed
  <2>2. /\ slot' = [slot EXCEPT ![l] = [i \in Slots |-> FreeSlot]]
        /\ toMaster' = [toMaster EXCEPT ![l] = <<>>]
    BY DEF LinkClosed
  <2>3. slot' \in [Links -> SlotTables]
    BY <2>1, <2>2, FreeTable
  <2>4. toMaster' \in [Links -> Seq(Requests)]
    BY <2>1, <2>2
  <2>5. QED
    BY <2>3, <2>4
<1>5. stage' = stage /\ stage \notin {"joined", "stopped"}
  BY DEF LinkClosed, IInv, Ended
<1>6. UNCHANGED <<done, kicks, database, logins, accepted>>
  BY DEF LinkClosed
<1>7. Typed' /\ KicksSpare' /\ Spared' = Spared
  BY <1>4, <1>5, <1>6 DEF IInv, Typed, KicksSpare, Spared, database
<1>8. Ended'
  BY <1>5 DEF Ended
<1>9. QED
  BY <1>3, <1>6, <1>7, <1>8, Keeps DEF database

LEMMA DeadlineKeeps ==
    ASSUME IInv, Deadline
    PROVE  IInv'
<1>1. PICK i \in DOMAIN master.waiting :
          master' = [master EXCEPT !.waiting[i].late = TRUE]
  BY DEF Deadline
<1> DEFINE w == master.waiting
           j == [w[i] EXCEPT !.late = TRUE]
           q == [w EXCEPT ![i] = j]
<1>2. /\ master \in Masters /\ w \in Seq(Joins) /\ w[i] \in Joins
      /\ \A k \in DOMAIN w : JoinRead(w[k])
  BY <1>1 DEF IInv, Good, Masters
<1>3. j \in Joins /\ j.acct = w[i].acct /\ j.data = w[i].data
  BY <1>2 DEF Joins
<1>4. master' = [master EXCEPT !.waiting = q]
  BY <1>1 DEF Masters
<1> HIDE DEF w, j
<1>5. q \in Seq(Joins) /\ DOMAIN q = DOMAIN w
      /\ \A k \in DOMAIN w : q[k] = IF k = i THEN j ELSE w[k]
  BY <1>1, <1>2, <1>3, Changed DEF w
<1>6. \A k \in DOMAIN q : JoinRead(q[k])
  BY <1>1, <1>2, <1>3, <1>5 DEF JoinRead, w
<1> HIDE DEF q
<1>7. master' = Waits(master, q)
  BY <1>4 DEF Waits
<1>8. /\ Good(Waits(master, q), DOMAIN done, master.links)
      /\ Waits(master, q).links = master.links /\ Waits(master, q).jobs = master.jobs
      /\ Waits(master, q).player = master.player
  BY <1>5, <1>6, WaitsGood DEF IInv
<1>9. QED
  BY <1>7, <1>8, ServerKeeps DEF Deadline, IInv, Typed, servers

\* Someone asks for a kick or a drop.
LEMMA AskedKicks ==
    ASSUME NEW k \in Kicks, NEW q \in Seq(Kicks)
    PROVE  /\ <<k>> \o q \in Seq(Kicks)
           /\ \A i \in DOMAIN (<<k>> \o q) :
                  (<<k>> \o q)[i] = k \/ \E n \in DOMAIN q : (<<k>> \o q)[i] = q[n]
<1> DEFINE r == <<k>> \o q
<1>1. r \in Seq(Kicks) /\ DOMAIN r = 1 .. 1 + Len(q)
  OBVIOUS
<1>2. r[1] = k /\ \A i \in 2 .. 1 + Len(q) : r[i] = q[i - 1] /\ i - 1 \in DOMAIN q
  OBVIOUS
<1> HIDE DEF r
<1>3. ASSUME NEW i \in DOMAIN r
      PROVE  r[i] = k \/ \E n \in DOMAIN q : r[i] = q[n]
  <2>1. i = 1 \/ i \in 2 .. 1 + Len(q)
    BY <1>1
  <2>2. QED
    BY <1>2, <2>1
<1>4. QED
  BY <1>1, <1>3 DEF r

LEMMA AskKickKeeps ==
    ASSUME IInv, NEW a \in Accounts, NEW drop \in BOOLEAN, AskKick(a, drop),
           deleting' \subseteq account \cap Deletable, deleting \subseteq deleting',
           drop => a \in deleting',
           UNCHANGED <<master, done, stage, account, db, servers, accepted>>
    PROVE  IInv'
<1> DEFINE k == [acct |-> a, drop |-> drop]
<1>1. k \in Kicks /\ kicks \in Seq(Kicks) /\ kicks' = <<k>> \o kicks
  BY DEF Kicks, IInv, Typed, AskKick
<1>2. k.acct = a /\ k.drop = drop
  OBVIOUS
<1> HIDE DEF k
<1>3. /\ kicks' \in Seq(Kicks)
      /\ \A i \in DOMAIN kicks' : kicks'[i] = k \/ \E n \in DOMAIN kicks : kicks'[i] = kicks[n]
  BY <1>1, AskedKicks
<1>4. Spared' \subseteq Spared /\ (drop => a \notin Spared')
  BY DEF Spared
<1>5. KicksSpare'
  BY <1>2, <1>3, <1>4 DEF IInv, KicksSpare
<1>6. Typed' /\ stage' = "running"
  BY <1>3 DEF IInv, Typed, servers, AskKick
<1>7. Ended'
  BY <1>6 DEF Ended
<1>8. QED
  BY <1>4, <1>5, <1>6, <1>7, Keeps DEF IInv

LEMMA OwnerKeeps ==
    ASSUME IInv, NEW a \in Accounts, Owner(a)
    PROVE  IInv'
<1>1. CASE LogoutAll(a)
  <2>1. AskKick(a, FALSE) /\ deleting' = deleting
    BY <1>1 DEF LogoutAll
  <2>2. QED
    BY <1>1, <2>1, AskKickKeeps DEF LogoutAll, IInv, Typed
<1>2. CASE DropAccount(a)
  <2>1. AskKick(a, TRUE) /\ deleting' = deleting \cup {a} /\ a \in Deletable \cap account
    BY <1>2 DEF DropAccount
  <2>2. QED
    BY <1>2, <2>1, AskKickKeeps DEF DropAccount, IInv, Typed
<1>3. CASE DeleteRows(a)
  <2>1. /\ a \in deleting /\ deleting' = deleting \ {a}
        /\ \/ account' = account \ {a} /\ db' = [db EXCEPT ![a] = NoRow]
           \/ DbMayFail /\ UNCHANGED <<account, db>>
        /\ UNCHANGED <<master, done, kicks, stage, requests, servers, accepted>>
    BY <1>3 DEF DeleteRows
  <2>2. deleting \subseteq account \cap Deletable /\ db \in [Accounts -> Progress \cup {NoRow}]
    BY DEF IInv, Typed
  <2>3. Spared' \subseteq Spared /\ a \notin Spared'
    BY <2>1, <2>2 DEF Spared
  <2>4. \A b \in Spared' : db'[b] = db[b]
    <3>1. Spared' \subseteq Accounts
      BY <2>3 DEF IInv, Good
    <3>2. QED
      BY <2>1, <2>2, <2>3, <3>1
  <2>5. Typed'
    <3>1. /\ db' \in [Accounts -> Progress \cup {NoRow}]
          /\ account' \subseteq account /\ deleting' \subseteq account' \cap Deletable
      BY <2>1, <2>2
    <3>2. QED
      BY <2>1, <3>1 DEF IInv, Typed, servers
  <2>6. KicksSpare' /\ Ended'
    BY <2>1, <2>3 DEF IInv, KicksSpare, Ended
  <2>7. QED
    BY <2>1, <2>3, <2>4, <2>5, <2>6, Keeps DEF IInv
<1>4. QED
  BY <1>1, <1>2, <1>3 DEF Owner

\* The end of the master.
LEMMA StopKeeps ==
    ASSUME IInv, Stop
    PROVE  IInv'
<1>1. Typed' /\ KicksSpare' /\ Spared' = Spared
  BY DEF IInv, Typed, KicksSpare, Spared, Stop, database, servers
<1>2. Ended'
  BY DEF Stop, Ended
<1>3. QED
  BY <1>1, <1>2, Keeps DEF IInv, Stop, database

LEMMA JobsShutdownKeeps ==
    ASSUME IInv, JobsShutdown
    PROVE  IInv'
<1> DEFINE k == DrainDone(master)
<1>1. Good(k, {}, master.links) /\ k.links = master.links /\ k.jobs = master.jobs
  BY DrainDoneGood DEF IInv, Typed
<1>2. master' = k /\ done' = <<>> /\ DOMAIN done' = {} /\ stage' = "joined"
      /\ master.links = {} /\ master.jobs = <<>>
  BY DEF JobsShutdown
<1> HIDE DEF k
<1>3. Typed' /\ KicksSpare' /\ Spared' = Spared
  BY <1>2 DEF IInv, Typed, KicksSpare, Spared, JobsShutdown, database, servers
<1>4. Ended'
  BY <1>1, <1>2 DEF Ended
<1>5. QED
  BY <1>1, <1>2, <1>3, <1>4, Keeps DEF JobsShutdown, database

\* The workers: a job is run.
LEMMA RanElsewhere ==
    ASSUME NEW p, NEW jobs, NEW more, NEW rest, NEW a, PlayerOK(p, jobs, rest, a),
           DOMAIN more = DOMAIN jobs,
           \A k \in DOMAIN jobs : FlushAt(more, k, a) <=> FlushAt(jobs, k, a),
           \A k \in DOMAIN jobs : FlushAt(jobs, k, a) => more[k] = jobs[k]
    PROVE  PlayerOK(p, more, rest, a)
<1>1. OneFlush(p, more, rest, a)
  BY DEF PlayerOK, OneFlush
<1>2. \A k \in DOMAIN more : FlushOK(more, k, p, a)
  BY DEF PlayerOK, FlushOK
<1>3. QED
  BY <1>1, <1>2 DEF PlayerOK

LEMMA FlushRan ==
    ASSUME NEW p \in PlayerRecords, NEW jobs, NEW more, NEW a, NEW i \in DOMAIN jobs,
           PlayerOK(p, jobs, DOMAIN done, a), FlushAt(jobs, i, a), FlushAt(more, i, a),
           DOMAIN more = DOMAIN jobs, \A k \in DOMAIN jobs \ {i} : more[k] = jobs[k],
           more[i].version = jobs[i].version, more[i].data = jobs[i].data,
           done' = done, accepted'[a] = accepted[a],
           db'[a] = IF more[i].ok THEN jobs[i].data ELSE db[a]
    PROVE  PlayerOK(p, more, DOMAIN done, a)'
<1>1. FlushNewer(jobs[i], p) /\ (Old(a) => FlushSaves(jobs[i], p, a))
  BY DEF PlayerOK, FlushOK
<1>2. p.version # p.flushed
  BY <1>1 DEF FlushNewer, PlayerRecords
<1>3. \A k \in DOMAIN jobs : FlushAt(more, k, a) <=> k = i
  BY DEF PlayerOK, OneFlush, FlushAt
<1>4. \A k \in DOMAIN jobs : FlushAt(jobs, k, a) <=> k = i
  BY DEF PlayerOK, OneFlush
<1>5. \A k \in DOMAIN done : ~FlushAt(done, k, a)
  BY DEF PlayerOK, OneFlush
<1>6. p.flushing /\ p.flushed <= p.version /\ ~p.deleted
  BY DEF PlayerOK, OneFlush
<1>7. OneFlush(p, more, DOMAIN done, a)'
  BY <1>3, <1>5, <1>6 DEF OneFlush
<1>8. FlushNewer(more[i], p)
  BY <1>1 DEF FlushNewer
<1>9. Old(a) => p.data = accepted[a] /\ p.data # 0
  BY <1>2 DEF PlayerOK, PlayerSaved, Dirty
<1>10. Old(a) => FlushSaves(more[i], p, a)'
  BY <1>1, <1>9 DEF FlushSaves
<1>11. \A k \in DOMAIN more : FlushOK(more, k, p, a)'
  BY <1>3, <1>8, <1>10 DEF FlushOK, FlushNewer, Old
<1>12. \A k \in DOMAIN done' : FlushOK(done, k, p, a)'
  BY <1>5 DEF FlushOK
<1>13. (Old(a) => PlayerSaved(p, a))'
  BY <1>2, <1>9 DEF PlayerSaved, Dirty, Old
<1>14. QED
  BY <1>6, <1>7, <1>11, <1>12, <1>13 DEF PlayerOK

\* A job is replaced by the same one, run.
Ran(m, i, job) == [m EXCEPT !.jobs = [m.jobs EXCEPT ![i] = job]]

LEMMA RanIsOne ==
    ASSUME NEW m \in Masters, NEW i \in DOMAIN m.jobs, NEW job \in Jobs
    PROVE  LET n == Ran(m, i, job)
           IN  /\ n \in Masters /\ n.links = m.links /\ n.player = m.player
               /\ n.uuids = m.uuids /\ n.waiting = m.waiting
               /\ DOMAIN n.jobs = DOMAIN m.jobs
               /\ \A k \in DOMAIN m.jobs : n.jobs[k] = IF k = i THEN job ELSE m.jobs[k]
<1> DEFINE q == [m.jobs EXCEPT ![i] = job]
           n == Ran(m, i, job)
<1>1. /\ q \in Seq(Jobs) /\ DOMAIN q = DOMAIN m.jobs
      /\ \A k \in DOMAIN m.jobs : q[k] = IF k = i THEN job ELSE m.jobs[k]
  BY Changed DEF Masters
<1>2. n = [m EXCEPT !.jobs = q]
  BY DEF Ran
<1> HIDE DEF q, n
<1>3. /\ n \in Masters /\ n.links = m.links /\ n.player = m.player
      /\ n.uuids = m.uuids /\ n.waiting = m.waiting /\ n.jobs = q
  BY <1>1, <1>2 DEF Masters
<1>4. QED
  BY <1>1, <1>3 DEF n

\* What running a job comes to, whatever the job.
LEMMA RunKeeps ==
    ASSUME IInv, NEW i \in DOMAIN master.jobs, NEW job \in Jobs,
           master' = Ran(master, i, job), job.kind = master.jobs[i].kind,
           job.acct = master.jobs[i].acct, JoinOK(job), db' \in [Accounts -> Progress \cup {NoRow}],
           \A a \in Spared : PlayerOK(master.player[a], master.jobs, DOMAIN done, a)',
           \A a \in Spared : Old(a) => db'[a] \notin {NoRow, 0},
           UNCHANGED <<done, kicks, stage, account, requests, deleting, servers, accepted>>
    PROVE  IInv'
<1>1. /\ master' \in Masters /\ master'.links = master.links
      /\ master'.player = master.player /\ master'.uuids = master.uuids
      /\ master'.waiting = master.waiting /\ DOMAIN master'.jobs = DOMAIN master.jobs
      /\ \A k \in DOMAIN master.jobs : master'.jobs[k] = IF k = i THEN job ELSE master.jobs[k]
  BY RanIsOne DEF IInv, Good
<1>2. Spared' = Spared /\ Spared \subseteq Accounts /\ done' = done
  BY DEF Spared, IInv, Good
<1>3. Typed'
  BY DEF IInv, Typed, servers
<1>4. \A j : JoinRead(j) => JoinRead(j)'
  BY <1>2 DEF JoinRead, Old
<1>5. \A j : JoinOK(j) => JoinOK(j)'
  BY <1>4 DEF JoinOK
<1>6. /\ \A k \in DOMAIN master'.waiting : JoinRead(master.waiting[k])'
      /\ \A k \in DOMAIN master'.jobs : JoinOK(master.jobs[k])'
      /\ \A k \in DOMAIN done' : JoinOK(done[k])'
  <2>1. /\ \A k \in DOMAIN master.waiting : JoinRead(master.waiting[k])
        /\ \A k \in DOMAIN master.jobs : JoinOK(master.jobs[k])
        /\ \A k \in DOMAIN done : JoinOK(done[k])
    BY DEF IInv, Good, DoneRead
  <2>2. \A k \in DOMAIN master'.jobs : JoinOK(master'.jobs[k])
    BY <1>1, <2>1
  <2>3. QED
    BY <1>1, <1>2, <1>4, <1>5, <2>1, <2>2
<1>7. Named(master, master.links)'
  BY <1>1 DEF IInv, Good, Named
<1>8. Good(master, DOMAIN done, master.links)'
  BY <1>1, <1>2, <1>6, <1>7 DEF Good
<1>9. RowsKept'
  BY <1>2 DEF IInv, RowsKept, Old
<1>10. DoneRead'
  BY <1>6 DEF DoneRead
<1>11. master.jobs # <<>> /\ stage' = stage
  OBVIOUS
<1>12. KicksSpare' /\ Ended'
  BY <1>1, <1>2, <1>11 DEF IInv, KicksSpare, Ended
<1>13. QED
  BY <1>3, <1>8, <1>9, <1>10, <1>12 DEF IInv

LEMMA RunFlushKeeps ==
    ASSUME IInv, NEW i \in DOMAIN master.jobs, RunFlush(i),
           UNCHANGED <<done, kicks, stage, account, requests, deleting, servers, accepted>>
    PROVE  IInv'
<1>1. PICK ok \in BOOLEAN :
          /\ master' = [master EXCEPT !.jobs[i] =
                           [master.jobs[i] EXCEPT !.ran = TRUE, !.ok = ok]]
          /\ db' = IF ok THEN [db EXCEPT ![master.jobs[i].acct] = master.jobs[i].data] ELSE db
  BY DEF RunFlush
<1>2. PICK f : f = master.jobs[i]
  OBVIOUS
<1>3. PICK job : job = [f EXCEPT !.ran = TRUE, !.ok = ok]
  OBVIOUS
<1>4. /\ master \in Masters /\ f \in Flushes /\ Spared \subseteq Accounts
      /\ db \in [Accounts -> Progress \cup {NoRow}]
  BY <1>2 DEF IInv, Typed, Good, Masters, RunFlush, Jobs, Joins
<1>5. /\ job \in Flushes /\ job.kind = "flush" /\ job.acct = f.acct /\ job.ok = ok
      /\ job.version = f.version /\ job.data = f.data /\ f.kind = "flush"
      /\ f.acct \in Accounts /\ f.data \in Progress
  BY <1>3, <1>4 DEF Flushes
<1>6. master' = Ran(master, i, job)
  BY <1>1, <1>2, <1>3, <1>4 DEF Ran, Masters
<1>7. db' = IF ok THEN [db EXCEPT ![f.acct] = f.data] ELSE db
  BY <1>1, <1>2
<1>8. JoinOK(job) /\ job \in Jobs
  BY <1>5 DEF JoinOK, Jobs
<1>9. db' \in [Accounts -> Progress \cup {NoRow}]
  BY <1>4, <1>5, <1>7
<1>10. /\ master'.player = master.player /\ DOMAIN master'.jobs = DOMAIN master.jobs
       /\ \A k \in DOMAIN master.jobs :
             master'.jobs[k] = IF k = i THEN job ELSE master.jobs[k]
  BY <1>4, <1>6, <1>8, RanIsOne
<1>11. ASSUME NEW a \in Spared
       PROVE  /\ PlayerOK(master.player[a], master.jobs, DOMAIN done, a)'
              /\ Old(a) => db'[a] \notin {NoRow, 0}
  <2>1. /\ a \in Accounts /\ PlayerOK(master.player[a], master.jobs, DOMAIN done, a)
        /\ master.player[a] \in PlayerRecords
        /\ Old(a) => db[a] \notin {NoRow, 0}
    BY <1>4 DEF IInv, Good, RowsKept, Masters
  <2>2. CASE a = f.acct
    <3>1. FlushAt(master.jobs, i, a) /\ FlushAt(master'.jobs, i, a) /\ master'.jobs[i] = job
      BY <1>2, <1>5, <1>10, <2>2 DEF FlushAt
    <3>2. db'[a] = IF job.ok THEN master.jobs[i].data ELSE db[a]
      BY <1>2, <1>4, <1>5, <1>7, <2>2
    <3>3. PlayerOK(master.player[a], master.jobs, DOMAIN done, a)'
      BY <1>2, <1>5, <1>10, <2>1, <3>1, <3>2, FlushRan
    <3>4. Old(a) => master.jobs[i].data # 0 /\ master.jobs[i].data # NoRow
      BY <1>2, <1>5, <2>1, <3>1, Constants
      DEF PlayerOK, FlushOK, FlushSaves, Progress, NoRow
    <3>5. QED
      BY <2>1, <3>2, <3>3, <3>4
  <2>3. CASE a # f.acct
    <3>1. db'[a] = db[a] /\ accepted'[a] = accepted[a] /\ done' = done
      BY <1>4, <1>5, <1>7, <2>1, <2>3
    <3>2. /\ \A k \in DOMAIN master.jobs :
                FlushAt(master'.jobs, k, a) <=> FlushAt(master.jobs, k, a)
          /\ \A k \in DOMAIN master.jobs :
                FlushAt(master.jobs, k, a) => master'.jobs[k] = master.jobs[k]
      BY <1>2, <1>5, <1>10, <2>3 DEF FlushAt
    <3>3. PlayerOK(master.player[a], master'.jobs, DOMAIN done, a)
      BY <1>10, <2>1, <3>2, RanElsewhere
    <3>4. QED
      BY <1>10, <2>1, <3>1, <3>3, PlayerStill
  <2>4. QED
    BY <2>2, <2>3
<1>12. QED
  BY <1>2, <1>5, <1>6, <1>8, <1>9, <1>11, RunKeeps

LEMMA RunJoinKeeps ==
    ASSUME IInv, NEW i \in DOMAIN master.jobs, RunJoin(i),
           UNCHANGED <<done, kicks, stage, account, requests, deleting, servers, accepted>>
    PROVE  IInv'
<1>1. PICK ok \in BOOLEAN :
          /\ ok => master.jobs[i].acct \in account
          /\ master' = [master EXCEPT !.jobs[i] =
                           [master.jobs[i] EXCEPT !.ran = TRUE, !.ok = ok,
                               !.data = IF ok THEN db[master.jobs[i].acct] ELSE @]]
  BY DEF RunJoin
<1>2. PICK j : j = master.jobs[i]
  OBVIOUS
<1>3. PICK d : d = IF ok THEN db[j.acct] ELSE j.data
  OBVIOUS
<1>4. PICK job : job = [j EXCEPT !.ran = TRUE, !.ok = ok, !.data = d]
  OBVIOUS
<1>5. /\ master \in Masters /\ j \in Joins /\ Spared \subseteq Accounts
      /\ db \in [Accounts -> Progress \cup {NoRow}] /\ db' = db
  BY <1>2 DEF IInv, Typed, Good, Masters, RunJoin, Jobs, Flushes
<1>6. j.acct \in Accounts /\ j.kind = "join" /\ d \in Progress \cup {NoRow}
  BY <1>3, <1>5 DEF Joins
<1>7. /\ job \in Joins /\ job.kind = "join" /\ job.acct = j.acct /\ job.ok = ok
      /\ job.data = d
  BY <1>4, <1>5, <1>6 DEF Joins
<1>8. master' = Ran(master, i, job)
  <2>1. master.jobs[i].data = j.data /\ master.jobs[i].acct = j.acct
    BY <1>2
  <2>2. master' = [master EXCEPT !.jobs[i] = job]
    BY <1>1, <1>2, <1>3, <1>4
  <2>3. QED
    BY <1>5, <2>2 DEF Ran, Masters
<1>9. JoinOK(job) /\ job \in Jobs
  BY <1>3, <1>7 DEF JoinOK, JoinRead, Jobs, IInv, RowsKept
<1>10. /\ master'.player = master.player /\ DOMAIN master'.jobs = DOMAIN master.jobs
       /\ \A k \in DOMAIN master.jobs :
             master'.jobs[k] = IF k = i THEN job ELSE master.jobs[k]
  BY <1>5, <1>8, <1>9, RanIsOne
<1>11. ASSUME NEW a \in Spared
       PROVE  PlayerOK(master.player[a], master.jobs, DOMAIN done, a)'
  <2>1. /\ PlayerOK(master.player[a], master.jobs, DOMAIN done, a)
        /\ db'[a] = db[a] /\ accepted'[a] = accepted[a] /\ done' = done
    BY <1>5 DEF IInv, Good
  <2>2. /\ \A k \in DOMAIN master.jobs :
              FlushAt(master'.jobs, k, a) <=> FlushAt(master.jobs, k, a)
        /\ \A k \in DOMAIN master.jobs :
              FlushAt(master.jobs, k, a) => master'.jobs[k] = master.jobs[k]
    BY <1>2, <1>6, <1>7, <1>10 DEF FlushAt
  <2>3. PlayerOK(master.player[a], master'.jobs, DOMAIN done, a)
    BY <1>10, <2>1, <2>2, RanElsewhere
  <2>4. QED
    BY <1>10, <2>1, <2>3, PlayerStill
<1>12. \A a \in Spared : Old(a) => db'[a] \notin {NoRow, 0}
  BY <1>5 DEF IInv, RowsKept
<1>13. db' \in [Accounts -> Progress \cup {NoRow}]
  BY <1>5
<1>14. QED
  BY <1>2, <1>6, <1>7, <1>8, <1>9, <1>11, <1>12, <1>13, RunKeeps

LEMMA RunJobKeeps ==
    ASSUME IInv, NEW i, RunJob(i)
    PROVE  IInv'
BY RunFlushKeeps, RunJoinKeeps DEF RunJob

\* The completion of a job is pushed: the job is now a completion.
\* from[k] is where the job that is now in place k was, before the one in place i went.
Moves(jobs, more, i, from) ==
    /\ i \in DOMAIN jobs
    /\ \A k \in DOMAIN more : from[k] \in DOMAIN jobs \ {i} /\ more[k] = jobs[from[k]]
    /\ \A k \in DOMAIN jobs \ {i} : \E h \in DOMAIN more : from[h] = k
    /\ \A k, h \in DOMAIN more : from[k] = from[h] => k = h
\* later is q with x in place n.
Appends(q, later, n, x) ==
    /\ n \notin DOMAIN q /\ DOMAIN later = DOMAIN q \cup {n} /\ later[n] = x
    /\ \A k \in DOMAIN q : later[k] = q[k]

LEMMA PushedOK ==
    ASSUME NEW p, NEW jobs, NEW more, NEW a, PlayerOK(p, jobs, DOMAIN done, a),
           NEW i, NEW from, Moves(jobs, more, i, from),
           NEW n, Appends(done, done', n, jobs[i]),
           db'[a] = db[a], accepted'[a] = accepted[a]
    PROVE  PlayerOK(p, more, DOMAIN done, a)'
<1> USE DEF Moves, Appends
<1>1. \A k \in DOMAIN more : FlushAt(more, k, a) <=> FlushAt(jobs, from[k], a)
  BY DEF FlushAt
<1>2. /\ FlushAt(done', n, a) <=> FlushAt(jobs, i, a)
      /\ \A k \in DOMAIN done : FlushAt(done', k, a) <=> FlushAt(done, k, a)
  BY DEF FlushAt
<1>3. OneFlush(p, jobs, DOMAIN done, a)
  BY DEF PlayerOK
<1>4. p.flushing <=> \/ \E k \in DOMAIN more : FlushAt(more, k, a)
                     \/ \E k \in DOMAIN done' : FlushAt(done', k, a)
  <2>1. (\E k \in DOMAIN jobs : FlushAt(jobs, k, a)) <=>
            (\E k \in DOMAIN more : FlushAt(more, k, a)) \/ FlushAt(done', n, a)
    BY <1>1, <1>2
  <2>2. QED
    BY <1>2, <1>3, <2>1 DEF OneFlush
<1>5. \A k, h \in DOMAIN more : FlushAt(more, k, a) /\ FlushAt(more, h, a) => k = h
  BY <1>1, <1>3 DEF OneFlush
<1>6. \A k, h \in DOMAIN done' : FlushAt(done', k, a) /\ FlushAt(done', h, a) => k = h
  BY <1>2, <1>3 DEF OneFlush
<1>7. \A k \in DOMAIN more, h \in DOMAIN done' : ~(FlushAt(more, k, a) /\ FlushAt(done', h, a))
  <2>1. SUFFICES ASSUME NEW k \in DOMAIN more, NEW h \in DOMAIN done',
                        FlushAt(more, k, a), FlushAt(done', h, a)
                 PROVE  FALSE
    OBVIOUS
  <2>2. FlushAt(jobs, from[k], a) /\ from[k] \in DOMAIN jobs /\ from[k] # i
    BY <1>1, <2>1
  <2>3. CASE h = n
    BY <1>2, <1>3, <2>1, <2>2, <2>3 DEF OneFlush
  <2>4. CASE h # n
    BY <1>2, <1>3, <2>1, <2>2, <2>4 DEF OneFlush
  <2>5. QED
    BY <2>3, <2>4
<1>8. OneFlush(p, more, DOMAIN done, a)'
  BY <1>4, <1>5, <1>6, <1>7 DEF OneFlush
<1>9. \A f : FlushSaves(f, p, a) => FlushSaves(f, p, a)'
  BY DEF FlushSaves
<1>10. \A k \in DOMAIN jobs : FlushAt(jobs, k, a) =>
           FlushNewer(jobs[k], p) /\ (Old(a) => FlushSaves(jobs[k], p, a)')
  BY <1>9 DEF PlayerOK, FlushOK
<1>11. \A k \in DOMAIN done : FlushAt(done, k, a) =>
           FlushNewer(done[k], p) /\ (Old(a) => FlushSaves(done[k], p, a)')
  BY <1>9 DEF PlayerOK, FlushOK
<1>12. \A k \in DOMAIN more : FlushOK(more, k, p, a)'
  BY <1>1, <1>10 DEF FlushOK, FlushNewer, Old
<1>13. \A k \in DOMAIN done' : FlushOK(done, k, p, a)'
  <2>1. \A k \in DOMAIN done' : FlushAt(done', k, a) =>
            FlushNewer(done'[k], p) /\ (Old(a) => FlushSaves(done[k], p, a)')
    <3>1. SUFFICES ASSUME NEW k \in DOMAIN done', FlushAt(done', k, a)
                   PROVE  FlushNewer(done'[k], p) /\ (Old(a) => FlushSaves(done[k], p, a)')
      OBVIOUS
    <3>2. CASE k = n
      <4>1. FlushNewer(jobs[i], p) /\ (Old(a) => FlushSaves(jobs[i], p, a)')
        BY <1>2, <1>10, <3>1, <3>2
      <4>2. QED
        BY <3>2, <4>1
    <3>3. CASE k # n
      <4>1. k \in DOMAIN done /\ FlushAt(done, k, a) /\ done'[k] = done[k]
        BY <1>2, <3>1, <3>3
      <4>2. QED
        BY <1>11, <4>1
    <3>4. QED
      BY <3>2, <3>3
  <2>2. QED
    BY <2>1 DEF FlushOK, FlushAt, FlushNewer, Old
<1>14. (Old(a) => PlayerSaved(p, a))'
  BY DEF PlayerOK, PlayerSaved, Dirty, Old
<1>15. QED
  BY <1>8, <1>12, <1>13, <1>14 DEF PlayerOK

LEMMA PushDoneKeeps ==
    ASSUME IInv, NEW i, PushDone(i)
    PROVE  IInv'
<1>1. PICK jobs : jobs = master.jobs
  OBVIOUS
<1>2. PICK q : q = RemoveAt(jobs, i)
  OBVIOUS
<1>3. PICK n : n = Len(done) + 1
  OBVIOUS
<1>4. PICK from : from = [k \in 1 .. Len(jobs) - 1 |-> IF k < i THEN k ELSE k + 1]
  OBVIOUS
<1>5. /\ master \in Masters /\ jobs \in Seq(Jobs) /\ done \in Seq(Jobs)
      /\ i \in DOMAIN jobs /\ jobs[i] \in Jobs
  BY <1>1 DEF IInv, Typed, Good, Masters, PushDone
<1>6. /\ q \in Seq(Jobs) /\ DOMAIN q = 1 .. Len(jobs) - 1
      /\ \A k \in 1 .. Len(jobs) - 1 : q[k] = jobs[IF k < i THEN k ELSE k + 1]
  <2>1. IsRest(q, jobs, i)
    BY <1>2, <1>5 DEF IsRest, RemoveAt
  <2>2. QED
    BY <1>5, <2>1, WithoutOne
<1>7. /\ master' = [master EXCEPT !.jobs = q] /\ done' = Append(done, jobs[i])
      /\ UNCHANGED <<kicks, stage, database, servers, accepted>>
  BY <1>1, <1>2, <1>5 DEF PushDone, Masters
<1>8. /\ master' \in Masters /\ master'.links = master.links
      /\ master'.player = master.player /\ master'.uuids = master.uuids
      /\ master'.waiting = master.waiting /\ master'.jobs = q
  BY <1>5, <1>6, <1>7 DEF Masters
<1>9. /\ done' \in Seq(Jobs) /\ DOMAIN done' = DOMAIN done \cup {n} /\ done'[n] = jobs[i]
      /\ \A k \in DOMAIN done : done'[k] = done[k]
      /\ n \notin DOMAIN done
  <2>1. Append(done, jobs[i]) \in Seq(Jobs)
    BY <1>5
  <2>2. /\ DOMAIN Append(done, jobs[i]) = DOMAIN done \cup {n}
        /\ Append(done, jobs[i])[n] = jobs[i] /\ n \notin DOMAIN done
        /\ \A k \in DOMAIN done : Append(done, jobs[i])[k] = done[k]
    BY <1>3, <1>5, Appended
  <2>3. QED
    BY <1>7, <2>1, <2>2
<1>10. /\ \A k \in DOMAIN q : from[k] \in DOMAIN jobs \ {i} /\ q[k] = jobs[from[k]]
       /\ \A k \in DOMAIN jobs \ {i} : \E h \in DOMAIN q : from[h] = k
       /\ \A k, h \in DOMAIN q : from[k] = from[h] => k = h
  <2>1. DOMAIN jobs = 1 .. Len(jobs) /\ Len(jobs) \in Nat /\ i \in 1 .. Len(jobs)
    BY <1>5
  <2>2. \A k \in DOMAIN q : from[k] \in DOMAIN jobs \ {i} /\ q[k] = jobs[from[k]]
    BY <1>4, <1>6, <2>1
  <2>3. ASSUME NEW k \in DOMAIN jobs \ {i}
        PROVE  \E h \in DOMAIN q : from[h] = k
    <3>1. CASE k < i
      <4>1. k \in 1 .. Len(jobs) - 1 /\ from[k] = k
        BY <1>4, <2>1, <3>1
      <4>2. QED
        BY <1>6, <4>1
    <3>2. CASE ~(k < i)
      <4>1. k - 1 \in 1 .. Len(jobs) - 1 /\ ~(k - 1 < i) /\ k - 1 + 1 = k
        BY <2>1, <3>2
      <4>2. from[k - 1] = k
        BY <1>4, <4>1
      <4>3. QED
        BY <1>6, <4>1, <4>2
    <3>3. QED
      BY <3>1, <3>2
  <2>4. \A k, h \in DOMAIN q : from[k] = from[h] => k = h
    <3>1. \A k, h \in 1 .. Len(jobs) - 1 :
              (IF k < i THEN k ELSE k + 1) = (IF h < i THEN h ELSE h + 1) => k = h
      BY <2>1
    <3>2. QED
      BY <1>4, <1>6, <3>1
  <2>5. QED
    BY <2>2, <2>3, <2>4
<1>11. Spared' = Spared /\ db' = db /\ accepted' = accepted
  BY <1>7 DEF Spared, database
<1>12. ASSUME NEW a \in Spared
       PROVE  PlayerOK(master.player[a], master.jobs, DOMAIN done, a)'
  <2>1. PlayerOK(master.player[a], jobs, DOMAIN done, a)
    BY <1>1 DEF IInv, Good
  <2>2. ASSUME NEW p, PlayerOK(p, jobs, DOMAIN done, a)
        PROVE  PlayerOK(p, q, DOMAIN done, a)'
    <3>1. db'[a] = db[a] /\ accepted'[a] = accepted[a]
      BY <1>11
    <3>2. Moves(jobs, q, i, from)
      BY <1>5, <1>10 DEF Moves
    <3>3. Appends(done, done', n, jobs[i])
      BY <1>9 DEF Appends
    <3>4. QED
      BY <2>2, <3>1, <3>2, <3>3, PushedOK
  <2>3. QED
    BY <1>8, <2>1, <2>2
<1>13. \A j : JoinRead(j) => JoinRead(j)'
  BY <1>11 DEF JoinRead, Old
<1>14. \A j : JoinOK(j) => JoinOK(j)'
  BY <1>13 DEF JoinOK
<1>15. /\ \A k \in DOMAIN master.waiting : JoinRead(master.waiting[k])
       /\ \A k \in DOMAIN jobs : JoinOK(jobs[k])
       /\ \A k \in DOMAIN done : JoinOK(done[k])
  BY <1>1 DEF IInv, Good, DoneRead
<1>16. /\ \A k \in DOMAIN q : JoinOK(q[k])
       /\ \A k \in DOMAIN done' : JoinOK(done'[k])
  BY <1>5, <1>9, <1>10, <1>15
<1>17. /\ \A k \in DOMAIN master'.waiting : JoinRead(master.waiting[k])'
       /\ \A k \in DOMAIN master'.jobs : JoinOK(master.jobs[k])'
       /\ \A k \in DOMAIN done' : JoinOK(done[k])'
  BY <1>8, <1>13, <1>14, <1>15, <1>16
<1>18. Named(master, master.links)'
  BY <1>8 DEF IInv, Good, Named
<1>19. Spared' \subseteq Accounts
  BY <1>11 DEF IInv, Good
<1>20. Good(master, DOMAIN done, master.links)'
  BY <1>8, <1>11, <1>12, <1>17, <1>18, <1>19 DEF Good
<1>21. jobs # <<>>
  BY <1>5
<1>22. Typed' /\ RowsKept' /\ KicksSpare' /\ Ended'
  BY <1>1, <1>7, <1>8, <1>9, <1>11, <1>21
  DEF IInv, Typed, RowsKept, KicksSpare, Ended, Old, database, servers
<1>23. DoneRead'
  BY <1>17 DEF DoneRead
<1>24. QED
  BY <1>20, <1>22, <1>23 DEF IInv

\* What is still unsaved at the end is written.
LEMMA GamesShutdownKeeps ==
    ASSUME IInv, GamesShutdown
    PROVE  IInv'
<1>1. PICK saved \in SUBSET Unsaved(master) :
          /\ DbMayFail \/ saved = Unsaved(master)
          /\ db' = [a \in Accounts |-> IF a \in saved THEN master.player[a].data ELSE db[a]]
          /\ master' = [master EXCEPT !.player = [a \in Accounts |->
                           IF a \in saved
                           THEN [@[a] EXCEPT !.flushed = master.player[a].version]
                           ELSE @[a]]]
  BY DEF GamesShutdown
<1> DEFINE player == [a \in Accounts |->
                         IF a \in saved
                         THEN [master.player[a] EXCEPT !.flushed = master.player[a].version]
                         ELSE master.player[a]]
<1>2. /\ master \in Masters /\ saved \subseteq Accounts
      /\ \A a \in Accounts : a \in saved => Dirty(master.player[a])
      /\ db \in [Accounts -> Progress \cup {NoRow}]
  BY DEF IInv, Good, Typed, Unsaved
<1>3. master' = [master EXCEPT !.player = player]
  BY <1>1, <1>2 DEF Masters
<1>4. \A a \in Accounts :
          /\ player[a] \in PlayerRecords /\ player[a].link = master.player[a].link
          /\ player[a].pos = master.player[a].pos
          /\ player[a].data = master.player[a].data
          /\ player[a].version = master.player[a].version
          /\ player[a].flushing = master.player[a].flushing
          /\ player[a].deleted = master.player[a].deleted
          /\ player[a].flushed = IF a \in saved THEN master.player[a].version
                                 ELSE master.player[a].flushed
  <2>1. SUFFICES ASSUME NEW a \in Accounts
                 PROVE  /\ player[a] \in PlayerRecords /\ player[a].link = master.player[a].link
                        /\ player[a].pos = master.player[a].pos
                        /\ player[a].data = master.player[a].data
                        /\ player[a].version = master.player[a].version
                        /\ player[a].flushing = master.player[a].flushing
                        /\ player[a].deleted = master.player[a].deleted
                        /\ player[a].flushed = IF a \in saved THEN master.player[a].version
                                               ELSE master.player[a].flushed
    OBVIOUS
  <2>2. master.player[a] \in PlayerRecords
    BY <1>2 DEF Masters
  <2>3. CASE a \in saved
    BY <2>2, <2>3 DEF PlayerRecords
  <2>4. CASE a \notin saved
    BY <2>2, <2>4
  <2>5. QED
    BY <2>3, <2>4
<1>5. player \in [Accounts -> PlayerRecords]
  <2>1. \A a \in Accounts : player[a] \in PlayerRecords
    BY <1>4
  <2>2. player = [a \in Accounts |-> player[a]]
    OBVIOUS
  <2> HIDE DEF player
  <2>3. QED
    BY <2>1, <2>2
<1> HIDE DEF player
<1>6. /\ master' \in Masters /\ master'.links = master.links /\ master'.player = player
      /\ master'.uuids = master.uuids /\ master'.waiting = master.waiting
      /\ master'.jobs = master.jobs
  BY <1>2, <1>3, <1>5 DEF Masters
<1>7. /\ stage = "joined" /\ stage' = "stopped"
      /\ UNCHANGED <<done, kicks, account, requests, deleting, servers, accepted>>
  BY DEF GamesShutdown
<1>8. master.links = {} /\ master.jobs = <<>> /\ done = <<>>
  BY <1>7 DEF IInv, Ended
<1>9. Spared' = Spared /\ Spared \subseteq Accounts
  BY <1>7 DEF Spared, IInv, Good
<1>10. DOMAIN master'.jobs = {} /\ DOMAIN master.jobs = {} /\ DOMAIN done' = {} /\ DOMAIN done = {}
  BY <1>6, <1>7, <1>8
<1>11. \A a \in Accounts : db'[a] = IF a \in saved THEN master.player[a].data ELSE db[a]
  BY <1>1
<1>12. ASSUME NEW a \in Spared
       PROVE  /\ PlayerOK(master.player[a], master.jobs, DOMAIN done, a)'
              /\ Old(a) => db'[a] \notin {NoRow, 0}
  <2>1. PlayerOK(master.player[a], master.jobs, DOMAIN done, a) /\ a \in Accounts
    BY <1>9 DEF IInv, Good
  <2>2. ~master.player[a].flushing
    BY <1>10, <2>1 DEF PlayerOK, OneFlush
  <2>3. OneFlush(master.player[a], master.jobs, DOMAIN done, a)'
    BY <1>4, <1>6, <1>10, <2>1, <2>2 DEF OneFlush
  <2>4. master.player[a] \in PlayerRecords /\ master.player[a].data \in Progress
    BY <1>2, <2>1 DEF Masters, PlayerRecords
  <2>5. player[a].flushed <= player[a].version /\ ~player[a].deleted
    BY <1>4, <2>1, <2>4 DEF PlayerOK, PlayerRecords
  <2>6. Old(a) => IF Dirty(player[a]) THEN player[a].data = accepted[a] /\ player[a].data # 0
                  ELSE db'[a] = accepted[a]
    <3>1. CASE a \in saved
      <4>1. ~Dirty(player[a]) /\ Dirty(master.player[a]) /\ db'[a] = master.player[a].data
        BY <1>2, <1>4, <1>11, <2>1, <3>1 DEF Dirty
      <4>2. QED
        BY <2>1, <4>1 DEF PlayerOK, PlayerSaved
    <3>2. CASE a \notin saved
      <4>1. /\ Dirty(player[a]) <=> Dirty(master.player[a])
            /\ player[a].data = master.player[a].data /\ db'[a] = db[a]
        BY <1>4, <1>11, <2>1, <3>2 DEF Dirty
      <4>2. QED
        BY <2>1, <4>1 DEF PlayerOK, PlayerSaved
    <3>3. QED
      BY <3>1, <3>2
  <2>7. (Old(a) => PlayerSaved(master.player[a], a))'
    BY <1>6, <1>7, <2>6 DEF PlayerSaved, Old, Dirty
  <2>8. PlayerOK(master.player[a], master.jobs, DOMAIN done, a)'
    <3>1. /\ \A k \in DOMAIN master'.jobs : FlushOK(master.jobs, k, master.player[a], a)'
          /\ \A k \in DOMAIN done' : FlushOK(done, k, master.player[a], a)'
      BY <1>10
    <3>2. QED
      BY <1>6, <2>3, <2>5, <2>7, <3>1 DEF PlayerOK
  <2>9. Old(a) => db'[a] \notin {NoRow, 0}
    <3>1. Old(a) => db[a] \notin {NoRow, 0}
      BY DEF IInv, RowsKept
    <3>2. a \in saved /\ Old(a) => master.player[a].data \notin {NoRow, 0}
      BY <1>2, <2>1, <2>4, Constants DEF PlayerOK, PlayerSaved, Progress, NoRow
    <3>3. QED
      BY <1>11, <2>1, <3>1, <3>2
  <2>10. QED
    BY <2>8, <2>9
<1>13. db' \in [Accounts -> Progress \cup {NoRow}]
  <2>1. \A a \in Accounts : db'[a] \in Progress \cup {NoRow}
    BY <1>2, <1>11 DEF Masters, PlayerRecords
  <2>2. QED
    BY <1>1, <2>1
<1>14. Good(master, DOMAIN done, master.links)'
  <2>1. \A j : JoinRead(j) => JoinRead(j)'
    BY <1>9 DEF JoinRead, Old
  <2>2. \A k \in DOMAIN master'.waiting : JoinRead(master.waiting[k])'
    BY <1>6, <2>1 DEF IInv, Good
  <2>3. Named(master, master.links)'
    <3>1. /\ \A l \in Links, k \in Slots : master.uuids[l][k] = NoAccount
          /\ \A a \in Accounts : master.player[a].link # NoLink =>
                                    master.player[a].pos \in Slots
      BY <1>8 DEF IInv, Good, Named
    <3>2. /\ \A l \in Links, k \in Slots : master'.uuids[l][k] = NoAccount
          /\ \A a \in Accounts : master'.player[a].link # NoLink =>
                                    master'.player[a].pos \in Slots
      BY <1>4, <1>6, <3>1
    <3>3. QED
      BY <3>2 DEF Named
  <2>4. \A k \in DOMAIN master'.jobs : JoinOK(master.jobs[k])'
    BY <1>10
  <2>5. QED
    BY <1>6, <1>9, <1>12, <2>2, <2>3, <2>4 DEF Good
<1>15. Typed' /\ KicksSpare'
  BY <1>7, <1>9, <1>13 DEF IInv, Typed, KicksSpare, servers
<1>16. RowsKept'
  BY <1>7, <1>9, <1>12 DEF IInv, RowsKept, Old
<1>17. DoneRead'
  BY <1>10 DEF DoneRead
<1>18. Ended'
  <2>1. \A a \in Spared : DbMayFail \/ ~Dirty(player[a])
    <3>1. SUFFICES ASSUME NEW a \in Spared, ~DbMayFail
                   PROVE  ~Dirty(player[a])
      OBVIOUS
    <3>2. a \in Accounts /\ saved = Unsaved(master)
      BY <1>1, <1>9, <3>1
    <3>3. a \in saved \/ ~Dirty(master.player[a])
      BY <3>2 DEF Unsaved
    <3>4. QED
      BY <1>4, <3>2, <3>3 DEF Dirty
  <2>2. QED
    BY <1>6, <1>7, <1>8, <1>9, <2>1 DEF Ended
<1>19. QED
  BY <1>14, <1>15, <1>16, <1>17, <1>18 DEF IInv

-----------------------------------------------------------------------------
(* The invariant.                                                           *)
LEMMA InitIInv == Init => IInv
<1> SUFFICES ASSUME Init PROVE IInv
  OBVIOUS
<1>1. /\ master = [links |-> {}, player |-> [a \in Accounts |-> NoPlayer],
                   uuids |-> [l \in Links |-> [i \in Slots |-> NoAccount]],
                   waiting |-> <<>>, jobs |-> <<>>, out |-> [l \in Links |-> <<>>]]
      /\ done = <<>> /\ kicks = <<>> /\ stage = "running"
      /\ account = Accounts /\ deleting = {}
      /\ db = [a \in Accounts |-> IF a \in OldAccounts THEN 1 ELSE NoRow]
      /\ slot = [l \in Links |-> [i \in Slots |-> FreeSlot]]
      /\ toMaster = [l \in Links |-> <<>>]
      /\ logins = 0
      /\ accepted = [a \in Accounts |-> IF a \in OldAccounts THEN 1 ELSE 0]
  BY DEF Init
<1>2. /\ DOMAIN done = {} /\ DOMAIN kicks = {} /\ DOMAIN master.jobs = {}
      /\ DOMAIN master.waiting = {}
  BY <1>1
<1>3. Spared \subseteq Accounts
  BY <1>1 DEF Spared
<1>4. master \in Masters
  BY <1>1, NoPlayerIsOne DEF Masters
<1>5. /\ \A a \in Accounts : master.player[a] = NoPlayer
      /\ \A l \in Links, i \in Slots : master.uuids[l][i] = NoAccount
  BY <1>1
<1>6. 0 \in Progress /\ 1 \in Progress /\ 0 \in Nonces
  BY Constants DEF Progress, Nonces
<1>7. /\ db \in [Accounts -> Progress \cup {NoRow}] /\ accepted \in [Accounts -> Progress]
      /\ \A a \in OldAccounts : db[a] = 1 /\ accepted[a] = 1
  BY <1>1, <1>6, Constants
<1>8. slot \in [Links -> SlotTables]
  BY <1>1, FreeSlotIsOne DEF SlotTables, FreeSlot
<1>9. Typed
  <2>1. done \in Seq(Jobs) /\ kicks \in Seq(Kicks) /\ toMaster \in [Links -> Seq(Requests)]
    BY <1>1
  <2>2. QED
    BY <1>1, <1>6, <1>7, <1>8, <2>1 DEF Typed
<1>10. RowsKept /\ KicksSpare /\ DoneRead /\ Ended
  <2>1. RowsKept
    BY <1>7 DEF RowsKept, Old, NoRow
  <2>2. KicksSpare /\ DoneRead
    BY <1>2 DEF KicksSpare, DoneRead
  <2>3. stage = "running"
    BY <1>1
  <2>4. Ended
    BY <2>3 DEF Ended
  <2>5. QED
    BY <2>1, <2>2, <2>4
<1>11. ASSUME NEW a \in Spared
       PROVE  PlayerOK(master.player[a], master.jobs, DOMAIN done, a)
  <2>1. master.player[a] = NoPlayer /\ ~Dirty(NoPlayer)
    BY <1>3, <1>5 DEF Dirty, NoPlayer
  <2>2. Old(a) => db[a] = accepted[a]
    BY <1>7 DEF Old
  <2>3. OneFlush(NoPlayer, master.jobs, DOMAIN done, a)
    BY <1>2 DEF OneFlush, NoPlayer
  <2>4. NoPlayer.flushed <= NoPlayer.version /\ ~NoPlayer.deleted
    BY DEF NoPlayer
  <2>5. QED
    BY <1>2, <2>1, <2>2, <2>3, <2>4 DEF PlayerOK, PlayerSaved
<1>12. Named(master, master.links)
  BY <1>5 DEF Named, NoPlayer
<1>13. QED
  BY <1>2, <1>3, <1>4, <1>9, <1>10, <1>11, <1>12 DEF IInv, Good

LEMMA NextIInv == IInv /\ [Next]_vars => IInv'
<1> SUFFICES ASSUME IInv, [Next]_vars PROVE IInv'
  OBVIOUS
<1>1. ASSUME NEW l \in Links, LinkUp(l) PROVE IInv'
  BY <1>1, LinkUpKeeps
<1>2. ASSUME NEW l \in Links, HandleMessage(l) PROVE IInv'
  BY <1>2, HandleMessageKeeps
<1>3. ASSUME NEW l \in Links, LinkClosed(l) PROVE IInv'
  BY <1>3, LinkClosedKeeps
<1>4. ASSUME NEW l \in Links, GameServer(l) PROVE IInv'
  BY <1>4, LoginKeeps, LogoutKeeps, ForgetKeeps, PlayKeeps, ReceiveKeeps, CrashKeeps
  DEF GameServer
<1>5. ASSUME NEW i \in 1 .. Workers, RunJob(i) \/ PushDone(i) PROVE IInv'
  BY <1>5, RunJobKeeps, PushDoneKeeps
<1>6. ASSUME NEW a \in Accounts, Owner(a) PROVE IInv'
  BY <1>6, OwnerKeeps
<1>7. CASE Service
  BY <1>7, ServiceKeeps
<1>8. CASE Deadline
  BY <1>8, DeadlineKeeps
<1>9. CASE Shutdown
  BY <1>9, StopKeeps, JobsShutdownKeeps, GamesShutdownKeeps DEF Shutdown
<1>10. CASE UNCHANGED vars
  <2>1. /\ UNCHANGED <<master, done, kicks, stage, account, requests, deleting, db>>
        /\ UNCHANGED <<process, slot, toMaster, logins, accepted>>
    BY <1>10 DEF vars, database, servers
  <2>2. Typed' /\ KicksSpare' /\ Ended' /\ Spared' = Spared
    BY <2>1 DEF IInv, Typed, KicksSpare, Ended, Spared, Old
  <2>3. QED
    BY <2>1, <2>2, Keeps DEF IInv
<1>11. QED
  BY <1>1, <1>2, <1>3, <1>4, <1>5, <1>6, <1>7, <1>8, <1>9, <1>10 DEF Next

\* The invariant holds, whatever the game servers, clients and workers do.
THEOREM SpecIInv == Spec => []IInv
<1>1. Init => IInv
  BY InitIInv
<1>2. IInv /\ [Next]_vars => IInv'
  BY NextIInv
<1>3. QED
  BY <1>1, <1>2, PTL DEF Spec

\* Types, and nothing of a player who stays is marked saved that was never there to save
\* (struct player's version and flushed_version).
THEOREM SpecTypeOK == Spec => []TypeOK
<1>1. IInv => TypeOK
  <2> SUFFICES ASSUME IInv PROVE TypeOK
    OBVIOUS
  <2>1. /\ master \in Masters /\ Spared \subseteq Accounts
        /\ \A a \in Spared : PlayerOK(master.player[a], master.jobs, DOMAIN done, a)
    BY DEF IInv, Good
  <2>2. \A a \in Spared : master.player[a].flushed <= master.player[a].version
    BY <2>1 DEF PlayerOK
  <2>3. slot \in [Links -> [Slots -> SlotRecords]]
    BY DEF IInv, Typed, SlotTables
  <2>4. /\ db \in [Accounts -> Progress \cup {NoRow}] /\ accepted \in [Accounts -> Progress]
        /\ account \subseteq Accounts /\ deleting \subseteq account
    BY DEF IInv, Typed
  <2>5. QED
    BY <2>1, <2>2, <2>3, <2>4 DEF TypeOK, Masters
<1>2. QED
  BY <1>1, SpecIInv, PTL

\* A uuid in a game server's slot table names a player who is online in that very slot:
\* adopt, player_left and the close of a link change the table and the player together.
THEOREM SpecSlotsNamePlayers == Spec => []SlotsNamePlayers
<1>1. IInv => SlotsNamePlayers
  BY DEF IInv, Good, Named, SlotsNamePlayers
<1>2. QED
  BY <1>1, SpecIInv, PTL

\* However the workers run and whatever the database answers, one write at most of a
\* player's row is on its way, and flushing says so (start_flush, flush_done).
THEOREM SpecOneFlushAtATime == Spec => []OneFlushAtATime
<1>1. IInv => OneFlushAtATime
  <2> SUFFICES ASSUME IInv, NEW a \in Spared
               PROVE  Cardinality(FlushesOf(a)) + Cardinality(FinishedFlushesOf(a))
                          = IF master.player[a].flushing THEN 1 ELSE 0
    BY DEF OneFlushAtATime
  <2>1. OneFlush(master.player[a], master.jobs, DOMAIN done, a)
    BY DEF IInv, Good, PlayerOK
  <2>2. /\ FlushesOf(a) = {i \in DOMAIN master.jobs : FlushAt(master.jobs, i, a)}
        /\ FinishedFlushesOf(a) = {i \in DOMAIN done : FlushAt(done, i, a)}
    BY DEF FlushesOf, FinishedFlushesOf, FlushAt
  <2>3. Cardinality({}) = 0
    BY FS_EmptySet
  <2>4. CASE ~master.player[a].flushing
    <3>1. FlushesOf(a) = {} /\ FinishedFlushesOf(a) = {}
      BY <2>1, <2>2, <2>4 DEF OneFlush
    <3>2. QED
      BY <2>3, <2>4, <3>1
  <2>5. CASE \E i \in DOMAIN master.jobs : FlushAt(master.jobs, i, a)
    <3>1. PICK i \in DOMAIN master.jobs : FlushAt(master.jobs, i, a)
      BY <2>5
    <3>2. FlushesOf(a) = {i} /\ FinishedFlushesOf(a) = {} /\ master.player[a].flushing
      BY <2>1, <2>2, <3>1 DEF OneFlush
    <3>3. Cardinality({i}) = 1 /\ Cardinality({}) = 0 /\ 1 + 0 = 1
      BY FS_Singleton, FS_EmptySet
    <3>4. QED
      BY <3>2, <3>3
  <2>6. CASE \E i \in DOMAIN done : FlushAt(done, i, a)
    <3>1. PICK i \in DOMAIN done : FlushAt(done, i, a)
      BY <2>6
    <3>2. FlushesOf(a) = {} /\ FinishedFlushesOf(a) = {i} /\ master.player[a].flushing
      BY <2>1, <2>2, <3>1 DEF OneFlush
    <3>3. Cardinality({i}) = 1 /\ Cardinality({}) = 0 /\ 0 + 1 = 1
      BY FS_Singleton, FS_EmptySet
    <3>4. QED
      BY <3>2, <3>3
  <2>7. QED
    BY <2>1, <2>4, <2>5, <2>6 DEF OneFlush
<1>2. QED
  BY <1>1, SpecIInv, PTL

\* A row is written only while its player is unsaved: the one write on its way is newer than
\* what is confirmed, whatever became of its player since it was queued (start_flush,
\* flush_done, player_left), and the stop writes what is unsaved (ms_games_shutdown).
THEOREM SpecNoLateWrite == Spec => NoLateWrite
<1> DEFINE InTime == \A a \in Spared : db'[a] # db[a] => Dirty(master.player[a])
<1>1. IInv /\ [Next]_vars => [InTime]_vars
  <2>1. SUFFICES ASSUME IInv, Next, NEW a \in Spared, db'[a] # db[a]
                 PROVE  Dirty(master.player[a])
    OBVIOUS
  <2>2. /\ a \in Accounts /\ a \notin deleting /\ db \in [Accounts -> Progress \cup {NoRow}]
        /\ master.player[a] \in PlayerRecords
        /\ \A i \in DOMAIN master.jobs : FlushOK(master.jobs, i, master.player[a], a)
    BY <2>1 DEF IInv, Typed, Good, Masters, PlayerOK, Spared
  <2>3. ASSUME NEW i \in 1 .. Workers, RunJob(i)
        PROVE  Dirty(master.player[a])
    <3>1. i \in DOMAIN master.jobs /\ RunFlush(i)
      BY <2>1, <2>3 DEF RunJob, RunJoin
    <3>2. FlushAt(master.jobs, i, a)
      BY <2>1, <2>2, <3>1 DEF RunFlush, FlushAt
    <3>3. master.jobs[i].version \in master.player[a].flushed + 1 .. master.player[a].version
      BY <2>2, <3>1, <3>2 DEF FlushOK, FlushNewer
    <3>4. QED
      BY <2>2, <3>3 DEF Dirty, PlayerRecords
  <2>4. ASSUME NEW k \in Accounts, Owner(k)
        PROVE  FALSE
    BY <2>1, <2>2, <2>4 DEF Owner, LogoutAll, DropAccount, DeleteRows
  <2>5. CASE GamesShutdown
    BY <2>1, <2>2, <2>5 DEF GamesShutdown, Unsaved
  <2>6. CASE Stop \/ JobsShutdown \/ Service \/ Deadline
    BY <2>1, <2>6 DEF Stop, JobsShutdown, Service, Deadline, database
  <2>7. ASSUME NEW i \in 1 .. Workers, PushDone(i)
        PROVE  FALSE
    BY <2>1, <2>7 DEF PushDone, database
  <2>8. ASSUME NEW l \in Links, LinkUp(l) \/ HandleMessage(l) \/ LinkClosed(l) \/ GameServer(l)
        PROVE  FALSE
    BY <2>1, <2>8 DEF LinkUp, HandleMessage, LinkClosed, GameServer, Login, Logout, Forget,
       Play, Receive, Crash, database
  <2>9. QED
    BY <2>1, <2>3, <2>4, <2>5, <2>6, <2>7, <2>8 DEF Next, Shutdown
<1>2. QED
  BY <1>1, SpecIInv, PTL DEF Spec, NoLateWrite

\* Of an account that had a row, the newest save the master took is in the row, or in the
\* cache and known to be unsaved, whatever else is played in accounts that have none.
THEOREM SpecSavesKept == Spec => []SavesKept
<1>1. IInv => SavesKept
  <2> SUFFICES ASSUME IInv, NEW a \in Spared, a \in OldAccounts PROVE SaveKept(a)
    BY DEF SavesKept
  <2>1. PlayerSaved(master.player[a], a)
    BY DEF IInv, Good, PlayerOK, Old
  <2>2. QED
    BY <2>1 DEF PlayerSaved, SaveKept, Written
<1>2. QED
  BY <1>1, SpecIInv, PTL

\* Once the master has stopped, the newest save of an account that had a row is in the
\* database, but for a write that failed (ms_server_run's end, ms_games_shutdown).
THEOREM SpecStoppedSaved == Spec => []StoppedSaved
<1>1. IInv => StoppedSaved
  <2> SUFFICES ASSUME IInv, stage = "stopped", NEW a \in Spared, a \in OldAccounts
               PROVE  WrittenAtEnd(a)
    BY DEF StoppedSaved
  <2>1. PlayerSaved(master.player[a], a)
    BY DEF IInv, Good, PlayerOK, Old
  <2>2. DbMayFail \/ ~Dirty(master.player[a])
    BY DEF IInv, Ended, Old
  <2>3. QED
    BY <2>1, <2>2 DEF PlayerSaved, WrittenAtEnd, Written
<1>2. QED
  BY <1>1, SpecIInv, PTL
=============================================================================
