--------------------------- MODULE MasterSessions ---------------------------
(***************************************************************************)
(* The sessions of the players: the master server's cache of online        *)
(* players (MasterServer/c/games.c), its worker threads and the database   *)
(* rows they read and write, and the client slots of the game servers at   *)
(* the other end of the links (Server/Server.c, Server/Client.c).          *)
(*                                                                         *)
(* A link is one run of a game server: the game server aborts when the     *)
(* link to the master closes, and what the master keeps of a link is freed *)
(* with it, so a restarted game server is another link.  Both directions   *)
(* of a link are FIFO.  The master's event loop is one thread: a message,  *)
(* the close of a link and one round of completions and housekeeping are   *)
(* each one step.  Workers take jobs in order and run them concurrently.   *)
(*                                                                         *)
(* What is saved of a player is one number, their progress: 0 is the       *)
(* starting inventory of an account without a row, and what is left of a   *)
(* slot after its inventory was cleared.  The master's use of a connection *)
(* it has already freed is undefined; here it has no effect.               *)
(***************************************************************************)
EXTENDS Integers, FiniteSets, SequencesExt

CONSTANTS
    Links,          \* connections of game servers to the master, each used once
    NoLink,         \* a NULL conn
    Accounts,       \* the accounts (non-dev)
    NoAccount,      \* an empty uuid
    Slots,          \* client slots of a game server
    Workers,        \* worker threads of the master
    OldAccounts,    \* accounts that have a saved row at the start
    Deletable,      \* accounts whose owner may delete them
    ForeignKeys,    \* TRUE: PostgreSQL refuses a row without its account
    DbMayFail,      \* TRUE: a database call may fail
    MaxLogins,      \* bound: connections the clients make in all
    MaxRequests,    \* bound: logouts everywhere and deletions in all
    MaxProgress     \* bound: progress of a player

ASSUME LinksAssumption ==
    /\ IsFiniteSet(Links) /\ IsFiniteSet(Accounts) /\ IsFiniteSet(Slots)
    /\ NoLink \notin Links /\ NoAccount \notin Accounts
    /\ OldAccounts \subseteq Accounts /\ Deletable \subseteq Accounts
ASSUME BoundsAssumption ==
    /\ Workers \in Nat \ {0} /\ MaxLogins \in Nat /\ MaxRequests \in Nat
    /\ MaxProgress \in Nat \ {0}
    /\ ForeignKeys \in BOOLEAN /\ DbMayFail \in BOOLEAN

VARIABLES
    master,         \* what the event loop owns, and the queues it writes
    done,           \* completions the workers pushed
    kicks,          \* kicks and drops asked for by worker threads
    stage,          \* of the master: running, stopping, joined, stopped
    account,        \* accounts that exist
    requests,       \* logouts everywhere and deletions so far
    deleting,       \* accounts dropped from the games, rows not yet deleted
    db,             \* rysteria rows: progress, or NoRow
    process,        \* the game server of each link
    slot,           \* the client slots of each game server
    toMaster,       \* messages on their way to the master
    logins,         \* connections made so far; the nonce of the newest
    accepted        \* history: the save the master took last

database == <<account, requests, deleting, db>>
servers == <<process, slot, toMaster, logins>>
vars == <<master, done, kicks, stage, database, servers, accepted>>

NoRow == -1
Progress == 0..MaxProgress
Nonces == 0..MaxLogins

\* no cached player: every cached one has version >= 1
NoPlayer == [link |-> NoLink, pos |-> 0, nonce |-> 0, data |-> 0, version |-> 0,
             flushed |-> 0, flushing |-> FALSE, deleted |-> FALSE]
Cached(m, a) == m.player[a] # NoPlayer
Online(m, a) == m.player[a].link # NoLink
Dirty(p) == p.version # p.flushed

FreeSlot == [status |-> "free", kicked |-> FALSE, acct |-> NoAccount,
             nonce |-> 0, data |-> 0]

----------------------------------------------------------------------------
(***************************************************************************)
(* The master's event loop.  m is the master's state: its links, players   *)
(* and the uuid in each slot, the joins that wait for another session to   *)
(* end, the job queue and what is on its way to the game servers.          *)
(***************************************************************************)
Send(m, l, msg) ==
    IF l \in m.links THEN [m EXCEPT !.out[l] = Append(@, msg)] ELSE m

SendKick(m, l, pos, nonce) ==
    Send(m, l, [type |-> "kick", pos |-> pos, nonce |-> nonce])

KickSession(m, a) ==
    SendKick(m, m.player[a].link, m.player[a].pos, m.player[a].nonce)

Submit(m, job) == [m EXCEPT !.jobs = Append(@, job)]

\* mutant: a second flush starts while the first is still with a worker
StartFlush_Twice(m, a) ==
    LET p == m.player[a]
    IN  IF p.deleted \/ ~Dirty(p) THEN m
        ELSE Submit([m EXCEPT !.player[a].flushing = TRUE],
                    [kind |-> "flush", ran |-> FALSE, ok |-> FALSE, acct |-> a,
                     data |-> p.data, version |-> p.version])

StartFlush(m, a) ==
    LET p == m.player[a]
    IN  IF p.deleted \/ p.flushing \/ ~Dirty(p) THEN m
        ELSE Submit([m EXCEPT !.player[a].flushing = TRUE],
                    [kind |-> "flush", ran |-> FALSE, ok |-> FALSE, acct |-> a,
                     data |-> p.data, version |-> p.version])

\* mutant: a player who left is forgotten while a newer save is unwritten
FlushDone_FreesDirty(m, f) ==
    LET p == m.player[f.acct]
        q == [p EXCEPT !.flushing = FALSE,
                       !.flushed = IF f.ok /\ f.version > @ THEN f.version ELSE @]
    IN  IF ~Cached(m, f.acct) THEN m
        ELSE [m EXCEPT !.player[f.acct] =
                 IF f.ok /\ p.link = NoLink THEN NoPlayer ELSE q]

FlushDone(m, f) ==
    LET p == m.player[f.acct]
        q == [p EXCEPT !.flushing = FALSE,
                       !.flushed = IF f.ok /\ f.version > @ THEN f.version ELSE @]
    IN  IF ~Cached(m, f.acct) THEN m
        ELSE [m EXCEPT !.player[f.acct] =
                 IF f.ok /\ p.link = NoLink /\ ~Dirty(q) THEN NoPlayer ELSE q]

\* mutant: a new player's version is left at zero
NewPlayer_NoVersion(j) ==
    [NoPlayer EXCEPT !.data = IF j.data = NoRow THEN 0 ELSE j.data,
                     !.flushed = IF j.data > 0 THEN 1 ELSE 0]

\* A record the database has nothing in (no xp, no nickname) counts as unsaved.
NewPlayer(j) ==
    [NoPlayer EXCEPT !.data = IF j.data = NoRow THEN 0 ELSE j.data,
                     !.version = 1,
                     !.flushed = IF j.data > 0 THEN 1 ELSE 0]

\* The cache copy wins over the row the join read; a session still there is
\* taken over by force.
Adopt(m, j) ==
    LET old == IF Cached(m, j.acct) THEN m.player[j.acct] ELSE NewPlayer(j)
        left == IF old.link = NoLink THEN m.uuids
                ELSE [m.uuids EXCEPT ![old.link][old.pos] = NoAccount]
    IN  Send([m EXCEPT
                 !.player[j.acct] = [old EXCEPT !.link = j.link, !.pos = j.pos,
                                                !.nonce = j.nonce],
                 !.uuids = [left EXCEPT ![j.link][j.pos] = j.acct]],
             j.link, [type |-> "joined", pos |-> j.pos, nonce |-> j.nonce,
                      acct |-> j.acct, data |-> old.data])

JoinDone(m, j) ==
    IF j.link \notin m.links THEN m
    ELSE IF ~j.ok THEN SendKick(m, j.link, j.pos, j.nonce)
    ELSE IF Online(m, j.acct) THEN [KickSession(m, j.acct) EXCEPT !.waiting = <<j>> \o @]
    ELSE Adopt(m, j)

\* mutant: the deadline of a waiting join is never looked at
Resolve_NoDeadline(m) ==
    LET One(n, j) ==
            IF Online(n, j.acct) THEN [n EXCEPT !.waiting = Append(@, j)]
            ELSE IF j.link \in n.links THEN Adopt(n, j)
            ELSE n
    IN  FoldLeft(One, [m EXCEPT !.waiting = <<>>], m.waiting)

Resolve(m) ==
    LET One(n, j) ==
            IF Online(n, j.acct) /\ ~j.late THEN [n EXCEPT !.waiting = Append(@, j)]
            ELSE IF j.link \in n.links THEN Adopt(n, j)
            ELSE n
    IN  FoldLeft(One, [m EXCEPT !.waiting = <<>>], m.waiting)

\* mutant: the slot of a player who left keeps their uuid
PlayerLeft_KeepsUuid(m, a) ==
    LET p == m.player[a]
        out == [m EXCEPT !.player[a].link = NoLink]
    IN  Resolve(IF p.deleted \/ (~Dirty(p) /\ ~p.flushing)
                THEN [out EXCEPT !.player[a] = NoPlayer]
                ELSE StartFlush(out, a))

\* mutant: a player who left is forgotten while their row is being written
PlayerLeft_FreesFlushing(m, a) ==
    LET p == m.player[a]
        out == [m EXCEPT !.uuids[p.link][p.pos] = NoAccount, !.player[a].link = NoLink]
    IN  Resolve(IF p.deleted \/ ~Dirty(p) \/ p.flushing
                THEN [out EXCEPT !.player[a] = NoPlayer]
                ELSE StartFlush(out, a))

PlayerLeft(m, a) ==
    LET p == m.player[a]
        out == [m EXCEPT !.uuids[p.link][p.pos] = NoAccount, !.player[a].link = NoLink]
    IN  Resolve(IF p.deleted \/ (~Dirty(p) /\ ~p.flushing)
                THEN [out EXCEPT !.player[a] = NoPlayer]
                ELSE StartFlush(out, a))

\* a queued kick (logout everywhere, password reset) or drop (account deleted)
KickUuid(m, k) ==
    LET p == m.player[k.acct]
        dropped == [m EXCEPT !.player[k.acct].deleted = TRUE,
                             !.player[k.acct].flushed = p.version]
    IN  IF ~Cached(m, k.acct) THEN m
        ELSE IF ~k.drop
             THEN IF Online(m, k.acct) THEN KickSession(m, k.acct) ELSE m
        ELSE IF Online(m, k.acct) THEN KickSession(dropped, k.acct)
        ELSE IF p.flushing THEN dropped
        ELSE [m EXCEPT !.player[k.acct] = NoPlayer]

\* mutant: only players who are online have their saves retried
FlushDue_OnlineOnly(m, due) ==
    FoldSet(LAMBDA a, n : IF Online(n, a) /\ a \in due THEN StartFlush(n, a) ELSE n,
            m, Accounts)

\* due: the accounts whose last flush is an interval ago
FlushDue(m, due) ==
    FoldSet(LAMBDA a, n : IF ~Online(n, a) \/ a \in due THEN StartFlush(n, a) ELSE n,
            m, Accounts)

DrainDone(m) ==
    FoldLeft(LAMBDA n, j : IF j.kind = "flush" THEN FlushDone(n, j) ELSE JoinDone(n, j),
             m, done)

\* ms_games_tick: kicks, newest first, then the waiting joins, then the flushes
GamesTick(m, due) ==
    FlushDue(Resolve(FoldLeft(KickUuid, m, kicks)), due)

OnJoin(m, l, msg) ==
    Submit(m, [kind |-> "join", ran |-> FALSE, ok |-> FALSE, acct |-> msg.acct,
               data |-> NoRow, link |-> l, pos |-> msg.pos, nonce |-> msg.nonce,
               late |-> FALSE])

OnLeave(m, l, msg) ==
    IF Online(m, msg.acct) /\ m.player[msg.acct].link = l
    THEN PlayerLeft(m, msg.acct) ELSE m

Accepts(m, l, msg) ==
    msg.type = "save" /\ Online(m, msg.acct) /\ m.player[msg.acct].link = l

OnSave(m, l, msg) ==
    IF Accepts(m, l, msg)
    THEN [m EXCEPT !.player[msg.acct].data = msg.data, !.player[msg.acct].version = @ + 1]
    ELSE m

----------------------------------------------------------------------------
Init ==
    /\ master = [links |-> {}, player |-> [a \in Accounts |-> NoPlayer],
                 uuids |-> [l \in Links |-> [i \in Slots |-> NoAccount]],
                 waiting |-> <<>>, jobs |-> <<>>,
                 out |-> [l \in Links |-> <<>>]]
    /\ done = <<>> /\ kicks = <<>> /\ stage = "running"
    /\ account = Accounts /\ requests = 0 /\ deleting = {}
    /\ db = [a \in Accounts |-> IF a \in OldAccounts THEN 1 ELSE NoRow]
    /\ process = [l \in Links |-> "new"]
    /\ slot = [l \in Links |-> [i \in Slots |-> FreeSlot]]
    /\ toMaster = [l \in Links |-> <<>>]
    /\ logins = 0
    /\ accepted = [a \in Accounts |-> IF a \in OldAccounts THEN 1 ELSE 0]

(***************************************************************************)
(* The master.                                                             *)
(***************************************************************************)
LinkUp(l) ==
    /\ stage = "running" /\ process[l] = "new"
    /\ process' = [process EXCEPT ![l] = "up"]
    /\ master' = [master EXCEPT !.links = @ \cup {l}]
    /\ UNCHANGED <<done, kicks, stage, database, slot, toMaster, logins, accepted>>

HandleMessage(l) ==
    /\ stage = "running" /\ l \in master.links /\ toMaster[l] # <<>>
    /\ LET msg == Head(toMaster[l])
       IN  /\ master' = CASE msg.type = "join" -> OnJoin(master, l, msg)
                          [] msg.type = "leave" -> OnLeave(master, l, msg)
                          [] msg.type = "save" -> OnSave(master, l, msg)
           /\ accepted' = IF Accepts(master, l, msg)
                          THEN [accepted EXCEPT ![msg.acct] = msg.data] ELSE accepted
    /\ toMaster' = [toMaster EXCEPT ![l] = Tail(@)]
    /\ UNCHANGED <<done, kicks, stage, database, process, slot, logins>>

\* The link is closed: by the end of the game server, or because the master
\* stops (the game server aborts then).  What was on its way is lost.
LinkClosed(l) ==
    /\ l \in master.links
    /\ process[l] = "dead" \/ stage = "stopping"
    /\ LET closed == [master EXCEPT !.links = @ \ {l}, !.out[l] = <<>>]
           One(i, m) == LET a == m.uuids[l][i]
                        IN  IF a # NoAccount /\ m.player[a].link = l
                            THEN PlayerLeft(m, a) ELSE m
       IN  master' = [FoldSet(One, closed, Slots) EXCEPT !.uuids[l] = [i \in Slots |-> NoAccount]]
    /\ process' = [process EXCEPT ![l] = "dead"]
    /\ slot' = [slot EXCEPT ![l] = [i \in Slots |-> FreeSlot]]
    /\ toMaster' = [toMaster EXCEPT ![l] = <<>>]
    /\ UNCHANGED <<done, kicks, stage, database, logins, accepted>>

\* one round of the event loop: every completion, then ms_games_tick
Service ==
    /\ stage = "running"
    /\ \E due \in SUBSET Accounts : master' = GamesTick(DrainDone(master), due)
    /\ done' = <<>> /\ kicks' = <<>>
    /\ UNCHANGED <<stage, database, servers, accepted>>

\* JOIN_WAIT_SECONDS pass
Deadline ==
    /\ \E i \in DOMAIN master.waiting :
         /\ ~master.waiting[i].late
         /\ master' = [master EXCEPT !.waiting[i].late = TRUE]
    /\ UNCHANGED <<done, kicks, stage, database, servers, accepted>>

(***************************************************************************)
(* The workers.  master.jobs holds the jobs in the order they were         *)
(* submitted until their completion is pushed; the first Workers of them   *)
(* can have been taken by a worker.                                        *)
(***************************************************************************)
RunFlush(i) ==
    LET f == master.jobs[i]
    IN  /\ f.kind = "flush"
        /\ \E ok \in BOOLEAN :
             /\ ok => f.acct \in account \/ ~ForeignKeys
             /\ ~ok => DbMayFail \/ (f.acct \notin account /\ ForeignKeys)
             /\ master' = [master EXCEPT !.jobs[i] = [f EXCEPT !.ran = TRUE, !.ok = ok]]
             /\ db' = IF ok THEN [db EXCEPT ![f.acct] = f.data] ELSE db

\* the account's tokens are checked, then its row is read
RunJoin(i) ==
    LET j == master.jobs[i]
    IN  /\ j.kind = "join"
        /\ \E ok \in BOOLEAN :
             /\ ok => j.acct \in account
             /\ master' = [master EXCEPT !.jobs[i] =
                              [j EXCEPT !.ran = TRUE, !.ok = ok,
                                        !.data = IF ok THEN db[j.acct] ELSE @]]
        /\ UNCHANGED db

RunJob(i) ==
    /\ i \in DOMAIN master.jobs /\ i <= Workers /\ ~master.jobs[i].ran
    /\ RunFlush(i) \/ RunJoin(i)
    /\ UNCHANGED <<done, kicks, stage, account, requests, deleting, servers, accepted>>

PushDone(i) ==
    /\ i \in DOMAIN master.jobs /\ i <= Workers /\ master.jobs[i].ran
    /\ done' = Append(done, master.jobs[i])
    /\ master' = [master EXCEPT !.jobs = RemoveAt(@, i)]
    /\ UNCHANGED <<kicks, stage, database, servers, accepted>>

AskKick(a, drop) ==
    /\ stage = "running" /\ requests < MaxRequests
    /\ requests' = requests + 1
    /\ kicks' = <<[acct |-> a, drop |-> drop]>> \o kicks

\* logout everywhere or a password reset, on a worker that serves the request
LogoutAll(a) ==
    /\ a \in account
    /\ AskKick(a, FALSE)
    /\ UNCHANGED <<master, done, stage, account, deleting, db, servers, accepted>>

\* ms_account_delete_now: the games first, then the rows
DropAccount(a) ==
    /\ a \in (Deletable \cap account) \ deleting
    /\ deleting' = deleting \cup {a}
    /\ AskKick(a, TRUE)
    /\ UNCHANGED <<master, done, stage, account, db, servers, accepted>>

DeleteRows(a) ==
    /\ a \in deleting
    /\ deleting' = deleting \ {a}
    /\ \/ account' = account \ {a} /\ db' = [db EXCEPT ![a] = NoRow]
       \/ DbMayFail /\ UNCHANGED <<account, db>>
    /\ UNCHANGED <<master, done, kicks, stage, requests, servers, accepted>>

(***************************************************************************)
(* The end of the master: the links are closed, the workers finish what is *)
(* queued, and what is still unsaved is written.                           *)
(***************************************************************************)
Stop ==
    /\ stage = "running"
    /\ stage' = "stopping"
    /\ UNCHANGED <<master, done, kicks, database, servers, accepted>>

JobsShutdown ==
    /\ stage = "stopping" /\ master.links = {} /\ master.jobs = <<>>
    /\ stage' = "joined"
    /\ master' = DrainDone(master)
    /\ done' = <<>>
    /\ UNCHANGED <<kicks, database, servers, accepted>>

\* mutant: only the players who are online are saved
Unsaved_OnlineOnly(m) == {a \in Accounts : Dirty(m.player[a]) /\ Online(m, a)}

Unsaved(m) == {a \in Accounts : Dirty(m.player[a])}

GamesShutdown ==
    /\ stage = "joined"
    /\ stage' = "stopped"
    /\ \E saved \in SUBSET Unsaved(master) :
         /\ DbMayFail \/ saved = Unsaved(master)
         /\ db' = [a \in Accounts |-> IF a \in saved THEN master.player[a].data ELSE db[a]]
         /\ master' = [master EXCEPT !.player = [a \in Accounts |->
                          IF a \in saved
                          THEN [@[a] EXCEPT !.flushed = master.player[a].version]
                          ELSE @[a]]]
    /\ UNCHANGED <<done, kicks, account, requests, deleting, servers, accepted>>

(***************************************************************************)
(* A game server and its clients.                                          *)
(***************************************************************************)
Tell(l, msg) == toMaster' = [toMaster EXCEPT ![l] = Append(@, msg)]

\* a client connects and sends its first packet
Login(l, i, a) ==
    /\ process[l] = "up" /\ slot[l][i].status = "free" /\ logins < MaxLogins
    /\ logins' = logins + 1
    /\ slot' = [slot EXCEPT ![l][i] = [FreeSlot EXCEPT !.status = "asked", !.acct = a,
                                                       !.nonce = logins + 1]]
    /\ Tell(l, [type |-> "join", acct |-> a, pos |-> i, nonce |-> logins + 1])
    /\ UNCHANGED <<master, done, kicks, stage, database, process, accepted>>

\* the socket is closed, by the client, by the network or by pending_kick
Logout(l, i) ==
    /\ process[l] = "up" /\ slot[l][i].status \in {"asked", "playing"}
    /\ slot' = [slot EXCEPT ![l][i] =
                   IF @.status = "asked" \/ @.kicked THEN FreeSlot
                   ELSE [@ EXCEPT !.status = "lost"]]
    /\ Tell(l, [type |-> "leave", acct |-> slot[l][i].acct])
    /\ UNCHANGED <<master, done, kicks, stage, database, process, logins, accepted>>

\* a lost connection gives its slot up
Forget(l, i) ==
    /\ process[l] = "up" /\ slot[l][i].status = "lost"
    /\ slot' = [slot EXCEPT ![l][i] = FreeSlot]
    /\ UNCHANGED <<master, done, kicks, stage, database, process, toMaster, logins, accepted>>

\* the player earns something and the game server saves
Play(l, i) ==
    /\ process[l] = "up" /\ slot[l][i].status = "playing"
    /\ slot[l][i].data < MaxProgress
    /\ slot' = [slot EXCEPT ![l][i].data = @ + 1]
    /\ Tell(l, [type |-> "save", acct |-> slot[l][i].acct, data |-> slot[l][i].data + 1])
    /\ UNCHANGED <<master, done, kicks, stage, database, process, logins, accepted>>

\* An answer with another nonce clears what the slot holds and ends it.
ReadAccount(s, i, msg) ==
    IF s[i].nonce # msg.nonce THEN [s EXCEPT ![i].data = 0, ![i].kicked = TRUE]
    ELSE LET twin == {k \in Slots \ {i} : s[k].status \in {"playing", "lost"}
                                          /\ ~s[k].kicked /\ s[k].acct = msg.acct}
         IN  [k \in Slots |->
                IF k = i THEN [s[i] EXCEPT !.status = "playing", !.data = msg.data]
                ELSE IF k \notin twin THEN s[k]
                ELSE IF s[k].status = "lost" THEN FreeSlot
                ELSE [s[k] EXCEPT !.kicked = TRUE]]

ReceiveKick(s, i, msg) ==
    IF s[i].nonce = msg.nonce THEN [s EXCEPT ![i].kicked = TRUE] ELSE s

Receive(l) ==
    /\ process[l] = "up" /\ l \in master.links /\ master.out[l] # <<>>
    /\ LET msg == Head(master.out[l])
       IN  slot' = [slot EXCEPT ![l] =
                       IF @[msg.pos].status \in {"free", "lost"} THEN @
                       ELSE IF msg.type = "joined" THEN ReadAccount(@, msg.pos, msg)
                       ELSE ReceiveKick(@, msg.pos, msg)]
    /\ master' = [master EXCEPT !.out[l] = Tail(@)]
    /\ UNCHANGED <<done, kicks, stage, database, process, toMaster, logins, accepted>>

\* the game server crashes or is stopped
Crash(l) ==
    /\ process[l] = "up"
    /\ process' = [process EXCEPT ![l] = "dead"]
    /\ slot' = [slot EXCEPT ![l] = [i \in Slots |-> FreeSlot]]
    /\ UNCHANGED <<master, done, kicks, stage, database, toMaster, logins, accepted>>

----------------------------------------------------------------------------
GameServer(l) ==
    \/ \E i \in Slots : \E a \in Accounts : Login(l, i, a)
    \/ \E i \in Slots : Logout(l, i) \/ Forget(l, i) \/ Play(l, i)
    \/ Receive(l) \/ Crash(l)

Owner(a) == LogoutAll(a) \/ DropAccount(a) \/ DeleteRows(a)

Shutdown == Stop \/ JobsShutdown \/ GamesShutdown

Next ==
    \/ \E l \in Links : LinkUp(l) \/ HandleMessage(l) \/ LinkClosed(l) \/ GameServer(l)
    \/ \E i \in 1..Workers : RunJob(i) \/ PushDone(i)
    \/ \E a \in Accounts : Owner(a)
    \/ Service \/ Deadline \/ Shutdown

Spec == Init /\ [][Next]_vars

(***************************************************************************)
(* Fairness: the 250 ms timer runs the event loop's round, sockets are     *)
(* read and time passes; workers take jobs and push completions; a flush   *)
(* that is tried again and again succeeds once.                            *)
(***************************************************************************)
Saved(i) == RunJob(i) /\ master.jobs[i].kind = "flush" /\ master'.jobs[i].ok

Fairness ==
    /\ WF_vars(Service) /\ WF_vars(Deadline)
    /\ \A l \in Links : WF_vars(HandleMessage(l)) /\ WF_vars(LinkClosed(l)) /\ WF_vars(Receive(l))
    /\ \A i \in 1..Workers : WF_vars(RunJob(i)) /\ WF_vars(PushDone(i)) /\ SF_vars(Saved(i))

FairSpec == Spec /\ Fairness

----------------------------------------------------------------------------
(***************************************************************************)
(* Properties.                                                             *)
(***************************************************************************)
PlayerRecords ==
    [link : Links \cup {NoLink}, pos : Slots \cup {0}, nonce : Nonces, data : Progress,
     version : Nat, flushed : Nat, flushing : BOOLEAN, deleted : BOOLEAN]
SlotRecords ==
    [status : {"free", "asked", "playing", "lost"}, kicked : BOOLEAN,
     acct : Accounts \cup {NoAccount}, nonce : Nonces, data : Progress]

\* Accounts that exist and stay: nobody deletes them, nor tried to when half of a
\* deletion may fail (the games have dropped the player then, the row is still there).
Spared == {a \in account \ deleting : DbMayFail => a \notin Deletable}

\* Types: cached players, slots and rows hold what their structs can hold
\* (struct player, struct rr_server_client, rysteria.players), and nothing of
\* a player is marked saved that was never there to save.
TypeOK ==
    /\ master.links \subseteq Links
    /\ master.player \in [Accounts -> PlayerRecords]
    /\ \A a \in Spared : master.player[a].flushed <= master.player[a].version
    /\ master.uuids \in [Links -> [Slots -> Accounts \cup {NoAccount}]]
    /\ slot \in [Links -> [Slots -> SlotRecords]]
    /\ db \in [Accounts -> Progress \cup {NoRow}]
    /\ accepted \in [Accounts -> Progress]
    /\ account \subseteq Accounts /\ deleting \subseteq account

\* Of an account that had a row when the master started, the newest save the master
\* accepted is never lost by the master (start_flush, flush_done, player_left and adopt):
\* it is in the row, or the cache still holds it and knows that it is unsaved. Of an
\* account without a row nothing is said: a join that read "no row" before the first
\* write counts as unsaved when it is adopted after it (games.c:419), and its empty
\* record is written over the row.
Written(a) == db[a] = accepted[a] \/ (accepted[a] = 0 /\ db[a] = NoRow)
SaveKept(a) ==
    Written(a) \/ (master.player[a].data = accepted[a] /\ Dirty(master.player[a]))
SavesKept == \A a \in Spared \cap OldAccounts : SaveKept(a)

FlushesOf(a) ==
    {i \in DOMAIN master.jobs : master.jobs[i].kind = "flush" /\ master.jobs[i].acct = a}
FinishedFlushesOf(a) ==
    {i \in DOMAIN done : done[i].kind = "flush" /\ done[i].acct = a}

\* A player has one write of their row on its way at most, and flushing says so:
\* workers run concurrently, so two could reach the database in either order
\* (struct player's flushing, start_flush and flush_done).
OneFlushAtATime ==
    \A a \in Spared :
        Cardinality(FlushesOf(a)) + Cardinality(FinishedFlushesOf(a))
            = IF master.player[a].flushing THEN 1 ELSE 0

\* A row is written only while its player is unsaved: no write comes late, when a newer one
\* has been confirmed, or when its player has been freed and perhaps adopted anew from the
\* row (start_flush, flush_done, player_left, ms_games_shutdown).
NoLateWrite ==
    [][\A a \in Spared : db'[a] # db[a] => Dirty(master.player[a])]_vars

\* A uuid in a game server's slot table names a player who is online in that very
\* slot (adopt, player_left, LWS_CALLBACK_CLOSED of the link).
SlotsNamePlayers ==
    \A l \in Links : \A i \in Slots :
        LET a == master.uuids[l][i]
        IN  a # NoAccount => /\ l \in master.links
                             /\ master.player[a].link = l /\ master.player[a].pos = i

\* When the master has stopped, the newest save of every such account is in the
\* database, except a write that failed (ms_server_run, ms_jobs_shutdown,
\* ms_games_shutdown: "writes every unsaved player to the database").
WrittenAtEnd(a) == Written(a) \/ (DbMayFail /\ Dirty(master.player[a]))
StoppedSaved == stage = "stopped" => \A a \in Spared \cap OldAccounts : WrittenAtEnd(a)

\* Every client that asked for its account is answered, unless it goes or a
\* server ends (on_join, join_run, join_done, resolve_waiting).
JoinsAnswered ==
    \A l \in Links : \A i \in Slots :
        slot[l][i].status = "asked" ~>
            \/ slot[l][i].status # "asked" \/ slot[l][i].kicked \/ stage # "running"

\* A player who left with unsaved progress is saved sooner or later, however many
\* writes fail (ms_games_tick retries them at once), unless the account is deleted: a
\* player adopted between ms_games_drop_uuid and account_delete stays, unsaved, for good.
OfflineSaved ==
    \A a \in Accounts :
        (Cached(master, a) /\ ~Online(master, a)) ~>
            \/ ~Cached(master, a) \/ Online(master, a) \/ stage # "running"
            \/ master.player[a].flushed = master.player[a].version \/ a \notin account

\* "kick the old session, then wait for its final save + leave before taking over":
\* a session starts from the newest save the master accepted.
SessionStartsFromNewestSave ==
    \A a \in account \ deleting : Online(master, a) => master.player[a].data = accepted[a]

\* "conn; NULL once the player left": a player's conn is a link that is open.
OnlineOnOpenLink ==
    \A a \in Accounts : master.player[a].link \in master.links \cup {NoLink}

\* "conn; NULL once the player left": a player who plays, and whom nothing on its
\* way will end, has not left.
PlayingIsOnline ==
    \A l \in master.links : \A i \in Slots :
        (slot[l][i].status = "playing" /\ ~slot[l][i].kicked /\ master.out[l] = <<>>)
            => Online(master, slot[l][i].acct)
=============================================================================
