# Verification of rrolf

TLA+ models of the parts of rrolf whose correctness depends on the order of
events, with the TLC runs that check them and the theorems that TLAPS proves.

rrolf is a browser game. A **game server** (`Server/`) is one thread that
simulates a world 25 times a second and talks to the clients over websockets;
any number of them are linked to one **master server** (`MasterServer/c/`),
which knows the accounts, keeps the online players in memory and writes them to
a database from a pool of worker threads.

## 1. Inventory

| Part | State it keeps | Operations | Interacts by |
| --- | --- | --- | --- |
| Squads (`Server/Squad.c`, socket and tick of `Server/Server.c`) | squads with member slots, ballots and an owner; per client its seat, account, player, timers, `joined_squad_before` | connect, first packet, close, account reply and takeover, join, leave, ready, quick join, private, expose code, kick, vote, transfer, tick | messages of the clients; pointers from slots to clients and back; replies of the master |
| Player sessions (`MasterServer/c/games.c`, `jobs.c`, the tick of `server.c`) | players in memory with versions, slot tables of the links, waiting joins, kicks; job and completion queues | join, leave, save, flush, takeover, kick, drop, close of a link, shutdown | FIFO links to the game servers; jobs and completions under one lock; the database |
| Client slots as the master sees them (`Server/Client.c`, `Server/Server.c`) | nonce, `verified`, `pending_kick`, the data of the account | login, play, save, logout, account reply, kick | the link |
| Capture-the-flag rules (`Server/CtfRules.c`) | flags, flag points, teams | one tick: fall, carry, take, bank, set up, eliminate, win | a report of the players from `Server/Ctf.c` |
| Match of the minigames (`Server/Ctf.c`) | phase, linked squads, data of the account kept aside | create, start, cancel, place, forfeit, ready, tick | squads, rules, simulation, master |
| Snail escort (`Server/Snail.c`) | runs, limits, events | start, tick, finish, reward | simulation, clients |
| Entities (`Server/Simulation.c`, `Shared/SimulationCommon.c`, `Server/UpdateProtocol.c`, `Client/Simulation.c`) | a table of reused ids with generations, players, flowers, petals, mobs, drops; per player the set of ids its client is taken to have; what the client has | allocation, request of a deletion, the deletion at the end of a tick, drops, reload, revival, the update of every client | hashes from entity to entity; bits by client slot; a stream of creations and deletions |
| Systems (`Server/System/*`, `Server/MobAi/*`, `Server/Waves.c`) | positions, health, timers | physics, behaviour, spawning | the table of entities |
| HTTP service of the master (`server.c`, `jobs.c`) | connections, jobs with two owners, the lists of the worker pool, the stop of the process | request, body, dispatch, run, done, write, close, signal, stop | callbacks of libwebsockets, one lock, condition variable, wake-up of the loop |
| Accounts on top of it (`api.c`, `auth.c`, `reset.c`, `tmpstore.c`, `ratelimit.c`) | temporary records, rate limits, tokens | requests run on workers | tables behind locks, database |
| Restart of game servers, leaderboards (`games.c`, `leaderboard.c`) | restart jobs, counters | one restart per drop; counts carried by a save | child processes, database |
| Encodings (`Shared/pb.c`, `Binary.c`, `Bitset.c`) | none | varints, strings, bit sets | pure functions |
| Client, tools, older master in JavaScript | | | not modelled |

What is hard, part by part:

* **Squads**: three records (seat, member slot, client slot) name each other and
  are changed by a dozen handlers. A lost connection keeps its place for a
  minute, a second connection of the account takes it over, a marked connection
  lives until a callback closes it. Votes are 8-bit tallies kept in step by hand.
* **Sessions**: a join reads the row on a worker while the last write of the
  previous session may be on another; replies, leaves and kicks cross on the
  link; flushes fail and are repeated; the process can be stopped at any moment.
* **Rules**: several players and timers act on one flag in a tick, in the order
  of their numbers; flags are linked to points in both directions; teams go out
  while their flags are on the way.
* **Match**: a match puts every player of its squads in the game with data of the
  match and must give the real data back whatever happens meanwhile; deaths, seeds,
  lost connections, takeovers, moves between squads, four ways to end, three modes.
* **Entities**: an id is used again two ticks after its entity went, while others still
  hold its hash; a client, its player and its flower name one another and end at
  different times; a client is told differences only, so one thing the server believes
  wrongly about it stays wrong; drops remember slots, which change hands.
* **HTTP service**: a job belongs to a worker and to a connection at once and is
  freed by whichever is last; workers sleep on a condition variable and wake a loop
  that may be shutting down.
* **Temporary records**: changed through copies by workers that run at once.

Every hazard, with its line and the properties that watch it, is in
`PROJECT.json`.

## 2. Modules

| Module | Models | Run by | Proved in |
| --- | --- | --- | --- |
| `Squads` | squads and connections of a game server | `MCSquads`, `MCVotesAndFlags`, `MCServices` | `SquadLemmas`, `SquadsProof` |
| `MasterSessions` | master, workers, database and game servers, composed | `MCMasterSessions`, 4 cfgs; `MCMasterSessionsSafety` | `MasterSessionsProof` |
| `CtfRules` | a tick of the rules of capture the flag | `MCVotesAndFlags`; itself, 1 cfg | `CtfRulesProof` |
| `CtfMatch` | a match of the minigames and the clients in it | `MCCtfMatch` | `CtfMatchProof` |
| `Entities` | the entities of a game server and what its clients show | `MCEntities`, 2 cfgs | `EntitiesProof` |
| `Requests` | abstract: what the HTTP service promises about one request | through `HttpServer` | `HttpServerProof` |
| `JobPool` | the worker pool: lists, lock, condition variable | through `HttpServer` | `HttpServerProof` |
| `HttpServer` | the HTTP callbacks and the stop, on top of `JobPool`; implements `Requests` | `MCServices` | `HttpServerProof` |

`LoopLemmas` holds what the proofs about loops rest on: induction for a set of natural
numbers, and that a loop written as a recursive function, or as a fold over a finite set
or a sequence, exists and keeps what each of its steps keeps; and what a sequence is
without one of its elements.

`MCServices` and `MCVotesAndFlags` put two systems that share no state into one run:
a variable of its own says which of the two runs, and the other one stays as it starts.

### 2.1 `Squads`

The server is one thread, so a message, a socket event and one client's round of
the tick are one action each. The build modelled is the one without CTF.

* `status` is `in_use`/`verified`/`disconnected` of a slot of `server->clients`:
  free, connected, verified, disconnected. `pendingKick`, `uuid`, `player`
  (`player_info` is set), `quickJoin`, `actionWait`, `voteWait` and `goneTicks`
  are the fields of the same meaning. `lobby` has the squads, the seat of each
  client (`in_squad`, `squad`, `squad_pos`) and `joined_squad_before`.
* `Connect`, `FirstPacket`, `MarkKicked`, `Close`, `CloseKicked` are the socket's
  callbacks, `AccountReply` (with `TakeOver`) the answer of the master,
  `SquadLeave` ... `TransferOwnership` and `SquadKick` the messages, `Tick` the
  client loop of `server_tick`.
* Vote tallies and member counts are 8-bit: `Less8` wraps as the code does.
* Whether a flower is alive, a player is AFK or the level is high enough is a
  free choice. Squad codes, which are random, are assumed to differ.
  `MarkKicked` may hit any connection at any time: it stands for every reason the
  code has to mark one, the full message queue included.

### 2.2 `MasterSessions`

* `master` is what the event loop owns: open links, `player` (the hash of
  `struct player`), the uuid of each slot of each link, waiting joins, the jobs
  not yet pushed and what is on its way to the game servers. `done` are the
  completions, `kicks` the requests of other threads, `db` the rows, `account`
  the accounts that exist. `process`, `slot` and `toMaster` are the game servers.
* `HandleMessage`, `LinkUp`, `LinkClosed` and `Service` (all completions, then
  `ms_games_tick`: kicks newest first, waiting joins, flushes) are the steps of
  the event loop. `Deadline` is the passing of the time of the oldest waiting
  join. `RunJob` and `PushDone` are a worker at its two points: the first
  `Workers` jobs of the queue may run and finish in any order.
* `Login`, `Play`, `Logout`, `Forget`, `Receive` and `Crash` are the game server;
  it aborts when its link closes, so a link is one run of a game server.
* What a player has is one number, their progress. Accounts are not dev accounts.
  The tokens and the row are read in one step of `RunJoin`. Use of a connection
  that was freed has no effect. `accepted` is history: the newest save the master
  took.

### 2.3 `CtfRules`

* `match` has the flags, the flag on each point, `setup_ticks`, `eliminated`,
  `last_taker` and the winner. `Step` is `rr_ctf_step` in its own order: flags
  fall or wait, players act by number, points are set up, teams are judged, a
  winner is looked for. `RulesTick` adds what `rr_ctf_tick` does before it: teams
  whose squads are empty go out. Each loop of the code is a recursive function over
  the numbers it counts through (`InTurn`).
* The map is abstracted to places: each flag point and the rest, "field". The
  positions of two points are assumed further apart than the radii; the code
  enforces that within a team.
* Banner events are left out: no rule reads them.

### 2.4 `CtfMatch`

The CTF build: `Server/Ctf.c` with the parts of `Server/Server.c` that move a client
into, out of and between connections, squads and the game.

* `client` has, per slot, its `status`, `pending_kick` (`kick`), the account, the
  squad, whether its member record plays, its flower (`life`), whose data it has
  (`data`, `aside`: what `mg_backup` holds, if `mg_backup_valid`) and `mg_played`, `mg_out`,
  `mg_forfeit` (`played`, `out`, `forfeit`). `squad` has the owners, `match` is
  `struct rr_ctf_match`.
* Helpers take a world (the three variables in a record) to a world, as the C
  functions are called one from another; an action is one of them applied to the
  current world. `Connection`, `SquadMessage` and `MatchMessage` are the socket, the
  squad messages and the minigame messages of a client; `Tick` is the simulation's
  part (who dies, is revived, or died by leaving) followed by `rr_ctf_tick`.
* A squad is its owner and the clients that say they sit in it; that this equals
  the member slots is what `Squads` shows. The flags are `CtfRules`: here a tick of
  the rules may put teams out and may name a winner. Every duration is free: a
  countdown may be over at any tick (`due`). The ten ticks between two squad actions
  are left out. Accounts are neither dev nor anonymous; a host types the PIN.
* A seed may raise any dead flower while somebody lives, in every mode: the loadouts of
  hide and seek hold no seed (`Ctf.c:247-277`), but the code of the seed asks for no mode,
  and the model does not either.
* `place_flag`, loadouts, the arena and the result message are left out.

### 2.5 `Entities`

The game server without the minigames. A message, a socket event, the answer of the
master, the simulation part of a tick and the turn of one client in the loop of
`server_tick` are one action each.

* `world` has the clients, the table (`entity`), what is requested to be deleted
  (`pending`) and what was deleted in the last tick (`deleted`, whose ids are not yet
  used again), and what each client shows (`screen`). `turn` is the slot whose turn it
  is; between two ticks it is `MaxClients`.
* A hash is an id and a generation. The code asks of the generation only whether it is
  the present one, so a hash is the id, negated by `Outdated` when `Alloc` gives the
  id away. `Alive` compares the hash, `DeadFlower` and `PetalSwitch` look at the id
  alone, as the code does.
* `SimulationTick` is `rr_simulation_tick` in its order: drops (`PickUp`), reload of
  petals, fights and revivals (`Fight`), a spawn, and `Cleanup`: the components of
  what was requested are freed by id, which requests the flower of a deleted player
  and makes the player of a deleted flower forget it; then the ids are free. Distance,
  damage, reload and despawn times are left open by `\E`.
* `Broadcast` is `rr_simulation_write_binary` and the reading of it by the client:
  deletions of what left the view, creations of what entered it, updates of the rest.
  On a screen an id shows nothing, the entity that has the id now ("this"), or an
  earlier one ("other").
* `Login` with `TakeOver` is the answer of the master (Server.c:1656-1762): the player,
  the seat and the bits of drops move from the old connection to the new one, which
  is told everything anew.
* One squad stands for all. A player has one petal slot. Webs, nests, thrown petals,
  arenas, hives, devs and anonymous players are left out. Ten ticks between two squad
  actions are one turn. What the old connection shows after a takeover is forgotten:
  it is closed at once. `strayed` and `owed` are history, for the properties.

### 2.6 `Requests`, `JobPool`, `HttpServer`

* `JobPool` is `jobs.c`: one action per critical section. A worker is at the top of
  its loop, waits, runs, wakes the loop or has returned, so a wake-up can be lost in
  the model. `DrainJob` merges the two critical sections of one turn of
  `ms_jobs_drain_done`: only the loop's thread takes from that list.
* `HttpServer` adds the connections (`conn`: what libwebsockets may call back next,
  `writable`, `pss`: the job it points to), the fields of `struct http_job`
  (`wsi`, `queued`, `finished`, `ready`, `rejected`, `body`), its `storage`, and the
  event loop: polling, draining, and the stop in its order (detach, destroy the
  context, which closes every connection, stop and join the workers, drain).
* The callbacks for a body act on whatever job the connection has, as the code does
  (`server.c:266-286`): they ask neither for the method nor whether the job was
  dispatched before. Which methods the clients send a body with is the constant
  `BodyMethods`. With a body, a GET is given to its route twice, and a request of a method
  that is not served is dispatched after its answer is ready; storage may then be used
  after it was freed, and the model claims nothing of what follows. The properties
  are therefore properties of the service for clients that send a body with a POST only,
  `ApiClients`, as all pages and the game do (`login.html:261`, `account.html:194`,
  `Auth.c:78`, `index.html:104`).
* `LeaveLoop` is the end of the loop, for a signal (`StopDetaches`) or because
  `lws_service` failed (`ServiceFails`).
* What libwebsockets promises is assumed: a body is completed once; a closed connection
  is called back no more; a callback for writing comes only after it was asked for. Freed storage is never used again, so a use
  after free is seen as one. The games' jobs use the same pool and are in
  `MasterSessions`, and so is the tick of the games at the end of a drain.
* `Requests` has no workers, queue or stop: a request is read, refused or given to
  its route once, answered once at most and only to who asked. `RequestsSpec` in
  `HttpServer` is the refinement: `StatusOf` and `ClientOf` are the mapping, `Vanish`
  of a set of requests is what the destruction of the context implements.

## 3. Runs

| Run | Question | States | Result |
| --- | --- | --- | --- |
| `squads_play` | a dev and an anonymous account, 2 squads: seats and member slots, playing slots, one live session per account, only a kick locks out | 365 k | holds |
| `votes_and_flags` | "votes": 3 clients, one squad of 3: do ballots and timers agree, and is a member only voted out unanimously? "flags": 3 teams, 2 players: links of flags and points, carriers, banks, eliminations | 72 k | holds |
| `services` | "http": 2 connections of clients that send a body with POST only, 2 requests, 2 workers: is a job ever used after free, forgotten, answered to another, a wake-up lost; does a stop end; are the requests those of `Requests`? "squads": does every lost connection end and every marked one close? | 131 k | holds |
| `sessions_safety` | two small systems in one run. "saves": 2 game servers, 2 workers, a failing database: is the newest accepted save of an account with a row ever lost, do two writes race, does one come late? "slots": 2 accounts in one slot, a deletion, a stop at any time: does the slot table name only players in that slot, is everything written at the end? | 921 k | holds |
| `sessions_live` | is every join answered, everyone who left saved, with a failing database, a stop and a deletion? | 26 k | holds |
| `sessions_stale` | does a session start from the newest save? | | **violated** |
| `sessions_link` | is an online player's connection open? | | **violated** |
| `sessions_leave` | is a player who plays online for the master? | | **violated** |
| `ctf_bank` | are the flags of a team that is out there for anyone to take? | | **violated** |
| `ctf_match` | 2 clients, 2 accounts, 2 squads, the three modes: is the real data kept and given back, do squads and teams name each other, does who is out stay out, does a deserted match come to an end? | 740 k | holds |
| `entities` | 2 slots, 2 accounts, 4 ids: do clients, players and flowers stay linked, does a client show what the server takes it to show, is a drop given once? | 237 k | holds |
| `entities_stray` | is a client only told to delete what it has? | | **violated** |

### Bounds

* `Squads`: three clients are enough for a vote of two against one; two for a
  takeover and for two sessions of one account. One squad except where squads are
  compared. Timers are 0 or 1: the code distinguishes only running and expired.
  `FewAtOnce`, `NoneKicked`, `NobodyPlays` and `OnePlays` (in `MCSquads`) limit how
  many connections are marked, lost, waiting or playing at a time, in runs that are
  not about that. Clients are interchangeable, and accounts of one kind are; the run
  about liveness uses no symmetry.
* `MasterSessions`: `MaxLogins` 2 connections (a session and its successor),
  `MaxProgress` 1 to 3 saves, `MaxRequests` 1 logout everywhere or deletion,
  queues of at most two messages or jobs (`ShortQueues`) in `sessions_safety`, 1 or
  2 workers: two are what a race of two jobs needs. The shutdown is
  left out of the instance about races ("saves"); "slots" has it, without failing
  writes, since a write that fails at the end is lost in any order. "slots" has one
  slot and one worker (`OneSlot`, `OneWorker`), and `FewSaves` allows progress up to 3
  for the account that had a row (progress 1, so a save may come while the one before
  it is being written) and up to 1 for the other. Every invariant is checked of both.
* `CtfRules`: three teams are the least for spoils with a choice; with one flag a
  team, a point is blocked by a single set-up flag. Setting up takes two ticks,
  a dropped flag returns after one. At most one squad empties in a tick. The
  branch for another empty point of the same team needs two flags a team and is
  not reached.
* `CtfMatch`: two clients are a host and a guest, two squad mates, or the two
  connections of one account; two squads are two teams, or a linked squad and one
  that is not. Clients and accounts are interchangeable. A middle team that vanishes
  from the lobby and renumbers the ones behind it needs a third squad and is not
  exercised by the run: `LinksHold` proves it for any number of squads.
* `Entities`: two slots are what a takeover or a slot with a new owner needs, two
  accounts what a drop given to the wrong one needs. Four ids are a player with its
  flower, a petal and a mob or drop with one id left to be used again, or two players
  with a flower each (`FewEntities`). One connection leaves and one sends a squad
  message at a time (`OneLeaves`, `OneMessage`), a quick join is over before its client
  plays (`QuickFirst`); the rare combinations of who joins quickly, strays or is marked
  have the server to themselves (`RareOnesAlone`). Accounts are interchangeable.
  The proofs need none of these bounds.
* `HttpServer`: two requests, so that one connection can carry two in a row and two
  connections one each; two workers are what a lost wake-up needs. `BodyMethods` is
  `{"POST"}`, the assumption `ApiClients`.

### Fairness

* `Squads!Fairness`: weak fairness of `Tick(c)`: the tick visits every slot 25
  times a second; and of `CloseKicked(c)`: the tick asks for the writable
  callback of a marked connection every time until it comes. Clients and the
  master promise nothing.
* `MasterSessions!FairSpec`: weak fairness of the event loop's round (a 250 ms
  timer), of messages being read and of the workers; strong fairness of a flush
  that succeeds: a database that is asked again and again answers once. Clients
  need not do anything.
* `HttpServer!Fairness`: weak fairness of each worker (a thread is scheduled), of the
  event loop (it has a timer of 250 ms) and of writing the end of an answer (the
  callback was asked for). A client may close at any time and never has to send the
  rest of its body, and `lws_service` need not fail; `EveryRequestEnds` therefore speaks of requests given to a route.
  `MCServices` asks for it only in the half of the run in which the service runs
  (`HttpFairness`), and for `Squads!Fairness` as it is: in the other half no step of
  it is enabled.

### Deadlock

`squads_play` and `ctf_match` are checked for deadlock. `MasterSessions` ends when its
bounds are used up or the master has stopped, `CtfRules` ends with a winner and
`HttpServer` with the process: the configurations with them turn the check off.
`Entities` never stops, but its constraints cut it off.

## 4. What the violated runs show

1. **A session may start from an old row** (`sessions_stale`, `games.c:404`).
   `join_run` reads the row on one worker while a flush of the leaving session is
   on another. If the flush finishes first, `flush_done` frees the saved player,
   and `adopt` uses the row that was read before the write. The next save then
   overwrites the newer one. The same window opens after a takeover. If the account had
   no row yet, `adopt` counts the empty record as unsaved "so it gets written"
   (`games.c:419`), and the flush writes it over the row, though nobody saved anything
   since: `SaveKept(a)` is false then. (With `OldAccounts = {}` and the invariant
   `\A a \in Spared : SaveKept(a)` in `MCMasterSessionsStale.cfg`, TLC shows the run.) An
   account that had a row is not exposed to this: what is read for it counts as written,
   and only a save makes it dirty. `SavesKept` and `StoppedSaved` therefore speak of
   `OldAccounts`.
2. **A player may stay online on a connection that is gone** (`sessions_link`,
   `games.c:1143`). A leave that overtakes its own join finds no player; the join
   is adopted afterwards, the next client in the slot overwrites its entry, and
   the close of the link no longer finds it.
3. **A leave may end the wrong session** (`sessions_leave`, `games.c:600`).
   `on_leave` compares account and link only. When an account has two
   connections to the same game server, the leave of the older one takes the
   newer one offline; its saves are ignored from then on.
4. **A flag may be lost in the bank of a team that is out** (`ctf_bank`,
   `CtfRules.c:204`). A flag on the ground returns to its holder although the
   team has gone out; if its points were set up again it is banked there, nobody
   can take it, and if the remaining teams need it nobody can win.
5. **A client may be told to delete what it does not have** (`entities_stray`,
   `Server.c:287`, `Client/Simulation.c:52`). Who leaves a squad keeps the player and
   the view of it; when the next join fails, the client throws away what it shows. Back
   in a squad, the server goes on from the old view: the client's assertion on the
   deleted id fails (where assertions are built in), and entities it threw away are
   never created again. `WorldAgrees` therefore speaks of players who did not stray.

Seen while modelling and stated by no run:

* The reply to a connection that is gone clears the data of the next one in its slot
  before the nonce is compared (`Server/Client.c:344`).
* Without foreign keys, a write that was with a worker when its account was deleted
  inserts the row again (`games.c:328`). A join adopted between the two steps of a
  deletion (`account.c:84-105`) goes on playing; with foreign keys its saves fail and
  are tried again for as long as the master runs. `OfflineSaved` leaves such players out.
* A worker copies the context under the lock and wakes it outside (`jobs.c:82`), so it
  may wake a context that the stop has destroyed meanwhile; "detach workers from the
  context before it goes away" (`server.c:399`) does not exclude it. The predicate
  `HttpServer!DetachedBeforeDestroyed` says so: with it among the invariants of
  `MCServices.cfg`, TLC shows the run.
* Whoever forfeits a team deathmatch is put back in by the next "ready"
  (`Ctf.c:824`, `875`), although `Ctf.h` has them leave for good.
* Squads are linked by number: a linked squad that empties and is made anew by
  someone else plays for the old team (`Server.c:727`).
* A player who changes squads during a match keeps the flower when the match ends.
* A petal switch deletes whatever has the id of the petal by now, unless that is a player
  or a flower, for which the code prints "would crash" (`PlayerInfo.c:173`). The model does
  the same.
* A flush of a deleted player may finish after `player_left` has freed the player and the
  account has been adopted anew (`games.c:528`): it marks a version written that the new
  record never had. `TypeOK` and `OneFlushAtATime` therefore speak of the accounts that
  are not deleted (`Spared`).
* A request with a body that is no POST is dispatched twice, or after it was answered
  (`server.c:283`): `finished` ("a worker is no longer touching it", `server.c:44`) is then
  set while a worker has the job. With `"GET"` or `"?"` in the `BodyMethods` of
  `MCServices.cfg`, TLC shows runs that violate `WorkersAreUndisturbed` and
  `NoUseAfterFree`. No client in the repository sends such a request.
* A hider is marked out in the first tick after the flower died ("caught: no coming
  back", `Ctf.c:996`), but a seed would still raise the flower that lies there ("until a squad
  mate seeds them", `Ctf.c:941`): the player then moves again and is not counted among the
  hiders left. `OutStaysOut` says this much: out is out, whatever is raised.
* A flower whose player is gone can still be revived by a seed in the tick in which it
  is deleted (the set `risen` of the proof): it is gone at the end of the tick.

## 5. Proofs

### Squads

`SquadsProof` proves for **all** values of the constants (any finite set of
clients, any accounts, any number of squads, 1 to 127 members, any timers):

| Theorem | States |
| --- | --- |
| `SpecTypeOK` | types; a free or unverified slot has no seat and no player |
| `SpecSeatsMatch` | seats and member slots name each other |
| `SpecSquadsConsistent` | counts, tallies and owner of every squad agree with its members: no 8-bit wrap ever happens |
| `SpecBallotsTimed` | whoever has a ballot has a running timer |
| `SpecPlayingHasPlayer` | a slot that plays has a player |
| `SpecOneSession` | an account has one live session at most |
| `SpecIInv` | the inductive invariant |

The inductive invariant is
`IInv == TypeOK /\ GoneBounded /\ LobbyOK(lobby) /\ BallotsTimed /\ PlayingHasPlayer`.
None of its parts is inductive alone. `LobbyOK` joins the links of seats and
slots with the consistency of every squad: that a tally is decremented correctly
needs that a ballot names a member, that a removed member's ballot is taken back
needs that the seat names the right slot. `GoneBounded` (a counter that counts
only while a connection is lost stays below its limit) is what `TypeOK` needs in
the tick. `SpecOneSession` follows from the account reply alone, which ends or
takes over every other session of the account.

`SquadLemmas` proves what each helper does to a lobby: adding, removing and
replacing a member, kicking, voting and taking a ballot back preserve `LobbyOK`
and leave the seats of the others alone. `SquadsProof` has one lemma per action
on top of them, and one case per disjunct of `Next`. The assumptions are
`ClientsAssumption` and `SizesAssumption`; the bound of 127 members is where the
signed position and the 8-bit tallies of the code stop being exact.

Two theorems are about steps:

| Theorem | States |
| --- | --- |
| `SpecVoteKickIsUnanimous` | a vote of somebody who is no dev puts a member out of a public squad only if every place is taken and all the others vote for it |
| `SpecLockedOutOnlyByKick` | a step shuts somebody out of a private squad only by kicking them, or by taking over a session that was kicked |

The first follows from the consistency of the tallies: they count votes of members, so
one that has reached the number of places less one, without an 8-bit wrap, is a vote of
everybody else (`AllVote`). The second is proved helper by helper: each
either shuts nobody out who was not (`NoneShutOut`), or is a kick; it uses the
invariant for whom a squad that is made anew can still remember. `DevAccounts` are taken
to be accounts.

### The HTTP service

`HttpServerProof` proves, for any sets of requests and connections and any finite,
non-empty set of workers (`WorkersAreFinite`), every safety property of the run and
the refinement, and one fact more, of a counter nobody reads (`PendingCorrect`). Each
theorem has the hypothesis `ApiClients`: the clients send a body with a POST only. It is
used in one place, that a connection whose body may still come has a job that is not
dispatched yet (`Stages`), and there it is needed (section 4).

| Theorem | States |
| --- | --- |
| `TypeCorrect`, `PendingCorrect` | types; `pending` counts the jobs in the pool |
| `NoWakeUpIsLost` | a worker sleeps only while the others on their way can take what is to do |
| `NothingIsUsedAfterFree`, `NothingIsForgotten` | pointers name live jobs, live jobs have a pointer |
| `NoAnswerIsReadEarly`, `NoAnswerGoesAstray` | the loop reads no answer a worker may be writing; it goes to who asked |
| `TheEndIsClean` | nothing is left when the process has ended |
| `ServerImplementsRequests` | every step is one of `Requests` or a stutter |

The invariant `IInv` says where a job can be: in one place of the pool at most
(`Places`), in the pool exactly while it is queued and not finished (`InPool`),
linked with its connection in both directions (`Linked`), in the pool when its
connection is gone (`Kept`: this is why exactly one side frees it), as far as the
callbacks of its connection say (`Stages`), and what is over in each stage of the stop
(`Stopping`). `Counted` needs lemmas about appending to and taking from lists and
about counting the workers in a state. One lemma per action; the refinement has one
more per action, from the same invariant.

### The match

`CtfMatchProof` proves every property of the run `ctf_match`, for any clients, accounts,
squads and teams (`ClientsAssumption`, `SizesAssumption`):

| Theorem | States |
| --- | --- |
| `TypesHold` | types; a slot without an account has no squad and no life, and who plays has both |
| `LinksHold` | the teams of a match and the squads name each other, the first team is the host's |
| `DesertedEnds` | a match nobody plays comes a phase closer to its end with every countdown |
| `RealDataIsKept` | whoever has data of a match has the real data kept aside, and in the lobby nobody has any |
| `OutIsOut` | whoever is out of hide and seek gets no new flower but as a seeker; a tick that raises the flower that lies there leaves its player out |
| `TypesAndLinksHold`, `InvariantHolds` | the two inductive invariants |

The first invariant is `Sound`: a world has its types (`Worlds`), the owner of a squad sits
in it (`OwnersSit`), and the links of the match agree (`Linked`). Neither `TypeOK` nor
`LinksAgree` is inductive alone.

* Owners are in it because a takeover and a departure hand squads over: that a squad
  keeps an owner of the right type and seat needs that the old one sat there.
* Two parts of `Linked` are about the lobby. There is a team unless there is no match, and
  the first team is the host's squad: hence the loop over vanished squads, which starts at
  the second team, never drops the host. And hide and seek has one team until it starts,
  so the hiders added then are team 2, the one team that is no squad.
* `drop_vanished_squads` drops teams from the list while it goes through it, and does not
  step on after it has dropped one. `DropAt(w, k)` is the invariant of the loop: after
  `k` turns the links agree, and as many teams are left to look at as there were,
  less `k`. The loop is a recursive function, which `LoopLemmas` takes care of.

`DesertedEnds` follows from the same invariant: when nobody sits in a squad, the squads of
the teams are empty because the teams name squads, and each mode then ends the match.

The second invariant is `WorldOK`: of every slot what its record may be (`RecordOK`), what
the phase and mode allow (`PhaseOK`), and of the match what hide and seek links
(`MatchOK`, `HasOK`). An action property needs more than an invariant: each lemma
about a helper also says whom it may bring to life (`Quiet`: nobody who is out,
`Comeback`: seekers only). A tick first simulates, which may raise whoever lies there dead,
and then does the rest, which brings back seekers only and takes nobody's mark away while
the match lasts (`Marked`); `Return` is the two together. It uses `Sound` for one thing, the loop above: in hide and
seek it drops nobody. TLC checked both invariants on the instance of `ctf_match`
before they were proved.

### The rules of capture the flag

`CtfRulesProof` proves, for every number of teams (2 to 4) and of flags a team (1 to 3)
the server may be given, any number of players and any timers (`CtfAssumption`):

| Theorem | States |
| --- | --- |
| `RulesFlagsConsistent` | flags, points, carriers and teams agree after every tick |
| `RulesBankIsSafe` | what is banked stays with its team, banked or set up on a point of the team, until the team is out |
| `RulesSpoilsStayInPlay` | the bank of a team that goes out goes to a team that is in |

A tick is a sequence of loops over flags, players, points and teams. For each loop
there is a set of matches it does not leave, given the match it starts from (`Sound`
first of all: flags and points name each other, a carrier has one flag and it is not of
their team, a dropped flag waits), and the sets say besides what the loop leaves alone:
`RulesBankIsSafe` follows a banked flag through all of them. The loops are recursive functions
over `0 .. n`; that such a function exists, and stays in the set, is proved in
`LoopLemmas` from the least element of a set of numbers, since the induction theorems of the
library take an operator. The theorems hold whatever set of squads empties in a tick, not
only for the bound of the run.

### The entities

`EntitiesProof` proves every invariant of the run `entities` for any number of slots, ids
and accounts (`SizesAssumption`, `AccountsAssumption`), without the bounds of the run:

| Theorem | States |
| --- | --- |
| `SpecTypeOK` | types; a free slot keeps nothing |
| `SpecPlayersLinked` | clients, players and flowers name one another; what nobody has any more is about to be deleted |
| `SpecWorldAgrees` | a client shows what the server takes it to show, and between ticks only what exists |
| `SpecDropsOnce` | nobody is given a drop they are not owed |
| `SpecIInv` | the inductive invariant |

The invariant is `Good(world, Before(turn), {}) /\ OneSession(world)`.

* `Good` joins the links (`ClientsLinked`, `FlowersLinked`), the ids (`IdsOK`: what is
  deleted does not exist, what is requested does), what drops owe (`Owing`) and the screens
  (`ScreensOK`). A screen agrees with a view only if ids that are given away are in no
  view: that is why the views must be of what exists whenever an id may be given away.
  At the end of the simulation part they are not; the clients that had their turn,
  `Before(turn)`, are those of whom it holds again, and nothing is allocated until it
  holds of all.
* `risen`, the last argument of `Good`, is the set of flowers that may be alive though
  nobody has them: none between two actions, all of them while a tick revives.
* `Owing` says that whoever may still take a drop is owed one. That it is given once
  needs `OneSession`: an account has one connection that is not about to be closed.
* `Cleanup` frees ids in a loop, and what it has done depends on the order: a player
  freed before its flower requests it, a flower freed before its player is forgotten by
  it, and drops may take free ids meanwhile. `Freeing(w, u, k)` is the invariant of the
  loop after the ids up to `k`. At the end every flower whose player went is
  requested and dead, or went with it.

Each helper of the model has a lemma that it leads from a good world to a good one, and
each action one that puts them together. What a change leaves alone is said by named
operators (`Like`, `Added`, `Marked`, `Moved`), which the lemmas share.

### The sessions of the master

`MasterSessionsProof` proves the properties of the run `sessions_safety`, those about saves
kept of accounts that had a row, for any game servers, accounts, slots, workers and bounds,
whether the database has foreign keys and whether it may fail or not
(`LinksAssumption`, `BoundsAssumption`), without `ShortQueues` and the other bounds of the
run:

| Theorem | States |
| --- | --- |
| `SpecTypeOK` | types; nothing is marked written that was never there to write |
| `SpecSlotsNamePlayers` | a uuid in a slot table names a player who is online in that slot |
| `SpecOneFlushAtATime` | one write of a row at most is on its way, queued, running or finished |
| `SpecNoLateWrite` | a row is written only while its player is unsaved |
| `SpecSavesKept` | the newest accepted save of an account that had a row is in the row, or in the cache and known to be unsaved |
| `SpecStoppedSaved` | after the stop, it is in the row, unless writes may fail |
| `SpecIInv` | the inductive invariant |

A save of an account without a row may be lost (section 4), so what is claimed about
saves is claimed of `OldAccounts`; and an account that may be deleted loses its saves, so they,
`SpecOneFlushAtATime` and `SpecNoLateWrite` speak of `Spared`: the accounts that exist and
stay.

The invariant is `Good(master, DOMAIN done, master.links)` with the types, the rows, and
what is over at the end (`Ended`). `Good(m, rest, open)` speaks of any state `m` of the
master while the event loop is at work: `rest` are the completions it has not handled yet,
`open` the links a slot may name. The helpers of the model each lead from a good
state to a good one, with the same `rest` and `open` or fewer, and a round of the event
loop is a chain of them. It says

* that a slot names who is online there (`Named`), so that the close of a link finds
  everybody on it who is named;
* that a row is being written exactly if the player says so, by one job, which is in the
  queue or among the completions (`OneFlush`): this is what makes the result of a
  write one about this player, and not about an earlier or a later write;
* that a write on its way is newer than what is known to be written (`FlushNewer`, hence
  `SpecNoLateWrite`) and carries the cache's data if it carries its version
  (`FlushSaves`), and that a clean cache agrees with the row (`PlayerSaved`): hence a
  player freed as written is written;
* that a join that has found an old account's row has read a row (`JoinRead`): an
  adopted record of it counts as written.

`LoopLemmas` takes care of the folds over completions, kicks, waiting joins and players.
The steps that touch nothing of what is saved share one lemma (`GoodStill`); a save, a
write that a worker does, a completion, and the writes at the end have their own. TLC
checked the invariant on the instance of `sessions_safety` before it was proved.

### Checked by TLC only

* The liveness properties: `EveryRequestEnds`, `StopEnds`, `LostConnectionsEnd`,
  `KickedConnectionsEnd`, `JoinsAnswered`, `OfflineSaved`.
  They rest on fairness and on what is enabled, which is out of the prover's reach.

Every other property of a passing run is proved for all values of the constants.

## 6. Plan

1. A specification of one account's store, which says what a save, a read and a stop
   promise, implemented by `MasterSessions` for the accounts the races of section 4 spare.
2. `Restart` (one restart per drop), `TmpStore` and `RateLimit`, `Snail`.
3. `Varint`, `Bitset`: the pure algorithms against reference definitions.

## 7. Not modelled

The physics, AI and spawning of the simulation are floating point. The client (but
for the table of entities it shows), the tools and the web pages hold no state others depend on. The JavaScript
master server has been replaced by `MasterServer/c`. The database back ends are
a row per account that a call writes or fails to write. Chat, the directory of
squads, restarts, leaderboard counters and malformed messages are left out of
`MasterSessions`; the locks a match puts on squads are in `CtfMatch` and left out of
`Squads`; placing flag points is left out of `CtfRules` and `CtfMatch`. The contents of
requests and answers are left out of `HttpServer`.
