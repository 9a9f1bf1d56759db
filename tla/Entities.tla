------------------------------ MODULE Entities ------------------------------
(***************************************************************************)
(* The entities of a game server (without the minigames) and what the      *)
(* clients show of them: players, their flowers and petals, mobs and drops *)
(* in a table of reused ids, deleted by request at the end of a simulation *)
(* tick (Server/Simulation.c, Shared/SimulationCommon.c), and written to   *)
(* every client as creations, updates and deletions against the set of ids *)
(* the server takes that client to have (Server/UpdateProtocol.c,          *)
(* Client/Simulation.c).  With them the messages of Server/Server.c that   *)
(* put a player in the game or out of it, and reconnecting.                *)
(*                                                                         *)
(* The server is one thread: a message, a socket event, the answer of the  *)
(* master, the simulation part of a tick and the turn of one client in the *)
(* tick's loop are each one step.                                          *)
(*                                                                         *)
(* A hash is an id and the generation of it.  Only one thing is ever asked *)
(* of the generation, whether it is still the one in the table, so a hash  *)
(* is the id, negated once the id was given to another entity.  Distance,  *)
(* health, reload and despawn times are left open.  One squad stands for   *)
(* all (Squads has them); arenas, hives, webs, nests and thrown petals,    *)
(* devs and anonymous players are left out; a player has one petal slot.   *)
(***************************************************************************)
EXTENDS Integers, FiniteSets, FiniteSetsExt

CONSTANTS
    MaxClients,     \* RR_MAX_CLIENT_COUNT
    MaxEntities,    \* RR_MAX_ENTITY_COUNT, without the arena and the null entity
    Accounts,       \* account uuids
    NoAccount       \* the uuid of a slot nobody uses

ASSUME SizesAssumption == MaxClients \in Nat \ {0} /\ MaxEntities \in Nat \ {0}
ASSUME AccountsAssumption == NoAccount \notin Accounts /\ IsFiniteSet(Accounts)

VARIABLES
    world,  \* [client, entity, pending, deleted, screen]
    turn    \* the slot whose turn it is in the tick's loop, MaxClients between ticks

vars == <<world, turn>>

Slots == 0..(MaxClients - 1)
Ids == 1..MaxEntities
Null == 0                           \* RR_NULL_ENTITY

FreeClient ==
    [status |-> "free", kick |-> FALSE, account |-> NoAccount, inSquad |-> FALSE,
     playing |-> FALSE, quick |-> FALSE, wait |-> FALSE, player |-> Null]

\* A client that is not in the game: nothing of the simulation is shown.
Blank == [ready |-> FALSE, shown |-> [i \in Ids |-> "nothing"]]

Nothing == [kind |-> "nothing"]
\* strayed (history, for the properties): the client may show something of an
\* earlier player, or was not told of this one for a while.
Player(c, strayed) ==
    [kind |-> "player", client |-> c, flower |-> Null, petal |-> Null,
     view |-> {}, strayed |-> strayed]
Flower(p) == [kind |-> "flower", owner |-> p, dead |-> FALSE]
Petal(f) == [kind |-> "petal", owner |-> f]
Mob == [kind |-> "mob"]
\* owed (history): how many of this drop each account may still be given.
Drop(can, owed) == [kind |-> "drop", can |-> can, got |-> {}, owed |-> owed]

Init ==
    /\ world = [client |-> [c \in Slots |-> FreeClient],
                entity |-> [i \in Ids |-> Nothing],
                pending |-> {}, deleted |-> {},
                screen |-> [c \in Slots |-> Blank]]
    /\ turn = MaxClients

-----------------------------------------------------------------------------
(* The table of entities                                                   *)

Tracked(w) == {i \in Ids : w.entity[i] # Nothing}
OfKind(w, kind) == {i \in Ids : w.entity[i].kind = kind}
Index(h) == IF h < 0 THEN -h ELSE h     \* (EntityIdx)hash
Alive(w, h) == h \in Ids /\ w.entity[h] # Nothing /\ h \notin w.deleted
DeadFlower(w, h) ==                     \* is_dead_flower: by the id alone
    Index(h) \in Ids /\ w.entity[Index(h)].kind = "flower" /\ w.entity[Index(h)].dead
LivingFlower(w, h) == Alive(w, h) /\ ~DeadFlower(w, h)

FreeIds(w) == Ids \ (Tracked(w) \cup w.deleted)
NewId(w) == Min(FreeIds(w))

\* What e says once id i was given to another entity.
Outdated(e, i) ==
    LET Old(h) == IF h = i THEN -i ELSE h
    IN  CASE e.kind = "player" -> [e EXCEPT !.flower = Old(@), !.petal = Old(@)]
          [] e.kind \in {"flower", "petal"} -> [e EXCEPT !.owner = Old(@)]
          [] OTHER -> e

\* rr_simulation_alloc_entity, for e
Alloc(w, e) ==
    LET i == NewId(w)
        Shown(c) == w.screen[c].shown[i]
    IN  [w EXCEPT
          !.entity = [j \in Ids |-> IF j = i THEN e ELSE Outdated(w.entity[j], i)],
          !.screen = [c \in Slots |->
                        IF Shown(c) = "this" THEN [w.screen[c] EXCEPT !.shown[i] = "other"]
                                             ELSE w.screen[c]]]

RequestDeletion(w, S) == [w EXCEPT !.pending = @ \cup S]

-----------------------------------------------------------------------------
(* Clients and their players                                               *)

\* The player of c is deleted and c forgets it.
DropPlayer(w, c) ==
    LET p == w.client[c].player
    IN  IF p = Null THEN w
        ELSE [RequestDeletion(w, {p}) EXCEPT !.client[c].player = Null]

LeaveSquad(w, c) == [w EXCEPT !.client[c].inSquad = FALSE, !.client[c].playing = FALSE]
JoinSquad(w, c) == [w EXCEPT !.client[c].inSquad = TRUE, !.client[c].playing = FALSE]

\* The client throws away what it shows (rr_clientbound_squad_fail, in game 0).
ClearScreen(w, c) == [w EXCEPT !.screen[c] = Blank]

\* Out of the squad, but not of the game: c is told nothing until it is back.
Stray(w, c) ==
    LET p == w.client[c].player
    IN  IF p = Null THEN w ELSE [w EXCEPT !.entity[p].strayed = TRUE]

\* A new player and its flower, for c.
Enter(w, c) ==
    LET v == DropPlayer(w, c)
        p == NewId(v)
        withPlayer == Alloc(v, Player(c, v.screen[c].ready))
        f == NewId(withPlayer)
    IN  [Alloc(withPlayer, Flower(p)) EXCEPT
            !.entity[p].flower = f,
            !.client[c].player = p, !.client[c].playing = TRUE]

\* mutant: a quick join outlives its connection
FreeSlot_KeepsQuickJoin(w, c) ==
    [LeaveSquad(DropPlayer(w, c), c) EXCEPT
        !.client[c] = [FreeClient EXCEPT !.quick = w.client[c].quick],
        !.screen[c] = Blank]
\* mutant: drops go on knowing the slot
FreeSlot_KeepsBits(w, c) ==
    [LeaveSquad(DropPlayer(w, c), c) EXCEPT !.client[c] = FreeClient, !.screen[c] = Blank]
\* rr_server_client_free, and the slot is free again
FreeSlot(w, c) ==
    LET v == LeaveSquad(DropPlayer(w, c), c)
    IN  [v EXCEPT
          !.client[c] = FreeClient,
          !.screen[c] = Blank,
          !.entity = [i \in Ids |->
              IF v.entity[i].kind = "drop"
              THEN [v.entity[i] EXCEPT !.can = @ \ {c}, !.got = @ \ {c}]
              ELSE v.entity[i]]]

\* mutant: the player is handed over with what the old connection was told
TakeOver_KeepsView(w, c, j) ==
    LET old == w.client[j]
        moved ==
          [w EXCEPT
            !.client[c] = [@ EXCEPT !.player = old.player, !.inSquad = old.inSquad,
                                    !.playing = old.playing, !.wait = old.wait],
            !.client[j] = [@ EXCEPT !.player = Null, !.inSquad = FALSE, !.playing = FALSE],
            !.entity = [i \in Ids |-> IF i = old.player
                                      THEN [w.entity[i] EXCEPT !.client = c, !.strayed = FALSE]
                                      ELSE w.entity[i]]]
    IN  IF old.status = "gone" THEN FreeSlot(moved, j)
                               ELSE [moved EXCEPT !.client[j].kick = TRUE]
\* The session of slot j goes on in slot c.  What the old connection shows, if it
\* shows anything, is of no interest from here on.
TakeOver(w, c, j) ==
    LET old == w.client[j]
        moved ==
          [w EXCEPT
            !.client[c] = [@ EXCEPT !.player = old.player, !.inSquad = old.inSquad,
                                    !.playing = old.playing, !.wait = old.wait],
            !.client[j] = [@ EXCEPT !.player = Null, !.inSquad = FALSE, !.playing = FALSE],
            !.screen[j].shown = Blank.shown,
            !.entity = [i \in Ids |->
              LET e == w.entity[i]
              IN  CASE i = old.player ->
                         [e EXCEPT !.client = c, !.view = {}, !.strayed = FALSE]
                    [] e.kind = "drop" ->
                         [e EXCEPT !.can = @ \cup {k \in {c} : j \in e.can},
                                   !.got = @ \cup {k \in {c} : j \in e.got}]
                    [] OTHER -> e]]
    IN  IF old.status = "gone" THEN FreeSlot(moved, j)
                               ELSE [moved EXCEPT !.client[j].kick = TRUE]

-----------------------------------------------------------------------------
(* Between two ticks                                                       *)

Between == turn = MaxClients
Verified(c) == world.client[c].status = "verified"
\* Two ids for a player and its flower (RR_UNREACHABLE when there are none).
Room(w) == Cardinality(FreeIds(w)) >= 2

\* The master verified account a for the connection of slot c.
Login(c, a) ==
    /\ Between
    /\ world.client[c].status = "free"
    /\ LET fresh == [world EXCEPT !.client[c] = [FreeClient EXCEPT !.status = "verified",
                                                                   !.account = a]]
           others == {j \in Slots \ {c} : /\ world.client[j].account = a
                                          /\ ~world.client[j].kick}
       IN  world' = IF others = {} THEN fresh
                    ELSE TakeOver(fresh, c, CHOOSE j \in others : \A k \in others : j <= k)
    /\ UNCHANGED turn

\* The master asks for the account of slot c to be kicked.
MasterKicks(c) ==
    /\ Between
    /\ Verified(c)
    /\ ~world.client[c].kick
    /\ world' = [world EXCEPT !.client[c].kick = TRUE]
    /\ UNCHANGED turn

\* The connection of slot c closes.
Close(c) ==
    /\ Between
    /\ Verified(c)
    /\ world' = IF world.client[c].kick THEN FreeSlot(world, c)
                ELSE [ClearScreen(world, c) EXCEPT !.client[c].status = "gone"]
    /\ UNCHANGED turn

\* A squad action that is not the second one within ten ticks.
SquadAction(c) == Between /\ Verified(c) /\ ~world.client[c].wait
Waiting(c) == [world EXCEPT !.client[c].wait = TRUE]
JoinFails(w, c) == ClearScreen(LeaveSquad(Stray(w, c), c), c)

\* rr_serverbound_squad_ready of a client that is in no squad
ReadyJoins(c) ==
    /\ SquadAction(c)
    /\ ~world.client[c].inSquad
    /\ \/ world' = [JoinSquad(Waiting(c), c) EXCEPT !.client[c].quick = TRUE]
       \/ world' = [JoinFails(Waiting(c), c) EXCEPT !.client[c].quick = FALSE]
    /\ UNCHANGED turn

\* ... of a member that is not in the game
ReadyEnters(c) ==
    /\ SquadAction(c)
    /\ world.client[c].inSquad /\ ~world.client[c].playing
    /\ Room(world)
    /\ world' = Enter(Waiting(c), c)
    /\ UNCHANGED turn

\* ... of a member in the game: its flower dies, or a dead one leaves the game
ReadyAbandons(c) ==
    /\ SquadAction(c)
    /\ world.client[c].playing
    /\ world.client[c].player # Null
    /\ LET f == world.entity[world.client[c].player].flower
       IN  world' = IF LivingFlower(world, f)
                    THEN [Waiting(c) EXCEPT !.entity[f].dead = TRUE]
                    ELSE [DropPlayer(Waiting(c), c) EXCEPT !.client[c].playing = FALSE]
    /\ UNCHANGED turn

\* rr_serverbound_squad_update: with a quick join pending it is a second ready
Update(c) ==
    /\ Between
    /\ Verified(c)
    /\ world.client[c].inSquad
    /\ world.client[c].quick
    /\ LET v == [world EXCEPT !.client[c].quick = FALSE]
       IN  IF v.client[c].playing
           THEN world' = [DropPlayer(v, c) EXCEPT !.client[c].playing = FALSE]
           ELSE Room(v) /\ world' = Enter(v, c)
    /\ UNCHANGED turn

\* rr_serverbound_squad_join, type 3
Leave(c) ==
    /\ SquadAction(c)
    /\ world' = IF world.client[c].inSquad THEN LeaveSquad(Stray(Waiting(c), c), c)
                                           ELSE Waiting(c)
    /\ UNCHANGED turn

\* ... types 0 to 2: out of one squad and into another one, or into none
Join(c) ==
    /\ SquadAction(c)
    /\ \/ world' = JoinSquad(Waiting(c), c)
       \/ world' = JoinFails(Waiting(c), c)
    /\ UNCHANGED turn

\* rr_serverbound_squad_kick takes effect: a member puts c out of the squad.
KickFromSquad(c) ==
    /\ Between
    /\ world.client[c].inSquad
    /\ \E k \in Slots \ {c} : Verified(k) /\ world.client[k].inSquad
    /\ world' = ClearScreen(LeaveSquad(DropPlayer(world, c), c), c)
    /\ UNCHANGED turn

\* rr_serverbound_petal_switch: by the id alone, whose ever it is by now
PetalSwitch(c) ==
    /\ Between
    /\ Verified(c)
    /\ world.client[c].player # Null
    /\ LET p == world.client[c].player
           i == Index(world.entity[p].petal)
       IN  /\ i \in Tracked(world)
           /\ world' = [RequestDeletion(world, {i} \ (OfKind(world, "player")
                                                       \cup OfKind(world, "flower")))
                          EXCEPT !.entity[p].petal = Null]
    /\ UNCHANGED turn

-----------------------------------------------------------------------------
(* rr_simulation_tick                                                      *)

\* Op for every id of S, the lowest one first
ForEach(S, Op(_, _), w) ==
    LET upTo[i \in 0..MaxEntities] ==
            IF i = 0 THEN w
            ELSE IF i \in S THEN Op(upTo[i - 1], i) ELSE upTo[i - 1]
    IN  upTo[MaxEntities]

\* The client of a flower that can still pick drops up, as a set of at most one.
Picker(w, f) ==
    LET o == w.entity[f].owner
    IN  IF DeadFlower(w, f) \/ ~Alive(w, o) THEN {}
        ELSE {c \in {w.entity[o].client} : w.client[c].status # "gone"}

\* The drops that a flower may reach, of those that are not about to despawn.
Reachable(w, staying) ==
    {x \in (UNION {Picker(w, f) : f \in OfKind(w, "flower")}) \X staying :
        x[1] \in w.entity[x[2]].can \ w.entity[x[2]].got}

\* rr_system_drops_tick.  A session that is about to be closed is owed nothing:
\* the one that took its place is.
PickUp(w, despawned, picked) ==
    LET Getters(d) == {c \in Slots : <<c, d>> \in picked}
        Given(d, a) == Cardinality({c \in Getters(d) : /\ w.client[c].account = a
                                                       /\ ~w.client[c].kick})
        Picked(d) == [w.entity[d] EXCEPT !.got = @ \cup Getters(d),
                                         !.owed = [a \in Accounts |-> @[a] - Given(d, a)]]
    IN  [RequestDeletion(w, despawned) EXCEPT
            !.entity = [i \in Ids |-> IF w.entity[i].kind = "drop" THEN Picked(i)
                                                                   ELSE w.entity[i]]]

\* rr_system_petal_reload_foreach_function for player p, whose petal is ready or not
Reload(w, p, ready) ==
    LET e == w.entity[p]
        v == IF e.petal # Null /\ ~Alive(w, e.petal)
             THEN [w EXCEPT !.entity[p].petal = Null] ELSE w
    IN  IF ~LivingFlower(w, e.flower) THEN w
        ELSE IF v.entity[p].petal = Null /\ ready /\ FreeIds(v) # {}
        THEN [Alloc(v, Petal(e.flower)) EXCEPT !.entity[p].petal = NewId(v)]
        ELSE v
ReloadAll(w, ready) ==
    ForEach(OfKind(w, "player"), LAMBDA v, p : Reload(v, p, p \in ready), w)

\* Flowers are revived; petals of a flower that is dead or gone, and what was
\* hit, are deleted; flowers die.
Fight(w, hit, revived, fallen) ==
    LET Dead(S, dead, v) == [v EXCEPT !.entity = [i \in Ids |->
                                IF i \in S THEN [v.entity[i] EXCEPT !.dead = dead]
                                           ELSE v.entity[i]]]
        v == Dead(revived, FALSE, w)
        Orphans == {q \in OfKind(v, "petal") : ~LivingFlower(v, v.entity[q].owner)}
    IN  Dead(fallen, TRUE, RequestDeletion(v, hit \cup Orphans))

\* mutant: the flower of a player is not deleted with it
FreeComponents_KeepsFlower(w, i, loot) ==
    LET e == w.entity[i]
    IN  IF e.kind = "player" /\ Alive(w, e.flower)
        THEN [w EXCEPT !.entity[e.flower].dead = TRUE] ELSE w
\* The components of a deleted entity are freed; a mob may leave a drop behind,
\* for the members the squad has then.
FreeComponents(w, i, loot) ==
    LET e == w.entity[i]
        Members == {c \in Slots : w.client[c].inSquad}
        Owed(a) == IF \E c \in Members : w.client[c].account = a THEN 1 ELSE 0
    IN  CASE e.kind = "player" /\ Alive(w, e.flower) ->
               [RequestDeletion(w, {e.flower}) EXCEPT !.entity[e.flower].dead = TRUE]
          [] e.kind = "flower" /\ Alive(w, e.owner) ->
               [w EXCEPT !.entity[e.owner].flower = Null]
          [] e.kind = "mob" /\ i \in loot /\ FreeIds(w) # {} ->
               Alloc(w, Drop(Members, [a \in Accounts |-> Owed(a)]))
          [] OTHER -> w

\* What was requested is deleted: first the components, then the ids.
Cleanup(w, loot) ==
    LET v == [w EXCEPT !.deleted = w.pending, !.pending = {}]
        freed == ForEach(w.pending, LAMBDA u, i : FreeComponents(u, i, loot), v)
    IN  [freed EXCEPT !.entity = [i \in Ids |-> IF i \in w.pending THEN Nothing
                                                ELSE freed.entity[i]]]

SimulationTick ==
    /\ Between
    /\ \E despawned \in SUBSET OfKind(world, "drop") :
       \E picked \in SUBSET Reachable(world, OfKind(world, "drop") \ despawned) :
       \E ready \in SUBSET OfKind(world, "player") :
         LET v == ReloadAll(PickUp(world, despawned, picked), ready)
             living == {f \in OfKind(v, "flower") : LivingFlower(v, f)}
         IN  \E hit \in SUBSET (OfKind(v, "petal") \cup OfKind(v, "mob")) :
             \* by the seed of another flower
             \E revived \in SUBSET (IF living = {} THEN {}
                                    ELSE OfKind(v, "flower") \ living) :
             \E fallen \in SUBSET living :
               LET u == Fight(v, hit, revived, fallen)
               IN  \E spawned \in {u} \cup (IF FreeIds(u) = {} THEN {} ELSE {Alloc(u, Mob)}) :
                   \E loot \in SUBSET (OfKind(spawned, "mob") \cap spawned.pending) :
                       world' = Cleanup(spawned, loot)
    /\ turn' = 0

-----------------------------------------------------------------------------
(* The turn of a client in server_tick                                     *)

\* rr_simulation_write_binary with what the camera of player p sees of the rest
View(w, p, seen) ==
    LET players == {q \in OfKind(w, "player") : Alive(w, q)}
        flowers == {f \in {w.entity[q].flower : q \in players} : Alive(w, f)}
    IN  {p} \cup players \cup flowers \cup seen

\* What the camera of c may see: drops only if c can pick them up and did not.
Visible(w, c) ==
    {i \in Tracked(w) \ (w.deleted \cup OfKind(w, "player")) :
        i \in OfKind(w, "drop") => c \in w.entity[i].can \ w.entity[i].got}

\* rr_server_client_broadcast_update, read by the client at once: deletions of
\* what left the view, then creations of what the server takes it not to have.
Broadcast(w, c, seen) ==
    LET p == w.client[c].player
        old == w.entity[p].view
        new == View(w, p, seen)
        Update1(i, shown) == CASE i \in new \ old -> "this"
                               [] i \in old \ new -> "nothing"
                               [] OTHER -> shown
    IN  IF p = Null THEN ClearScreen(w, c)
        ELSE [w EXCEPT
                !.entity[p].view = new,
                !.screen[c] = [ready |-> TRUE,
                               shown |-> [i \in Ids |-> Update1(i, @.shown[i])]]]

NextTurn == turn' = turn + 1
IsTurn(c) == turn = c
Ready(w, c) == [w EXCEPT !.client[c].wait = FALSE]

\* A slot that is free, or was left and is still kept.
TurnPasses(c) ==
    /\ IsTurn(c)
    /\ ~Verified(c)
    /\ world' = Ready(world, c)
    /\ NextTurn

\* A slot that was left is kept long enough.
TurnExpires(c) ==
    /\ IsTurn(c)
    /\ world.client[c].status = "gone"
    /\ world' = FreeSlot(world, c)
    /\ NextTurn

\* A player who did nothing for too long leaves the game and the squad.
TurnThrowsOut(c) ==
    /\ IsTurn(c)
    /\ Verified(c)
    /\ world.client[c].player # Null
    /\ world' = ClearScreen(LeaveSquad(DropPlayer(Ready(world, c), c), c), c)
    /\ NextTurn

\* A member is told what changed; another client is not.
TurnTells(c) ==
    /\ IsTurn(c)
    /\ Verified(c)
    /\ IF world.client[c].inSquad
       THEN \E seen \in SUBSET Visible(world, c) :
                world' = Broadcast(Ready(world, c), c, seen)
       ELSE world' = Ready(world, c)
    /\ NextTurn

Next ==
    \/ SimulationTick
    \/ \E c \in Slots :
        \/ \E a \in Accounts : Login(c, a)
        \/ MasterKicks(c) \/ Close(c)
        \/ ReadyJoins(c) \/ ReadyEnters(c) \/ ReadyAbandons(c)
        \/ Update(c) \/ Leave(c) \/ Join(c)
        \/ KickFromSquad(c) \/ PetalSwitch(c)
        \/ TurnPasses(c) \/ TurnExpires(c) \/ TurnThrowsOut(c) \/ TurnTells(c)

Spec == Init /\ [][Next]_vars

-----------------------------------------------------------------------------
(* Properties                                                              *)

Hashes == (-MaxEntities)..MaxEntities
Entity ==
    {Nothing, Mob}
    \cup [kind : {"player"}, client : Slots, flower : Hashes, petal : Hashes,
          view : SUBSET Ids, strayed : BOOLEAN]
    \cup [kind : {"flower"}, owner : Hashes, dead : BOOLEAN]
    \cup [kind : {"petal"}, owner : Hashes]
    \cup [kind : {"drop"}, can : SUBSET Slots, got : SUBSET Slots,
          owed : [Accounts -> Int]]

\* The types of the state (struct rr_simulation, struct rr_server_client); a free
\* slot keeps nothing of the client that had it.
TypeOK ==
    /\ world \in [client : [Slots -> [status : {"free", "verified", "gone"}, kick : BOOLEAN,
                                      account : Accounts \cup {NoAccount},
                                      inSquad : BOOLEAN, playing : BOOLEAN,
                                      quick : BOOLEAN, wait : BOOLEAN,
                                      player : Ids \cup {Null}]],
                  entity : [Ids -> Entity],
                  pending : SUBSET Ids, deleted : SUBSET Ids,
                  screen : [Slots -> [ready : BOOLEAN,
                                      shown : [Ids -> {"nothing", "this", "other"}]]]]
    /\ \A c \in Slots : world.client[c].status = "free" =>
                            world.client[c] = FreeClient /\ world.screen[c] = Blank
    /\ turn \in 0..MaxClients

ClientHasPlayer(c) ==
    LET p == world.client[c].player
    IN  p # Null => /\ p \in OfKind(world, "player") \ (world.pending \cup world.deleted)
                    /\ world.entity[p].client = c
PlayerHasClient(p) ==
    p \notin world.pending => world.client[world.entity[p].client].player = p
PlayerHasFlower(p) ==
    LET f == world.entity[p].flower
    IN  /\ f \in OfKind(world, "flower") => world.entity[f].owner = p
        /\ f \notin OfKind(world, "flower") => f = Null
FlowerHasPlayer(f) ==
    LET p == world.entity[f].owner
    IN  \/ p \in OfKind(world, "player") /\ world.entity[p].flower = f
        \/ world.entity[f].dead /\ f \in world.pending

\* A client, its player and its flower name one another, across ids that are used
\* again.  The pointer of a client is never to a player that is deleted or about to
\* be; a player nobody has any more is about to be deleted, and a flower nobody has
\* any more is dead as well; only what exists is about to be deleted.
PlayersLinked ==
    /\ \A c \in Slots : ClientHasPlayer(c)
    /\ \A p \in OfKind(world, "player") : PlayerHasClient(p) /\ PlayerHasFlower(p)
    /\ \A f \in OfKind(world, "flower") : FlowerHasPlayer(f)
    /\ world.pending \subseteq Tracked(world)

Shown(c) == {i \in Ids : world.screen[c].shown[i] # "nothing"}
\* A client that is told everything since its player is in the game.
Followed(c) ==
    /\ Verified(c) /\ world.client[c].inSquad /\ world.client[c].player # Null
    /\ ~world.entity[world.client[c].player].strayed

\* What a client shows is what the server takes it to show, entity by entity and not
\* only id by id, and once a tick is over nothing of it is gone from the server: ids
\* are used again, views come and go, and a session goes on in another connection.
WorldAgrees ==
    \A c \in Slots : Followed(c) =>
        /\ Shown(c) = world.entity[world.client[c].player].view
        /\ \A i \in Shown(c) : world.screen[c].shown[i] = "this"
        /\ Between => Shown(c) \subseteq Tracked(world)

\* Nobody gets a drop twice, or one that was left to others: not by coming back in
\* another connection, and not in a slot that somebody else had.
DropsOnce ==
    \A d \in OfKind(world, "drop"), a \in Accounts : world.entity[d].owed[a] >= 0

\* Every entity that a client is told to delete is one that it has
\* (Client/Simulation.c asserts it).
DeletesWhatIsShown ==
    [][\A c \in Slots :
        LET p == world.client[c].player
        IN  p # Null /\ world'.client[c].player = p =>
                world.entity[p].view \ world'.entity[p].view \subseteq Shown(c)]_vars
=============================================================================
