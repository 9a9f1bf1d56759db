---------------------------- MODULE EntitiesProof ----------------------------
(***************************************************************************)
(* The invariants of Entities, for any number of slots, ids and accounts.  *)
(*                                                                         *)
(* Good is what every step preserves: of the links between clients,        *)
(* players and flowers, of what drops are still owed, and of what the      *)
(* clients show.  For each helper of the model there is a lemma that it    *)
(* leads from a good world to a good one; the end of the simulation tick,  *)
(* which frees ids one by one, is a loop with an invariant of its own.     *)
(***************************************************************************)
EXTENDS Entities, LoopLemmas

ClientRecords ==
    [status : {"free", "verified", "gone"}, kick : BOOLEAN,
     account : Accounts \cup {NoAccount}, inSquad : BOOLEAN, playing : BOOLEAN,
     quick : BOOLEAN, wait : BOOLEAN, player : Ids \cup {Null}]
ScreenRecords == [ready : BOOLEAN, shown : [Ids -> {"nothing", "this", "other"}]]
PlayerRecords ==
    [kind : {"player"}, client : Slots, flower : Hashes, petal : Hashes,
     view : SUBSET Ids, strayed : BOOLEAN]
FlowerRecords == [kind : {"flower"}, owner : Hashes, dead : BOOLEAN]
PetalRecords == [kind : {"petal"}, owner : Hashes]
DropRecords ==
    [kind : {"drop"}, can : SUBSET Slots, got : SUBSET Slots, owed : [Accounts -> Int]]
Worlds ==
    [client : [Slots -> ClientRecords], entity : [Ids -> Entity],
     pending : SUBSET Ids, deleted : SUBSET Ids, screen : [Slots -> ScreenRecords]]

Players(w) == OfKind(w, "player")
Flowers(w) == OfKind(w, "flower")
Drops(w) == OfKind(w, "drop")

\* A free slot keeps nothing, one in use has an account, a client that is not in
\* the game shows nothing.
SlotsOK(w) ==
    \A c \in Slots :
        /\ w.client[c].status = "free" => w.client[c] = FreeClient /\ w.screen[c] = Blank
        /\ w.client[c].status # "free" => w.client[c].account \in Accounts
        /\ ~w.screen[c].ready => w.screen[c].shown = Blank.shown

\* Clients and players name one another, but for players about to be deleted.
ClientsLinked(w) ==
    /\ \A c \in Slots : w.client[c].player # Null =>
          /\ w.client[c].player \in Players(w) \ (w.pending \cup w.deleted)
          /\ w.entity[w.client[c].player].client = c
    /\ \A p \in Players(w) \ w.pending : w.client[w.entity[p].client].player = p

\* A flower is its player's, or its player is gone; then it is about to be deleted
\* and dead, unless it is one of risen.
FlowersLinked(w, risen) ==
    /\ \A p \in Players(w) :
          /\ w.entity[p].flower \in Flowers(w) => w.entity[w.entity[p].flower].owner = p
          /\ w.entity[p].flower \notin Flowers(w) => w.entity[p].flower = Null
    /\ \A f \in Flowers(w) :
          IF w.entity[f].owner \in Tracked(w)
          THEN /\ w.entity[f].owner \in Players(w)
               /\ w.entity[w.entity[f].owner].flower = f
          ELSE f \in w.pending /\ (f \notin risen => w.entity[f].dead)

\* Only what exists is about to be deleted, nothing that was deleted exists.
IdsOK(w) == w.pending \subseteq Tracked(w) /\ w.deleted \cap Tracked(w) = {}

\* Whoever may still pick a drop up is owed one.
Owing(w) ==
    \A d \in Drops(w) :
        /\ \A a \in Accounts : w.entity[d].owed[a] >= 0
        /\ \A c \in w.entity[d].can :
              /\ w.client[c].status # "free"
              /\ c \notin w.entity[d].got /\ ~w.client[c].kick
                    => w.entity[d].owed[w.client[c].account] >= 1

\* A client that was told everything since its player is in the game shows what the
\* server takes it to show; for those in told all of it is still there.
Told(w, c) ==
    /\ w.client[c].status = "verified" /\ w.client[c].player # Null
    /\ ~w.entity[w.client[c].player].strayed
ViewOf(w, c) == w.entity[w.client[c].player].view
ScreensOK(w, told) ==
    \A c \in Slots : Told(w, c) =>
        /\ \A i \in Ids : w.screen[c].shown[i] = IF i \in ViewOf(w, c) THEN "this" ELSE "nothing"
        /\ ~w.client[c].inSquad => ViewOf(w, c) = {}
        /\ c \in told => ViewOf(w, c) \subseteq Tracked(w)

Good(w, told, risen) ==
    /\ w \in Worlds
    /\ SlotsOK(w) /\ ClientsLinked(w) /\ FlowersLinked(w, risen) /\ IdsOK(w)
    /\ Owing(w) /\ ScreensOK(w, told)

\* An account has one connection that is not about to be closed.
OneSession(w) ==
    \A c, j \in Slots :
        /\ w.client[c].status # "free" /\ w.client[j].status # "free"
        /\ ~w.client[c].kick /\ ~w.client[j].kick
        /\ w.client[c].account = w.client[j].account
        => c = j

\* Nobody is in x who was not in w.
NoNewSession(w, x) ==
    \A j \in Slots : x.client[j].status # "free" =>
        /\ w.client[j].status # "free" /\ x.client[j].account = w.client[j].account
        /\ w.client[j].kick => x.client[j].kick

-----------------------------------------------------------------------------
(* Records.                                                                 *)
LEMMA Sizes ==
    /\ MaxClients \in Nat \ {0} /\ MaxEntities \in Nat \ {0}
    /\ Ids \subseteq Hashes /\ Null \in Hashes /\ Null \notin Ids
    /\ \A i \in Ids : -i \in Hashes /\ -i \notin Ids /\ -i # Null /\ i > 0
BY SizesAssumption DEF Ids, Hashes, Null

LEMMA WorldParts ==
    ASSUME NEW w \in Worlds
    PROVE  /\ w.client \in [Slots -> ClientRecords] /\ w.entity \in [Ids -> Entity]
           /\ w.pending \in SUBSET Ids /\ w.deleted \in SUBSET Ids
           /\ w.screen \in [Slots -> ScreenRecords]
           /\ Players(w) \subseteq Ids /\ Flowers(w) \subseteq Ids /\ Drops(w) \subseteq Ids
           /\ Tracked(w) \subseteq Ids
BY DEF Worlds, Players, Flowers, Drops, OfKind, Tracked

\* What an entity is, by its kind.
LEMMA Kinds ==
    ASSUME NEW e \in Entity
    PROVE  /\ e.kind \in {"nothing", "player", "flower", "petal", "mob", "drop"}
           /\ e.kind = "nothing" <=> e = Nothing
           /\ e.kind = "mob" <=> e = Mob
           /\ e.kind = "player" <=> e \in PlayerRecords
           /\ e.kind = "flower" <=> e \in FlowerRecords
           /\ e.kind = "petal" <=> e \in PetalRecords
           /\ e.kind = "drop" <=> e \in DropRecords
BY DEF Entity, Nothing, Mob, PlayerRecords, FlowerRecords, PetalRecords, DropRecords

LEMMA IsEntity ==
    /\ PlayerRecords \subseteq Entity /\ FlowerRecords \subseteq Entity
    /\ PetalRecords \subseteq Entity /\ DropRecords \subseteq Entity
    /\ Nothing \in Entity /\ Mob \in Entity
BY DEF Entity, PlayerRecords, FlowerRecords, PetalRecords, DropRecords

\* The entities of a world, by their kinds.
LEMMA KindsOf ==
    ASSUME NEW w \in Worlds, NEW i \in Ids
    PROVE  /\ w.entity[i] \in Entity
           /\ i \in Tracked(w) <=> w.entity[i] # Nothing
           /\ i \in Players(w) <=> w.entity[i] \in PlayerRecords
           /\ i \in Flowers(w) <=> w.entity[i] \in FlowerRecords
           /\ i \in Drops(w) <=> w.entity[i] \in DropRecords
           /\ i \in Players(w) <=> w.entity[i].kind = "player"
           /\ i \in Flowers(w) <=> w.entity[i].kind = "flower"
           /\ i \in Drops(w) <=> w.entity[i].kind = "drop"
           /\ i \notin Tracked(w) <=> w.entity[i].kind = "nothing"
<1>1. w.entity[i] \in Entity
  BY WorldParts
<1>2. QED
  BY <1>1, Kinds DEF Tracked, Players, Flowers, Drops, OfKind

LEMMA KindsDiffer ==
    ASSUME NEW w \in Worlds
    PROVE  /\ Players(w) \cap Flowers(w) = {} /\ Players(w) \cap Drops(w) = {}
           /\ Flowers(w) \cap Drops(w) = {}
           /\ Players(w) \subseteq Tracked(w) /\ Flowers(w) \subseteq Tracked(w)
           /\ Drops(w) \subseteq Tracked(w)
<1>1. \A i \in Ids : i \in Players(w) \cup Flowers(w) \cup Drops(w) => i \in Tracked(w)
  BY KindsOf
<1>2. QED
  BY <1>1, WorldParts DEF Players, Flowers, Drops, OfKind

LEMMA PlayerFields ==
    ASSUME NEW w \in Worlds, NEW p \in Players(w)
    PROVE  /\ p \in Ids /\ w.entity[p] \in PlayerRecords
           /\ w.entity[p].client \in Slots /\ w.entity[p].flower \in Hashes
           /\ w.entity[p].petal \in Hashes /\ w.entity[p].view \in SUBSET Ids
           /\ w.entity[p].strayed \in BOOLEAN
<1>1. p \in Ids /\ w.entity[p] \in PlayerRecords
  BY WorldParts, KindsOf
<1>2. QED
  BY <1>1 DEF PlayerRecords

LEMMA FlowerFields ==
    ASSUME NEW w \in Worlds, NEW f \in Flowers(w)
    PROVE  /\ f \in Ids /\ w.entity[f] \in FlowerRecords
           /\ w.entity[f].owner \in Hashes /\ w.entity[f].dead \in BOOLEAN
<1>1. f \in Ids /\ w.entity[f] \in FlowerRecords
  BY WorldParts, KindsOf
<1>2. QED
  BY <1>1 DEF FlowerRecords

LEMMA DropFields ==
    ASSUME NEW w \in Worlds, NEW d \in Drops(w)
    PROVE  /\ d \in Ids /\ w.entity[d] \in DropRecords
           /\ w.entity[d].can \in SUBSET Slots /\ w.entity[d].got \in SUBSET Slots
           /\ w.entity[d].owed \in [Accounts -> Int]
<1>1. d \in Ids /\ w.entity[d] \in DropRecords
  BY WorldParts, KindsOf
<1>2. QED
  BY <1>1 DEF DropRecords

LEMMA ClientFields ==
    ASSUME NEW w \in Worlds, NEW c \in Slots
    PROVE  /\ w.client[c] \in ClientRecords
           /\ w.client[c].status \in {"free", "verified", "gone"}
           /\ w.client[c].kick \in BOOLEAN /\ w.client[c].inSquad \in BOOLEAN
           /\ w.client[c].account \in Accounts \cup {NoAccount}
           /\ w.client[c].player \in Ids \cup {Null}
<1>1. w.client[c] \in ClientRecords
  BY WorldParts
<1>2. QED
  BY <1>1 DEF ClientRecords

-----------------------------------------------------------------------------
(* Changes of a client and of what it shows.                                *)

\* What only looks at the entities of a world.
LEMMA SameTable ==
    ASSUME NEW w, NEW x, x.entity = w.entity
    PROVE  /\ Players(x) = Players(w) /\ Flowers(x) = Flowers(w) /\ Drops(x) = Drops(w)
           /\ Tracked(x) = Tracked(w)
           /\ \A kind : OfKind(x, kind) = OfKind(w, kind)
BY DEF Players, Flowers, Drops, Tracked, OfKind

\* Slot c goes on with the same account and player; it may be marked or lost.
LEMMA SetClient ==
    ASSUME NEW told, NEW risen, NEW w, Good(w, told, risen),
           NEW c \in Slots, NEW k \in ClientRecords,
           k.player = w.client[c].player, k.account = w.client[c].account,
           w.client[c].status # "free", k.status # "free",
           w.client[c].kick => k.kick,
           k.status = "verified" => w.client[c].status = "verified",
           w.client[c].inSquad /\ ~k.inSquad => ~Told(w, c)
    PROVE  LET x == [w EXCEPT !.client[c] = k]
           IN  /\ Good(x, told, risen)
               /\ x.client = [w.client EXCEPT ![c] = k]
               /\ x.entity = w.entity /\ x.pending = w.pending
               /\ x.deleted = w.deleted /\ x.screen = w.screen
               /\ NoNewSession(w, x) /\ x.client[c] = k
<1> DEFINE x == [w EXCEPT !.client[c] = k]
<1>1. w \in Worlds
  BY DEF Good
<1>2. /\ x.client = [w.client EXCEPT ![c] = k]
      /\ x.entity = w.entity /\ x.pending = w.pending
      /\ x.deleted = w.deleted /\ x.screen = w.screen
      /\ x \in Worlds
  BY <1>1 DEF Worlds
<1> HIDE DEF x
<1>3. /\ \A j \in Slots : j # c => x.client[j] = w.client[j]
      /\ x.client[c] = k
      /\ \A j \in Slots : x.client[j].player = w.client[j].player
  BY <1>1, <1>2, WorldParts
<1>4. SlotsOK(x)
  BY <1>2, <1>3 DEF Good, SlotsOK
<1>5. ClientsLinked(x) /\ FlowersLinked(x, risen) /\ IdsOK(x)
  <2>1. \A p \in Players(w) : w.entity[p].client \in Slots
    BY <1>1, PlayerFields
  <2>2. QED
    BY <1>2, <1>3, <2>1, SameTable DEF Good, ClientsLinked, FlowersLinked, IdsOK
<1>6. Owing(x)
  <2>1. \A d \in Drops(w) : w.entity[d].can \subseteq Slots
    BY <1>1, DropFields
  <2>2. QED
    BY <1>2, <1>3, <2>1, SameTable DEF Good, Owing
<1>7. \A j \in Slots : Told(x, j) => Told(w, j) /\ ViewOf(x, j) = ViewOf(w, j)
  BY <1>2, <1>3 DEF Told, ViewOf
<1>8. ScreensOK(x, told)
  BY <1>2, <1>3, <1>7, SameTable DEF Good, ScreensOK
<1>9. NoNewSession(w, x) /\ x.client[c] = k
  BY <1>3 DEF NoNewSession
<1>10. QED
  BY <1>2, <1>4, <1>5, <1>6, <1>8, <1>9 DEF Good, x

\* Clearing a screen of which nothing was said.
LEMMA ClearScreenGood ==
    ASSUME NEW told, NEW risen, NEW w, Good(w, told, risen),
           NEW c \in Slots, ~Told(w, c)
    PROVE  LET x == ClearScreen(w, c)
           IN  /\ Good(x, told, risen)
               /\ x.client = w.client /\ x.entity = w.entity
<1> DEFINE x == ClearScreen(w, c)
<1>1. w \in Worlds
  BY DEF Good
<1>2. Blank \in ScreenRecords
  BY DEF Blank, ScreenRecords
<1>3. /\ x.client = w.client
      /\ x.entity = w.entity /\ x.pending = w.pending
      /\ x.deleted = w.deleted /\ x.screen = [w.screen EXCEPT ![c] = Blank]
      /\ x \in Worlds
  BY <1>1, <1>2 DEF Worlds, ClearScreen
<1> HIDE DEF x
<1>4. \A j \in Slots : x.screen[j] = IF j = c THEN Blank ELSE w.screen[j]
  BY <1>1, <1>3, WorldParts
<1>5. SlotsOK(x)
  BY <1>3, <1>4 DEF Good, SlotsOK
<1>6. ClientsLinked(x) /\ FlowersLinked(x, risen) /\ IdsOK(x) /\ Owing(x)
  BY <1>3, SameTable DEF Good, ClientsLinked, FlowersLinked, IdsOK, Owing
<1>7. \A j \in Slots : Told(x, j) => Told(w, j) /\ j # c /\ ViewOf(x, j) = ViewOf(w, j)
  BY <1>3 DEF Told, ViewOf
<1>8. ScreensOK(x, told)
  BY <1>3, <1>4, <1>7, SameTable DEF Good, ScreensOK
<1>9. QED
  BY <1>3, <1>5, <1>6, <1>8 DEF Good, x

-----------------------------------------------------------------------------
(* Changes of the table.                                                    *)

LEMMA RequestGood ==
    ASSUME NEW told, NEW risen, NEW w, Good(w, told, risen),
           NEW S, S \subseteq Tracked(w) \ Players(w)
    PROVE  LET x == RequestDeletion(w, S)
           IN  /\ Good(x, told, risen)
               /\ x.client = w.client /\ x.entity = w.entity
               /\ x.pending = w.pending \cup S
               /\ x.deleted = w.deleted /\ x.screen = w.screen
<1> DEFINE x == RequestDeletion(w, S)
<1>1. w \in Worlds
  BY DEF Good
<1>2. S \subseteq Ids
  BY <1>1, WorldParts
<1>3. /\ x.client = w.client
      /\ x.entity = w.entity /\ x.pending = w.pending \cup S
      /\ x.deleted = w.deleted /\ x.screen = w.screen
      /\ x \in Worlds
  BY <1>1, <1>2 DEF Worlds, RequestDeletion
<1> HIDE DEF x
<1>4. SlotsOK(x) /\ FlowersLinked(x, risen) /\ IdsOK(x) /\ Owing(x)
  BY <1>3, SameTable DEF Good, SlotsOK, FlowersLinked, IdsOK, Owing
<1>5. ClientsLinked(x)
  BY <1>3, SameTable DEF Good, ClientsLinked
<1>6. \A j \in Slots : (Told(x, j) <=> Told(w, j)) /\ ViewOf(x, j) = ViewOf(w, j)
  BY <1>3 DEF Told, ViewOf
<1>7. ScreensOK(x, told)
  BY <1>3, <1>6, SameTable DEF Good, ScreensOK
<1>8. QED
  BY <1>3, <1>4, <1>5, <1>7 DEF Good, x

LEMMA DropPlayerGood ==
    ASSUME NEW told, NEW risen, NEW w, Good(w, told, risen), NEW c \in Slots
    PROVE  LET x == DropPlayer(w, c)
           IN  /\ Good(x, told, risen)
               /\ x.client = [w.client EXCEPT ![c].player = Null]
               /\ x.entity = w.entity
               /\ x.deleted = w.deleted /\ x.screen = w.screen
               /\ x.client[c].player = Null /\ ~Told(x, c)
<1> DEFINE x == DropPlayer(w, c)
           p == w.client[c].player
           k == [w.client[c] EXCEPT !.player = Null]
<1>1. w \in Worlds /\ k \in ClientRecords
  BY ClientFields DEF Good, ClientRecords
<1>2. CASE p = Null
  <2>1. x = w
    BY <1>2 DEF DropPlayer
  <2>2. k = w.client[c]
    BY <1>1, <1>2, ClientFields DEF ClientRecords
  <2>3. w.client = [w.client EXCEPT ![c] = k]
    BY <1>1, <2>2, WorldParts
  <2>4. QED
    BY <1>2, <2>1, <2>3 DEF Told
<1>3. CASE p # Null
  <2>1. p \in Players(w) /\ p \notin w.pending /\ p \in Tracked(w) /\ w.entity[p].client = c
    BY <1>1, <1>3, KindsDiffer DEF Good, ClientsLinked
  <2>2. p \in Ids
    BY <1>1, <2>1, PlayerFields
  <2>3. /\ x.client = [w.client EXCEPT ![c] = k]
        /\ x.entity = w.entity /\ x.pending = w.pending \cup {p}
        /\ x.deleted = w.deleted /\ x.screen = w.screen
        /\ x \in Worlds
    <3>1. x = [w EXCEPT !.pending = w.pending \cup {p},
                        !.client = [w.client EXCEPT ![c] = k]]
      BY <1>1, <1>3 DEF DropPlayer, RequestDeletion, Worlds
    <3> HIDE DEF x, k
    <3>2. QED
      BY <1>1, <2>2, <3>1 DEF Worlds
  <2>4. k.player = Null /\ k.account = w.client[c].account /\ k.status = w.client[c].status
        /\ k.kick = w.client[c].kick /\ k.inSquad = w.client[c].inSquad
    BY <1>1, ClientFields DEF ClientRecords
  <2> HIDE DEF x, k
  <2>5. \A j \in Slots : x.client[j] = IF j = c THEN k ELSE w.client[j]
    BY <1>1, <2>3, WorldParts
  <2>6. SlotsOK(x)
    <3>1. w.client[c].status # "free"
      BY <1>3 DEF Good, SlotsOK, FreeClient
    <3>2. QED
      BY <2>3, <2>4, <2>5, <3>1 DEF Good, SlotsOK
  <2>7. ClientsLinked(x)
    <3>1. \A q \in Players(w) : w.entity[q].client \in Slots
      BY <1>1, PlayerFields
    <3>2. \A q \in Players(w) \ w.pending : w.entity[q].client = c => q = p
      BY DEF Good, ClientsLinked
    <3>3. \A j \in Slots : j # c => w.client[j].player # p
      BY <1>3, <2>1 DEF Good, ClientsLinked
    <3>4. QED
      BY <2>3, <2>4, <2>5, <3>1, <3>2, <3>3, SameTable DEF Good, ClientsLinked
  <2>8. FlowersLinked(x, risen) /\ IdsOK(x)
    BY <2>1, <2>3, SameTable DEF Good, FlowersLinked, IdsOK
  <2>9. Owing(x)
    <3>1. \A d \in Drops(w) : w.entity[d].can \subseteq Slots
      BY <1>1, DropFields
    <3>2. QED
      BY <2>3, <2>4, <2>5, <3>1, SameTable DEF Good, Owing
  <2>10. ScreensOK(x, told)
    <3>1. \A j \in Slots : Told(x, j) => j # c /\ Told(w, j) /\ ViewOf(x, j) = ViewOf(w, j)
      BY <2>3, <2>4, <2>5 DEF Told, ViewOf
    <3>2. QED
      BY <2>3, <2>5, <3>1, SameTable DEF Good, ScreensOK
  <2>11. x.client[c].player = Null /\ ~Told(x, c)
    BY <2>4, <2>5 DEF Told
  <2>12. QED
    BY <2>3, <2>6, <2>7, <2>8, <2>9, <2>10, <2>11 DEF Good, x, k
<1>4. QED
  BY <1>2, <1>3

\* What of an entity the links do not look at may change.
Like(e, n) ==
    /\ n.kind = e.kind
    /\ e.kind = "player" => /\ n.client = e.client /\ n.flower = e.flower
                            /\ n.view = e.view /\ (e.strayed => n.strayed)
    /\ e.kind = "flower" => n.owner = e.owner

LEMMA LikeGood ==
    ASSUME NEW told, NEW risen, NEW w, Good(w, told, risen),
           NEW x \in Worlds, x.client = w.client, x.pending = w.pending,
           x.deleted = w.deleted, x.screen = w.screen,
           \A i \in Ids : Like(w.entity[i], x.entity[i]),
           \A f \in Flowers(w) \ risen : w.entity[f].dead => x.entity[f].dead,
           Owing(x)
    PROVE  /\ Good(x, told, risen)
           /\ Players(x) = Players(w) /\ Flowers(x) = Flowers(w) /\ Drops(x) = Drops(w)
           /\ Tracked(x) = Tracked(w)
<1>1. w \in Worlds
  BY DEF Good
<1>2. \A i \in Ids : x.entity[i].kind = w.entity[i].kind
  BY DEF Like
<1>3. /\ Players(x) = Players(w) /\ Flowers(x) = Flowers(w) /\ Drops(x) = Drops(w)
      /\ Tracked(x) = Tracked(w)
  <2>1. \A i \in Ids : i \in Tracked(x) <=> i \in Tracked(w)
    BY <1>1, <1>2, KindsOf
  <2>2. QED
    BY <1>2, <2>1 DEF Players, Flowers, Drops, OfKind, Tracked
<1>4. ASSUME NEW p \in Players(w)
      PROVE  /\ x.entity[p].client = w.entity[p].client
             /\ x.entity[p].flower = w.entity[p].flower
             /\ x.entity[p].view = w.entity[p].view
             /\ w.entity[p].strayed => x.entity[p].strayed
  BY DEF Players, OfKind, Like
<1>5. \A f \in Flowers(w) : x.entity[f].owner = w.entity[f].owner
  BY DEF Flowers, OfKind, Like
<1>6. SlotsOK(x) /\ ClientsLinked(x) /\ IdsOK(x) /\ Owing(x)
  BY <1>3, <1>4 DEF Good, SlotsOK, ClientsLinked, IdsOK
<1>7. FlowersLinked(x, risen)
  BY <1>3, <1>4, <1>5 DEF Good, FlowersLinked
<1>8. \A j \in Slots : Told(x, j) => Told(w, j) /\ ViewOf(x, j) = ViewOf(w, j)
  BY <1>4 DEF Good, ClientsLinked, Told, ViewOf
<1>9. ScreensOK(x, told)
  BY <1>3, <1>8 DEF Good, ScreensOK
<1>10. QED
  BY <1>3, <1>6, <1>7, <1>9 DEF Good

\* The same for one entity that is not a drop.
LEMMA SetLike ==
    ASSUME NEW told, NEW risen, NEW w, Good(w, told, risen),
           NEW i \in Ids, NEW e \in Entity, Like(w.entity[i], e), e.kind # "drop",
           e.kind = "flower" => (w.entity[i].dead => e.dead)
    PROVE  LET x == [w EXCEPT !.entity[i] = e]
           IN  /\ Good(x, told, risen)
               /\ x.entity = [w.entity EXCEPT ![i] = e]
               /\ x.client = w.client /\ x.pending = w.pending
               /\ x.deleted = w.deleted /\ x.screen = w.screen
               /\ Players(x) = Players(w) /\ Flowers(x) = Flowers(w) /\ Drops(x) = Drops(w)
               /\ Tracked(x) = Tracked(w)
<1> DEFINE x == [w EXCEPT !.entity[i] = e]
<1>1. w \in Worlds
  BY DEF Good
<1>2. /\ x.entity = [w.entity EXCEPT ![i] = e]
      /\ x.client = w.client /\ x.pending = w.pending
      /\ x.deleted = w.deleted /\ x.screen = w.screen
      /\ x \in Worlds
  BY <1>1 DEF Worlds
<1> HIDE DEF x
<1>3. \A j \in Ids : x.entity[j] = IF j = i THEN e ELSE w.entity[j]
  BY <1>1, <1>2, WorldParts
<1>4. \A j \in Ids : Like(w.entity[j], x.entity[j])
  BY <1>3 DEF Like
<1>5. \A f \in Flowers(w) : w.entity[f].dead => x.entity[f].dead
  BY <1>3 DEF Flowers, OfKind, Like
<1>6. Owing(x)
  <2>1. Drops(x) = Drops(w)
    BY <1>4 DEF Drops, OfKind, Like
  <2>2. \A d \in Drops(w) : d # i /\ d \in Ids
    BY DEF Drops, OfKind, Like
  <2>3. QED
    BY <1>2, <1>3, <2>1, <2>2 DEF Good, Owing
<1>7. /\ Good(x, told, risen)
      /\ Players(x) = Players(w) /\ Flowers(x) = Flowers(w) /\ Drops(x) = Drops(w)
      /\ Tracked(x) = Tracked(w)
  <2>1. x \in Worlds /\ x.client = w.client /\ x.pending = w.pending
        /\ x.deleted = w.deleted /\ x.screen = w.screen
    BY <1>2
  <2>2. \A f \in Flowers(w) \ risen : w.entity[f].dead => x.entity[f].dead
    BY <1>5
  <2>3. QED
    BY <2>1, <1>4, <2>2, <1>6, LikeGood, SMTT(60)
<1>8. QED
  BY <1>2, <1>7 DEF x

\* Who strays is told nothing any more.
LEMMA StrayGood ==
    ASSUME NEW told, NEW risen, NEW w, Good(w, told, risen), NEW c \in Slots
    PROVE  LET x == Stray(w, c)
           IN  /\ Good(x, told, risen)
               /\ x.client = w.client /\ x.pending = w.pending
               /\ x.deleted = w.deleted /\ x.screen = w.screen
               /\ ~Told(x, c)
<1> DEFINE x == Stray(w, c)
           p == w.client[c].player
           e == [w.entity[p] EXCEPT !.strayed = TRUE]
<1>1. w \in Worlds
  BY DEF Good
<1>2. CASE p = Null
  BY <1>2 DEF Stray, Told
<1>3. CASE p # Null
  <2>1. p \in Players(w)
    BY <1>3 DEF Good, ClientsLinked
  <2>2. p \in Ids /\ w.entity[p] \in PlayerRecords
    BY <1>1, <2>1, PlayerFields
  <2>3. e \in PlayerRecords /\ Like(w.entity[p], e) /\ e.strayed /\ e.kind = "player"
    BY <2>2 DEF PlayerRecords, Like
  <2>4. x = [w EXCEPT !.entity[p] = e]
    BY <1>3 DEF Stray
  <2>5. e \in Entity
    BY <2>3, IsEntity
  <2> HIDE DEF e, x
  <2>6. /\ Good(x, told, risen) /\ x.entity = [w.entity EXCEPT ![p] = e]
        /\ x.client = w.client /\ x.pending = w.pending
        /\ x.deleted = w.deleted /\ x.screen = w.screen
    BY <2>2, <2>3, <2>4, <2>5, SetLike
  <2>7. x.entity[p] = e
    BY <1>1, <2>2, <2>6, WorldParts
  <2>8. QED
    BY <2>3, <2>6, <2>7 DEF Told, x
<1>4. QED
  BY <1>2, <1>3
-----------------------------------------------------------------------------
(* A new entity.                                                            *)

LEMMA NewIdIsFree ==
    ASSUME NEW w, FreeIds(w) # {}
    PROVE  NewId(w) \in FreeIds(w)
<1>1. FreeIds(w) \in SUBSET Nat
  BY Sizes DEF FreeIds, Ids
<1>2. \E m \in FreeIds(w) : \A k \in FreeIds(w) : m <= k
  BY <1>1, Least
<1>3. QED
  BY <1>2 DEF NewId, Min

\* What is said of an id that is used again is said of a hash that is no id.
LEMMA OutdatedFields ==
    ASSUME NEW e \in Entity, NEW i \in Ids
    PROVE  /\ Outdated(e, i) \in Entity /\ Outdated(e, i).kind = e.kind
           /\ e.kind \notin {"player", "flower", "petal"} => Outdated(e, i) = e
           /\ e.kind = "player" =>
                /\ Outdated(e, i).client = e.client /\ Outdated(e, i).view = e.view
                /\ Outdated(e, i).strayed = e.strayed
                /\ Outdated(e, i).flower = IF e.flower = i THEN -i ELSE e.flower
                /\ Outdated(e, i).petal = IF e.petal = i THEN -i ELSE e.petal
           /\ e.kind \in {"flower", "petal"} =>
                Outdated(e, i).owner = IF e.owner = i THEN -i ELSE e.owner
           /\ e.kind = "flower" => Outdated(e, i).dead = e.dead
<1>1. -i \in Hashes
  BY Sizes
<1>2. CASE e.kind = "player"
  <2>1. e \in PlayerRecords
    BY <1>2, Kinds
  <2> DEFINE f == IF e.flower = i THEN -i ELSE e.flower
             q == IF e.petal = i THEN -i ELSE e.petal
  <2>2. f \in Hashes /\ q \in Hashes
    BY <1>1, <2>1 DEF PlayerRecords
  <2>3. Outdated(e, i) = [e EXCEPT !.flower = f, !.petal = q]
    BY <1>2 DEF Outdated
  <2> HIDE DEF f, q
  <2>4. /\ Outdated(e, i) \in PlayerRecords
        /\ Outdated(e, i).client = e.client /\ Outdated(e, i).view = e.view
        /\ Outdated(e, i).strayed = e.strayed
        /\ Outdated(e, i).flower = f /\ Outdated(e, i).petal = q
        /\ Outdated(e, i).kind = "player"
    BY <2>1, <2>2, <2>3 DEF PlayerRecords
  <2>5. QED
    BY <1>2, <2>4, IsEntity DEF f, q
<1>3. CASE e.kind \in {"flower", "petal"}
  <2>1. (e.kind = "flower" => e \in FlowerRecords) /\ (e.kind = "petal" => e \in PetalRecords)
    BY Kinds
  <2> DEFINE o == IF e.owner = i THEN -i ELSE e.owner
  <2>2. o \in Hashes
    BY <1>1, <1>3, <2>1 DEF FlowerRecords, PetalRecords
  <2>3. Outdated(e, i) = [e EXCEPT !.owner = o]
    BY <1>3 DEF Outdated
  <2> HIDE DEF o
  <2>4. CASE e.kind = "flower"
    <3>1. /\ Outdated(e, i) \in FlowerRecords /\ Outdated(e, i).owner = o
          /\ Outdated(e, i).dead = e.dead /\ Outdated(e, i).kind = "flower"
      BY <2>1, <2>2, <2>3, <2>4 DEF FlowerRecords
    <3>2. QED
      BY <2>4, <3>1, IsEntity DEF o
  <2>5. CASE e.kind = "petal"
    <3>1. /\ Outdated(e, i) \in PetalRecords /\ Outdated(e, i).owner = o
          /\ Outdated(e, i).kind = "petal"
      BY <2>1, <2>2, <2>3, <2>5 DEF PetalRecords
    <3>2. QED
      BY <2>5, <3>1, IsEntity DEF o
  <2>6. QED
    BY <1>3, <2>4, <2>5
<1>4. CASE e.kind \notin {"player", "flower", "petal"}
  BY <1>4 DEF Outdated
<1>5. QED
  BY <1>2, <1>3, <1>4

\* The table and the screens with an entity e at a free id.
LEMMA AllocParts ==
    ASSUME NEW w \in Worlds, FreeIds(w) # {}, NEW e \in Entity, e # Nothing
    PROVE  LET x == Alloc(w, e)
               i == NewId(w)
           IN  /\ x \in Worlds /\ i \in Ids /\ i \notin Tracked(w) /\ i \notin w.deleted
               /\ x.client = w.client /\ x.pending = w.pending /\ x.deleted = w.deleted
               /\ x.entity[i] = e
               /\ \A j \in Ids \ {i} : x.entity[j] = Outdated(w.entity[j], i)
               /\ \A j \in Ids \ {i} : x.entity[j].kind = w.entity[j].kind
               /\ Tracked(x) = Tracked(w) \cup {i}
               /\ \A c \in Slots : x.screen[c] =
                    IF w.screen[c].shown[i] = "this"
                    THEN [w.screen[c] EXCEPT !.shown[i] = "other"] ELSE w.screen[c]
               /\ x.screen \in [Slots -> ScreenRecords]
<1> DEFINE i == NewId(w)
           entity == [j \in Ids |-> IF j = i THEN e ELSE Outdated(w.entity[j], i)]
           Changed(c) == IF w.screen[c].shown[i] = "this"
                         THEN [w.screen[c] EXCEPT !.shown[i] = "other"] ELSE w.screen[c]
           screen == [c \in Slots |-> Changed(c)]
           x == Alloc(w, e)
<1>1. i \in Ids /\ i \notin Tracked(w) /\ i \notin w.deleted
  BY NewIdIsFree DEF FreeIds
<1>2. x = [w EXCEPT !.entity = entity, !.screen = screen]
  BY DEF Alloc
<1> HIDE DEF i, x
<1>3. \A j \in Ids : w.entity[j] \in Entity
  BY WorldParts
<1>4. entity \in [Ids -> Entity]
  BY <1>1, <1>3, OutdatedFields
<1>5. \A c \in Slots : Changed(c) \in ScreenRecords
  <2>1. \A c \in Slots : w.screen[c] \in ScreenRecords
    BY WorldParts
  <2>2. ASSUME NEW s \in ScreenRecords
        PROVE  [s EXCEPT !.shown[i] = "other"] \in ScreenRecords
    BY <1>1, <2>2 DEF ScreenRecords
  <2>3. QED
    BY <2>1, <2>2
<1>6. \A j \in Ids : entity[j] = IF j = i THEN e ELSE Outdated(w.entity[j], i)
  OBVIOUS
<1> HIDE DEF entity, Changed
<1>7. screen \in [Slots -> ScreenRecords] /\ \A c \in Slots : screen[c] = Changed(c)
  BY <1>5
<1> HIDE DEF screen
<1>8. /\ x \in Worlds /\ x.entity = entity /\ x.screen = screen
      /\ x.client = w.client /\ x.pending = w.pending /\ x.deleted = w.deleted
  BY <1>2, <1>4, <1>7 DEF Worlds
<1>9. \A j \in Ids \ {i} : x.entity[j].kind = w.entity[j].kind
  BY <1>1, <1>3, <1>6, <1>8, OutdatedFields
<1>10. \A j \in Ids : j \in Tracked(x) <=> j \in Tracked(w) \/ j = i
  <2>1. i \in Tracked(x)
    BY <1>1, <1>6, <1>8 DEF Tracked
  <2>2. QED
    BY <1>8, <1>9, <2>1, KindsOf
<1>11. Tracked(x) = Tracked(w) \cup {i}
  BY <1>1, <1>10, <1>8, WorldParts
<1>12. QED
  BY <1>1, <1>6, <1>7, <1>8, <1>9, <1>11 DEF Changed, i, x
\* x is w with e at the new id i: what there was is as it was.
Added(w, x, i, e) ==
    /\ i \in Ids /\ i \notin Tracked(w) /\ i \notin w.deleted
    /\ x.client = w.client /\ x.pending = w.pending /\ x.deleted = w.deleted
    /\ x.entity[i] = e /\ Tracked(x) = Tracked(w) \cup {i}
    /\ \A p \in Players(w) : /\ p # i /\ p \in Players(x)
                             /\ x.entity[p].client = w.entity[p].client
                             /\ x.entity[p].flower = w.entity[p].flower
                             /\ x.entity[p].view = w.entity[p].view
                             /\ x.entity[p].strayed = w.entity[p].strayed
    /\ \A f \in Flowers(w) :
         /\ f # i /\ f \in Flowers(x) /\ x.entity[f].dead = w.entity[f].dead
         /\ IF w.entity[f].owner \in Tracked(w)
            THEN x.entity[f].owner = w.entity[f].owner /\ w.entity[f].owner # i
            ELSE x.entity[f].owner \notin Tracked(x)
    /\ \A d \in Drops(w) : d # i /\ d \in Drops(x) /\ x.entity[d] = w.entity[d]
    /\ Players(x) = Players(w) \cup {j \in {i} : e.kind = "player"}
    /\ Flowers(x) = Flowers(w) \cup {j \in {i} : e.kind = "flower"}
    /\ Drops(x) = Drops(w) \cup {j \in {i} : e.kind = "drop"}
    /\ \A c \in Slots : x.screen[c].ready = w.screen[c].ready

\* What a new entity needs of a world: all that clients show exists, and who is
\* named exists.
Fit(w) ==
    /\ w \in Worlds /\ SlotsOK(w) /\ ScreensOK(w, Slots)
    /\ \A p \in Players(w) : w.entity[p].flower \in Flowers(w) \cup {Null}
    /\ \A c \in Slots : w.client[c].player \in Players(w) \cup {Null}

LEMMA GoodFits ==
    ASSUME NEW w, NEW risen, Good(w, Slots, risen)
    PROVE  Fit(w)
BY DEF Good, Fit, ClientsLinked, FlowersLinked

LEMMA AllocKeeps ==
    ASSUME NEW w, Fit(w), FreeIds(w) # {}, NEW e \in Entity, e # Nothing
    PROVE  LET x == Alloc(w, e)
           IN  /\ Added(w, x, NewId(w), e) /\ x \in Worlds
               /\ SlotsOK(x) /\ ScreensOK(x, Slots)
               /\ IdsOK(w) => IdsOK(x)
<1> DEFINE i == NewId(w)
           x == Alloc(w, e)
<1>1. w \in Worlds
  BY DEF Fit
<1>2. /\ x \in Worlds /\ i \in Ids /\ i \notin Tracked(w) /\ i \notin w.deleted
      /\ x.client = w.client /\ x.pending = w.pending /\ x.deleted = w.deleted
      /\ x.entity[i] = e
      /\ \A j \in Ids \ {i} : x.entity[j] = Outdated(w.entity[j], i)
      /\ \A j \in Ids \ {i} : x.entity[j].kind = w.entity[j].kind
      /\ Tracked(x) = Tracked(w) \cup {i}
      /\ \A c \in Slots : x.screen[c] =
           IF w.screen[c].shown[i] = "this"
           THEN [w.screen[c] EXCEPT !.shown[i] = "other"] ELSE w.screen[c]
      /\ x.screen \in [Slots -> ScreenRecords]
  BY <1>1, AllocParts
<1> HIDE DEF i, x
<1>3. \A j \in Ids : w.entity[j] \in Entity
  BY <1>1, WorldParts
<1>4. /\ Players(x) = Players(w) \cup {j \in {i} : e.kind = "player"}
      /\ Flowers(x) = Flowers(w) \cup {j \in {i} : e.kind = "flower"}
      /\ Drops(x) = Drops(w) \cup {j \in {i} : e.kind = "drop"}
      /\ i \notin Players(w) /\ i \notin Flowers(w) /\ i \notin Drops(w)
  <2>1. w.entity[i].kind = "nothing"
    BY <1>1, <1>2, KindsOf
  <2>2. \A kind \in {"player", "flower", "drop"} :
            OfKind(x, kind) = OfKind(w, kind) \cup {j \in {i} : e.kind = kind}
    BY <1>2, <2>1 DEF OfKind
  <2>3. QED
    BY <2>1, <2>2 DEF Players, Flowers, Drops, OfKind
<1>5. ASSUME NEW p \in Players(w)
      PROVE  /\ p # i /\ p \in Players(x)
             /\ x.entity[p].client = w.entity[p].client
             /\ x.entity[p].flower = w.entity[p].flower
             /\ x.entity[p].view = w.entity[p].view
             /\ x.entity[p].strayed = w.entity[p].strayed
  <2>1. p \in Ids /\ p # i /\ w.entity[p].kind = "player"
    BY <1>4 DEF Players, OfKind
  <2>2. w.entity[p].flower # i
    <3>1. w.entity[p].flower \in Flowers(w) \/ w.entity[p].flower = Null
      BY DEF Fit
    <3>2. QED
      BY <1>2, <1>4, <3>1, Sizes
  <2>3. QED
    BY <1>2, <1>3, <1>4, <2>1, <2>2, OutdatedFields
<1>6. ASSUME NEW f \in Flowers(w)
      PROVE  /\ f # i /\ f \in Flowers(x) /\ x.entity[f].dead = w.entity[f].dead
             /\ IF w.entity[f].owner \in Tracked(w)
                THEN x.entity[f].owner = w.entity[f].owner /\ w.entity[f].owner # i
                ELSE x.entity[f].owner \notin Tracked(x)
  <2>1. f \in Ids /\ f # i /\ w.entity[f].kind = "flower"
    BY <1>4 DEF Flowers, OfKind
  <2>2. /\ x.entity[f].owner = IF w.entity[f].owner = i THEN -i ELSE w.entity[f].owner
        /\ x.entity[f].dead = w.entity[f].dead
    BY <1>2, <1>3, <2>1, OutdatedFields
  <2>3. -i \notin Tracked(x)
    BY <1>2, Sizes, WorldParts
  <2>4. QED
    BY <1>2, <1>4, <2>1, <2>2, <2>3
<1>7. ASSUME NEW d \in Drops(w)
      PROVE  d # i /\ d \in Drops(x) /\ x.entity[d] = w.entity[d]
  <2>1. d \in Ids /\ d # i /\ w.entity[d].kind = "drop"
    BY <1>4 DEF Drops, OfKind
  <2>2. QED
    BY <1>2, <1>3, <1>4, <2>1, OutdatedFields
<1>8. \A c \in Slots :
        /\ x.screen[c].ready = w.screen[c].ready
        /\ \A j \in Ids \ {i} : x.screen[c].shown[j] = w.screen[c].shown[j]
        /\ w.screen[c].shown[i] # "this" => x.screen[c] = w.screen[c]
  <2> SUFFICES ASSUME NEW c \in Slots
               PROVE  /\ x.screen[c].ready = w.screen[c].ready
                      /\ \A j \in Ids \ {i} : x.screen[c].shown[j] = w.screen[c].shown[j]
                      /\ w.screen[c].shown[i] # "this" => x.screen[c] = w.screen[c]
    OBVIOUS
  <2> DEFINE s == w.screen[c]
             n == [s EXCEPT !.shown[i] = "other"]
  <2>1. s \in ScreenRecords
    BY <1>1, WorldParts
  <2> HIDE DEF s
  <2>2. n.ready = s.ready /\ \A j \in Ids \ {i} : n.shown[j] = s.shown[j]
    BY <2>1 DEF ScreenRecords
  <2>3. x.screen[c] = IF s.shown[i] = "this" THEN n ELSE s
    BY <1>2 DEF s
  <2> HIDE DEF n
  <2>4. QED
    BY <2>2, <2>3 DEF s
<1>9. SlotsOK(x)
  <2>1. Blank.shown[i] # "this"
    BY <1>2 DEF Blank
  <2>2. ASSUME NEW c \in Slots, ~w.screen[c].ready
        PROVE  x.screen[c] = w.screen[c]
    BY <1>8, <2>1, <2>2 DEF Fit, SlotsOK
  <2>3. \A c \in Slots : w.client[c].status = "free" => ~w.screen[c].ready
    BY DEF Fit, SlotsOK, Blank
  <2>4. QED
    BY <1>2, <1>8, <2>2, <2>3 DEF Fit, SlotsOK
<1>10. IdsOK(w) => IdsOK(x)
  BY <1>2 DEF IdsOK
<1>11. ScreensOK(x, Slots)
  <2>1. ASSUME NEW c \in Slots, Told(x, c)
        PROVE  Told(w, c) /\ ViewOf(x, c) = ViewOf(w, c)
    <3>1. w.client[c].player \in Players(w)
      BY <1>2, <2>1 DEF Fit, Told
    <3>2. QED
      BY <1>2, <1>5, <2>1, <3>1 DEF Told, ViewOf
  <2>2. ASSUME NEW c \in Slots, Told(x, c)
        PROVE  x.screen[c] = w.screen[c]
    <3>1. i \notin ViewOf(w, c) /\ Told(w, c)
      BY <1>2, <2>1, <2>2 DEF Fit, ScreensOK
    <3>2. w.screen[c].shown[i] # "this"
      BY <1>2, <3>1 DEF Fit, ScreensOK
    <3>3. QED
      BY <1>8, <3>2
  <2>3. QED
    BY <1>2, <2>1, <2>2 DEF Fit, ScreensOK
<1>12. Added(w, x, i, e)
  BY <1>2, <1>4, <1>5, <1>6, <1>7, <1>8 DEF Added
<1>13. QED
  BY <1>2, <1>9, <1>10, <1>11, <1>12 DEF i, x
\* A petal, a mob or a drop.
LEMMA AllocGood ==
    ASSUME NEW risen, NEW w, Good(w, Slots, risen), FreeIds(w) # {},
           NEW e \in Entity, e.kind \in {"petal", "mob", "drop"},
           e.kind = "drop" => /\ \A a \in Accounts : e.owed[a] >= 0
                              /\ \A c \in e.can : /\ w.client[c].status # "free"
                                                  /\ e.owed[w.client[c].account] >= 1
    PROVE  Good(Alloc(w, e), Slots, risen)
<1> DEFINE i == NewId(w)
           x == Alloc(w, e)
<1>1. w \in Worlds /\ e # Nothing
  BY DEF Good, Nothing
<1>2. /\ Added(w, x, i, e) /\ x \in Worlds
      /\ SlotsOK(x) /\ IdsOK(x) /\ ScreensOK(x, Slots)
  <2>1. Fit(w) /\ IdsOK(w)
    BY GoodFits DEF Good
  <2>2. QED
    BY <1>1, <2>1, AllocKeeps
<1> HIDE DEF i, x
<1>3. Players(x) = Players(w) /\ Flowers(x) = Flowers(w)
  BY <1>2 DEF Added
<1>4. ClientsLinked(x)
  BY <1>2, <1>3 DEF Good, ClientsLinked, Added
<1>5. FlowersLinked(x, risen)
  <2>1. \A p \in Players(w) : x.entity[p].flower = w.entity[p].flower
    BY <1>2 DEF Added
  <2>2. \A f \in Flowers(w) :
          /\ w.entity[f].owner \in Tracked(w) =>
                /\ x.entity[f].owner \in Players(x)
                /\ x.entity[x.entity[f].owner].flower = f
          /\ w.entity[f].owner \notin Tracked(w) =>
                /\ x.entity[f].owner \notin Tracked(x)
                /\ f \in x.pending /\ (f \notin risen => x.entity[f].dead)
    BY <1>2, <1>3, <2>1 DEF Good, FlowersLinked, Added
  <2>3. \A f \in Flowers(w) : w.entity[f].owner \in Tracked(w) <=> x.entity[f].owner \in Tracked(x)
    BY <1>2 DEF Added
  <2>4. \A p \in Players(w) :
          x.entity[p].flower \in Flowers(w) => x.entity[x.entity[p].flower].owner = p
    <3>1. ASSUME NEW p \in Players(w), w.entity[p].flower \in Flowers(w)
          PROVE  w.entity[w.entity[p].flower].owner = p /\ p \in Tracked(w)
      BY <1>1, <3>1, KindsDiffer DEF Good, FlowersLinked
    <3>2. QED
      BY <1>2, <2>1, <3>1 DEF Added
  <2>5. QED
    BY <1>3, <2>1, <2>2, <2>3, <2>4 DEF Good, FlowersLinked
<1>6. Owing(x)
  BY <1>2 DEF Good, Owing, Added
<1>7. QED
  BY <1>2, <1>4, <1>5, <1>6 DEF Good, x

\* The player p of client c, from the client's side.
Plays(w, c, p) ==
    [w EXCEPT !.client[c] = [@ EXCEPT !.player = p, !.playing = TRUE]]

\* A player for a client that has none.  If the client is in the game already, what
\* it shows is not to be relied on.
LEMMA AllocPlayer ==
    ASSUME NEW risen, NEW w, Good(w, Slots, risen), FreeIds(w) # {},
           NEW c \in Slots, w.client[c].player = Null, w.client[c].status # "free"
    PROVE  LET x == Alloc(w, Player(c, w.screen[c].ready))
               p == NewId(w)
               y == Plays(x, c, p)
           IN  /\ Good(y, Slots, risen) /\ NoNewSession(w, y)
               /\ p \in Players(y) /\ y.entity[p].flower = Null
               /\ FreeIds(y) = FreeIds(w) \ {p}
<1> DEFINE e == Player(c, w.screen[c].ready)
           i == NewId(w)
           x == Alloc(w, e)
           k == [w.client[c] EXCEPT !.player = i, !.playing = TRUE]
           y == Plays(x, c, i)
<1>1. w \in Worlds
  BY DEF Good
<1>2. /\ e \in PlayerRecords /\ e.client = c /\ e.flower = Null /\ e.view = {}
      /\ e.strayed = w.screen[c].ready /\ e.kind = "player"
  <2>1. w.screen[c].ready \in BOOLEAN
    BY <1>1, WorldParts DEF ScreenRecords
  <2>2. QED
    BY <2>1, Sizes DEF Player, PlayerRecords
<1>3. e \in Entity /\ e # Nothing
  BY <1>2, IsEntity DEF Nothing
<1> HIDE DEF e
<1>4. Added(w, x, i, e) /\ x \in Worlds
  BY <1>3, GoodFits, AllocKeeps
<1>5. SlotsOK(x) /\ IdsOK(x) /\ ScreensOK(x, Slots)
  <2>1. Fit(w) /\ IdsOK(w)
    BY GoodFits DEF Good
  <2>2. QED
    BY <1>3, <2>1, AllocKeeps
<1> HIDE DEF x, i
<1>6. /\ i \in Ids /\ i \notin Tracked(w) /\ i \notin w.deleted
      /\ x.client = w.client /\ x.pending = w.pending /\ x.deleted = w.deleted
      /\ x.entity[i] = e /\ Tracked(x) = Tracked(w) \cup {i}
      /\ Players(x) = Players(w) \cup {i} /\ Flowers(x) = Flowers(w) /\ Drops(x) = Drops(w)
      /\ x.screen[c].ready = w.screen[c].ready
  BY <1>2, <1>4 DEF Added
<1>7. k \in ClientRecords /\ k.player = i /\ k.account = w.client[c].account
      /\ k.status = w.client[c].status /\ k.kick = w.client[c].kick
      /\ k.inSquad = w.client[c].inSquad
  <2>1. w.client[c] \in ClientRecords
    BY <1>1, ClientFields
  <2>2. QED
    BY <1>6, <2>1 DEF ClientRecords
<1>8. /\ y.client = [x.client EXCEPT ![c] = k]
      /\ y.client = [x.client EXCEPT ![c] = [@ EXCEPT !.player = i, !.playing = TRUE]]
      /\ y.entity = x.entity /\ y.pending = x.pending
      /\ y.deleted = x.deleted /\ y.screen = x.screen /\ y \in Worlds
  <2>1. y = [x EXCEPT !.client[c] = k]
    BY <1>1, <1>4, <1>6 DEF Plays, Worlds
  <2>2. y.client = [x.client EXCEPT ![c] = [@ EXCEPT !.player = i, !.playing = TRUE]]
    BY <1>4 DEF Plays, Worlds
  <2> HIDE DEF k, y
  <2>3. QED
    BY <1>4, <1>7, <2>1, <2>2 DEF Worlds
<1> HIDE DEF k, y
<1>9. \A j \in Slots : y.client[j] = IF j = c THEN k ELSE w.client[j]
  BY <1>1, <1>6, <1>8, WorldParts
<1>10. /\ Players(y) = Players(w) \cup {i} /\ Flowers(y) = Flowers(w)
       /\ Drops(y) = Drops(w) /\ Tracked(y) = Tracked(w) \cup {i}
  BY <1>6, <1>8, SameTable
<1>11. i # Null /\ i \notin Players(w)
  BY <1>1, <1>6, Sizes, KindsDiffer
<1>12. SlotsOK(y)
  BY <1>5, <1>6, <1>7, <1>8, <1>9 DEF SlotsOK
<1>13. ClientsLinked(y)
  <2>1. \A q \in Players(w) : w.entity[q].client \in Slots
    BY <1>1, PlayerFields
  <2>2. \A q \in Players(w) \ w.pending : w.entity[q].client # c
    BY <1>11, Sizes, PlayerFields, <1>1 DEF Good, ClientsLinked
  <2>3. i \notin w.pending
    BY <1>6 DEF Good, IdsOK
  <2>4. QED
    BY <1>2, <1>4, <1>6, <1>7, <1>8, <1>9, <1>10, <1>11, <2>1, <2>2, <2>3
    DEF Good, ClientsLinked, Added
<1>14. FlowersLinked(y, risen)
  <2>1. Null \notin Flowers(w)
    BY <1>1, Sizes, WorldParts
  <2>2. \A p \in Players(w) : y.entity[p].flower = w.entity[p].flower
    BY <1>4, <1>8 DEF Added
  <2>3. \A f \in Flowers(w) :
          /\ w.entity[f].owner \in Tracked(w) =>
                /\ y.entity[f].owner = w.entity[f].owner
                /\ w.entity[f].owner \in Players(w)
                /\ w.entity[w.entity[f].owner].flower = f
          /\ w.entity[f].owner \notin Tracked(w) =>
                /\ y.entity[f].owner \notin Tracked(y)
                /\ f \in y.pending /\ (f \notin risen => y.entity[f].dead)
    BY <1>4, <1>8, SameTable DEF Good, FlowersLinked, Added
  <2>4. ASSUME NEW p \in Players(w), w.entity[p].flower \in Flowers(w)
        PROVE  y.entity[w.entity[p].flower].owner = p
    <3>1. w.entity[w.entity[p].flower].owner = p /\ p \in Tracked(w)
      BY <1>1, <2>4, KindsDiffer DEF Good, FlowersLinked
    <3>2. QED
      BY <2>3, <2>4, <3>1
  <2>5. \A p \in Players(w) : w.entity[p].flower \in Flowers(w) \/ w.entity[p].flower = Null
    BY DEF Good, FlowersLinked
  <2>6. y.entity[i].flower = Null
    BY <1>2, <1>6, <1>8
  <2>7. Players(w) \subseteq Tracked(w)
    BY <1>1, KindsDiffer
  <2>8. QED
    BY <1>10, <2>1, <2>2, <2>3, <2>4, <2>5, <2>6, <2>7 DEF FlowersLinked
<1>15. IdsOK(y)
  BY <1>5, <1>8, SameTable DEF IdsOK
<1>16. Owing(y)
  <2>1. \A d \in Drops(w) : w.entity[d].can \subseteq Slots
    BY <1>1, DropFields
  <2>2. QED
    BY <1>4, <1>7, <1>8, <1>9, <1>10, <2>1 DEF Good, Owing, Added
<1>17. ScreensOK(y, Slots)
  <2>1. ASSUME NEW j \in Slots, j # c, Told(y, j)
        PROVE  Told(x, j) /\ ViewOf(y, j) = ViewOf(x, j) /\ y.client[j] = x.client[j]
    BY <1>6, <1>8, <1>9, <2>1 DEF Told, ViewOf
  <2>2. Told(y, c) => ~x.screen[c].ready /\ ViewOf(y, c) = {}
    BY <1>2, <1>6, <1>7, <1>8, <1>9 DEF Told, ViewOf
  <2>3. ~x.screen[c].ready => \A j \in Ids : x.screen[c].shown[j] = "nothing"
    BY <1>5 DEF SlotsOK, Blank
  <2>4. QED
    BY <1>5, <1>6, <1>8, <1>10, <2>1, <2>2, <2>3 DEF ScreensOK
<1>18. FreeIds(y) = FreeIds(w) \ {i}
  BY <1>6, <1>8, <1>10 DEF FreeIds
<1>19. NoNewSession(w, y)
  BY <1>7, <1>9 DEF NoNewSession
<1>20. Good(y, Slots, risen)
  BY <1>8, <1>12, <1>13, <1>14, <1>15, <1>16, <1>17 DEF Good
<1>21. y.entity[i].flower = Null /\ i \in Players(y)
  BY <1>2, <1>6, <1>8, <1>10
<1>22. QED
  BY <1>18, <1>19, <1>20, <1>21 DEF i, x, y, e
\* The flower of a player that has none.
Grown(w, p) == [Alloc(w, Flower(p)) EXCEPT !.entity[p].flower = NewId(w)]

LEMMA AllocFlower ==
    ASSUME NEW risen, NEW w, Good(w, Slots, risen), FreeIds(w) # {},
           NEW p \in Players(w), w.entity[p].flower = Null
    PROVE  Good(Grown(w, p), Slots, risen) /\ Grown(w, p).client = w.client
<1> DEFINE e == Flower(p)
           i == NewId(w)
           x == Alloc(w, e)
           n == [x.entity[p] EXCEPT !.flower = i]
           y == Grown(w, p)
<1>1. w \in Worlds /\ p \in Ids /\ p \in Tracked(w)
  BY KindsDiffer, PlayerFields DEF Good
<1>2. e \in FlowerRecords /\ e.owner = p /\ e.kind = "flower"
  BY <1>1, Sizes DEF Flower, FlowerRecords
<1>3. e \in Entity /\ e # Nothing
  BY <1>2, IsEntity DEF Nothing
<1> HIDE DEF e
<1>4. Added(w, x, i, e) /\ x \in Worlds
  BY <1>3, GoodFits, AllocKeeps
<1>5. SlotsOK(x) /\ IdsOK(x) /\ ScreensOK(x, Slots)
  <2>1. Fit(w) /\ IdsOK(w)
    BY GoodFits DEF Good
  <2>2. QED
    BY <1>3, <2>1, AllocKeeps
<1>6. y = [x EXCEPT !.entity[p] = n]
  BY DEF Grown, e
<1> HIDE DEF x, i
<1>7. /\ i \in Ids /\ i \notin Tracked(w) /\ i \notin w.deleted
      /\ x.client = w.client /\ x.pending = w.pending /\ x.deleted = w.deleted
      /\ x.entity[i] = e /\ Tracked(x) = Tracked(w) \cup {i}
      /\ Players(x) = Players(w) /\ Flowers(x) = Flowers(w) \cup {i} /\ Drops(x) = Drops(w)
      /\ p # i
  BY <1>2, <1>4 DEF Added
<1>8. x.entity[p] \in PlayerRecords /\ i \in Hashes
  BY <1>4, <1>7, PlayerFields, Sizes
<1>9. /\ n \in PlayerRecords /\ n.kind = "player" /\ n.client = x.entity[p].client
      /\ n.view = x.entity[p].view /\ n.strayed = x.entity[p].strayed /\ n.flower = i
  BY <1>8 DEF PlayerRecords
<1> HIDE DEF n, y
<1>10. n \in Entity /\ n # Nothing
  BY <1>9, IsEntity DEF Nothing
<1>11. /\ y.client = x.client /\ y.pending = x.pending /\ y.deleted = x.deleted
       /\ y.screen = x.screen /\ y.entity = [x.entity EXCEPT ![p] = n] /\ y \in Worlds
  BY <1>4, <1>6, <1>10 DEF Worlds
<1>12. \A j \in Ids : y.entity[j] = IF j = p THEN n ELSE x.entity[j]
  BY <1>4, <1>11, WorldParts
<1>13. /\ Players(y) = Players(x) /\ Flowers(y) = Flowers(x) /\ Drops(y) = Drops(x)
       /\ Tracked(y) = Tracked(x)
  <2>1. x.entity[p].kind = "player" /\ x.entity[p] # Nothing
    BY <1>8 DEF PlayerRecords, Nothing
  <2>2. QED
    BY <1>9, <1>10, <1>12, <2>1 DEF Players, Flowers, Drops, OfKind, Tracked
<1>14. \A q \in Players(x) : /\ y.entity[q].client = x.entity[q].client
                             /\ y.entity[q].view = x.entity[q].view
                             /\ y.entity[q].strayed = x.entity[q].strayed
                             /\ q # p => y.entity[q].flower = x.entity[q].flower
  BY <1>4, <1>9, <1>12, WorldParts
<1>15. SlotsOK(y) /\ IdsOK(y)
  BY <1>5, <1>11, <1>13 DEF SlotsOK, IdsOK
<1>16. ClientsLinked(y)
  <2>1. \A q \in Players(w) : y.entity[q].client = w.entity[q].client
    BY <1>4, <1>7, <1>14 DEF Added
  <2>2. QED
    BY <1>7, <1>11, <1>13, <2>1 DEF Good, ClientsLinked
<1>17. FlowersLinked(y, risen)
  <2>1. Null \notin Flowers(x) /\ i \notin Flowers(w)
    BY <1>1, <1>4, <1>7, Sizes, WorldParts, KindsDiffer
  <2>2. \A q \in Players(w) \ {p} : y.entity[q].flower = w.entity[q].flower
    BY <1>4, <1>7, <1>14 DEF Added
  <2>3. \A f \in Flowers(w) :
          /\ w.entity[f].owner \in Tracked(w) =>
                /\ y.entity[f].owner = w.entity[f].owner
                /\ w.entity[f].owner \in Players(w) \ {p}
                /\ w.entity[w.entity[f].owner].flower = f
          /\ w.entity[f].owner \notin Tracked(w) =>
                /\ y.entity[f].owner \notin Tracked(y)
                /\ f \in y.pending /\ (f \notin risen => y.entity[f].dead)
    <3>1. \A f \in Flowers(w) : f # p /\ f \in Ids /\ f # Null
      BY <1>1, KindsDiffer, FlowerFields, Sizes
    <3>2. \A f \in Flowers(w) : y.entity[f] = x.entity[f]
      BY <1>12, <3>1
    <3>3. QED
      BY <1>4, <1>7, <1>11, <1>13, <3>1, <3>2 DEF Good, FlowersLinked, Added
  <2>4. ASSUME NEW q \in Players(w) \ {p}, w.entity[q].flower \in Flowers(w)
        PROVE  y.entity[w.entity[q].flower].owner = q
    <3>1. w.entity[w.entity[q].flower].owner = q /\ q \in Tracked(w)
      BY <1>1, <2>4, KindsDiffer DEF Good, FlowersLinked
    <3>2. QED
      BY <2>3, <2>4, <3>1
  <2>5. \A q \in Players(w) : w.entity[q].flower \in Flowers(w) \/ w.entity[q].flower = Null
    BY DEF Good, FlowersLinked
  <2>6. y.entity[p].flower = i /\ y.entity[i].owner = p
    BY <1>1, <1>2, <1>7, <1>9, <1>12
  <2>7. Players(w) \subseteq Tracked(w)
    BY <1>1, KindsDiffer
  <2>8. \A q \in Players(w) \ {p} :
          /\ y.entity[q].flower \in Flowers(y) => y.entity[y.entity[q].flower].owner = q
          /\ y.entity[q].flower \notin Flowers(y) => y.entity[q].flower = Null
    BY <1>7, <1>13, <2>1, <2>2, <2>4, <2>5
  <2>9. \A f \in Flowers(w) :
          IF y.entity[f].owner \in Tracked(y)
          THEN y.entity[f].owner \in Players(y) /\ y.entity[y.entity[f].owner].flower = f
          ELSE f \in y.pending /\ (f \notin risen => y.entity[f].dead)
    BY <1>7, <1>13, <2>2, <2>3
  <2>10. QED
    BY <1>1, <1>7, <1>13, <2>6, <2>8, <2>9 DEF FlowersLinked
<1>18. Owing(y)
  <2>1. \A d \in Drops(w) : d \in Ids /\ d # p /\ y.entity[d] = w.entity[d]
    <3>1. \A d \in Drops(w) : d \in Ids /\ d # p
      BY <1>1, KindsDiffer, DropFields
    <3>2. QED
      BY <1>4, <1>12, <3>1 DEF Added
  <2>2. QED
    BY <1>7, <1>11, <1>13, <2>1 DEF Good, Owing
<1>19. ScreensOK(y, Slots)
  <2>1. \A c \in Slots : Told(y, c) => Told(x, c) /\ ViewOf(y, c) = ViewOf(x, c)
    <3>1. \A c \in Slots : w.client[c].player # Null => w.client[c].player \in Players(w)
      BY DEF Good, ClientsLinked
    <3>2. QED
      BY <1>7, <1>11, <1>14, <3>1 DEF Told, ViewOf
  <2>2. QED
    BY <1>5, <1>11, <1>13, <2>1 DEF ScreensOK
<1>20. QED
  BY <1>7, <1>11, <1>15, <1>16, <1>17, <1>18, <1>19 DEF Good, y
LEMMA OneSessionStays ==
    ASSUME NEW w, OneSession(w), NEW x, NoNewSession(w, x)
    PROVE  OneSession(x)
BY DEF OneSession, NoNewSession

LEMMA SessionsTransitive ==
    ASSUME NEW w, NEW x, NEW y, NoNewSession(w, x), NoNewSession(x, y)
    PROVE  NoNewSession(w, y)
BY DEF NoNewSession

LEMMA DropPlayerSessions ==
    ASSUME NEW w \in Worlds, NEW c \in Slots, NEW x,
           x.client = [w.client EXCEPT ![c].player = Null]
    PROVE  NoNewSession(w, x)
<1>1. w.client \in [Slots -> ClientRecords]
  BY WorldParts
<1>2. \A j \in Slots : /\ x.client[j].status = w.client[j].status
                       /\ x.client[j].account = w.client[j].account
                       /\ x.client[j].kick = w.client[j].kick
  BY <1>1 DEF ClientRecords
<1>3. QED
  BY <1>2 DEF NoNewSession

LEMMA RoomForTwo ==
    ASSUME NEW w, Room(w)
    PROVE  FreeIds(w) # {} /\ \A p : FreeIds(w) \ {p} # {}
<1> SUFFICES ASSUME NEW p, FreeIds(w) \ {p} = {}
             PROVE  FALSE
  <2>1. FreeIds(w) = {} => FreeIds(w) \ {0} = {}
    OBVIOUS
  <2>2. QED
    BY <2>1
<1>1. FreeIds(w) = {} \/ FreeIds(w) = {p}
  OBVIOUS
<1>2. Cardinality({}) = 0 /\ Cardinality({p}) = 1
  BY FS_EmptySet, FS_Singleton
<1>3. QED
  BY <1>1, <1>2 DEF Room

\* What is new in the table is so whatever its player's client says.
LEMMA PlaysElsewhere ==
    ASSUME NEW w \in Worlds, NEW e, NEW c \in Slots, NEW p
    PROVE  /\ FreeIds(Plays(w, c, p)) = FreeIds(w)
           /\ NewId(Plays(w, c, p)) = NewId(w)
           /\ Alloc(Plays(w, c, p), e) = Plays(Alloc(w, e), c, p)
<1> DEFINE y == Plays(w, c, p)
           k == [w.client EXCEPT ![c] = [@ EXCEPT !.player = p, !.playing = TRUE]]
           i == NewId(w)
           entity == [j \in Ids |-> IF j = i THEN e ELSE Outdated(w.entity[j], i)]
           screen == [d \in Slots |-> IF w.screen[d].shown[i] = "this"
                                      THEN [w.screen[d] EXCEPT !.shown[i] = "other"]
                                      ELSE w.screen[d]]
<1>1. y = [w EXCEPT !.client = k]
  BY DEF Plays, Worlds
<1> HIDE DEF k
<1>2. /\ y.entity = w.entity /\ y.screen = w.screen /\ y.deleted = w.deleted
      /\ y.client = k /\ y.pending = w.pending
  BY <1>1 DEF Worlds
<1> HIDE DEF y
<1>3. FreeIds(y) = FreeIds(w) /\ NewId(y) = NewId(w)
  BY <1>2, SameTable DEF FreeIds, NewId
<1>4. Alloc(y, e) = [y EXCEPT !.entity = entity, !.screen = screen]
  BY <1>2, <1>3 DEF Alloc
<1>5. Alloc(w, e) = [w EXCEPT !.entity = entity, !.screen = screen]
  BY DEF Alloc
<1> HIDE DEF entity, screen
<1>6. Plays(Alloc(w, e), c, p) = [Alloc(w, e) EXCEPT !.client = k]
  BY <1>5 DEF Plays, Worlds, k
<1>7. Plays(Alloc(w, e), c, p) = Alloc(y, e)
  BY <1>1, <1>4, <1>5, <1>6 DEF Worlds
<1>8. QED
  BY <1>3, <1>7 DEF y
LEMMA EnterIsGrown ==
    ASSUME NEW v \in Worlds, FreeIds(v) # {}, FreeIds(v) \ {NewId(v)} # {},
           NEW c \in Slots, NEW e \in Entity, e # Nothing
    PROVE  LET p == NewId(v)
               x == Alloc(v, e)
           IN  [Alloc(x, Flower(p)) EXCEPT
                    !.entity[p].flower = NewId(x),
                    !.client[c].player = p, !.client[c].playing = TRUE]
               = Grown(Plays(x, c, p), p)
<1> DEFINE p == NewId(v)
           x == Alloc(v, e)
           f == NewId(x)
           z == Alloc(x, Flower(p))
<1>1. /\ x \in Worlds /\ p \in Ids /\ x.deleted = v.deleted
      /\ Tracked(x) = Tracked(v) \cup {p}
  BY AllocParts
<1> HIDE DEF p, x
<1>2. FreeIds(x) # {}
  BY <1>1 DEF FreeIds, p
<1>3. Flower(p) \in FlowerRecords
  BY <1>1, Sizes DEF Flower, FlowerRecords
<1>4. z \in Worlds
  <2>1. Flower(p) \in Entity /\ Flower(p) # Nothing
    BY <1>3, IsEntity DEF Flower, Nothing
  <2>2. QED
    BY <1>1, <1>2, <2>1, AllocParts
<1>5. NewId(Plays(x, c, p)) = f /\ Alloc(Plays(x, c, p), Flower(p)) = Plays(z, c, p)
  BY <1>1, PlaysElsewhere
<1>6. Grown(Plays(x, c, p), p) = [Plays(z, c, p) EXCEPT !.entity[p].flower = f]
  BY <1>5 DEF Grown
<1> HIDE DEF f, z
<1> DEFINE entity == [z.entity EXCEPT ![p].flower = f]
           client == [z.client EXCEPT ![c] = [@ EXCEPT !.player = p, !.playing = TRUE]]
<1>7. [z EXCEPT !.entity[p].flower = f, !.client[c].player = p, !.client[c].playing = TRUE]
      = [z EXCEPT !.entity = entity, !.client = client]
  <2>1. z.client \in [Slots -> ClientRecords]
    BY <1>4, WorldParts
  <2>2. [[z.client EXCEPT ![c].player = p] EXCEPT ![c].playing = TRUE] = client
    BY <2>1
  <2>3. QED
    BY <1>4, <2>2 DEF Worlds
<1>8. Plays(z, c, p) = [z EXCEPT !.client = client]
  BY DEF Plays
<1>9. [Plays(z, c, p) EXCEPT !.entity[p].flower = f]
      = [z EXCEPT !.entity = entity, !.client = client]
  <2> HIDE DEF client
  <2>1. [z EXCEPT !.client = client].entity = z.entity
    BY <1>4 DEF Worlds
  <2>2. [[z EXCEPT !.client = client] EXCEPT !.entity[p].flower = f]
        = [[z EXCEPT !.client = client] EXCEPT !.entity = entity]
    BY <2>1
  <2> HIDE DEF entity
  <2>3. QED
    BY <1>4, <1>8, <2>2 DEF Worlds
<1>10. QED
  BY <1>6, <1>7, <1>9 DEF f, z, p, x

\* A client comes into the game.
LEMMA EnterGood ==
    ASSUME NEW risen, NEW w, Good(w, Slots, risen), NEW c \in Slots,
           w.client[c].status # "free", Room(w)
    PROVE  Good(Enter(w, c), Slots, risen) /\ NoNewSession(w, Enter(w, c))
<1> DEFINE v == DropPlayer(w, c)
           e == Player(c, v.screen[c].ready)
           p == NewId(v)
           x == Alloc(v, e)
           y == Plays(x, c, p)
<1>1. w \in Worlds
  BY DEF Good
<1>2. /\ Good(v, Slots, risen) /\ v.client = [w.client EXCEPT ![c].player = Null]
      /\ v.entity = w.entity /\ v.deleted = w.deleted /\ v.client[c].player = Null
  BY DropPlayerGood
<1>3. NoNewSession(w, v) /\ v.client[c].status # "free"
  <2>1. w.client[c] \in ClientRecords
    BY <1>1, ClientFields
  <2>2. v.client[c].status = w.client[c].status
    BY <1>1, <1>2, <2>1, WorldParts DEF ClientRecords
  <2>3. QED
    BY <1>1, <1>2, <2>2, DropPlayerSessions
<1> HIDE DEF v
<1>4. FreeIds(v) # {} /\ FreeIds(v) \ {p} # {}
  <2>1. FreeIds(v) = FreeIds(w)
    BY <1>2, SameTable DEF FreeIds
  <2> HIDE DEF p
  <2>2. QED
    BY <2>1, RoomForTwo
<1>5. v \in Worlds
  BY <1>2 DEF Good
<1>6. /\ Good(y, Slots, risen) /\ NoNewSession(v, y)
      /\ p \in Players(y) /\ y.entity[p].flower = Null
      /\ FreeIds(y) = FreeIds(v) \ {p}
  BY <1>2, <1>3, <1>4, AllocPlayer
<1>7. Enter(w, c) = Grown(y, p)
  <2>1. e \in Entity /\ e # Nothing
    <3>1. v.screen[c].ready \in BOOLEAN
      BY <1>5, WorldParts DEF ScreenRecords
    <3>2. e \in PlayerRecords
      BY <3>1, Sizes DEF Player, PlayerRecords
    <3>3. QED
      BY <3>2, IsEntity DEF Player, Nothing
  <2>2. Enter(w, c) = [Alloc(x, Flower(p)) EXCEPT
                    !.entity[p].flower = NewId(x),
                    !.client[c].player = p, !.client[c].playing = TRUE]
    BY DEF Enter, v
  <2> HIDE DEF e
  <2>3. QED
    BY <1>4, <1>5, <2>1, <2>2, EnterIsGrown
<1> HIDE DEF x, y, p
<1>8. Good(Grown(y, p), Slots, risen) /\ Grown(y, p).client = y.client
  BY <1>4, <1>6, AllocFlower
<1>9. NoNewSession(v, Grown(y, p))
  BY <1>6, <1>8 DEF NoNewSession
<1>10. QED
  BY <1>3, <1>7, <1>8, <1>9, SessionsTransitive
-----------------------------------------------------------------------------
(* Flags of a client, the squad, and the end of a slot.                     *)

\* Only a mark of client c differs.
Marked(w, x, c) ==
    /\ x.entity = w.entity /\ x.pending = w.pending
    /\ x.deleted = w.deleted /\ x.screen = w.screen
    /\ x.client[c].status = w.client[c].status /\ x.client[c].player = w.client[c].player
    /\ x.client[c].inSquad = w.client[c].inSquad
    /\ NoNewSession(w, x)

LEMMA Marking ==
    ASSUME NEW told, NEW risen, NEW w, Good(w, told, risen), NEW c \in Slots,
           w.client[c].status # "free", NEW k \in ClientRecords,
           k.player = w.client[c].player, k.account = w.client[c].account,
           k.status = w.client[c].status, w.client[c].kick => k.kick,
           k.inSquad = w.client[c].inSquad, NEW x, x = [w EXCEPT !.client[c] = k]
    PROVE  Good(x, told, risen) /\ Marked(w, x, c)
<1>1. /\ Good(x, told, risen)
      /\ x.entity = w.entity /\ x.pending = w.pending
      /\ x.deleted = w.deleted /\ x.screen = w.screen
      /\ NoNewSession(w, x) /\ x.client[c] = k
  BY SetClient
<1>2. QED
  BY <1>1 DEF Marked

LEMMA Marks ==
    ASSUME NEW told, NEW risen, NEW w, Good(w, told, risen), NEW c \in Slots,
           w.client[c].status # "free", NEW b \in BOOLEAN
    PROVE  /\ LET x == [w EXCEPT !.client[c].wait = b]
              IN  Good(x, told, risen) /\ Marked(w, x, c)
           /\ LET x == [w EXCEPT !.client[c].quick = b]
              IN  Good(x, told, risen) /\ Marked(w, x, c)
           /\ LET x == [w EXCEPT !.client[c].playing = b]
              IN  Good(x, told, risen) /\ Marked(w, x, c)
           /\ LET x == [w EXCEPT !.client[c].kick = TRUE]
              IN  Good(x, told, risen) /\ Marked(w, x, c)
<1> DEFINE r == w.client[c]
<1>1. r \in ClientRecords
  BY ClientFields DEF Good
<1> DEFINE Fits(k) == /\ k \in ClientRecords /\ k.player = r.player /\ k.account = r.account
                      /\ k.status = r.status /\ (r.kick => k.kick) /\ k.inSquad = r.inSquad
<1>2. /\ Fits([r EXCEPT !.wait = b]) /\ Fits([r EXCEPT !.quick = b])
      /\ Fits([r EXCEPT !.playing = b]) /\ Fits([r EXCEPT !.kick = TRUE])
  <2> HIDE DEF r
  <2>1. QED
    BY <1>1 DEF ClientRecords
<1>3. ASSUME NEW k, Fits(k), NEW x, x = [w EXCEPT !.client[c] = k]
      PROVE  Good(x, told, risen) /\ Marked(w, x, c)
  BY <1>3, Marking
<1> HIDE DEF Fits
<1>4. /\ [w EXCEPT !.client[c].wait = b] = [w EXCEPT !.client[c] = [r EXCEPT !.wait = b]]
      /\ [w EXCEPT !.client[c].quick = b] = [w EXCEPT !.client[c] = [r EXCEPT !.quick = b]]
      /\ [w EXCEPT !.client[c].playing = b] = [w EXCEPT !.client[c] = [r EXCEPT !.playing = b]]
      /\ [w EXCEPT !.client[c].kick = TRUE] = [w EXCEPT !.client[c] = [r EXCEPT !.kick = TRUE]]
  OBVIOUS
<1>5. QED
  BY <1>2, <1>3, <1>4

\* Who is told nothing, or nothing that is there, leaves the squad.
LEMMA LeaveSquadGood ==
    ASSUME NEW told, NEW risen, NEW w, Good(w, told, risen), NEW c \in Slots,
           w.client[c].status # "free", ~Told(w, c)
    PROVE  LET x == LeaveSquad(w, c)
           IN  /\ Good(x, told, risen) /\ NoNewSession(w, x)
               /\ x.entity = w.entity /\ x.pending = w.pending
               /\ x.deleted = w.deleted /\ x.screen = w.screen
               /\ x.client[c].status = w.client[c].status /\ ~Told(x, c)
<1> DEFINE r == w.client[c]
           k == [r EXCEPT !.inSquad = FALSE, !.playing = FALSE]
           x == LeaveSquad(w, c)
<1>1. w \in Worlds /\ r \in ClientRecords
  BY ClientFields DEF Good
<1>2. /\ k \in ClientRecords /\ k.player = r.player /\ k.account = r.account
      /\ k.status = r.status /\ k.kick = r.kick
  <2> HIDE DEF r
  <2>1. QED
    BY <1>1 DEF ClientRecords
<1>3. x = [w EXCEPT !.client[c] = k]
  BY <1>1, WorldParts DEF LeaveSquad
<1> HIDE DEF k, x
<1>4. /\ Good(x, told, risen)
      /\ x.entity = w.entity /\ x.pending = w.pending
      /\ x.deleted = w.deleted /\ x.screen = w.screen
      /\ NoNewSession(w, x) /\ x.client[c] = k
  BY <1>2, <1>3, SetClient
<1>5. ~Told(x, c)
  BY <1>2, <1>4 DEF Told
<1>6. QED
  BY <1>2, <1>4, <1>5 DEF x

LEMMA JoinSquadGood ==
    ASSUME NEW told, NEW risen, NEW w, Good(w, told, risen), NEW c \in Slots,
           w.client[c].status # "free"
    PROVE  LET x == JoinSquad(w, c)
           IN  /\ Good(x, told, risen) /\ NoNewSession(w, x)
               /\ x.client[c].status = w.client[c].status
<1> DEFINE r == w.client[c]
           k == [r EXCEPT !.inSquad = TRUE, !.playing = FALSE]
           x == JoinSquad(w, c)
<1>1. w \in Worlds /\ r \in ClientRecords
  BY ClientFields DEF Good
<1>2. /\ k \in ClientRecords /\ k.player = r.player /\ k.account = r.account
      /\ k.status = r.status /\ k.kick = r.kick /\ k.inSquad
  <2> HIDE DEF r
  <2>1. QED
    BY <1>1 DEF ClientRecords
<1>3. x = [w EXCEPT !.client[c] = k]
  BY <1>1, WorldParts DEF JoinSquad
<1> HIDE DEF k, x
<1>4. /\ Good(x, told, risen) /\ NoNewSession(w, x) /\ x.client[c] = k
  BY <1>2, <1>3, SetClient
<1>5. QED
  BY <1>2, <1>4 DEF x
\* Drops without the bits of slot c.
Without(e, c) == IF e.kind = "drop" THEN [e EXCEPT !.can = @ \ {c}, !.got = @ \ {c}] ELSE e

LEMMA WithoutFields ==
    ASSUME NEW e \in Entity, NEW c
    PROVE  /\ Without(e, c) \in Entity /\ Without(e, c).kind = e.kind
           /\ e.kind # "drop" => Without(e, c) = e
           /\ e.kind = "drop" => /\ Without(e, c).can = e.can \ {c}
                                 /\ Without(e, c).got = e.got \ {c}
                                 /\ Without(e, c).owed = e.owed
<1>1. CASE e.kind = "drop"
  <2>1. e \in DropRecords
    BY <1>1, Kinds
  <2> DEFINE can == e.can \ {c}
             got == e.got \ {c}
  <2>2. can \in SUBSET Slots /\ got \in SUBSET Slots
    BY <2>1 DEF DropRecords
  <2>3. Without(e, c) = [e EXCEPT !.can = can, !.got = got]
    BY <1>1 DEF Without
  <2> HIDE DEF can, got
  <2>4. /\ Without(e, c) \in DropRecords /\ Without(e, c).kind = "drop"
        /\ Without(e, c).can = can /\ Without(e, c).got = got
        /\ Without(e, c).owed = e.owed
    BY <2>1, <2>2, <2>3 DEF DropRecords
  <2>5. QED
    BY <1>1, <2>4, IsEntity DEF can, got
<1>2. CASE e.kind # "drop"
  BY <1>2 DEF Without
<1>3. QED
  BY <1>1, <1>2

\* A slot whose client has no player is free again.
Emptied(w, c) ==
    [w EXCEPT !.client = [w.client EXCEPT ![c] = FreeClient],
              !.screen = [w.screen EXCEPT ![c] = Blank],
              !.entity = [i \in Ids |-> Without(w.entity[i], c)]]

LEMMA EmptiedGood ==
    ASSUME NEW told, NEW risen, NEW w, Good(w, told, risen), NEW c \in Slots,
           w.client[c].player = Null
    PROVE  /\ Good(Emptied(w, c), told, risen)
           /\ Emptied(w, c).client = [w.client EXCEPT ![c] = FreeClient]
<1> DEFINE x == Emptied(w, c)
           entity == [i \in Ids |-> Without(w.entity[i], c)]
           client == [w.client EXCEPT ![c] = FreeClient]
           screen == [w.screen EXCEPT ![c] = Blank]
<1>1. w \in Worlds /\ FreeClient \in ClientRecords /\ Blank \in ScreenRecords
  BY DEF Good, FreeClient, ClientRecords, Blank, ScreenRecords
<1>2. \A i \in Ids : entity[i] = Without(w.entity[i], c) /\ w.entity[i] \in Entity
  BY <1>1, WorldParts
<1>3. entity \in [Ids -> Entity]
  BY <1>2, WithoutFields
<1>4. client \in [Slots -> ClientRecords] /\ screen \in [Slots -> ScreenRecords]
  BY <1>1, WorldParts
<1>5. \A j \in Slots : /\ client[j] = IF j = c THEN FreeClient ELSE w.client[j]
                       /\ screen[j] = IF j = c THEN Blank ELSE w.screen[j]
  BY <1>1, WorldParts
<1> HIDE DEF entity, client, screen
<1>6. /\ x \in Worlds /\ x.client = client /\ x.screen = screen /\ x.entity = entity
      /\ x.pending = w.pending /\ x.deleted = w.deleted
  <2>1. x = [w EXCEPT !.client = client, !.screen = screen, !.entity = entity]
    BY DEF Emptied, entity, client, screen
  <2> HIDE DEF x
  <2>2. QED
    BY <1>1, <1>3, <1>4, <2>1 DEF Worlds
<1> HIDE DEF x
<1>7. /\ Players(x) = Players(w) /\ Flowers(x) = Flowers(w) /\ Drops(x) = Drops(w)
      /\ Tracked(x) = Tracked(w)
      /\ \A i \in Players(w) \cup Flowers(w) : x.entity[i] = w.entity[i]
      /\ \A d \in Drops(w) : /\ x.entity[d].can = w.entity[d].can \ {c}
                             /\ x.entity[d].got = w.entity[d].got \ {c}
                             /\ x.entity[d].owed = w.entity[d].owed
  <2>1. \A i \in Ids : /\ x.entity[i].kind = w.entity[i].kind
                       /\ w.entity[i].kind # "drop" => x.entity[i] = w.entity[i]
                       /\ w.entity[i].kind = "drop" =>
                            /\ x.entity[i].can = w.entity[i].can \ {c}
                            /\ x.entity[i].got = w.entity[i].got \ {c}
                            /\ x.entity[i].owed = w.entity[i].owed
    BY <1>2, <1>6, WithoutFields
  <2>2. \A i \in Ids : i \in Tracked(x) <=> i \in Tracked(w)
    BY <1>1, <1>6, <2>1, KindsOf
  <2>3. Tracked(x) = Tracked(w)
    BY <2>2 DEF Tracked
  <2>4. QED
    BY <2>1, <2>3 DEF Players, Flowers, Drops, OfKind
<1>8. \A p \in Players(w) : w.entity[p].client \in Slots
  BY <1>1, PlayerFields
<1>9. SlotsOK(x)
  <2>1. FreeClient.status = "free"
    BY DEF FreeClient
  <2>2. QED
    BY <1>5, <1>6, <2>1 DEF Good, SlotsOK
<1>10. ClientsLinked(x)
  <2>1. \A p \in Players(w) \ w.pending : w.entity[p].client # c
    <3>1. Null \notin Players(w)
      BY <1>1, Sizes, WorldParts
    <3>2. QED
      BY <3>1 DEF Good, ClientsLinked
  <2>2. FreeClient.player = Null
    BY DEF FreeClient
  <2>3. QED
    BY <1>5, <1>6, <1>7, <1>8, <2>1, <2>2 DEF Good, ClientsLinked
<1>11. FlowersLinked(x, risen)
  BY <1>1, <1>6, <1>7 DEF Good, FlowersLinked
<1>12. IdsOK(x)
  BY <1>6, <1>7 DEF Good, IdsOK
<1>13. Owing(x)
  <2>1. \A d \in Drops(w) : w.entity[d].can \subseteq Slots
    BY <1>1, DropFields
  <2>2. QED
    BY <1>5, <1>6, <1>7, <2>1 DEF Good, Owing
<1>14. ScreensOK(x, told)
  <2>1. ASSUME NEW j \in Slots, Told(x, j)
        PROVE  /\ j # c /\ Told(w, j) /\ ViewOf(x, j) = ViewOf(w, j)
               /\ x.screen[j] = w.screen[j] /\ x.client[j] = w.client[j]
    <3>1. j # c
      BY <1>5, <1>6, <2>1 DEF Told, FreeClient
    <3>2. w.client[j].player \in Players(w)
      BY <1>5, <1>6, <2>1, <3>1 DEF Good, ClientsLinked, Told
    <3>3. QED
      BY <1>5, <1>6, <1>7, <2>1, <3>1, <3>2 DEF Told, ViewOf
  <2>2. QED
    BY <1>7, <2>1 DEF Good, ScreensOK
<1>15. QED
  BY <1>6, <1>9, <1>10, <1>11, <1>12, <1>13, <1>14 DEF Good, client, x

LEMMA FreeSlotGood ==
    ASSUME NEW told, NEW risen, NEW w, Good(w, told, risen), NEW c \in Slots
    PROVE  LET x == FreeSlot(w, c)
           IN  /\ Good(x, told, risen) /\ NoNewSession(w, x)
               /\ x.client = [w.client EXCEPT ![c] = FreeClient]
<1> DEFINE d == DropPlayer(w, c)
           v == LeaveSquad(d, c)
           x == FreeSlot(w, c)
<1>1. w \in Worlds
  BY DEF Good
<1>2. /\ Good(d, told, risen) /\ d.client = [w.client EXCEPT ![c].player = Null]
      /\ d.client[c].player = Null
  BY DropPlayerGood
<1>3. d \in Worlds
  BY <1>2 DEF Good
<1>4. x = Emptied(d, c)
  <2> DEFINE k == [d.client EXCEPT ![c] = [[@ EXCEPT !.inSquad = FALSE] EXCEPT !.playing = FALSE]]
  <2> HIDE DEF d
  <2>1. v = [d EXCEPT !.client = k]
    <3>1. d.client \in [Slots -> ClientRecords]
      BY <1>3, WorldParts
    <3>2. [[d.client EXCEPT ![c].inSquad = FALSE] EXCEPT ![c].playing = FALSE] = k
      BY <3>1
    <3>3. QED
      BY <1>3, <3>2 DEF LeaveSquad, Worlds
  <2>2. [k EXCEPT ![c] = FreeClient] = [d.client EXCEPT ![c] = FreeClient]
    BY <1>3, WorldParts
  <2> HIDE DEF k
  <2>3. /\ v.client = k /\ v.entity = d.entity /\ v.screen = d.screen
        /\ v.pending = d.pending /\ v.deleted = d.deleted
    BY <1>3, <2>1 DEF Worlds
  <2> HIDE DEF v
  <2>4. x = [v EXCEPT !.client[c] = FreeClient, !.screen[c] = Blank,
                      !.entity = [i \in Ids |-> Without(v.entity[i], c)]]
    BY DEF FreeSlot, Without, v, d
  <2>5. x = [v EXCEPT !.client = [d.client EXCEPT ![c] = FreeClient],
                      !.screen = [d.screen EXCEPT ![c] = Blank],
                      !.entity = [i \in Ids |-> Without(d.entity[i], c)]]
    BY <2>2, <2>3, <2>4
  <2>6. QED
    BY <1>3, <2>1, <2>5 DEF Worlds, Emptied
<1> HIDE DEF d, x
<1>5. Good(x, told, risen) /\ x.client = [d.client EXCEPT ![c] = FreeClient]
  <2>1. Good(d, told, risen) /\ d.client[c].player = Null
    BY <1>2
  <2>2. Good(Emptied(d, c), told, risen)
        /\ Emptied(d, c).client = [d.client EXCEPT ![c] = FreeClient]
    BY <2>1, EmptiedGood
  <2>3. QED
    BY <1>4, <2>2
<1>6. x.client = [w.client EXCEPT ![c] = FreeClient]
  BY <1>1, <1>2, <1>5, WorldParts
<1>7. NoNewSession(w, x)
  BY <1>1, <1>6, WorldParts DEF NoNewSession, FreeClient
<1>8. QED
  BY <1>5, <1>6, <1>7 DEF x
-----------------------------------------------------------------------------
(* A session goes on in another slot.                                       *)

\* Drops where slot c has the bits of slot j as well.
Shared(e, c, j) ==
    [e EXCEPT !.can = @ \cup {k \in {c} : j \in e.can},
              !.got = @ \cup {k \in {c} : j \in e.got}]
HandedOver(e, c) == [e EXCEPT !.client = c, !.view = {}, !.strayed = FALSE]

LEMMA SharedFields ==
    ASSUME NEW e \in DropRecords, NEW c \in Slots, NEW j
    PROVE  /\ Shared(e, c, j) \in DropRecords
           /\ Shared(e, c, j).owed = e.owed
           /\ Shared(e, c, j).can = e.can \cup {k \in {c} : j \in e.can}
           /\ Shared(e, c, j).got = e.got \cup {k \in {c} : j \in e.got}
<1> DEFINE can == e.can \cup {k \in {c} : j \in e.can}
           got == e.got \cup {k \in {c} : j \in e.got}
<1>1. can \in SUBSET Slots /\ got \in SUBSET Slots
  BY DEF DropRecords
<1>2. Shared(e, c, j) = [e EXCEPT !.can = can, !.got = got]
  BY DEF Shared
<1> HIDE DEF can, got
<1>3. /\ Shared(e, c, j) \in DropRecords /\ Shared(e, c, j).owed = e.owed
      /\ Shared(e, c, j).can = can /\ Shared(e, c, j).got = got
  BY <1>1, <1>2 DEF DropRecords
<1>4. QED
  BY <1>3 DEF can, got

LEMMA HandedOverFields ==
    ASSUME NEW e \in PlayerRecords, NEW c \in Slots
    PROVE  /\ HandedOver(e, c) \in PlayerRecords /\ HandedOver(e, c).client = c
           /\ HandedOver(e, c).flower = e.flower /\ HandedOver(e, c).view = {}
BY DEF HandedOver, PlayerRecords

\* The table when player p is handed over from slot j to slot c.
MovedEntity(w, c, j, p) ==
    [i \in Ids |->
        CASE i = p -> HandedOver(w.entity[i], c)
          [] w.entity[i].kind = "drop" -> Shared(w.entity[i], c, j)
          [] OTHER -> w.entity[i]]

LEMMA MovedTable ==
    ASSUME NEW w \in Worlds, NEW c \in Slots, NEW j \in Slots,
           NEW p, p \in Players(w) \/ p = Null,
           NEW x \in Worlds, x.entity = MovedEntity(w, c, j, p)
    PROVE  /\ Players(x) = Players(w) /\ Flowers(x) = Flowers(w) /\ Drops(x) = Drops(w)
           /\ Tracked(x) = Tracked(w)
           /\ \A q \in Players(w) : x.entity[q].flower = w.entity[q].flower
           /\ \A q \in Players(w) \ {p} : x.entity[q] = w.entity[q]
           /\ p # Null => x.entity[p].client = c /\ x.entity[p].view = {}
           /\ \A f \in Flowers(w) : x.entity[f] = w.entity[f]
           /\ \A d \in Drops(w) :
                /\ x.entity[d].owed = w.entity[d].owed
                /\ x.entity[d].can = w.entity[d].can \cup {k \in {c} : j \in w.entity[d].can}
                /\ x.entity[d].got = w.entity[d].got \cup {k \in {c} : j \in w.entity[d].got}
<1>1. p # Null => p \in Ids /\ w.entity[p] \in PlayerRecords
  BY PlayerFields
<1>2. p = Null => p \notin Ids
  BY Sizes
<1>3. /\ \A i \in Ids : i # p /\ w.entity[i].kind = "drop" =>
                            x.entity[i] = Shared(w.entity[i], c, j)
      /\ \A i \in Ids : i # p /\ w.entity[i].kind # "drop" => x.entity[i] = w.entity[i]
  BY DEF MovedEntity
<1>4. p # Null => x.entity[p] = HandedOver(w.entity[p], c)
  <2>1. p # Null => w.entity[p].kind = "player"
    BY <1>1 DEF PlayerRecords
  <2>2. QED
    BY <1>1, <2>1 DEF MovedEntity
<1>5. ASSUME p # Null
      PROVE  /\ x.entity[p].kind = "player" /\ x.entity[p].client = c
             /\ x.entity[p].view = {} /\ x.entity[p].flower = w.entity[p].flower
             /\ w.entity[p].kind = "player"
  <2>1. HandedOver(w.entity[p], c).kind = "player" /\ w.entity[p].kind = "player"
    BY <1>1, <1>5, HandedOverFields DEF PlayerRecords
  <2>2. QED
    BY <1>1, <1>4, <1>5, <2>1, HandedOverFields
<1>6. ASSUME NEW i \in Ids, i # p, w.entity[i].kind = "drop"
      PROVE  /\ x.entity[i].kind = "drop"
             /\ x.entity[i].owed = w.entity[i].owed
             /\ x.entity[i].can = w.entity[i].can \cup {k \in {c} : j \in w.entity[i].can}
             /\ x.entity[i].got = w.entity[i].got \cup {k \in {c} : j \in w.entity[i].got}
  <2>1. w.entity[i] \in DropRecords
    BY <1>6, WorldParts, Kinds
  <2>2. x.entity[i] = Shared(w.entity[i], c, j)
    BY <1>3, <1>6
  <2>3. Shared(w.entity[i], c, j) \in DropRecords
    BY <2>1, SharedFields
  <2>4. x.entity[i].kind = "drop"
    BY <2>2, <2>3 DEF DropRecords
  <2>5. QED
    BY <2>1, <2>2, <2>4, SharedFields
<1>7. ASSUME NEW i \in Ids, i # p, w.entity[i].kind # "drop"
      PROVE  x.entity[i] = w.entity[i]
  BY <1>3, <1>7
<1>8. \A i \in Ids : x.entity[i].kind = w.entity[i].kind
  BY <1>2, <1>5, <1>6, <1>7
<1>9. /\ Players(x) = Players(w) /\ Flowers(x) = Flowers(w) /\ Drops(x) = Drops(w)
      /\ Tracked(x) = Tracked(w)
  <2>1. \A i \in Ids : i \in Tracked(x) <=> i \in Tracked(w)
    BY <1>8, KindsOf
  <2>2. QED
    BY <1>8, <2>1 DEF Players, Flowers, Drops, OfKind, Tracked
<1>10. \A f \in Flowers(w) : x.entity[f] = w.entity[f]
  BY <1>2, <1>5, <1>7 DEF Flowers, OfKind
<1>11. \A d \in Drops(w) : d \in Ids /\ d # p /\ w.entity[d].kind = "drop"
  BY <1>2, <1>5 DEF Drops, OfKind
<1>12. \A q \in Players(w) \ {p} : x.entity[q] = w.entity[q]
  BY <1>7 DEF Players, OfKind
<1>13. \A q \in Players(w) : x.entity[q].flower = w.entity[q].flower
  <2>1. Null \notin Players(w)
    BY Sizes, WorldParts
  <2>2. QED
    BY <1>5, <1>12, <2>1
<1>14. \A d \in Drops(w) :
         /\ x.entity[d].owed = w.entity[d].owed
         /\ x.entity[d].can = w.entity[d].can \cup {k \in {c} : j \in w.entity[d].can}
         /\ x.entity[d].got = w.entity[d].got \cup {k \in {c} : j \in w.entity[d].got}
  BY <1>6, <1>11
<1>15. QED
  BY <1>5, <1>9, <1>10, <1>12, <1>13, <1>14
\* The client of slot c, whose connection is new, has what that of slot j had.
Moved(w, c, j) ==
    [w EXCEPT
        !.client = [w.client EXCEPT
                      ![c] = [w.client[c] EXCEPT !.player = w.client[j].player,
                                                 !.inSquad = w.client[j].inSquad,
                                                 !.playing = w.client[j].playing,
                                                 !.wait = w.client[j].wait],
                      ![j] = [w.client[j] EXCEPT !.player = Null, !.inSquad = FALSE,
                                                 !.playing = FALSE]],
        !.screen = [w.screen EXCEPT ![j] = [w.screen[j] EXCEPT !.shown = Blank.shown]],
        !.entity = MovedEntity(w, c, j, w.client[j].player)]

LEMMA MovedGood ==
    ASSUME NEW told, NEW risen, NEW w, Good(w, told, risen),
           NEW c \in Slots, NEW j \in Slots, j # c,
           w.client[c].status = "verified", w.client[c].player = Null,
           w.screen[c] = Blank, \A d \in Drops(w) : c \notin w.entity[d].can,
           w.client[j].status # "free", w.client[j].account = w.client[c].account,
           ~w.client[j].kick
    PROVE  /\ Good(Moved(w, c, j), told, risen)
           /\ \A k \in Slots : /\ Moved(w, c, j).client[k].status = w.client[k].status
                               /\ Moved(w, c, j).client[k].account = w.client[k].account
                               /\ Moved(w, c, j).client[k].kick = w.client[k].kick
<1> DEFINE x == Moved(w, c, j)
           p == w.client[j].player
           rc == [w.client[c] EXCEPT !.player = p, !.inSquad = w.client[j].inSquad,
                                     !.playing = w.client[j].playing,
                                     !.wait = w.client[j].wait]
           rj == [w.client[j] EXCEPT !.player = Null, !.inSquad = FALSE, !.playing = FALSE]
           s == [w.screen[j] EXCEPT !.shown = Blank.shown]
           client == [w.client EXCEPT ![c] = rc, ![j] = rj]
           screen == [w.screen EXCEPT ![j] = s]
           entity == MovedEntity(w, c, j, p)
<1>1. w \in Worlds
  BY DEF Good
<1>2. w.client[c] \in ClientRecords /\ w.client[j] \in ClientRecords
  BY <1>1, ClientFields
<1>3. /\ rc \in ClientRecords /\ rc.status = w.client[c].status
      /\ rc.account = w.client[c].account /\ rc.kick = w.client[c].kick
      /\ rc.player = p /\ rc.inSquad = w.client[j].inSquad
  BY <1>2 DEF ClientRecords
<1>4. /\ rj \in ClientRecords /\ rj.status = w.client[j].status
      /\ rj.account = w.client[j].account /\ rj.kick = w.client[j].kick
      /\ rj.player = Null
  BY <1>2 DEF ClientRecords
<1>5. s \in ScreenRecords /\ s.shown = Blank.shown /\ s.ready = w.screen[j].ready
  BY <1>1, WorldParts DEF ScreenRecords, Blank
<1>6. p \in Players(w) \/ p = Null
  BY DEF Good, ClientsLinked
<1>7. entity \in [Ids -> Entity]
  <2>1. p # Null => w.entity[p] \in PlayerRecords
    BY <1>1, <1>6, PlayerFields
  <2>2. ASSUME NEW i \in Ids
        PROVE  /\ i = p => HandedOver(w.entity[i], c) \in Entity
               /\ w.entity[i].kind = "drop" => Shared(w.entity[i], c, j) \in Entity
               /\ w.entity[i] \in Entity
    <3>1. i # Null
      BY Sizes
    <3>2. w.entity[i] \in Entity /\ (w.entity[i].kind = "drop" => w.entity[i] \in DropRecords)
      BY <1>1, WorldParts, Kinds
    <3>3. QED
      BY <2>1, <3>1, <3>2, HandedOverFields, SharedFields, IsEntity
  <2>3. QED
    BY <2>2 DEF MovedEntity
<1>8. x = [w EXCEPT !.client = client, !.screen = screen, !.entity = entity]
  BY DEF Moved
<1> HIDE DEF rc, rj, s, entity, x
<1>9. /\ client \in [Slots -> ClientRecords] /\ screen \in [Slots -> ScreenRecords]
      /\ \A k \in Slots : /\ client[k] = IF k = c THEN rc ELSE IF k = j THEN rj ELSE w.client[k]
                          /\ screen[k] = IF k = j THEN s ELSE w.screen[k]
  BY <1>1, <1>3, <1>4, <1>5, WorldParts
<1> HIDE DEF client, screen
<1>10. /\ x \in Worlds /\ x.client = client /\ x.screen = screen /\ x.entity = entity
       /\ x.pending = w.pending /\ x.deleted = w.deleted
  BY <1>1, <1>7, <1>8, <1>9 DEF Worlds
<1>11. /\ Players(x) = Players(w) /\ Flowers(x) = Flowers(w) /\ Drops(x) = Drops(w)
       /\ Tracked(x) = Tracked(w)
       /\ \A q \in Players(w) : x.entity[q].flower = w.entity[q].flower
       /\ \A q \in Players(w) \ {p} : x.entity[q] = w.entity[q]
       /\ p # Null => x.entity[p].client = c /\ x.entity[p].view = {}
       /\ \A f \in Flowers(w) : x.entity[f] = w.entity[f]
  BY <1>1, <1>6, <1>10, MovedTable DEF entity
<1>12. \A d \in Drops(w) :
         /\ x.entity[d].owed = w.entity[d].owed
         /\ x.entity[d].can = w.entity[d].can \cup {k \in {c} : j \in w.entity[d].can}
         /\ x.entity[d].got = w.entity[d].got \cup {k \in {c} : j \in w.entity[d].got}
  BY <1>1, <1>6, <1>10, MovedTable DEF entity
<1>13. \A k \in Slots : /\ x.client[k].status = w.client[k].status
                        /\ x.client[k].account = w.client[k].account
                        /\ x.client[k].kick = w.client[k].kick
  BY <1>3, <1>4, <1>9, <1>10
<1>14. SlotsOK(x)
  <2>1. \A k \in Slots : k # c /\ k # j => x.client[k] = w.client[k] /\ x.screen[k] = w.screen[k]
    BY <1>9, <1>10
  <2>2. x.screen[c] = Blank /\ x.screen[j] = s
    BY <1>9, <1>10
  <2>3. QED
    BY <1>5, <1>13, <2>1, <2>2 DEF Good, SlotsOK
<1>15. ClientsLinked(x)
  <2>1. \A q \in Players(w) : w.entity[q].client \in Slots
    BY <1>1, PlayerFields
  <2>2. \A k \in Slots : k # j /\ w.client[k].player # Null => w.client[k].player # p
    BY DEF Good, ClientsLinked
  <2>3. p # Null => p \in Players(w) \ (w.pending \cup w.deleted) /\ w.entity[p].client = j
    BY DEF Good, ClientsLinked
  <2>4. Null \notin Players(w)
    BY <1>1, Sizes, WorldParts
  <2>5. \A q \in Players(w) \ w.pending : q # p =>
            w.entity[q].client # c /\ w.entity[q].client # j
    BY <2>4 DEF Good, ClientsLinked
  <2>6. QED
    BY <1>3, <1>4, <1>9, <1>10, <1>11, <2>1, <2>2, <2>3, <2>4, <2>5 DEF Good, ClientsLinked
<1>16. FlowersLinked(x, risen)
  BY <1>10, <1>11 DEF Good, FlowersLinked
<1>17. IdsOK(x)
  BY <1>10, <1>11 DEF Good, IdsOK
<1>18. Owing(x)
  <2>1. \A d \in Drops(w) : w.entity[d].can \subseteq Slots
    BY <1>1, DropFields
  <2>2. ASSUME NEW d \in Drops(w), NEW k \in x.entity[d].can
        PROVE  /\ k \in Slots /\ x.client[k].status # "free"
               /\ k \notin x.entity[d].got /\ ~x.client[k].kick
                     => x.entity[d].owed[x.client[k].account] >= 1
    <3>1. CASE k = c
      <4>1. j \in w.entity[d].can
        BY <1>12, <2>2, <3>1
      <4>2. QED
        BY <1>12, <1>13, <3>1, <4>1 DEF Good, Owing
    <3>2. CASE k # c
      <4>1. k \in w.entity[d].can
        BY <1>12, <2>2, <3>2
      <4>2. QED
        BY <1>12, <1>13, <2>1, <4>1 DEF Good, Owing
    <3>3. QED
      BY <3>1, <3>2
  <2>3. QED
    BY <1>11, <1>12, <2>2 DEF Good, Owing
<1>19. ScreensOK(x, told)
  <2>1. ASSUME NEW k \in Slots, k # c, Told(x, k)
        PROVE  /\ Told(w, k) /\ ViewOf(x, k) = ViewOf(w, k)
               /\ x.screen[k] = w.screen[k] /\ x.client[k] = w.client[k]
    <3>1. k # j
      BY <1>4, <1>9, <1>10, <2>1 DEF Told
    <3>2. x.client[k] = w.client[k] /\ x.screen[k] = w.screen[k]
      BY <1>9, <1>10, <2>1, <3>1
    <3>3. w.client[k].player \in Players(w) \ {p}
      BY <2>1, <3>1, <3>2 DEF Good, ClientsLinked, Told
    <3>4. QED
      BY <1>11, <2>1, <3>2, <3>3 DEF Told, ViewOf
  <2>2. Told(x, c) => ViewOf(x, c) = {}
    BY <1>3, <1>9, <1>10, <1>11 DEF Told, ViewOf
  <2>3. \A i \in Ids : x.screen[c].shown[i] = "nothing"
    BY <1>9, <1>10 DEF Blank
  <2>4. QED
    BY <1>11, <2>1, <2>2, <2>3 DEF Good, ScreensOK
<1>20. QED
  BY <1>10, <1>13, <1>14, <1>15, <1>16, <1>17, <1>18, <1>19 DEF Good, x
LEMMA TakeOverMoves ==
    ASSUME NEW w \in Worlds, NEW c \in Slots, NEW j \in Slots, j # c
    PROVE  TakeOver(w, c, j) = IF w.client[j].status = "gone" THEN FreeSlot(Moved(w, c, j), j)
                               ELSE [Moved(w, c, j) EXCEPT !.client[j].kick = TRUE]
<1> DEFINE old == w.client[j]
           p == old.player
           rc == [w.client[c] EXCEPT !.player = old.player, !.inSquad = old.inSquad,
                                     !.playing = old.playing, !.wait = old.wait]
           rj == [w.client[j] EXCEPT !.player = Null, !.inSquad = FALSE, !.playing = FALSE]
           one == [w.client EXCEPT ![c] = rc]
           client == [w.client EXCEPT ![c] = rc, ![j] = rj]
           screen == [w.screen EXCEPT ![j] = [w.screen[j] EXCEPT !.shown = Blank.shown]]
           entity == [i \in Ids |->
              LET e == w.entity[i]
              IN  CASE i = old.player ->
                         [e EXCEPT !.client = c, !.view = {}, !.strayed = FALSE]
                    [] e.kind = "drop" ->
                         [e EXCEPT !.can = @ \cup {k \in {c} : j \in e.can},
                                   !.got = @ \cup {k \in {c} : j \in e.got}]
                    [] OTHER -> e]
           moved ==
              [w EXCEPT
                !.client[c] = [@ EXCEPT !.player = old.player, !.inSquad = old.inSquad,
                                        !.playing = old.playing, !.wait = old.wait],
                !.client[j] = [@ EXCEPT !.player = Null, !.inSquad = FALSE, !.playing = FALSE],
                !.screen[j].shown = Blank.shown,
                !.entity = entity]
<1>1. entity = MovedEntity(w, c, j, p)
  BY DEF MovedEntity, HandedOver, Shared
<1>2. TakeOver(w, c, j) = IF old.status = "gone" THEN FreeSlot(moved, j)
                          ELSE [moved EXCEPT !.client[j].kick = TRUE]
  BY DEF TakeOver
<1> HIDE DEF entity
<1>3. moved = [w EXCEPT !.client = client, !.screen = screen, !.entity = entity]
  <2>1. w.client \in [Slots -> ClientRecords]
    BY WorldParts
  <2> DEFINE rj1 == [one[j] EXCEPT !.player = Null, !.inSquad = FALSE, !.playing = FALSE]
  <2>2. rj1 = rj
    BY <2>1
  <2>3. [one EXCEPT ![j] = rj1] = client
    BY <2>1, <2>2
  <2>4. moved = [[[w EXCEPT !.client = one] EXCEPT !.client = [one EXCEPT ![j] = rj1]]
                   EXCEPT !.screen = screen, !.entity = entity]
    <3> HIDE DEF rc
    <3>1. [w EXCEPT !.client = one].client = one
      BY DEF Worlds
    <3>2. QED
      BY <3>1 DEF Worlds, rc
  <2> HIDE DEF one, rj1, screen, client
  <2>5. QED
    BY <2>3, <2>4 DEF Worlds
<1>4. moved = Moved(w, c, j)
  BY <1>1, <1>3 DEF Moved
<1> HIDE DEF moved
<1>5. QED
  BY <1>2, <1>4
\* The connection of slot c is new.
Fresh(w, c, a) ==
    [w EXCEPT !.client[c] = [FreeClient EXCEPT !.status = "verified", !.account = a]]

LEMMA FreshGood ==
    ASSUME NEW told, NEW risen, NEW w, Good(w, told, risen), NEW c \in Slots,
           w.client[c].status = "free", NEW a \in Accounts
    PROVE  LET x == Fresh(w, c, a)
           IN  /\ Good(x, told, risen)
               /\ x.client[c].status = "verified" /\ x.client[c].account = a
               /\ x.client[c].player = Null /\ ~x.client[c].kick
               /\ x.screen[c] = Blank
               /\ \A d \in Drops(x) : c \notin x.entity[d].can
               /\ \A k \in Slots \ {c} : x.client[k] = w.client[k]
<1> DEFINE x == Fresh(w, c, a)
           k == [FreeClient EXCEPT !.status = "verified", !.account = a]
<1>1. w \in Worlds /\ w.client[c] = FreeClient /\ w.screen[c] = Blank
  BY DEF Good, SlotsOK
<1>2. /\ k \in ClientRecords /\ k.player = Null /\ k.account = a /\ ~k.kick
      /\ k.status = "verified" /\ FreeClient.player = Null
  BY DEF FreeClient, ClientRecords
<1>3. x = [w EXCEPT !.client[c] = k]
  BY DEF Fresh
<1> HIDE DEF k, x
<1>4. /\ x.client = [w.client EXCEPT ![c] = k]
      /\ x.entity = w.entity /\ x.pending = w.pending
      /\ x.deleted = w.deleted /\ x.screen = w.screen
      /\ x \in Worlds
  BY <1>1, <1>2, <1>3 DEF Worlds
<1>5. /\ \A j \in Slots : j # c => x.client[j] = w.client[j]
      /\ x.client[c] = k
      /\ \A j \in Slots : x.client[j].player = w.client[j].player
  BY <1>1, <1>2, <1>4, WorldParts
<1>6. \A d \in Drops(w) : w.entity[d].can \subseteq Slots /\ c \notin w.entity[d].can
  BY <1>1, DropFields DEF Good, Owing
<1>7. SlotsOK(x)
  BY <1>2, <1>4, <1>5 DEF Good, SlotsOK
<1>8. ClientsLinked(x) /\ FlowersLinked(x, risen) /\ IdsOK(x)
  <2>1. \A p \in Players(w) : w.entity[p].client \in Slots
    BY <1>1, PlayerFields
  <2>2. QED
    BY <1>4, <1>5, <2>1, SameTable DEF Good, ClientsLinked, FlowersLinked, IdsOK
<1>9. Owing(x)
  BY <1>4, <1>5, <1>6, SameTable DEF Good, Owing
<1>10. \A j \in Slots : Told(x, j) => j # c /\ Told(w, j) /\ ViewOf(x, j) = ViewOf(w, j)
  BY <1>1, <1>2, <1>4, <1>5 DEF Told, ViewOf
<1>11. ScreensOK(x, told)
  BY <1>4, <1>5, <1>10, SameTable DEF Good, ScreensOK
<1>12. \A d \in Drops(x) : c \notin x.entity[d].can
  BY <1>4, <1>6, SameTable
<1>13. QED
  BY <1>1, <1>2, <1>4, <1>5, <1>7, <1>8, <1>9, <1>11, <1>12 DEF Good, x

LEMMA LoginGood ==
    ASSUME NEW told, NEW risen, Good(world, told, risen), OneSession(world),
           NEW c \in Slots, NEW a \in Accounts, Login(c, a)
    PROVE  Good(world', told, risen) /\ OneSession(world')
<1> DEFINE w == world
           x == Fresh(w, c, a)
           others == {j \in Slots \ {c} : w.client[j].account = a /\ ~w.client[j].kick}
           j == CHOOSE j \in others : \A k \in others : j <= k
           m == Moved(x, c, j)
<1>1. w.client[c].status = "free"
  BY DEF Login
<1>2. world' = IF others = {} THEN x ELSE TakeOver(x, c, j)
  BY DEF Login, Fresh
<1>3. /\ Good(x, told, risen)
      /\ x.client[c].status = "verified" /\ x.client[c].account = a
      /\ x.client[c].player = Null /\ ~x.client[c].kick
      /\ x.screen[c] = Blank
      /\ \A d \in Drops(x) : c \notin x.entity[d].can
      /\ \A k \in Slots \ {c} : x.client[k] = w.client[k]
  BY <1>1, FreshGood
<1>4. \A k \in others : w.client[k].status # "free"
  <2>1. FreeClient.account \notin Accounts
    BY AccountsAssumption DEF FreeClient
  <2>2. QED
    BY <2>1 DEF Good, SlotsOK
<1>5. \A k, l \in others : k = l
  BY <1>4 DEF OneSession
<1>6. CASE others = {}
  <2>1. \A k \in Slots \ {c} : w.client[k].account = a => w.client[k].kick
    BY <1>6
  <2> HIDE DEF x
  <2>2. OneSession(x)
    BY <1>3, <2>1 DEF OneSession
  <2>3. QED
    BY <1>2, <1>3, <1>6, <2>2
<1>7. CASE others # {}
  <2>1. j \in others
    <3>1. PICK k \in others : TRUE
      BY <1>7
    <3>2. k \in Int /\ k <= k
      BY <3>1, SizesAssumption DEF Slots
    <3>3. \A l \in others : k <= l
      BY <1>5, <3>1, <3>2
    <3> HIDE DEF others
    <3>4. QED
      BY <3>1, <3>3
  <2>2. j \in Slots /\ j # c /\ w.client[j].account = a /\ ~w.client[j].kick
        /\ w.client[j].status # "free"
    BY <1>4, <2>1
  <2>3. \A k \in Slots \ {c, j} : w.client[k].account = a => w.client[k].kick
    BY <1>5, <2>1
  <2> HIDE DEF x, j, others
  <2>4. /\ Good(m, told, risen)
        /\ \A k \in Slots : /\ m.client[k].status = x.client[k].status
                            /\ m.client[k].account = x.client[k].account
                            /\ m.client[k].kick = x.client[k].kick
    BY <1>3, <2>2, MovedGood
  <2>5. world' = IF x.client[j].status = "gone" THEN FreeSlot(m, j)
                 ELSE [m EXCEPT !.client[j].kick = TRUE]
    BY <1>2, <1>3, <1>7, <2>2, TakeOverMoves DEF Good
  <2>6. \A k, l \in Slots \ {j} :
          /\ m.client[k].status # "free" /\ m.client[l].status # "free"
          /\ ~m.client[k].kick /\ ~m.client[l].kick
          /\ m.client[k].account = m.client[l].account
          => k = l
    <3>1. \A k \in Slots \ {c, j} : m.client[k].account = a => m.client[k].kick
      BY <1>3, <2>3, <2>4
    <3>2. \A k \in Slots \ {c} : /\ m.client[k].status = w.client[k].status
                                 /\ m.client[k].account = w.client[k].account
                                 /\ m.client[k].kick = w.client[k].kick
      BY <1>3, <2>4
    <3>3. m.client[c].account = a
      BY <1>3, <2>4
    <3> HIDE DEF w, m
    <3>4. OneSession(w)
      BY DEF w
    <3>5. QED
      BY <3>1, <3>2, <3>3, <3>4 DEF OneSession
  <2> HIDE DEF m
  <2>7. CASE x.client[j].status = "gone"
    <3>1. /\ Good(world', told, risen) /\ NoNewSession(m, world')
          /\ world'.client = [m.client EXCEPT ![j] = FreeClient]
      BY <2>2, <2>4, <2>5, <2>7, FreeSlotGood
    <3>2. world'.client[j].status = "free"
      BY <2>2, <2>4, <3>1, WorldParts DEF Good, FreeClient
    <3>3. OneSession(world')
      BY <2>6, <3>1, <3>2 DEF OneSession, NoNewSession
    <3>4. QED
      BY <3>1, <3>3
  <2>8. CASE x.client[j].status # "gone"
    <3> DEFINE y == [m EXCEPT !.client[j].kick = TRUE]
    <3>1. m.client[j].status # "free"
      BY <1>3, <2>2, <2>4
    <3>2. Good(y, told, risen) /\ Marked(m, y, j)
      BY <2>2, <2>4, <3>1, Marks
    <3>3. y.client[j].kick
      BY <2>2, <2>4, WorldParts DEF Good, Worlds, ClientRecords
    <3> HIDE DEF y
    <3>4. OneSession(y)
      BY <2>6, <3>2, <3>3 DEF OneSession, NoNewSession, Marked
    <3>5. QED
      BY <2>5, <2>8, <3>2, <3>4 DEF y
  <2>9. QED
    BY <2>7, <2>8
<1>8. QED
  BY <1>6, <1>7
-----------------------------------------------------------------------------
(* Between two ticks.                                                       *)

\* A world in which all that clients show exists, and another such world.
Well(w) == Good(w, Slots, {})
Step(w, x) == Well(x) /\ NoNewSession(w, x)

LEMMA SameClients ==
    ASSUME NEW w, NEW x, x.client = w.client
    PROVE  NoNewSession(w, x)
BY DEF NoNewSession

LEMMA StepTransitive ==
    ASSUME NEW w, NEW x, NEW y, Step(w, x), Step(x, y)
    PROVE  Step(w, y)
BY SessionsTransitive DEF Step

LEMMA JoinFailsGood ==
    ASSUME NEW w, Well(w), NEW c \in Slots, w.client[c].status # "free"
    PROVE  Step(w, JoinFails(w, c)) /\ JoinFails(w, c).client[c].status # "free"
<1> DEFINE s == Stray(w, c)
           v == LeaveSquad(s, c)
           x == ClearScreen(v, c)
<1>1. Well(s) /\ s.client = w.client /\ ~Told(s, c)
  BY StrayGood DEF Well
<1>2. s.client[c].status # "free"
  BY <1>1
<1> HIDE DEF s
<1>3. /\ Well(v) /\ NoNewSession(s, v)
      /\ v.client[c].status = s.client[c].status /\ ~Told(v, c)
  BY <1>1, <1>2, LeaveSquadGood DEF Well
<1> HIDE DEF v
<1>4. Well(x) /\ x.client = v.client
  <2>1. Good(v, Slots, {}) /\ ~Told(v, c)
    BY <1>3 DEF Well
  <2>2. QED
    BY <2>1, ClearScreenGood DEF Well
<1> HIDE DEF x
<1>5. JoinFails(w, c) = x
  BY DEF JoinFails, s, v, x
<1>6. NoNewSession(w, s) /\ NoNewSession(v, x)
  BY <1>1, <1>4, SameClients
<1>7. Step(w, x)
  BY <1>3, <1>4, <1>6, SessionsTransitive DEF Step
<1>8. QED
  BY <1>2, <1>3, <1>4, <1>5, <1>7

LEMMA WaitingGood ==
    ASSUME Well(world), NEW c \in Slots, world.client[c].status # "free"
    PROVE  /\ Step(world, Waiting(c)) /\ Marked(world, Waiting(c), c)
           /\ Waiting(c).client[c].status # "free"
<1>1. Well(Waiting(c)) /\ Marked(world, Waiting(c), c)
  BY Marks DEF Waiting, Well
<1>2. QED
  BY <1>1 DEF Step, Marked

LEMMA QuickGood ==
    ASSUME NEW w, Well(w), NEW c \in Slots, w.client[c].status # "free", NEW b \in BOOLEAN
    PROVE  LET x == [w EXCEPT !.client[c].quick = b]
           IN  Step(w, x) /\ Marked(w, x, c) /\ x.client[c].status # "free"
<1> DEFINE x == [w EXCEPT !.client[c].quick = b]
<1>1. Well(x) /\ Marked(w, x, c)
  BY Marks DEF Well
<1> HIDE DEF x
<1>2. Step(w, x) /\ x.client[c].status # "free"
  BY <1>1 DEF Step, Marked
<1>3. QED
  BY <1>1, <1>2 DEF x

\* Out of the game, but not of the squad.
LEMMA LeavesGame ==
    ASSUME NEW w, Well(w), NEW c \in Slots, w.client[c].status # "free"
    PROVE  Step(w, [DropPlayer(w, c) EXCEPT !.client[c].playing = FALSE])
<1> DEFINE d == DropPlayer(w, c)
           x == [d EXCEPT !.client[c].playing = FALSE]
<1>1. Well(d) /\ d.client = [w.client EXCEPT ![c].player = Null]
  BY DropPlayerGood DEF Well
<1>2. w \in Worlds
  BY DEF Well, Good
<1>3. NoNewSession(w, d) /\ d.client[c].status # "free"
  <2>1. w.client[c] \in ClientRecords
    BY <1>2, ClientFields
  <2>2. d.client[c].status = w.client[c].status
    BY <1>1, <1>2, <2>1, WorldParts DEF ClientRecords
  <2>3. QED
    BY <1>1, <1>2, <2>2, DropPlayerSessions
<1> HIDE DEF d
<1>4. Well(x) /\ Marked(d, x, c)
  BY <1>1, <1>3, Marks DEF Well
<1> HIDE DEF x
<1>5. Step(w, x)
  BY <1>3, <1>4, SessionsTransitive DEF Step, Marked
<1>6. QED
  BY <1>5 DEF x, d

\* Out of the game and of the squad.
LEMMA LeavesAll ==
    ASSUME NEW told, NEW risen, NEW w, Good(w, told, risen),
           NEW c \in Slots, w.client[c].status # "free"
    PROVE  LET x == ClearScreen(LeaveSquad(DropPlayer(w, c), c), c)
           IN  Good(x, told, risen) /\ NoNewSession(w, x) /\ ~Told(x, c)
<1> DEFINE d == DropPlayer(w, c)
           v == LeaveSquad(d, c)
           x == ClearScreen(v, c)
<1>1. /\ Good(d, told, risen) /\ d.client = [w.client EXCEPT ![c].player = Null]
      /\ ~Told(d, c)
  BY DropPlayerGood
<1>2. w \in Worlds
  BY DEF Good
<1>3. NoNewSession(w, d) /\ d.client[c].status # "free"
  <2>1. w.client[c] \in ClientRecords
    BY <1>2, ClientFields
  <2>2. d.client[c].status = w.client[c].status
    BY <1>1, <1>2, <2>1, WorldParts DEF ClientRecords
  <2>3. QED
    BY <1>1, <1>2, <2>2, DropPlayerSessions
<1> HIDE DEF d
<1>4. Good(v, told, risen) /\ NoNewSession(d, v) /\ ~Told(v, c)
  BY <1>1, <1>3, LeaveSquadGood
<1> HIDE DEF v
<1>5. Good(x, told, risen) /\ x.client = v.client /\ x.entity = v.entity
  <2>1. Good(v, told, risen) /\ ~Told(v, c)
    BY <1>4
  <2>2. QED
    BY <2>1, ClearScreenGood
<1> HIDE DEF x
<1>6. NoNewSession(w, x)
  BY <1>3, <1>4, <1>5, SameClients, SessionsTransitive
<1>7. ~Told(x, c)
  BY <1>4, <1>5 DEF Told
<1>8. QED
  BY <1>5, <1>6, <1>7 DEF d, v, x
LEMMA MasterKicksGood ==
    ASSUME Well(world), NEW c \in Slots, MasterKicks(c)
    PROVE  Step(world, world')
<1>1. world.client[c].status # "free" /\ world' = [world EXCEPT !.client[c].kick = TRUE]
  BY DEF MasterKicks, Verified
<1>2. Well(world') /\ Marked(world, world', c)
  BY <1>1, Marks DEF Well
<1>3. QED
  BY <1>2 DEF Step, Marked

LEMMA CloseGood ==
    ASSUME Well(world), NEW c \in Slots, Close(c)
    PROVE  Step(world, world')
<1> DEFINE r == world.client[c]
           k == [r EXCEPT !.status = "gone"]
           v == [world EXCEPT !.client[c] = k]
           x == ClearScreen(v, c)
<1>1. r.status = "verified"
  BY DEF Close, Verified
<1>2. CASE r.kick
  <2>1. world' = FreeSlot(world, c)
    BY <1>2 DEF Close
  <2>2. QED
    BY <2>1, FreeSlotGood DEF Well, Step
<1>3. CASE ~r.kick
  <2>1. world \in Worlds /\ r \in ClientRecords
    BY ClientFields DEF Well, Good
  <2>2. /\ k \in ClientRecords /\ k.player = r.player /\ k.account = r.account
        /\ k.status = "gone" /\ k.kick = r.kick /\ k.inSquad = r.inSquad
    <3> HIDE DEF r
    <3>1. QED
      BY <2>1 DEF ClientRecords
  <2>3. world' = x
    <3>1. world' = [ClearScreen(world, c) EXCEPT !.client[c] = k]
      BY <1>3, <2>1 DEF Close, ClearScreen, Worlds
    <3> HIDE DEF k
    <3>2. QED
      BY <2>1, <3>1 DEF ClearScreen, Worlds
  <2> HIDE DEF k
  <2>4. Well(v) /\ NoNewSession(world, v) /\ v.client[c] = k
    BY <1>1, <2>2, SetClient DEF Well
  <2> HIDE DEF v
  <2>5. ~Told(v, c) /\ Good(v, Slots, {})
    BY <2>2, <2>4 DEF Told, Well
  <2>6. Well(x) /\ x.client = v.client
    BY <2>5, ClearScreenGood DEF Well
  <2> HIDE DEF x
  <2>7. Step(world, x)
    BY <2>4, <2>6, SameClients, SessionsTransitive DEF Step
  <2>8. QED
    BY <2>3, <2>7
<1>4. QED
  BY <1>2, <1>3

LEMMA ReadyJoinsGood ==
    ASSUME Well(world), NEW c \in Slots, ReadyJoins(c)
    PROVE  Step(world, world')
<1> DEFINE w == Waiting(c)
           v == JoinSquad(w, c)
           f == JoinFails(w, c)
           vq == [v EXCEPT !.client[c].quick = TRUE]
           fq == [f EXCEPT !.client[c].quick = FALSE]
<1>1. world.client[c].status # "free"
  BY DEF ReadyJoins, SquadAction, Verified
<1>2. Step(world, w) /\ Well(w) /\ w.client[c].status # "free"
  BY <1>1, WaitingGood DEF Step
<1>3. world' = vq \/ world' = fq
  BY DEF ReadyJoins
<1> HIDE DEF w
<1>4. Step(w, v) /\ Well(v) /\ v.client[c].status # "free"
  BY <1>2, JoinSquadGood DEF Well, Step
<1>5. Step(w, f) /\ Well(f) /\ f.client[c].status # "free"
  BY <1>2, JoinFailsGood DEF Step
<1> HIDE DEF v, f
<1>6. Step(v, vq)
  BY <1>4, QuickGood
<1>7. Step(f, fq)
  BY <1>5, QuickGood
<1> HIDE DEF vq, fq
<1>8. QED
  BY <1>2, <1>3, <1>4, <1>5, <1>6, <1>7, StepTransitive

LEMMA ReadyEntersGood ==
    ASSUME Well(world), NEW c \in Slots, ReadyEnters(c)
    PROVE  Step(world, world')
<1> DEFINE w == Waiting(c)
<1>1. world.client[c].status # "free"
  BY DEF ReadyEnters, SquadAction, Verified
<1>2. /\ Step(world, w) /\ Well(w) /\ w.client[c].status # "free"
      /\ Marked(world, w, c)
  BY <1>1, WaitingGood DEF Step
<1>3. Room(world) /\ world' = Enter(w, c)
  BY DEF ReadyEnters
<1> HIDE DEF w
<1>4. Room(w)
  BY <1>2, <1>3, SameTable DEF Room, FreeIds, Marked
<1>5. Step(w, Enter(w, c))
  BY <1>2, <1>4, EnterGood DEF Well, Step
<1>6. QED
  BY <1>2, <1>3, <1>5, StepTransitive

\* A flower dies.
LEMMA KilledGood ==
    ASSUME NEW told, NEW risen, NEW w, Good(w, told, risen), NEW f \in Flowers(w)
    PROVE  LET x == [w EXCEPT !.entity[f].dead = TRUE]
           IN  /\ Good(x, told, risen) /\ NoNewSession(w, x)
<1> DEFINE e == [w.entity[f] EXCEPT !.dead = TRUE]
           x == [w EXCEPT !.entity[f] = e]
<1>1. f \in Ids /\ w.entity[f] \in FlowerRecords
  BY FlowerFields DEF Good
<1>2. e \in FlowerRecords /\ e.kind = "flower" /\ e.dead /\ Like(w.entity[f], e)
  BY <1>1 DEF FlowerRecords, Like
<1>3. e \in Entity
  BY <1>2, IsEntity
<1>4. x = [w EXCEPT !.entity[f].dead = TRUE]
  OBVIOUS
<1> HIDE DEF e
<1>5. Good(x, told, risen) /\ x.client = w.client
  BY <1>1, <1>2, <1>3, SetLike
<1> HIDE DEF x
<1>6. QED
  BY <1>4, <1>5, SameClients

LEMMA ReadyAbandonsGood ==
    ASSUME Well(world), NEW c \in Slots, ReadyAbandons(c)
    PROVE  Step(world, world')
<1> DEFINE w == Waiting(c)
           p == world.client[c].player
           f == world.entity[p].flower
<1>1. world.client[c].status # "free" /\ p # Null
  BY DEF ReadyAbandons, SquadAction, Verified
<1>2. /\ Step(world, w) /\ Well(w) /\ w.client[c].status # "free"
      /\ Marked(world, w, c)
  BY <1>1, WaitingGood DEF Step
<1>3. world' = IF LivingFlower(world, f) THEN [w EXCEPT !.entity[f].dead = TRUE]
               ELSE [DropPlayer(w, c) EXCEPT !.client[c].playing = FALSE]
  BY DEF ReadyAbandons
<1> HIDE DEF w
<1>4. CASE LivingFlower(world, f)
  <2>1. p \in Players(world)
    BY <1>1 DEF Well, Good, ClientsLinked
  <2>2. f \in Flowers(world)
    <3>1. f \in Ids
      BY <1>4 DEF LivingFlower, Alive
    <3>2. QED
      BY <2>1, <3>1, Sizes DEF Well, Good, FlowersLinked
  <2>3. f \in Flowers(w)
    BY <1>2, <2>2, SameTable DEF Marked
  <2>4. Step(w, [w EXCEPT !.entity[f].dead = TRUE])
    BY <1>2, <2>3, KilledGood DEF Well, Step
  <2>5. QED
    BY <1>2, <1>3, <1>4, <2>4, StepTransitive
<1>5. CASE ~LivingFlower(world, f)
  BY <1>2, <1>3, <1>5, LeavesGame, StepTransitive
<1>6. QED
  BY <1>4, <1>5

LEMMA UpdateGood ==
    ASSUME Well(world), NEW c \in Slots, Update(c)
    PROVE  Step(world, world')
<1> DEFINE v == [world EXCEPT !.client[c].quick = FALSE]
<1>1. world.client[c].status # "free"
  BY DEF Update, Verified
<1>2. Step(world, v) /\ Well(v) /\ v.client[c].status # "free"
  BY <1>1, QuickGood DEF Step
<1>3. \/ world' = [DropPlayer(v, c) EXCEPT !.client[c].playing = FALSE]
      \/ Room(v) /\ world' = Enter(v, c)
  BY DEF Update
<1> HIDE DEF v
<1>4. Step(v, [DropPlayer(v, c) EXCEPT !.client[c].playing = FALSE])
  BY <1>2, LeavesGame
<1>5. Room(v) => Step(v, Enter(v, c))
  BY <1>2, EnterGood DEF Well, Step
<1>6. QED
  BY <1>2, <1>3, <1>4, <1>5, StepTransitive

LEMMA LeaveGood ==
    ASSUME Well(world), NEW c \in Slots, Leave(c)
    PROVE  Step(world, world')
<1> DEFINE w == Waiting(c)
           s == Stray(w, c)
           v == LeaveSquad(s, c)
<1>1. world.client[c].status # "free"
  BY DEF Leave, SquadAction, Verified
<1>2. Step(world, w) /\ Well(w) /\ w.client[c].status # "free"
  BY <1>1, WaitingGood DEF Step
<1>3. world' = v \/ world' = w
  BY DEF Leave
<1> HIDE DEF w
<1>4. Well(s) /\ s.client = w.client /\ ~Told(s, c)
  BY <1>2, StrayGood DEF Well
<1>5. s.client[c].status # "free" /\ Step(w, s)
  BY <1>2, <1>4, SameClients DEF Step
<1> HIDE DEF s
<1>6. Step(s, v)
  BY <1>4, <1>5, LeaveSquadGood DEF Well, Step
<1> HIDE DEF v
<1>7. QED
  BY <1>2, <1>3, <1>5, <1>6, StepTransitive

LEMMA JoinGood ==
    ASSUME Well(world), NEW c \in Slots, Join(c)
    PROVE  Step(world, world')
<1> DEFINE w == Waiting(c)
           v == JoinSquad(w, c)
           f == JoinFails(w, c)
<1>1. world.client[c].status # "free"
  BY DEF Join, SquadAction, Verified
<1>2. Step(world, w) /\ Well(w) /\ w.client[c].status # "free"
  BY <1>1, WaitingGood DEF Step
<1>3. world' = v \/ world' = f
  BY DEF Join
<1> HIDE DEF w
<1>4. Step(w, v)
  BY <1>2, JoinSquadGood DEF Well, Step
<1>5. Step(w, f)
  BY <1>2, JoinFailsGood
<1> HIDE DEF v, f
<1>6. QED
  BY <1>2, <1>3, <1>4, <1>5, StepTransitive

LEMMA KickFromSquadGood ==
    ASSUME Well(world), NEW c \in Slots, KickFromSquad(c)
    PROVE  Step(world, world')
<1>1. world.client[c].inSquad
      /\ world' = ClearScreen(LeaveSquad(DropPlayer(world, c), c), c)
  BY DEF KickFromSquad
<1>2. world.client[c].status # "free"
  <2>1. ~FreeClient.inSquad
    BY DEF FreeClient
  <2>2. QED
    BY <1>1, <2>1 DEF Well, Good, SlotsOK
<1>3. QED
  BY <1>1, <1>2, LeavesAll DEF Well, Step

\* The petal slot of a player.
LEMMA PetalGood ==
    ASSUME NEW told, NEW risen, NEW w, Good(w, told, risen),
           NEW p \in Players(w), NEW h \in Hashes
    PROVE  LET x == [w EXCEPT !.entity[p].petal = h]
           IN  /\ Good(x, told, risen)
               /\ x.client = w.client /\ x.pending = w.pending
               /\ x.deleted = w.deleted /\ x.screen = w.screen
               /\ Players(x) = Players(w) /\ Flowers(x) = Flowers(w) /\ Drops(x) = Drops(w)
               /\ Tracked(x) = Tracked(w)
<1> DEFINE e == [w.entity[p] EXCEPT !.petal = h]
           x == [w EXCEPT !.entity[p] = e]
<1>1. p \in Ids /\ w.entity[p] \in PlayerRecords
  BY PlayerFields DEF Good
<1>2. e \in PlayerRecords /\ e.kind = "player" /\ Like(w.entity[p], e)
  BY <1>1 DEF PlayerRecords, Like
<1>3. e \in Entity
  BY <1>2, IsEntity
<1>4. x = [w EXCEPT !.entity[p].petal = h]
  OBVIOUS
<1> HIDE DEF e
<1>5. /\ Good(x, told, risen)
      /\ x.client = w.client /\ x.pending = w.pending
      /\ x.deleted = w.deleted /\ x.screen = w.screen
      /\ Players(x) = Players(w) /\ Flowers(x) = Flowers(w) /\ Drops(x) = Drops(w)
      /\ Tracked(x) = Tracked(w)
  BY <1>1, <1>2, <1>3, SetLike
<1> HIDE DEF x
<1>6. QED
  BY <1>4, <1>5

LEMMA PetalSwitchGood ==
    ASSUME Well(world), NEW c \in Slots, PetalSwitch(c)
    PROVE  Step(world, world')
<1> DEFINE p == world.client[c].player
           i == Index(world.entity[p].petal)
           S == {i} \ (OfKind(world, "player") \cup OfKind(world, "flower"))
           v == RequestDeletion(world, S)
<1>1. /\ p # Null /\ i \in Tracked(world)
      /\ world' = [v EXCEPT !.entity[p].petal = Null]
  BY DEF PetalSwitch
<1>2. p \in Players(world)
  BY <1>1 DEF Well, Good, ClientsLinked
<1>3. S \subseteq Tracked(world) \ Players(world)
  BY <1>1 DEF Players
<1> HIDE DEF p, i, S
<1>4. Well(v) /\ v.client = world.client /\ v.entity = world.entity
  BY <1>3, RequestGood DEF Well
<1>5. p \in Players(v)
  BY <1>2, <1>4, SameTable
<1> HIDE DEF v
<1>6. Well(world') /\ world'.client = v.client
  BY <1>1, <1>4, <1>5, PetalGood, Sizes DEF Well
<1>7. QED
  BY <1>4, <1>6, SameClients DEF Step
-----------------------------------------------------------------------------
(* The tick: drops are picked up.                                           *)

Getters(picked, d) == {c \in Slots : <<c, d>> \in picked}
Given(w, picked, d, a) ==
    {c \in Getters(picked, d) : w.client[c].account = a /\ ~w.client[c].kick}
Picked(w, picked, d) ==
    [w.entity[d] EXCEPT !.got = @ \cup Getters(picked, d),
                        !.owed = [a \in Accounts |-> @[a] - Cardinality(Given(w, picked, d, a))]]

\* An account gets a drop once.
LEMMA GivenOnce ==
    ASSUME NEW w, Well(w), OneSession(w), NEW d \in Drops(w), NEW picked,
           \A c \in Getters(picked, d) : c \in w.entity[d].can \ w.entity[d].got,
           NEW a \in Accounts
    PROVE  \/ Cardinality(Given(w, picked, d, a)) = 0 /\ Given(w, picked, d, a) = {}
           \/ /\ Cardinality(Given(w, picked, d, a)) = 1
              /\ w.entity[d].owed[a] >= 1
<1> DEFINE G == Given(w, picked, d, a)
<1>1. CASE G = {}
  BY <1>1, FS_EmptySet
<1>2. CASE G # {}
  <2>1. PICK c \in G : TRUE
    BY <1>2
  <2>2. \A k \in G : /\ k \in Slots /\ w.client[k].account = a /\ ~w.client[k].kick
                     /\ k \in w.entity[d].can /\ k \notin w.entity[d].got
    BY DEF Given, Getters
  <2>3. \A k \in G : w.client[k].status # "free"
    BY <2>2 DEF Well, Good, Owing
  <2>4. \A k \in G : k = c
    BY <2>1, <2>2, <2>3 DEF OneSession
  <2>5. G = {c}
    BY <2>1, <2>4
  <2>6. w.entity[d].owed[a] >= 1
    BY <2>1, <2>2 DEF Well, Good, Owing
  <2> HIDE DEF G
  <2>7. Cardinality(G) = 1
    BY <2>5, FS_Singleton
  <2>8. QED
    BY <2>5, <2>6, <2>7 DEF G
<1>3. QED
  BY <1>1, <1>2

LEMMA PickedFields ==
    ASSUME NEW w, Well(w), OneSession(w), NEW d \in Drops(w), NEW picked,
           \A c \in Getters(picked, d) : c \in w.entity[d].can \ w.entity[d].got
    PROVE  LET e == Picked(w, picked, d)
           IN  /\ e \in DropRecords /\ e.can = w.entity[d].can
               /\ e.got = w.entity[d].got \cup Getters(picked, d)
               /\ \A a \in Accounts : e.owed[a] >= 0
               /\ \A c \in e.can : c \notin e.got /\ ~w.client[c].kick =>
                                        e.owed[w.client[c].account] >= 1
<1> DEFINE old == w.entity[d]
           N(a) == Cardinality(Given(w, picked, d, a))
           got == old.got \cup Getters(picked, d)
           owed == [a \in Accounts |-> old.owed[a] - N(a)]
           e == Picked(w, picked, d)
<1>1. w \in Worlds
  BY DEF Well, Good
<1>2. /\ old \in DropRecords /\ old.can \in SUBSET Slots /\ old.got \in SUBSET Slots
      /\ old.owed \in [Accounts -> Int]
  BY <1>1, DropFields
<1>3. \A a \in Accounts : old.owed[a] \in Int /\ old.owed[a] >= 0
  BY <1>2 DEF Well, Good, Owing
<1>4. ASSUME NEW a \in Accounts
      PROVE  /\ N(a) \in {0, 1} /\ (N(a) = 1 => old.owed[a] >= 1)
             /\ N(a) = 0 => Given(w, picked, d, a) = {}
  BY GivenOnce
<1>5. e = [old EXCEPT !.got = got, !.owed = owed]
  BY DEF Picked
<1> HIDE DEF N
<1>6. got \in SUBSET Slots /\ owed \in [Accounts -> Int]
  <2>1. \A a \in Accounts : old.owed[a] - N(a) \in Int
    BY <1>3, <1>4
  <2>2. QED
    BY <1>2, <2>1 DEF Getters
<1>7. \A a \in Accounts : owed[a] = old.owed[a] - N(a)
  OBVIOUS
<1> HIDE DEF e, got, owed
<1>8. e \in DropRecords /\ e.can = old.can /\ e.got = got /\ e.owed = owed
  <2> HIDE DEF old
  <2>1. QED
    BY <1>2, <1>5, <1>6 DEF DropRecords
<1>9. \A a \in Accounts : owed[a] >= 0
  <2> SUFFICES ASSUME NEW a \in Accounts
               PROVE  owed[a] >= 0
    OBVIOUS
  <2>1. /\ owed[a] = old.owed[a] - N(a) /\ old.owed[a] \in Int /\ old.owed[a] >= 0
        /\ N(a) \in {0, 1} /\ (N(a) = 1 => old.owed[a] >= 1)
    BY <1>3, <1>4, <1>7
  <2>2. QED
    BY <2>1
<1>10. ASSUME NEW c \in old.can, c \notin got, ~w.client[c].kick
       PROVE  owed[w.client[c].account] >= 1
  <2> DEFINE a == w.client[c].account
  <2>1. /\ c \in Slots /\ w.client[c].status # "free" /\ c \notin old.got
        /\ old.owed[a] >= 1
    BY <1>2, <1>10 DEF Well, Good, Owing, got
  <2>2. a \in Accounts
    BY <2>1 DEF Well, Good, SlotsOK
  <2>3. Given(w, picked, d, a) = {}
    <3> SUFFICES ASSUME NEW k \in Given(w, picked, d, a)
                 PROVE  FALSE
      OBVIOUS
    <3>1. /\ k \in Slots /\ w.client[k].account = a /\ ~w.client[k].kick
          /\ k \in old.can /\ k \in Getters(picked, d)
      BY DEF Given, Getters
    <3>2. w.client[k].status # "free"
      BY <3>1 DEF Well, Good, Owing
    <3>3. k = c
      BY <1>10, <2>1, <3>1, <3>2 DEF OneSession
    <3>4. QED
      BY <1>10, <3>1, <3>3 DEF got
  <2>4. N(a) = 0
    BY <2>3, FS_EmptySet DEF N
  <2> HIDE DEF a
  <2>5. owed[a] = old.owed[a] /\ old.owed[a] \in Int
    BY <1>3, <1>7, <2>2, <2>4
  <2>6. QED
    BY <2>1, <2>5 DEF a
<1>11. QED
  BY <1>8, <1>9, <1>10 DEF e, got

LEMMA PickUpGood ==
    ASSUME NEW w, Well(w), OneSession(w), NEW despawned \in SUBSET Drops(w),
           NEW picked, \A x \in picked : x[1] \in w.entity[x[2]].can \ w.entity[x[2]].got
    PROVE  LET x == PickUp(w, despawned, picked)
           IN  Well(x) /\ x.client = w.client
<1> DEFINE v == RequestDeletion(w, despawned)
           entity == [i \in Ids |-> IF w.entity[i].kind = "drop" THEN Picked(w, picked, i)
                                                                 ELSE w.entity[i]]
           x == PickUp(w, despawned, picked)
<1>1. w \in Worlds
  BY DEF Well, Good
<1>2. \A d, c : c \in Getters(picked, d) => c \in w.entity[d].can \ w.entity[d].got
  BY DEF Getters
<1>3. ASSUME NEW d \in Drops(w)
      PROVE  /\ Picked(w, picked, d) \in DropRecords
             /\ Picked(w, picked, d).can = w.entity[d].can
             /\ \A a \in Accounts : Picked(w, picked, d).owed[a] >= 0
             /\ \A c \in Picked(w, picked, d).can :
                    c \notin Picked(w, picked, d).got /\ ~w.client[c].kick =>
                        Picked(w, picked, d).owed[w.client[c].account] >= 1
  BY <1>2, PickedFields
<1>4. despawned \subseteq Tracked(w) \ Players(w)
  BY <1>1, KindsDiffer
<1>5. /\ Well(v) /\ v.client = w.client /\ v.entity = w.entity
      /\ v.pending = w.pending \cup despawned
      /\ v.deleted = w.deleted /\ v.screen = w.screen
  BY <1>4, RequestGood DEF Well
<1>6. x = [v EXCEPT !.entity = entity]
  BY DEF PickUp, Picked, Given, Getters
<1> HIDE DEF v, x
<1>7. \A i \in Ids : entity[i] = IF i \in Drops(w) THEN Picked(w, picked, i) ELSE w.entity[i]
  BY DEF Drops, OfKind
<1>8. entity \in [Ids -> Entity]
  BY <1>1, <1>3, WorldParts, IsEntity DEF Drops, OfKind
<1> HIDE DEF entity
<1>9. /\ x \in Worlds /\ x.client = v.client /\ x.pending = v.pending
      /\ x.deleted = v.deleted /\ x.screen = v.screen /\ x.entity = entity
  BY <1>5, <1>6, <1>8 DEF Well, Good, Worlds
<1>10. \A i \in Ids : Like(v.entity[i], x.entity[i])
  <2>1. \A d \in Drops(w) : Picked(w, picked, d).kind = "drop" /\ w.entity[d].kind = "drop"
    BY <1>3 DEF DropRecords, Drops, OfKind
  <2>2. QED
    BY <1>5, <1>7, <1>9, <2>1 DEF Like
<1>11. \A f \in Flowers(v) : v.entity[f].dead => x.entity[f].dead
  <2>1. Flowers(v) = Flowers(w) /\ \A f \in Flowers(w) : f \notin Drops(w) /\ f \in Ids
    BY <1>1, <1>5, SameTable, KindsDiffer, WorldParts
  <2>2. QED
    BY <1>5, <1>7, <1>9, <2>1
<1>12. Owing(x)
  <2>1. Drops(x) = Drops(w) /\ \A d \in Drops(w) : d \in Ids
    BY <1>5, <1>10 DEF Drops, OfKind, Like
  <2>2. \A d \in Drops(w) : x.entity[d] = Picked(w, picked, d)
    BY <1>7, <1>9, <2>1
  <2>3. QED
    BY <1>3, <1>5, <1>9, <2>1, <2>2 DEF Well, Good, Owing
<1>13. \A f \in Flowers(v) \ {} : v.entity[f].dead => x.entity[f].dead
  BY <1>11
<1>14. Good(v, Slots, {})
  BY <1>5 DEF Well
<1>15. Good(x, Slots, {})
  BY <1>9, <1>10, <1>12, <1>13, <1>14, LikeGood, SMTT(60)
<1>16. QED
  BY <1>5, <1>9, <1>15 DEF Well, x
-----------------------------------------------------------------------------
(* The tick: petals come back.                                              *)

LEMMA ReloadGood ==
    ASSUME NEW w, Well(w), NEW p \in Players(w), NEW ready
    PROVE  LET x == Reload(w, p, p \in ready)
           IN  Well(x) /\ x.client = w.client /\ Players(x) = Players(w)
<1> DEFINE e == w.entity[p]
           cleared == [w EXCEPT !.entity[p].petal = Null]
           v == IF e.petal # Null /\ ~Alive(w, e.petal) THEN cleared ELSE w
           a == Alloc(v, Petal(e.flower))
           i == NewId(v)
           r == [a EXCEPT !.entity[p].petal = i]
           x == Reload(w, p, p \in ready)
<1>1. \/ x = w
      \/ x = v
      \/ x = r /\ FreeIds(v) # {}
  BY DEF Reload
<1>2. w \in Worlds /\ e.flower \in Hashes
  BY PlayerFields DEF Well, Good
<1>3. Well(cleared) /\ cleared.client = w.client /\ Players(cleared) = Players(w)
  BY PetalGood, Sizes DEF Well
<1>4. Well(v) /\ v.client = w.client /\ Players(v) = Players(w)
  BY <1>3
<1> HIDE DEF v, x, cleared
<1>5. ASSUME FreeIds(v) # {}
      PROVE  Well(r) /\ r.client = w.client /\ Players(r) = Players(w)
  <2> DEFINE q == Petal(e.flower)
  <2>1. q \in PetalRecords /\ q.kind = "petal"
    BY <1>2 DEF Petal, PetalRecords
  <2>2. q \in Entity /\ q # Nothing /\ q.kind \in {"petal", "mob", "drop"} /\ q.kind # "drop"
    BY <2>1, IsEntity DEF Nothing
  <2> HIDE DEF q
  <2>3. Good(v, Slots, {})
    BY <1>4 DEF Well
  <2>4. Well(a)
    BY <1>5, <2>2, <2>3, AllocGood DEF Well, q
  <2>5. Added(v, a, i, q)
    BY <1>5, <2>2, <2>3, GoodFits, AllocKeeps DEF q
  <2>6. a.client = v.client /\ Players(a) = Players(v) /\ i \in Ids
    BY <2>1, <2>5 DEF Added
  <2> HIDE DEF a, i
  <2>7. i \in Hashes /\ p \in Players(a)
    BY <1>4, <2>6, Sizes
  <2>8. Well(r) /\ r.client = a.client /\ Players(r) = Players(a)
    BY <2>4, <2>7, PetalGood DEF Well
  <2>9. QED
    BY <1>4, <2>6, <2>8
<1>6. QED
  BY <1>1, <1>4, <1>5 DEF x

LEMMA ReloadAllGood ==
    ASSUME NEW w, Well(w), NEW ready
    PROVE  LET x == ReloadAll(w, ready)
           IN  Well(x) /\ x.client = w.client
<1> DEFINE n == MaxEntities
           S == OfKind(w, "player")
           X == {v \in Worlds : Well(v) /\ v.client = w.client /\ Players(v) = Players(w)}
           Do(v, i) == IF i \in S THEN Reload(v, i, i \in ready) ELSE v
           g == [k \in 0 .. n - 1 |-> [v \in X |-> Do(v, k + 1)]]
           Is(d) == d = [i \in 0 .. n |-> IF i = 0 THEN w ELSE Do(d[i - 1], i)]
<1>1. n \in Nat /\ w \in X
  BY Sizes DEF Well, Good
<1>2. ASSUME NEW i \in 1 .. n, NEW v \in X
      PROVE  Do(v, i) \in X
  <2>1. i \in S => i \in Players(v)
    BY DEF Players
  <2>2. i \in S => LET x == Reload(v, i, i \in ready)
                   IN  Well(x) /\ x.client = v.client /\ Players(x) = Players(v)
    BY <2>1, ReloadGood
  <2>3. QED
    BY <2>2 DEF Well, Good
<1> HIDE DEF X, Do
<1>3. \E d : Is(d)
  <2>1. \A k \in 0 .. n - 1 : \A v \in X : g[k][v] = Do(v, k + 1)
    OBVIOUS
  <2> HIDE DEF g
  <2>2. \A k \in 0 .. n - 1 : \A v \in X : g[k][v] \in X
    <3>1. \A k \in 0 .. n - 1 : k + 1 \in 1 .. n
      BY <1>1
    <3>2. QED
      BY <1>2, <2>1, <3>1
  <2>3. PICK d : IsLoop(d, n, w, g) /\ \A k \in 0 .. n : d[k] \in X
    BY <1>1, <2>2, LoopInside
  <2>4. \A k \in 0 .. n : k # 0 => g[k - 1][d[k - 1]] = Do(d[k - 1], k)
    <3>1. \A k \in 0 .. n : k # 0 => k - 1 \in 0 .. n - 1 /\ (k - 1) + 1 = k /\ k - 1 \in 0 .. n
      BY <1>1
    <3>2. QED
      BY <2>1, <2>3, <3>1
  <2>5. Is(d)
    BY <2>3, <2>4 DEF IsLoop
  <2>6. QED
    BY <2>5
<1> DEFINE done == CHOOSE d : Is(d)
<1>4. Is(done)
  BY <1>3
<1>5. ReloadAll(w, ready) = done[n]
  BY DEF ReloadAll, ForEach, Do
<1> HIDE DEF done
<1>6. done[n] \in X
  <2>1. done[0] = w /\ \A k \in 0 .. n - 1 : done[k + 1] = Do(done[k], k + 1)
    BY <1>1, <1>4
  <2>2. \A k \in 0 .. n - 1 : done[k] \in X => done[k + 1] \in X
    <3>1. \A k \in 0 .. n - 1 : k + 1 \in 1 .. n
      BY <1>1
    <3>2. QED
      BY <1>2, <2>1, <3>1
  <2>3. QED
    BY <1>1, <2>1, <2>2, StaysInside
<1>7. QED
  BY <1>5, <1>6 DEF X
-----------------------------------------------------------------------------
(* The tick: flowers die and are revived.                                   *)

LEMMA Unsettled ==
    ASSUME NEW told, NEW w, Good(w, told, {})
    PROVE  Good(w, told, Ids)
<1>1. FlowersLinked(w, Ids)
  BY DEF Good, FlowersLinked
<1>2. QED
  BY <1>1 DEF Good

\* The flowers of S, dead or not.
Revive(S, dead, w) ==
    [w EXCEPT !.entity = [i \in Ids |-> IF i \in S THEN [w.entity[i] EXCEPT !.dead = dead]
                                                   ELSE w.entity[i]]]

LEMMA ReviveGood ==
    ASSUME NEW told, NEW w, Good(w, told, Ids), NEW S \in SUBSET Flowers(w),
           NEW dead \in BOOLEAN
    PROVE  LET x == Revive(S, dead, w)
           IN  /\ Good(x, told, Ids) /\ x.client = w.client
               /\ Players(x) = Players(w) /\ Flowers(x) = Flowers(w) /\ Drops(x) = Drops(w)
               /\ Tracked(x) = Tracked(w)
<1> DEFINE entity == [i \in Ids |-> IF i \in S THEN [w.entity[i] EXCEPT !.dead = dead]
                                               ELSE w.entity[i]]
           x == Revive(S, dead, w)
<1>1. w \in Worlds
  BY DEF Good
<1>2. ASSUME NEW i \in S
      PROVE  LET e == [w.entity[i] EXCEPT !.dead = dead]
             IN  e \in FlowerRecords /\ Like(w.entity[i], e)
  <2>1. w.entity[i] \in FlowerRecords
    BY <1>1, FlowerFields
  <2>2. QED
    BY <2>1 DEF FlowerRecords, Like
<1>3. \A i \in Ids : entity[i] \in Entity /\ Like(w.entity[i], entity[i])
  <2>1. \A i \in Ids : w.entity[i] \in Entity /\ Like(w.entity[i], w.entity[i])
    BY <1>1, WorldParts DEF Like
  <2>2. QED
    BY <1>2, <2>1, IsEntity
<1>4. entity \in [Ids -> Entity]
  BY <1>3
<1>5. \A d \in Drops(w) : d \in Ids /\ entity[d] = w.entity[d]
  BY <1>1, KindsDiffer, WorldParts
<1>6. x = [w EXCEPT !.entity = entity]
  BY DEF Revive
<1> HIDE DEF entity, x
<1>7. /\ x \in Worlds /\ x.entity = entity /\ x.client = w.client /\ x.pending = w.pending
      /\ x.deleted = w.deleted /\ x.screen = w.screen
  BY <1>1, <1>4, <1>6 DEF Worlds
<1>8. \A i \in Ids : Like(w.entity[i], x.entity[i])
  BY <1>3, <1>7
<1>9. Owing(x)
  <2>1. Drops(x) = Drops(w)
    BY <1>8 DEF Drops, OfKind, Like
  <2>2. QED
    BY <1>5, <1>7, <2>1 DEF Good, Owing
<1>10. \A f \in Flowers(w) \ Ids : w.entity[f].dead => x.entity[f].dead
  BY <1>1, WorldParts
<1>11. /\ Good(x, told, Ids)
       /\ Players(x) = Players(w) /\ Flowers(x) = Flowers(w) /\ Drops(x) = Drops(w)
       /\ Tracked(x) = Tracked(w)
  BY <1>7, <1>8, <1>9, <1>10, LikeGood, SMTT(60)
<1>12. QED
  BY <1>7, <1>11 DEF x

LEMMA FightGood ==
    ASSUME NEW w, Well(w), NEW hit \in SUBSET (OfKind(w, "petal") \cup OfKind(w, "mob")),
           NEW revived \in SUBSET Flowers(w), NEW fallen \in SUBSET Flowers(w)
    PROVE  LET x == Fight(w, hit, revived, fallen)
           IN  Good(x, Slots, Ids) /\ x.client = w.client
<1> DEFINE v == Revive(revived, FALSE, w)
           Orphans == {q \in OfKind(v, "petal") : ~LivingFlower(v, v.entity[q].owner)}
           u == RequestDeletion(v, hit \cup Orphans)
           x == Revive(fallen, TRUE, u)
<1>1. Good(w, Slots, Ids)
  BY Unsettled DEF Well
<1>2. /\ Good(v, Slots, Ids) /\ v.client = w.client
      /\ Players(v) = Players(w) /\ Flowers(v) = Flowers(w) /\ Tracked(v) = Tracked(w)
  BY <1>1, ReviveGood
<1>3. Fight(w, hit, revived, fallen) = x
  BY DEF Fight, Revive
<1> HIDE DEF v
<1>4. hit \cup Orphans \subseteq Tracked(v) \ Players(v)
  <2>1. \A y : Good(y, Slots, Ids) =>
            \A i \in OfKind(y, "petal") \cup OfKind(y, "mob") : i \in Tracked(y) \ Players(y)
    <3>1. SUFFICES ASSUME NEW y, Good(y, Slots, Ids),
                          NEW i \in OfKind(y, "petal") \cup OfKind(y, "mob")
                   PROVE  i \in Tracked(y) \ Players(y)
      OBVIOUS
    <3>2. y \in Worlds /\ i \in Ids /\ y.entity[i].kind \in {"petal", "mob"}
      BY <3>1 DEF Good, OfKind
    <3>3. QED
      BY <3>2, KindsOf
  <2>2. QED
    BY <1>1, <1>2, <2>1
<1> HIDE DEF Orphans
<1>5. Good(u, Slots, Ids) /\ u.client = v.client /\ u.entity = v.entity
  BY <1>2, <1>4, RequestGood
<1>6. fallen \in SUBSET Flowers(u)
  BY <1>2, <1>5, SameTable
<1> HIDE DEF u
<1>7. Good(x, Slots, Ids) /\ x.client = u.client
  BY <1>5, <1>6, ReviveGood
<1>8. QED
  BY <1>2, <1>3, <1>5, <1>7-----------------------------------------------------------------------------
(* The tick: what was requested is deleted.                                 *)

\* What only looks at the kinds of the entities.
LEMMA SameKinds ==
    ASSUME NEW w \in Worlds, NEW x \in Worlds,
           \A i \in Ids : x.entity[i].kind = w.entity[i].kind
    PROVE  /\ Players(x) = Players(w) /\ Flowers(x) = Flowers(w) /\ Drops(x) = Drops(w)
           /\ Tracked(x) = Tracked(w)
<1>1. \A i \in Ids : i \in Tracked(x) <=> i \in Tracked(w)
  BY KindsOf
<1>2. QED
  BY <1>1 DEF Players, Flowers, Drops, OfKind, Tracked

\* u comes from w when D, what was requested, counts as deleted and the components
\* of the ids of D up to k are freed: a flower whose player is in D is requested
\* in its turn, and a player forgets a flower in D.
Freeing(w, u, k) ==
    LET D == w.pending
    IN  /\ u \in Worlds /\ u.client = w.client /\ u.deleted = D
        /\ SlotsOK(u) /\ ScreensOK(u, Slots) /\ Owing(u)
        /\ D \subseteq Tracked(u) /\ u.pending \subseteq Flowers(w) \ D
        /\ Players(u) = Players(w) /\ Flowers(u) = Flowers(w)
        /\ \A p \in Players(w) :
             /\ u.entity[p].client = w.entity[p].client
             /\ u.entity[p].view = w.entity[p].view
             /\ u.entity[p].strayed = w.entity[p].strayed
             /\ u.entity[p].flower \in Flowers(w) =>
                    u.entity[u.entity[p].flower].owner = p
             /\ u.entity[p].flower \notin Flowers(w) => u.entity[p].flower = Null
             /\ p \in D /\ p <= k /\ u.entity[p].flower \in Flowers(w) \ D =>
                    /\ u.entity[p].flower \in u.pending
                    /\ u.entity[u.entity[p].flower].dead
             /\ p \notin D /\ u.entity[p].flower \in D => u.entity[p].flower > k
        /\ \A f \in Flowers(w) :
             IF u.entity[f].owner \in Tracked(u)
             THEN /\ u.entity[f].owner \in Players(w)
                  /\ u.entity[u.entity[f].owner].flower = f \/ (f \in D /\ f <= k)
             ELSE f \in D

\* An id that is not in D, or of which nothing else knows.
LEMMA FreesNothing ==
    ASSUME NEW w, Good(w, Slots, Ids), NEW i \in Ids, NEW u, Freeing(w, u, i - 1),
           i \in w.pending /\ i \in Players(w) =>
                ~Alive(u, u.entity[i].flower),
           i \in w.pending /\ i \in Flowers(w) =>
                ~Alive(u, u.entity[i].owner)
    PROVE  Freeing(w, u, i)
<1> DEFINE D == w.pending
<1>1. w \in Worlds /\ u \in Worlds /\ Players(u) = Players(w) /\ Flowers(u) = Flowers(w)
      /\ u.deleted = D
  BY DEF Good, Freeing
<1>2. i \in Int /\ \A j \in Ids : j \in Int /\ (j <= i <=> j <= i - 1 \/ j = i)
      /\ (j > i - 1 /\ j # i => j > i)
  BY SizesAssumption DEF Ids
<1>3. /\ Players(w) \subseteq Ids /\ Flowers(w) \subseteq Ids
      /\ D \subseteq Ids /\ Flowers(w) \subseteq Tracked(u) /\ Players(w) \subseteq Tracked(u)
  BY <1>1, WorldParts, KindsDiffer
<1>4. \A h \in Flowers(w) \cup Players(w) : h \notin D => Alive(u, h)
  BY <1>1, <1>3 DEF Alive, Tracked
<1>5. ASSUME NEW p \in Players(w)
      PROVE  /\ p \in D /\ p <= i /\ u.entity[p].flower \in Flowers(w) \ D =>
                    /\ u.entity[p].flower \in u.pending
                    /\ u.entity[u.entity[p].flower].dead
             /\ p \notin D /\ u.entity[p].flower \in D => u.entity[p].flower > i
  <2>1. p \in D /\ p <= i /\ u.entity[p].flower \in Flowers(w) \ D => p <= i - 1
    BY <1>2, <1>3, <1>4
  <2>2. ASSUME p \notin D, u.entity[p].flower \in D
        PROVE  u.entity[p].flower > i
    <3>1. u.entity[p].flower \in Flowers(w)
      BY <1>3, <2>2, Sizes DEF Freeing
    <3>2. u.entity[u.entity[p].flower].owner = p /\ u.entity[p].flower > i - 1
      BY <2>2, <3>1 DEF Freeing
    <3>3. u.entity[p].flower # i
      BY <1>4, <2>2, <3>1, <3>2
    <3>4. QED
      BY <1>2, <1>3, <2>2, <3>2, <3>3
  <2>3. QED
    BY <2>1, <2>2 DEF Freeing
<1>6. \A f \in Flowers(w) : f <= i - 1 => f <= i
  BY <1>2, <1>3
<1>7. QED
  BY <1>5, <1>6 DEF Freeing

\* A player: its flower is requested, and dead.
LEMMA FreesPlayer ==
    ASSUME NEW w, Good(w, Slots, Ids), NEW i \in Ids, NEW u, Freeing(w, u, i - 1),
           i \in w.pending, i \in Players(w), Alive(u, u.entity[i].flower)
    PROVE  Freeing(w, [RequestDeletion(u, {u.entity[i].flower})
                          EXCEPT !.entity[u.entity[i].flower].dead = TRUE], i)
<1> DEFINE D == w.pending
           f == u.entity[i].flower
           e == [u.entity[f] EXCEPT !.dead = TRUE]
           x == [RequestDeletion(u, {f}) EXCEPT !.entity[f].dead = TRUE]
<1>1. w \in Worlds /\ u \in Worlds /\ Players(u) = Players(w) /\ Flowers(u) = Flowers(w)
      /\ u.deleted = D
  BY DEF Good, Freeing
<1>2. f \in Flowers(w) /\ f \notin D /\ f \in Ids
  BY <1>1, Sizes DEF Freeing, Alive
<1>3. u.entity[f] \in FlowerRecords
  BY <1>1, <1>2, FlowerFields
<1>4. /\ e \in FlowerRecords /\ e.dead /\ e.owner = u.entity[f].owner
      /\ e.kind = "flower" /\ u.entity[f].kind = "flower"
  BY <1>3 DEF FlowerRecords
<1>5. e \in Entity /\ e # Nothing
  BY <1>4, IsEntity DEF Nothing
<1>6. x = [u EXCEPT !.pending = u.pending \cup {f}, !.entity = [u.entity EXCEPT ![f] = e]]
  BY <1>1 DEF RequestDeletion, Worlds
<1> HIDE DEF e, x, f
<1>7. /\ x \in Worlds /\ x.client = u.client /\ x.deleted = u.deleted
      /\ x.screen = u.screen /\ x.pending = u.pending \cup {f}
      /\ x.entity = [u.entity EXCEPT ![f] = e]
  BY <1>1, <1>2, <1>5, <1>6 DEF Worlds
<1>8. \A j \in Ids : x.entity[j] = IF j = f THEN e ELSE u.entity[j]
  BY <1>1, <1>7, WorldParts
<1>9. /\ Players(x) = Players(u) /\ Flowers(x) = Flowers(u) /\ Drops(x) = Drops(u)
      /\ Tracked(x) = Tracked(u)
  <2>1. \A j \in Ids : x.entity[j].kind = u.entity[j].kind
    BY <1>4, <1>8
  <2>2. QED
    BY <1>1, <1>7, <2>1, SameKinds
<1>10. \A p \in Players(w) : p # f /\ p \in Ids /\ x.entity[p] = u.entity[p]
  BY <1>1, <1>2, <1>8, KindsDiffer, WorldParts
<1>11. \A g \in Flowers(w) : /\ g \in Ids /\ x.entity[g].owner = u.entity[g].owner
                             /\ u.entity[g].dead => x.entity[g].dead
  BY <1>1, <1>4, <1>8, WorldParts
<1>12. SlotsOK(x) /\ Owing(x) /\ ScreensOK(x, Slots)
  <2>1. \A d \in Drops(u) : x.entity[d] = u.entity[d]
    BY <1>1, <1>2, <1>8, KindsDiffer, WorldParts
  <2>2. \A c \in Slots : u.client[c].player \in Players(w) \cup {Null}
    BY DEF Freeing, Good, ClientsLinked
  <2>3. \A c \in Slots : Told(x, c) => Told(u, c) /\ ViewOf(x, c) = ViewOf(u, c)
    BY <1>7, <1>10, <2>2 DEF Told, ViewOf
  <2>4. ScreensOK(x, Slots)
    BY <1>7, <1>9, <2>3 DEF Freeing, ScreensOK
  <2>5. QED
    BY <1>7, <1>9, <2>1, <2>4 DEF Freeing, SlotsOK, Owing
<1>13. x.entity[f].dead
  BY <1>2, <1>4, <1>8
<1>14. i \in Int /\ \A j \in Ids : j \in Int /\ (j <= i <=> j <= i - 1 \/ j = i)
       /\ (j > i - 1 /\ j # i => j > i)
  BY SizesAssumption DEF Ids
<1>15. ASSUME NEW p \in Players(w)
       PROVE  /\ u.entity[p].flower \in Flowers(w) =>
                    x.entity[u.entity[p].flower].owner = p
              /\ p \in D /\ p <= i /\ u.entity[p].flower \in Flowers(w) \ D =>
                    /\ u.entity[p].flower \in x.pending
                    /\ x.entity[u.entity[p].flower].dead
              /\ p \notin D /\ u.entity[p].flower \in D => u.entity[p].flower > i
  <2>1. u.entity[p].flower \in Flowers(w) => x.entity[u.entity[p].flower].owner = p
    BY <1>11 DEF Freeing
  <2>2. ASSUME p \in D, p <= i, u.entity[p].flower \in Flowers(w) \ D
        PROVE  u.entity[p].flower \in x.pending /\ x.entity[u.entity[p].flower].dead
    <3>1. CASE p = i
      BY <1>7, <1>13, <3>1 DEF f
    <3>2. CASE p # i
      <4>1. p <= i - 1
        BY <1>10, <1>14, <2>2, <3>2
      <4>2. u.entity[p].flower \in u.pending /\ u.entity[u.entity[p].flower].dead
        BY <2>2, <4>1 DEF Freeing
      <4>3. QED
        BY <1>7, <1>11, <2>2, <4>2
    <3>3. QED
      BY <3>1, <3>2
  <2>3. ASSUME p \notin D, u.entity[p].flower \in D
        PROVE  u.entity[p].flower > i
    <3>1. u.entity[p].flower \in Ids /\ u.entity[p].flower > i - 1
      BY <1>1, <2>3, WorldParts DEF Freeing
    <3>2. u.entity[p].flower # i
      <4>1. i \notin Flowers(w)
        BY <1>1, KindsDiffer
      <4>2. i # Null
        BY Sizes
      <4>3. QED
        BY <4>1, <4>2 DEF Freeing
    <3>3. QED
      BY <1>14, <3>1, <3>2
  <2>4. QED
    BY <2>1, <2>2, <2>3
<1>16. ASSUME NEW g \in Flowers(w)
       PROVE  IF x.entity[g].owner \in Tracked(x)
              THEN /\ x.entity[g].owner \in Players(w)
                   /\ x.entity[x.entity[g].owner].flower = g \/ (g \in D /\ g <= i)
              ELSE g \in D
  <2>1. g <= i - 1 => g <= i
    BY <1>11, <1>14
  <2>2. QED
    BY <1>9, <1>10, <1>11, <2>1 DEF Freeing
<1>17. D \subseteq Tracked(x) /\ x.pending \subseteq Flowers(w) \ D
  BY <1>2, <1>7, <1>9 DEF Freeing
<1>18. Freeing(w, x, i)
  BY <1>1, <1>7, <1>9, <1>10, <1>12, <1>15, <1>16, <1>17 DEF Freeing
<1>19. QED
  BY <1>18 DEF x, f
\* A flower of a player that stays: the player forgets it.
LEMMA FreesFlower ==
    ASSUME NEW w, Good(w, Slots, Ids), NEW i \in Ids, NEW u, Freeing(w, u, i - 1),
           i \in w.pending, i \in Flowers(w), Alive(u, u.entity[i].owner)
    PROVE  Freeing(w, [u EXCEPT !.entity[u.entity[i].owner].flower = Null], i)
<1> DEFINE D == w.pending
           q == u.entity[i].owner
           e == [u.entity[q] EXCEPT !.flower = Null]
           x == [u EXCEPT !.entity[q].flower = Null]
<1>1. w \in Worlds /\ u \in Worlds /\ Players(u) = Players(w) /\ Flowers(u) = Flowers(w)
      /\ u.deleted = D
  BY DEF Good, Freeing
<1>2. i \in Int /\ (~(i <= i - 1)) /\ \A j \in Ids : j \in Int
      /\ (j <= i <=> j <= i - 1 \/ j = i) /\ (j > i - 1 /\ j # i => j > i)
  BY SizesAssumption DEF Ids
<1>3. q \in Players(w) /\ q \notin D /\ q \in Ids /\ u.entity[q].flower = i
  BY <1>1, <1>2 DEF Freeing, Alive, Tracked
<1>4. u.entity[q] \in PlayerRecords
  BY <1>1, <1>3, PlayerFields
<1>5. /\ e \in PlayerRecords /\ e.flower = Null /\ e.client = u.entity[q].client
      /\ e.view = u.entity[q].view /\ e.strayed = u.entity[q].strayed
      /\ e.kind = "player" /\ u.entity[q].kind = "player"
  BY <1>4, Sizes DEF PlayerRecords
<1>6. e \in Entity /\ e # Nothing
  BY <1>5, IsEntity DEF Nothing
<1>7. x = [u EXCEPT !.entity = [u.entity EXCEPT ![q] = e]]
  BY <1>1 DEF Worlds
<1> HIDE DEF e, x, q
<1>8. /\ x \in Worlds /\ x.client = u.client /\ x.deleted = u.deleted
      /\ x.screen = u.screen /\ x.pending = u.pending
      /\ x.entity = [u.entity EXCEPT ![q] = e]
  BY <1>1, <1>3, <1>6, <1>7 DEF Worlds
<1>9. \A j \in Ids : x.entity[j] = IF j = q THEN e ELSE u.entity[j]
  BY <1>1, <1>8, WorldParts
<1>10. /\ Players(x) = Players(u) /\ Flowers(x) = Flowers(u) /\ Drops(x) = Drops(u)
       /\ Tracked(x) = Tracked(u)
  <2>1. \A j \in Ids : x.entity[j].kind = u.entity[j].kind
    BY <1>5, <1>9
  <2>2. QED
    BY <1>1, <1>8, <2>1, SameKinds
<1>11. \A p \in Players(w) :
          /\ p \in Ids /\ x.entity[p].client = u.entity[p].client
          /\ x.entity[p].view = u.entity[p].view /\ x.entity[p].strayed = u.entity[p].strayed
          /\ x.entity[p].flower = IF p = q THEN Null ELSE u.entity[p].flower
  BY <1>1, <1>5, <1>9, WorldParts
<1>12. \A g \in Flowers(w) : g \in Ids /\ g # q /\ x.entity[g] = u.entity[g]
  BY <1>1, <1>3, <1>9, WorldParts, KindsDiffer
<1>13. SlotsOK(x) /\ Owing(x) /\ ScreensOK(x, Slots)
  <2>1. \A d \in Drops(u) : x.entity[d] = u.entity[d]
    BY <1>1, <1>3, <1>9, KindsDiffer, WorldParts
  <2>2. \A c \in Slots : u.client[c].player \in Players(w) \cup {Null}
    BY DEF Freeing, Good, ClientsLinked
  <2>3. \A c \in Slots : Told(x, c) => Told(u, c) /\ ViewOf(x, c) = ViewOf(u, c)
    BY <1>8, <1>11, <2>2 DEF Told, ViewOf
  <2>4. ScreensOK(x, Slots)
    BY <1>8, <1>10, <2>3 DEF Freeing, ScreensOK
  <2>5. QED
    BY <1>8, <1>10, <2>1, <2>4 DEF Freeing, SlotsOK, Owing
<1>14. Null \notin Flowers(w) /\ Null \notin D /\ Null \notin Ids
  BY <1>1, Sizes, WorldParts
<1>15. ASSUME NEW p \in Players(w)
       PROVE  /\ x.entity[p].flower \in Flowers(w) => x.entity[x.entity[p].flower].owner = p
              /\ x.entity[p].flower \notin Flowers(w) => x.entity[p].flower = Null
              /\ p \in D /\ p <= i /\ x.entity[p].flower \in Flowers(w) \ D =>
                    /\ x.entity[p].flower \in x.pending
                    /\ x.entity[x.entity[p].flower].dead
              /\ p \notin D /\ x.entity[p].flower \in D => x.entity[p].flower > i
  <2>1. CASE p = q
    BY <1>3, <1>11, <1>14, <2>1
  <2>2. CASE p # q
    <3>1. x.entity[p].flower = u.entity[p].flower
      BY <1>11, <2>2
    <3>2. p # i /\ p \in Ids
      BY <1>1, <1>11, KindsDiffer
    <3>3. p <= i => p <= i - 1
      BY <1>2, <3>2
    <3>4. u.entity[p].flower # i
      <4>1. u.entity[i].owner = q
        BY DEF q
      <4>2. QED
        BY <2>2, <4>1 DEF Freeing
    <3>5. p \notin D /\ u.entity[p].flower \in D => u.entity[p].flower > i
      <4>1. ASSUME p \notin D, u.entity[p].flower \in D
            PROVE  u.entity[p].flower \in Ids /\ u.entity[p].flower > i - 1
        BY <1>1, <4>1, WorldParts DEF Freeing
      <4>2. QED
        BY <1>2, <3>4, <4>1
    <3>6. QED
      BY <1>8, <1>12, <3>1, <3>3, <3>5 DEF Freeing
  <2>3. QED
    BY <2>1, <2>2
<1>16. ASSUME NEW g \in Flowers(w)
       PROVE  IF x.entity[g].owner \in Tracked(x)
              THEN /\ x.entity[g].owner \in Players(w)
                   /\ x.entity[x.entity[g].owner].flower = g \/ (g \in D /\ g <= i)
              ELSE g \in D
  <2>1. (g <= i - 1 => g <= i) /\ (g = i => g \in D /\ g <= i)
    BY <1>2, <1>12
  <2>2. u.entity[g].owner = q /\ u.entity[q].flower = g => g = i
    BY <1>3
  <2>3. x.entity[g].owner = u.entity[g].owner
    BY <1>12
  <2>4. QED
    BY <1>10, <1>11, <2>1, <2>2, <2>3 DEF Freeing
<1>17. D \subseteq Tracked(x) /\ x.pending \subseteq Flowers(w) \ D
  BY <1>8, <1>10 DEF Freeing
<1>18. Freeing(w, x, i)
  BY <1>1, <1>8, <1>10, <1>11, <1>13, <1>15, <1>16, <1>17 DEF Freeing
<1>19. QED
  BY <1>18 DEF x, q

\* A mob: a drop takes a free id.
LEMMA FreesMob ==
    ASSUME NEW w, Good(w, Slots, Ids), NEW i \in Ids, NEW u, Freeing(w, u, i),
           NEW e \in DropRecords, FreeIds(u) # {},
           \A a \in Accounts : e.owed[a] >= 0,
           \A c \in e.can : /\ w.client[c].status # "free"
                            /\ e.owed[w.client[c].account] >= 1
    PROVE  Freeing(w, Alloc(u, e), i)
<1> DEFINE D == w.pending
           n == NewId(u)
           x == Alloc(u, e)
<1>1. w \in Worlds /\ u \in Worlds /\ Players(u) = Players(w) /\ Flowers(u) = Flowers(w)
      /\ u.deleted = D /\ u.client = w.client
  BY DEF Good, Freeing
<1>2. e \in Entity /\ e.kind = "drop" /\ e # Nothing
  BY IsEntity DEF DropRecords, Nothing
<1>3. Fit(u)
  <2>1. \A c \in Slots : u.client[c].player \in Players(w) \cup {Null}
    BY <1>1 DEF Good, ClientsLinked
  <2>2. QED
    BY <1>1, <2>1 DEF Freeing, Fit
<1>4. Added(u, x, n, e) /\ x \in Worlds /\ SlotsOK(x) /\ ScreensOK(x, Slots)
  BY <1>2, <1>3, AllocKeeps
<1> HIDE DEF x, n
<1>5. /\ Players(x) = Players(w) /\ Flowers(x) = Flowers(w) /\ Drops(x) = Drops(u) \cup {n}
      /\ x.client = u.client /\ x.pending = u.pending /\ x.deleted = u.deleted
      /\ x.entity[n] = e /\ Tracked(x) = Tracked(u) \cup {n}
  BY <1>1, <1>2, <1>4 DEF Added
<1>6. Owing(x)
  <2>1. \A d \in Drops(u) : d # n /\ x.entity[d] = u.entity[d]
    BY <1>4 DEF Added
  <2>2. QED
    BY <1>1, <1>5, <2>1 DEF Freeing, Owing
<1>7. ASSUME NEW p \in Players(w)
      PROVE  /\ x.entity[p].client = u.entity[p].client
             /\ x.entity[p].view = u.entity[p].view
             /\ x.entity[p].strayed = u.entity[p].strayed
             /\ x.entity[p].flower = u.entity[p].flower
  BY <1>1, <1>4 DEF Added
<1>8. ASSUME NEW g \in Flowers(w)
      PROVE  /\ x.entity[g].dead = u.entity[g].dead
             /\ u.entity[g].owner \in Tracked(u) =>
                    x.entity[g].owner = u.entity[g].owner /\ x.entity[g].owner \in Tracked(x)
             /\ u.entity[g].owner \notin Tracked(u) => x.entity[g].owner \notin Tracked(x)
  BY <1>1, <1>4, <1>5 DEF Added
<1>9. ASSUME NEW p \in Players(w), u.entity[p].flower \in Flowers(w)
      PROVE  x.entity[u.entity[p].flower].owner = p
  <2>1. u.entity[u.entity[p].flower].owner = p /\ p \in Tracked(u)
    BY <1>1, <1>9, KindsDiffer DEF Freeing
  <2>2. QED
    BY <1>8, <1>9, <2>1
<1>10. \A p \in Players(w) :
         /\ x.entity[p].client = w.entity[p].client
         /\ x.entity[p].view = w.entity[p].view
         /\ x.entity[p].strayed = w.entity[p].strayed
         /\ x.entity[p].flower \in Flowers(w) => x.entity[x.entity[p].flower].owner = p
         /\ x.entity[p].flower \notin Flowers(w) => x.entity[p].flower = Null
         /\ p \in D /\ p <= i /\ x.entity[p].flower \in Flowers(w) \ D =>
                /\ x.entity[p].flower \in x.pending
                /\ x.entity[x.entity[p].flower].dead
         /\ p \notin D /\ x.entity[p].flower \in D => x.entity[p].flower > i
  BY <1>5, <1>7, <1>8, <1>9 DEF Freeing
<1>11. \A g \in Flowers(w) :
         IF x.entity[g].owner \in Tracked(x)
         THEN /\ x.entity[g].owner \in Players(w)
              /\ x.entity[x.entity[g].owner].flower = g \/ (g \in D /\ g <= i)
         ELSE g \in D
  BY <1>7, <1>8 DEF Freeing
<1>12. D \subseteq Tracked(x) /\ x.pending \subseteq Flowers(w) \ D
       /\ x.client = w.client /\ x.deleted = D
  BY <1>5 DEF Freeing
<1> HIDE DEF D
<1>13. QED
  BY <1>4, <1>5, <1>6, <1>10, <1>11, <1>12 DEF Freeing, x, D
\* One id, whatever it is.
LEMMA FreesOne ==
    ASSUME NEW w, Good(w, Slots, Ids), NEW i \in Ids, NEW u, Freeing(w, u, i - 1),
           NEW loot
    PROVE  Freeing(w, IF i \in w.pending THEN FreeComponents(u, i, loot) ELSE u, i)
<1> DEFINE Members == {c \in Slots : u.client[c].inSquad}
           Owed(a) == IF \E c \in Members : u.client[c].account = a THEN 1 ELSE 0
           owed == [a \in Accounts |-> Owed(a)]
           e == Drop(Members, owed)
           x == FreeComponents(u, i, loot)
           dies == [RequestDeletion(u, {u.entity[i].flower})
                        EXCEPT !.entity[u.entity[i].flower].dead = TRUE]
           forgets == [u EXCEPT !.entity[u.entity[i].owner].flower = Null]
           leaves == Alloc(u, e)
<1>1. w \in Worlds /\ u \in Worlds /\ Players(u) = Players(w) /\ Flowers(u) = Flowers(w)
      /\ u.client = w.client
  BY DEF Good, Freeing
<1>2. /\ i \in Players(w) <=> u.entity[i].kind = "player"
      /\ i \in Flowers(w) <=> u.entity[i].kind = "flower"
  BY <1>1, KindsOf
<1>3. \/ /\ u.entity[i].kind = "player" /\ Alive(u, u.entity[i].flower)
         /\ x = dies
      \/ /\ u.entity[i].kind = "flower" /\ Alive(u, u.entity[i].owner)
         /\ x = forgets
      \/ /\ u.entity[i].kind = "mob" /\ FreeIds(u) # {} /\ x = leaves
      \/ /\ ~(u.entity[i].kind = "player" /\ Alive(u, u.entity[i].flower))
         /\ ~(u.entity[i].kind = "flower" /\ Alive(u, u.entity[i].owner))
         /\ x = u
  <2> HIDE DEF dies, forgets, leaves
  <2>1. CASE u.entity[i].kind = "player" /\ Alive(u, u.entity[i].flower)
    BY <2>1 DEF FreeComponents, dies
  <2>2. CASE u.entity[i].kind = "flower" /\ Alive(u, u.entity[i].owner)
    BY <2>2 DEF FreeComponents, forgets
  <2>3. CASE u.entity[i].kind = "mob" /\ i \in loot /\ FreeIds(u) # {}
    BY <2>3 DEF FreeComponents, leaves
  <2>4. CASE /\ ~(u.entity[i].kind = "player" /\ Alive(u, u.entity[i].flower))
             /\ ~(u.entity[i].kind = "flower" /\ Alive(u, u.entity[i].owner))
             /\ ~(u.entity[i].kind = "mob" /\ i \in loot /\ FreeIds(u) # {})
    <3>1. x = u
      BY <2>4 DEF FreeComponents
    <3>2. QED
      BY <2>4, <3>1
  <2>5. QED
    BY <2>1, <2>2, <2>3, <2>4
<1>4. /\ e \in DropRecords /\ \A a \in Accounts : e.owed[a] >= 0
      /\ \A c \in e.can : /\ w.client[c].status # "free"
                          /\ e.owed[w.client[c].account] >= 1
  <2>1. owed \in [Accounts -> Int] /\ \A a \in Accounts : owed[a] = Owed(a)
    OBVIOUS
  <2>2. \A a \in Accounts : owed[a] >= 0
    OBVIOUS
  <2>3. ASSUME NEW c \in Members
        PROVE  w.client[c].status # "free" /\ owed[w.client[c].account] >= 1
    <3>1. c \in Slots /\ w.client[c].inSquad
      BY <1>1, <2>3
    <3>2. ~FreeClient.inSquad
      BY DEF FreeClient
    <3>3. w.client[c].status # "free" /\ w.client[c].account \in Accounts
      BY <3>1, <3>2 DEF Good, SlotsOK
    <3>4. Owed(w.client[c].account) = 1
      BY <1>1, <2>3
    <3>5. QED
      BY <2>1, <3>3, <3>4
  <2>4. Members \in SUBSET Slots
    OBVIOUS
  <2> HIDE DEF Members, owed
  <2>5. e \in DropRecords /\ e.can = Members /\ e.owed = owed
    BY <2>1, <2>4 DEF Drop, DropRecords
  <2>6. QED
    BY <2>2, <2>3, <2>5
<1> HIDE DEF x, e
<1>5. ASSUME i \in w.pending
      PROVE  Freeing(w, x, i)
  <2>1. CASE /\ u.entity[i].kind = "player" /\ Alive(u, u.entity[i].flower)
             /\ x = dies
    BY <1>2, <1>5, <2>1, FreesPlayer
  <2>2. CASE /\ u.entity[i].kind = "flower" /\ Alive(u, u.entity[i].owner)
             /\ x = forgets
    BY <1>2, <1>5, <2>2, FreesFlower
  <2>3. CASE u.entity[i].kind = "mob" /\ FreeIds(u) # {} /\ x = leaves
    <3>1. i \notin Players(w) /\ i \notin Flowers(w)
      BY <1>2, <2>3
    <3>2. Freeing(w, u, i)
      BY <3>1, FreesNothing
    <3>3. QED
      BY <1>4, <2>3, <3>2, FreesMob
  <2>4. CASE /\ ~(u.entity[i].kind = "player" /\ Alive(u, u.entity[i].flower))
             /\ ~(u.entity[i].kind = "flower" /\ Alive(u, u.entity[i].owner))
             /\ x = u
    BY <1>2, <2>4, FreesNothing
  <2>5. QED
    BY <1>3, <2>1, <2>2, <2>3, <2>4
<1>6. i \notin w.pending => Freeing(w, u, i)
  BY FreesNothing
<1>7. QED
  BY <1>5, <1>6 DEF x

\* What was requested, before anything of it is freed.
Requested(w) == [w EXCEPT !.deleted = w.pending, !.pending = {}]

\* Nothing is freed yet.
LEMMA FreeingStarts ==
    ASSUME NEW w, Good(w, Slots, Ids)
    PROVE  Freeing(w, Requested(w), 0)
<1> DEFINE v == Requested(w)
<1>1. w \in Worlds
  BY DEF Good
<1>2. /\ v \in Worlds /\ v.client = w.client /\ v.entity = w.entity
      /\ v.deleted = w.pending /\ v.pending = {} /\ v.screen = w.screen
  BY <1>1 DEF Requested, Worlds
<1> HIDE DEF v
<1>3. /\ Players(v) = Players(w) /\ Flowers(v) = Flowers(w) /\ Drops(v) = Drops(w)
      /\ Tracked(v) = Tracked(w)
  BY <1>2, SameTable
<1>4. \A i \in Ids : i > 0 /\ ~(i <= 0)
  BY SizesAssumption DEF Ids
<1>5. Players(w) \subseteq Ids /\ w.pending \subseteq Ids
  BY <1>1, WorldParts
<1>6. SlotsOK(v) /\ Owing(v)
  BY <1>2, <1>3 DEF Good, SlotsOK, Owing
<1>7. ScreensOK(v, Slots)
  <2>1. \A c \in Slots : (Told(v, c) <=> Told(w, c)) /\ ViewOf(v, c) = ViewOf(w, c)
    BY <1>2 DEF Told, ViewOf
  <2>2. QED
    BY <1>2, <1>3, <2>1 DEF Good, ScreensOK
<1>8. \A p \in Players(w) :
        /\ w.entity[p].flower \in Flowers(w) => w.entity[w.entity[p].flower].owner = p
        /\ w.entity[p].flower \notin Flowers(w) => w.entity[p].flower = Null
        /\ ~(p <= 0)
        /\ w.entity[p].flower \in w.pending => w.entity[p].flower > 0
  BY <1>4, <1>5 DEF Good, FlowersLinked
<1>9. \A f \in Flowers(w) :
        IF w.entity[f].owner \in Tracked(w)
        THEN /\ w.entity[f].owner \in Players(w)
             /\ w.entity[w.entity[f].owner].flower = f
        ELSE f \in w.pending
  BY DEF Good, FlowersLinked
<1>10. w.pending \subseteq Tracked(w)
  BY DEF Good, IdsOK
<1>11. Freeing(w, v, 0)
  BY <1>2, <1>3, <1>6, <1>7, <1>8, <1>9, <1>10 DEF Freeing
<1>12. QED
  BY <1>11 DEF v

\* ... and when the components of all that was requested are freed.
Freed(w, loot) ==
    ForEach(w.pending, LAMBDA u, i : FreeComponents(u, i, loot), Requested(w))

\* The loop goes through all ids.
LEMMA FreeingAll ==
    ASSUME NEW w, Good(w, Slots, Ids), NEW loot
    PROVE  Freeing(w, Freed(w, loot), MaxEntities)
<1> DEFINE n == MaxEntities
           v == Requested(w)
           I == [k \in 0 .. n |-> {u \in Worlds : Freeing(w, u, k)}]
           Do(u, i) == IF i \in w.pending THEN FreeComponents(u, i, loot) ELSE u
           g == [k \in 0 .. n - 1 |-> [u \in I[k] |-> Do(u, k + 1)]]
           Is(d) == d = [i \in 0 .. n |-> IF i = 0 THEN v ELSE Do(d[i - 1], i)]
<1>1. n \in Nat /\ Ids = 1 .. n
  BY Sizes DEF Ids
<1>2. \A k \in 0 .. n : \A u : u \in I[k] <=> Freeing(w, u, k)
  BY DEF Freeing
<1> HIDE DEF I
<1>3. v \in I[0]
  BY <1>1, <1>2, FreeingStarts
<1>4. ASSUME NEW k \in 0 .. n - 1, NEW u \in I[k]
      PROVE  Do(u, k + 1) \in I[k + 1]
  <2> DEFINE i == k + 1
  <2>1. i \in Ids /\ i - 1 = k /\ i \in 0 .. n /\ k \in 0 .. n
    BY <1>1
  <2>2. Freeing(w, u, k)
    BY <1>2, <2>1
  <2> HIDE DEF i
  <2>3. Freeing(w, u, i - 1)
    BY <2>1, <2>2
  <2>4. Freeing(w, Do(u, i), i)
    BY <2>1, <2>3, FreesOne
  <2>5. Do(u, i) \in I[i]
    BY <1>2, <2>1, <2>4
  <2>6. QED
    BY <2>5 DEF i
<1> HIDE DEF v, Do
<1>5. \E d : Is(d)
  <2>1. \A k \in 0 .. n - 1 : \A u \in I[k] : g[k][u] = Do(u, k + 1)
    OBVIOUS
  <2> HIDE DEF g
  <2>2. \A k \in 0 .. n - 1 : \A u \in I[k] : g[k][u] \in I[k + 1]
    BY <1>4, <2>1
  <2>3. PICK d : IsLoop(d, n, v, g) /\ \A k \in 0 .. n : d[k] \in I[k]
    BY <1>1, <1>3, <2>2, LoopExists
  <2>4. \A k \in 0 .. n : k # 0 => g[k - 1][d[k - 1]] = Do(d[k - 1], k)
    <3>1. \A k \in 0 .. n : k # 0 => k - 1 \in 0 .. n - 1 /\ (k - 1) + 1 = k /\ k - 1 \in 0 .. n
      BY <1>1
    <3>2. QED
      BY <2>1, <2>3, <3>1
  <2>5. Is(d)
    BY <2>3, <2>4 DEF IsLoop
  <2>6. QED
    BY <2>5
<1> DEFINE done == CHOOSE d : Is(d)
<1>6. Is(done)
  BY <1>5
<1>7. Freed(w, loot) = done[n]
  BY DEF Freed, ForEach, Do, v
<1> HIDE DEF done
<1>8. done[n] \in I[n]
  <2>1. done[0] = v /\ \A k \in 0 .. n - 1 : done[k + 1] = Do(done[k], k + 1)
    BY <1>1, <1>6
  <2>2. done[0] \in I[0] /\ \A k \in 0 .. n - 1 : done[k] \in I[k] => done[k + 1] \in I[k + 1]
    BY <1>3, <1>4, <2>1
  <2>3. \A k \in 0 .. n : done[k] \in I[k]
    BY <1>1, <2>2, Stays
  <2>4. QED
    BY <1>1, <2>3
<1>9. Freeing(w, done[n], n)
  BY <1>1, <1>2, <1>8
<1>10. QED
  BY <1>7, <1>9 DEF v
\* u without the entities of D.
Removed(u, D) ==
    [u EXCEPT !.entity = [i \in Ids |-> IF i \in D THEN Nothing ELSE u.entity[i]]]

\* The flower of a player that is deleted is in its turn requested, and dead; what
\* was shown of what is deleted is not gone from the screens yet.
LEMMA CleanupGood ==
    ASSUME NEW w, Good(w, Slots, Ids), NEW loot
    PROVE  LET x == Cleanup(w, loot)
           IN  Good(x, {}, {}) /\ x.client = w.client
<1> DEFINE D == w.pending
           u == Freed(w, loot)
           x == Removed(u, D)
<1>1. Freeing(w, u, MaxEntities)
  BY FreeingAll
<1>2. Cleanup(w, loot) = x
  BY DEF Cleanup, Freed, Requested, Removed
<1> HIDE DEF u
<1>3. /\ w \in Worlds /\ u \in Worlds /\ Players(u) = Players(w) /\ Flowers(u) = Flowers(w)
      /\ u.deleted = D /\ u.client = w.client
  BY <1>1 DEF Good, Freeing
<1>4. /\ x \in Worlds /\ x.client = w.client /\ x.pending = u.pending /\ x.deleted = D
      /\ x.screen = u.screen
      /\ \A i \in Ids : x.entity[i] = IF i \in D THEN Nothing ELSE u.entity[i]
  <2> DEFINE entity == [i \in Ids |-> IF i \in D THEN Nothing ELSE u.entity[i]]
  <2>1. entity \in [Ids -> Entity]
    BY <1>3, WorldParts, IsEntity
  <2>2. \A i \in Ids : entity[i] = IF i \in D THEN Nothing ELSE u.entity[i]
    OBVIOUS
  <2>3. x = [u EXCEPT !.entity = entity]
    BY DEF Removed
  <2> HIDE DEF entity, x
  <2>4. x \in Worlds /\ x.entity = entity /\ x.client = u.client /\ x.pending = u.pending
        /\ x.deleted = u.deleted /\ x.screen = u.screen
    BY <1>3, <2>1, <2>3 DEF Worlds
  <2>5. QED
    BY <1>3, <2>2, <2>4
<1> HIDE DEF x
<1>5. /\ Players(x) = Players(w) \ D /\ Flowers(x) = Flowers(w) \ D
      /\ Drops(x) = Drops(u) \ D /\ Tracked(x) = Tracked(u) \ D
  <2>1. Nothing.kind = "nothing"
    BY DEF Nothing
  <2>2. \A kind \in {"player", "flower", "drop"} : OfKind(x, kind) = OfKind(u, kind) \ D
    BY <1>4, <2>1 DEF OfKind
  <2>3. Tracked(x) = Tracked(u) \ D
    BY <1>4 DEF Tracked
  <2>4. QED
    BY <1>3, <2>2, <2>3 DEF Players, Flowers, Drops
<1>6. \A i \in Ids \ D : x.entity[i] = u.entity[i]
  BY <1>4
<1>7. /\ Players(w) \subseteq Ids /\ Flowers(w) \subseteq Ids /\ Drops(u) \subseteq Ids
      /\ Players(w) \cap Flowers(w) = {}
      /\ Players(w) \subseteq Tracked(u) /\ Flowers(w) \subseteq Tracked(u)
  BY <1>3, WorldParts, KindsDiffer
<1>8. SlotsOK(x)
  BY <1>1, <1>3, <1>4 DEF Freeing, SlotsOK
<1>9. ClientsLinked(x)
  <2>1. ASSUME NEW c \in Slots, w.client[c].player # Null
        PROVE  /\ w.client[c].player \in Players(w) \ D
               /\ x.entity[w.client[c].player].client = c
    BY <1>1, <1>6, <1>7, <2>1 DEF Good, ClientsLinked, Freeing
  <2>2. \A p \in Players(w) \ D : w.client[x.entity[p].client].player = p
    BY <1>1, <1>6, <1>7 DEF Good, ClientsLinked, Freeing
  <2>3. x.pending \subseteq Flowers(w)
    BY <1>1, <1>4 DEF Freeing
  <2>4. QED
    BY <1>4, <1>5, <1>7, <2>1, <2>2, <2>3 DEF ClientsLinked
<1>10. FlowersLinked(x, {})
  <2>1. \A i \in Ids : i <= MaxEntities /\ ~(i > MaxEntities)
    BY SizesAssumption DEF Ids
  <2>2. ASSUME NEW p \in Players(w) \ D
        PROVE  /\ x.entity[p].flower \in Flowers(x) => x.entity[x.entity[p].flower].owner = p
               /\ x.entity[p].flower \notin Flowers(x) => x.entity[p].flower = Null
    <3>1. x.entity[p].flower = u.entity[p].flower
      BY <1>6, <1>7
    <3>2. u.entity[p].flower \in Flowers(w) => u.entity[p].flower \notin D
      BY <1>1, <1>7, <2>1 DEF Freeing
    <3>3. u.entity[p].flower \in Flowers(w) => u.entity[u.entity[p].flower].owner = p
      BY <1>1 DEF Freeing
    <3>4. u.entity[p].flower \notin Flowers(w) => u.entity[p].flower = Null
      BY <1>1 DEF Freeing
    <3>5. QED
      BY <1>5, <1>6, <1>7, <3>1, <3>2, <3>3, <3>4
  <2>3. ASSUME NEW f \in Flowers(w) \ D
        PROVE  IF x.entity[f].owner \in Tracked(x)
               THEN /\ x.entity[f].owner \in Players(x)
                    /\ x.entity[x.entity[f].owner].flower = f
               ELSE f \in x.pending /\ x.entity[f].dead
    <3> DEFINE o == u.entity[f].owner
    <3>1. x.entity[f] = u.entity[f]
      BY <1>6, <1>7
    <3>2. o \in Tracked(u) /\ o \in Players(w) /\ u.entity[o].flower = f
      BY <1>1 DEF Freeing
    <3>3. CASE o \notin D
      BY <1>5, <1>6, <1>7, <3>1, <3>2, <3>3
    <3>4. CASE o \in D
      <4>1. o <= MaxEntities
        BY <1>7, <2>1, <3>2
      <4>2. f \in u.pending /\ u.entity[f].dead
        BY <1>1, <3>2, <3>4, <4>1 DEF Freeing
      <4>3. o \notin Tracked(x)
        BY <1>5, <3>4
      <4>4. QED
        BY <1>4, <3>1, <4>2, <4>3
    <3>5. QED
      BY <3>3, <3>4
  <2>4. QED
    BY <1>5, <2>2, <2>3 DEF FlowersLinked
<1>11. IdsOK(x)
  BY <1>1, <1>4, <1>5, <1>7 DEF IdsOK, Freeing
<1>12. Owing(x)
  BY <1>1, <1>3, <1>4, <1>5, <1>6, <1>7 DEF Freeing, Owing
<1>13. ScreensOK(x, {})
  <2>1. ASSUME NEW c \in Slots, Told(x, c)
        PROVE  Told(u, c) /\ ViewOf(x, c) = ViewOf(u, c)
    <3>1. w.client[c].player \in Players(w) \ D
      BY <1>4, <2>1 DEF Told, Good, ClientsLinked
    <3>2. x.entity[w.client[c].player] = u.entity[w.client[c].player]
      BY <1>6, <1>7, <3>1
    <3>3. QED
      BY <1>3, <1>4, <2>1, <3>2 DEF Told, ViewOf
  <2>2. QED
    BY <1>1, <1>3, <1>4, <2>1 DEF Freeing, ScreensOK
<1>14. QED
  BY <1>2, <1>4, <1>8, <1>9, <1>10, <1>11, <1>12, <1>13 DEF Good-----------------------------------------------------------------------------
(* The tick as a whole.                                                     *)

LEMMA SpawnGood ==
    ASSUME NEW risen, NEW w, Good(w, Slots, risen), FreeIds(w) # {}
    PROVE  Good(Alloc(w, Mob), Slots, risen) /\ Alloc(w, Mob).client = w.client
<1>1. w \in Worlds /\ Mob \in Entity /\ Mob # Nothing
  BY IsEntity DEF Good, Mob, Nothing
<1>2. Alloc(w, Mob).client = w.client
  BY <1>1, AllocParts
<1>3. Mob.kind \in {"petal", "mob", "drop"} /\ Mob.kind # "drop"
  BY DEF Mob
<1>4. QED
  BY <1>1, <1>2, <1>3, AllocGood

LEMMA SimulationTickGood ==
    ASSUME Well(world), OneSession(world), SimulationTick
    PROVE  Good(world', {}, {}) /\ world'.client = world.client
<1>1. PICK despawned, picked, ready :
        /\ despawned \in SUBSET OfKind(world, "drop")
        /\ picked \in SUBSET Reachable(world, OfKind(world, "drop") \ despawned)
        /\ LET v == ReloadAll(PickUp(world, despawned, picked), ready)
               living == {f \in OfKind(v, "flower") : LivingFlower(v, f)}
           IN  \E hit \in SUBSET (OfKind(v, "petal") \cup OfKind(v, "mob")) :
               \E revived \in SUBSET (IF living = {} THEN {} ELSE OfKind(v, "flower") \ living) :
               \E fallen \in SUBSET living :
                 LET u == Fight(v, hit, revived, fallen)
                 IN  \E spawned \in {u} \cup (IF FreeIds(u) = {} THEN {} ELSE {Alloc(u, Mob)}) :
                     \E loot \in SUBSET (OfKind(spawned, "mob") \cap spawned.pending) :
                         world' = Cleanup(spawned, loot)
  BY DEF SimulationTick
<1> DEFINE got == PickUp(world, despawned, picked)
           v == ReloadAll(got, ready)
           living == {f \in OfKind(v, "flower") : LivingFlower(v, f)}
<1>2. Well(got) /\ got.client = world.client
  <2>1. \A x \in picked : x[1] \in world.entity[x[2]].can \ world.entity[x[2]].got
    BY <1>1 DEF Reachable
  <2>2. QED
    BY <1>1, <2>1, PickUpGood DEF Drops
<1> HIDE DEF got
<1>3. Well(v) /\ v.client = world.client
  BY <1>2, ReloadAllGood
<1>4. PICK hit \in SUBSET (OfKind(v, "petal") \cup OfKind(v, "mob")),
           revived \in SUBSET (IF living = {} THEN {} ELSE OfKind(v, "flower") \ living),
           fallen \in SUBSET living :
        LET u == Fight(v, hit, revived, fallen)
        IN  \E spawned \in {u} \cup (IF FreeIds(u) = {} THEN {} ELSE {Alloc(u, Mob)}) :
            \E loot \in SUBSET (OfKind(spawned, "mob") \cap spawned.pending) :
                world' = Cleanup(spawned, loot)
  BY <1>1 DEF got
<1>5. revived \in SUBSET Flowers(v) /\ fallen \in SUBSET Flowers(v)
  BY DEF Flowers
<1> HIDE DEF v, living
<1> DEFINE u == Fight(v, hit, revived, fallen)
<1>6. Good(u, Slots, Ids) /\ u.client = world.client
  BY <1>3, <1>5, FightGood
<1>7. PICK spawned \in {u} \cup (IF FreeIds(u) = {} THEN {} ELSE {Alloc(u, Mob)}) :
        \E loot : world' = Cleanup(spawned, loot)
  BY <1>4
<1> HIDE DEF u
<1>8. Good(spawned, Slots, Ids) /\ spawned.client = world.client
  BY <1>6, SpawnGood
<1>9. QED
  BY <1>7, <1>8, CleanupGood

-----------------------------------------------------------------------------
(* The turns of the clients.                                                *)

\* After a turn, what its client shows is there.
LEMMA MoreTold ==
    ASSUME NEW told, NEW risen, NEW w, Good(w, told, risen), NEW c \in Slots,
           Told(w, c) => ViewOf(w, c) \subseteq Tracked(w)
    PROVE  Good(w, told \cup {c}, risen)
<1>1. ScreensOK(w, told \cup {c})
  BY DEF Good, ScreensOK
<1>2. QED
  BY <1>1 DEF Good

\* The squad actions of a client are heard again.
LEMMA ReadyGood ==
    ASSUME NEW told, NEW risen, NEW w, Good(w, told, risen), NEW c \in Slots
    PROVE  LET x == Ready(w, c)
           IN  /\ Good(x, told, risen) /\ NoNewSession(w, x)
               /\ x.client[c].status = w.client[c].status
               /\ x.client[c].inSquad = w.client[c].inSquad
               /\ x.entity = w.entity
<1>1. CASE w.client[c].status = "free"
  <2>1. w \in Worlds /\ w.client[c] = FreeClient
    BY <1>1 DEF Good, SlotsOK
  <2> DEFINE k == w.client[c]
  <2>2. [k EXCEPT !.wait = FALSE] = k
    <3>1. k \in ClientRecords
      BY <2>1, ClientFields
    <3>2. k.wait = FALSE
      BY <2>1 DEF FreeClient
    <3> HIDE DEF k
    <3>3. QED
      BY <3>1, <3>2 DEF ClientRecords
  <2>3. Ready(w, c) = [w EXCEPT !.client = [w.client EXCEPT ![c] = [k EXCEPT !.wait = FALSE]]]
    BY <2>1 DEF Ready, Worlds
  <2>4. [w.client EXCEPT ![c] = [k EXCEPT !.wait = FALSE]] = w.client
    <3>1. [w.client EXCEPT ![c] = k] = w.client
      BY <2>1, WorldParts
    <3> HIDE DEF k
    <3>2. QED
      BY <2>2, <3>1
  <2>5. Ready(w, c) = w
    BY <2>1, <2>3, <2>4 DEF Worlds
  <2>6. QED
    BY <2>5, SameClients
<1>2. CASE w.client[c].status # "free"
  <2> DEFINE x == [w EXCEPT !.client[c].wait = FALSE]
  <2>1. Good(x, told, risen) /\ Marked(w, x, c)
    BY <1>2, Marks
  <2>2. Ready(w, c) = x
    BY DEF Ready
  <2> HIDE DEF x
  <2>3. QED
    BY <2>1, <2>2 DEF Marked
<1>3. QED
  BY <1>1, <1>2

\* A member is told what there is.
LEMMA TellGood ==
    ASSUME NEW told, NEW risen, NEW w, Good(w, told, risen), NEW c \in Slots,
           w.client[c].status # "free", w.client[c].inSquad, w.client[c].player # Null,
           NEW seen \in SUBSET Tracked(w)
    PROVE  LET x == Broadcast(w, c, seen)
           IN  Good(x, told \cup {c}, risen) /\ x.client = w.client
<1> DEFINE p == w.client[c].player
           e == w.entity[p]
           old == e.view
           new == View(w, p, seen)
           Update1(i, shown) == CASE i \in new \ old -> "this"
                                  [] i \in old \ new -> "nothing"
                                  [] OTHER -> shown
           shown == [i \in Ids |-> Update1(i, w.screen[c].shown[i])]
           s == [ready |-> TRUE, shown |-> shown]
           n == [e EXCEPT !.view = new]
           x == Broadcast(w, c, seen)
<1>1. w \in Worlds
  BY DEF Good
<1>2. p \in Players(w) /\ p \in Tracked(w) /\ p \in Ids /\ e \in PlayerRecords
  BY <1>1, PlayerFields, KindsDiffer DEF Good, ClientsLinked
<1>3. new \subseteq Tracked(w) /\ new \subseteq Ids
  BY <1>1, <1>2, WorldParts DEF View, Alive, Tracked, OfKind
<1>4. x = [w EXCEPT !.entity = [w.entity EXCEPT ![p] = n], !.screen = [w.screen EXCEPT ![c] = s]]
  BY <1>1 DEF Broadcast, Worlds
<1>5. \A i \in Ids : /\ i \in new \ old => shown[i] = "this"
                     /\ i \in old \ new => shown[i] = "nothing"
                     /\ i \notin new \ old /\ i \notin old \ new =>
                            shown[i] = w.screen[c].shown[i]
  OBVIOUS
<1>6. shown \in [Ids -> {"nothing", "this", "other"}]
  <2>1. \A i \in Ids : w.screen[c].shown[i] \in {"nothing", "this", "other"}
    BY <1>1, WorldParts DEF ScreenRecords
  <2>2. QED
    BY <2>1
<1> HIDE DEF shown, Update1, new
<1>7. s \in ScreenRecords /\ s.ready /\ s.shown = shown
  BY <1>6 DEF ScreenRecords
<1>8. /\ n \in PlayerRecords /\ n.client = e.client /\ n.flower = e.flower
      /\ n.strayed = e.strayed /\ n.view = new /\ n.kind = "player" /\ e.kind = "player"
  BY <1>2, <1>3 DEF PlayerRecords
<1>9. n \in Entity
  BY <1>8, IsEntity
<1> HIDE DEF n, s, x, e, p
<1>10. /\ x \in Worlds /\ x.client = w.client /\ x.pending = w.pending
       /\ x.deleted = w.deleted
       /\ \A i \in Ids : x.entity[i] = IF i = p THEN n ELSE w.entity[i]
       /\ \A j \in Slots : x.screen[j] = IF j = c THEN s ELSE w.screen[j]
  <2>1. x.entity = [w.entity EXCEPT ![p] = n] /\ x.screen = [w.screen EXCEPT ![c] = s]
        /\ x \in Worlds /\ x.client = w.client /\ x.pending = w.pending
        /\ x.deleted = w.deleted
    BY <1>1, <1>2, <1>4, <1>7, <1>9 DEF Worlds
  <2>2. QED
    BY <1>1, <2>1, WorldParts
<1>11. w.entity[p] = e /\ w.client[c].player = p
  BY DEF e, p
<1>12. /\ Players(x) = Players(w) /\ Flowers(x) = Flowers(w) /\ Drops(x) = Drops(w)
       /\ Tracked(x) = Tracked(w)
  <2>1. \A i \in Ids : x.entity[i].kind = w.entity[i].kind
    BY <1>8, <1>10, <1>11
  <2>2. QED
    BY <1>1, <1>10, <2>1, SameKinds
<1>13. \A q \in Players(w) :
         /\ x.entity[q].client = w.entity[q].client /\ x.entity[q].flower = w.entity[q].flower
         /\ x.entity[q].strayed = w.entity[q].strayed
         /\ q # p => x.entity[q] = w.entity[q]
  BY <1>1, <1>8, <1>10, <1>11, WorldParts
<1>14. \A i \in Flowers(w) \cup Drops(w) : x.entity[i] = w.entity[i]
  BY <1>1, <1>2, <1>10, WorldParts, KindsDiffer
<1>15. SlotsOK(x) /\ IdsOK(x) /\ Owing(x)
  BY <1>7, <1>10, <1>12, <1>14 DEF Good, SlotsOK, IdsOK, Owing
<1>16. ClientsLinked(x) /\ FlowersLinked(x, risen)
  <2>1. ClientsLinked(x)
    BY <1>10, <1>12, <1>13 DEF Good, ClientsLinked
  <2>2. FlowersLinked(x, risen)
    BY <1>10, <1>12, <1>13, <1>14 DEF Good, FlowersLinked
  <2>3. QED
    BY <2>1, <2>2
<1>17. ScreensOK(x, told \cup {c})
  <2>1. ASSUME NEW j \in Slots, j # c, Told(x, j)
        PROVE  Told(w, j) /\ ViewOf(x, j) = ViewOf(w, j)
    <3>1. w.client[j].player \in Players(w) /\ w.client[j].player # p
      BY <1>10, <1>11, <2>1 DEF Told, Good, ClientsLinked
    <3>2. QED
      BY <1>10, <1>13, <2>1, <3>1 DEF Told, ViewOf
  <2>2. ASSUME Told(x, c)
        PROVE  /\ ViewOf(x, c) = new
               /\ \A i \in Ids : s.shown[i] = IF i \in new THEN "this" ELSE "nothing"
    <3>1. Told(w, c) /\ ViewOf(x, c) = new /\ ViewOf(w, c) = old
      BY <1>2, <1>8, <1>10, <1>11, <1>13, <2>2 DEF Told, ViewOf
    <3>2. \A i \in Ids : w.screen[c].shown[i] = IF i \in old THEN "this" ELSE "nothing"
      BY <3>1 DEF Good, ScreensOK
    <3> HIDE DEF old
    <3>3. QED
      BY <1>5, <1>7, <3>1, <3>2
  <2>3. QED
    BY <1>3, <1>10, <1>12, <2>1, <2>2 DEF Good, ScreensOK
<1>18. QED
  BY <1>10, <1>15, <1>16, <1>17 DEF Good, x
LEMMA TurnPassesGood ==
    ASSUME NEW told, Good(world, told, {}), NEW c \in Slots, TurnPasses(c)
    PROVE  Good(world', told \cup {c}, {}) /\ NoNewSession(world, world')
<1> DEFINE x == Ready(world, c)
<1>1. world' = x /\ world.client[c].status # "verified"
  BY DEF TurnPasses, Verified
<1>2. /\ Good(x, told, {}) /\ NoNewSession(world, x)
      /\ x.client[c].status = world.client[c].status
  BY ReadyGood
<1> HIDE DEF x
<1>3. ~Told(x, c)
  BY <1>1, <1>2 DEF Told
<1>4. QED
  BY <1>1, <1>2, <1>3, MoreTold

LEMMA TurnExpiresGood ==
    ASSUME NEW told, Good(world, told, {}), NEW c \in Slots, TurnExpires(c)
    PROVE  Good(world', told \cup {c}, {}) /\ NoNewSession(world, world')
<1> DEFINE x == FreeSlot(world, c)
<1>1. world' = x /\ world \in Worlds
  BY DEF TurnExpires, Good
<1>2. /\ Good(x, told, {}) /\ NoNewSession(world, x)
      /\ x.client = [world.client EXCEPT ![c] = FreeClient]
  BY FreeSlotGood
<1> HIDE DEF x
<1>3. x.client[c] = FreeClient
  BY <1>1, <1>2, WorldParts
<1>4. ~Told(x, c)
  BY <1>3 DEF Told, FreeClient
<1>5. QED
  BY <1>1, <1>2, <1>4, MoreTold

LEMMA TurnThrowsOutGood ==
    ASSUME NEW told, Good(world, told, {}), NEW c \in Slots, TurnThrowsOut(c)
    PROVE  Good(world', told \cup {c}, {}) /\ NoNewSession(world, world')
<1> DEFINE w == Ready(world, c)
           x == ClearScreen(LeaveSquad(DropPlayer(w, c), c), c)
<1>1. world' = x /\ world.client[c].status # "free"
  BY DEF TurnThrowsOut, Verified
<1>2. /\ Good(w, told, {}) /\ NoNewSession(world, w)
      /\ w.client[c].status = world.client[c].status
  BY ReadyGood
<1> HIDE DEF w
<1>3. Good(x, told, {}) /\ NoNewSession(w, x) /\ ~Told(x, c)
  BY <1>1, <1>2, LeavesAll
<1> HIDE DEF x
<1>4. NoNewSession(world, x)
  BY <1>2, <1>3, SessionsTransitive
<1>5. QED
  BY <1>1, <1>3, <1>4, MoreTold

LEMMA TurnTellsGood ==
    ASSUME NEW told, Good(world, told, {}), NEW c \in Slots, TurnTells(c)
    PROVE  Good(world', told \cup {c}, {}) /\ NoNewSession(world, world')
<1> DEFINE w == Ready(world, c)
<1>1. /\ world.client[c].status = "verified"
      /\ \/ /\ world.client[c].inSquad
            /\ \E seen \in SUBSET Visible(world, c) : world' = Broadcast(w, c, seen)
         \/ ~world.client[c].inSquad /\ world' = w
  BY DEF TurnTells, Verified
<1>2. /\ Good(w, told, {}) /\ NoNewSession(world, w)
      /\ w.client[c].status = world.client[c].status
      /\ w.client[c].inSquad = world.client[c].inSquad
      /\ w.entity = world.entity
  BY ReadyGood
<1> HIDE DEF w
<1>3. CASE ~world.client[c].inSquad
  <2>1. Told(w, c) => ViewOf(w, c) \subseteq Tracked(w)
    BY <1>2, <1>3 DEF Good, ScreensOK
  <2>2. QED
    BY <1>1, <1>2, <1>3, <2>1, MoreTold
<1>4. CASE world.client[c].inSquad
  <2>1. PICK seen \in SUBSET Visible(world, c) : world' = Broadcast(w, c, seen)
    BY <1>1, <1>4
  <2>2. seen \in SUBSET Tracked(w)
    BY <1>2 DEF Visible, Tracked
  <2>3. CASE w.client[c].player = Null
    <3> DEFINE x == ClearScreen(w, c)
    <3>1. world' = x
      BY <2>1, <2>3 DEF Broadcast
    <3>2. ~Told(w, c)
      BY <2>3 DEF Told
    <3>3. Good(x, told, {}) /\ x.client = w.client
      BY <1>2, <3>2, ClearScreenGood
    <3> HIDE DEF x
    <3>4. ~Told(x, c) /\ NoNewSession(w, x)
      BY <2>3, <3>3, SameClients DEF Told
    <3>5. NoNewSession(world, x)
      BY <1>2, <3>4, SessionsTransitive
    <3>6. QED
      BY <3>1, <3>3, <3>4, <3>5, MoreTold
  <2>4. CASE w.client[c].player # Null
    <3>1. w.client[c].status # "free" /\ w.client[c].inSquad
      BY <1>1, <1>2, <1>4
    <3>2. Good(world', told \cup {c}, {}) /\ world'.client = w.client
      BY <1>2, <2>1, <2>2, <2>4, <3>1, TellGood
    <3>3. NoNewSession(w, world')
      BY <3>2, SameClients
    <3>4. QED
      BY <1>2, <3>2, <3>3, SessionsTransitive
  <2>5. QED
    BY <2>3, <2>4
<1>5. QED
  BY <1>3, <1>4

-----------------------------------------------------------------------------
(* The inductive invariant.                                                 *)

\* The slots that had their turn since the simulation part of the tick.
Before(t) == {c \in Slots : c < t}

IInv ==
    /\ Good(world, Before(turn), {})
    /\ OneSession(world)
    /\ turn \in 0 .. MaxClients

LEMMA InitGood ==
    ASSUME Init
    PROVE  IInv
<1>1. /\ world.client = [c \in Slots |-> FreeClient]
      /\ world.entity = [i \in Ids |-> Nothing]
      /\ world.pending = {} /\ world.deleted = {}
      /\ world.screen = [c \in Slots |-> Blank]
      /\ turn = MaxClients
      /\ world = [client |-> world.client, entity |-> world.entity,
                  pending |-> world.pending, deleted |-> world.deleted,
                  screen |-> world.screen]
  BY DEF Init
<1>2. /\ \A c \in Slots : world.client[c] = FreeClient /\ world.screen[c] = Blank
      /\ \A i \in Ids : world.entity[i] = Nothing
  BY <1>1
<1>3. world \in Worlds
  <2>1. FreeClient \in ClientRecords
    BY DEF FreeClient, ClientRecords
  <2>2. Blank \in ScreenRecords
    BY DEF Blank, ScreenRecords
  <2>3. Nothing \in Entity
    BY IsEntity
  <2> DEFINE client == world.client
             entity == world.entity
             screen == world.screen
  <2>4. /\ client \in [Slots -> ClientRecords] /\ entity \in [Ids -> Entity]
        /\ screen \in [Slots -> ScreenRecords]
    BY <1>1, <2>1, <2>2, <2>3
  <2>5. world = [client |-> client, entity |-> entity, pending |-> {}, deleted |-> {},
                 screen |-> screen]
    BY <1>1
  <2> HIDE DEF client, entity, screen
  <2>6. QED
    BY <2>4, <2>5 DEF Worlds
<1>4. /\ Players(world) = {} /\ Flowers(world) = {} /\ Drops(world) = {}
      /\ Tracked(world) = {}
  BY <1>2 DEF Players, Flowers, Drops, OfKind, Tracked, Nothing
<1>5. /\ FreeClient.status = "free" /\ FreeClient.player = Null
      /\ ~Blank.ready
  BY DEF FreeClient, Blank
<1>6. SlotsOK(world) /\ ClientsLinked(world) /\ FlowersLinked(world, {}) /\ IdsOK(world)
      /\ Owing(world) /\ ScreensOK(world, Before(turn)) /\ OneSession(world)
  BY <1>1, <1>2, <1>4, <1>5
  DEF SlotsOK, ClientsLinked, FlowersLinked, IdsOK, Owing, ScreensOK, Told, OneSession
<1>7. turn \in 0 .. MaxClients
  BY <1>1, SizesAssumption
<1>8. QED
  BY <1>3, <1>6, <1>7 DEF Good, IInv

LEMMA InvStep ==
    ASSUME IInv, Next
    PROVE  IInv'
<1>1. Between => Before(turn) = Slots
  BY SizesAssumption DEF Between, Before, Slots
<1>2. Good(world, Before(turn), {}) /\ OneSession(world) /\ turn \in 0 .. MaxClients
  BY DEF IInv
<1>3. Between => Well(world)
  BY <1>1, <1>2 DEF Well
<1>4. CASE SimulationTick
  <2>1. Between /\ turn' = 0
    BY <1>4 DEF SimulationTick
  <2>2. Good(world', {}, {}) /\ world'.client = world.client
    BY <1>2, <1>3, <1>4, <2>1, SimulationTickGood
  <2>3. OneSession(world')
    BY <1>2, <2>2, SameClients, OneSessionStays
  <2>4. Before(turn') = {} /\ turn' \in 0 .. MaxClients
    BY <2>1, SizesAssumption DEF Before, Slots
  <2>5. QED
    BY <2>2, <2>3, <2>4 DEF IInv, Before
<1>5. ASSUME NEW c \in Slots, Between, turn' = turn, Step(world, world')
      PROVE  IInv'
  <2>1. Well(world') /\ NoNewSession(world, world')
    BY <1>5 DEF Step
  <2>2. OneSession(world')
    BY <1>2, <2>1, OneSessionStays
  <2>3. Good(world', Before(turn'), {})
    BY <1>1, <1>5, <2>1 DEF Well
  <2>4. QED
    BY <1>2, <1>5, <2>2, <2>3 DEF IInv, Before
<1>6. ASSUME NEW c \in Slots, IsTurn(c), NextTurn,
             Good(world', Before(turn) \cup {c}, {}), NoNewSession(world, world')
      PROVE  IInv'
  <2>1. turn = c /\ turn' = turn + 1
    BY <1>6 DEF IsTurn, NextTurn
  <2>2. Before(turn') = Before(turn) \cup {c} /\ turn' \in 0 .. MaxClients
    BY <2>1, SizesAssumption DEF Before, Slots
  <2>3. OneSession(world')
    BY <1>2, <1>6, OneSessionStays
  <2>4. Good(world', Before(turn'), {})
    BY <1>6, <2>2
  <2>5. QED
    BY <2>2, <2>3, <2>4 DEF IInv, Before
<1>7. ASSUME NEW c \in Slots, NEW a \in Accounts, Login(c, a)
      PROVE  IInv'
  <2>1. Good(world', Before(turn), {}) /\ OneSession(world') /\ turn' = turn
    BY <1>2, <1>7, LoginGood DEF Login
  <2>2. QED
    BY <1>2, <2>1 DEF IInv, Before
<1>8. ASSUME NEW c \in Slots,
             \/ MasterKicks(c) \/ Close(c)
             \/ ReadyJoins(c) \/ ReadyEnters(c) \/ ReadyAbandons(c)
             \/ Update(c) \/ Leave(c) \/ Join(c)
             \/ KickFromSquad(c) \/ PetalSwitch(c)
      PROVE  IInv'
  <2>1. Between /\ turn' = turn
    BY <1>8 DEF MasterKicks, Close, ReadyJoins, ReadyEnters, ReadyAbandons, Update, Leave,
                Join, KickFromSquad, PetalSwitch, SquadAction
  <2>2. Step(world, world')
    <3>1. Well(world)
      BY <1>3, <2>1
    <3>2. QED
      BY <1>8, <3>1, MasterKicksGood, CloseGood, ReadyJoinsGood, ReadyEntersGood,
         ReadyAbandonsGood, UpdateGood, LeaveGood, JoinGood, KickFromSquadGood,
         PetalSwitchGood
  <2>3. QED
    BY <1>5, <2>1, <2>2
<1>9. ASSUME NEW c \in Slots,
             TurnPasses(c) \/ TurnExpires(c) \/ TurnThrowsOut(c) \/ TurnTells(c)
      PROVE  IInv'
  <2>1. IsTurn(c) /\ NextTurn
    BY <1>9 DEF TurnPasses, TurnExpires, TurnThrowsOut, TurnTells
  <2>2. Good(world', Before(turn) \cup {c}, {}) /\ NoNewSession(world, world')
    BY <1>2, <1>9, TurnPassesGood, TurnExpiresGood, TurnThrowsOutGood, TurnTellsGood
  <2>3. QED
    BY <1>6, <2>1, <2>2
<1>10. QED
  BY <1>4, <1>7, <1>8, <1>9 DEF Next

LEMMA InvStutter ==
    ASSUME IInv, UNCHANGED vars
    PROVE  IInv'
BY DEF IInv, vars, Good, OneSession, Before, Told, ViewOf

THEOREM SpecIInv == Spec => []IInv
<1>1. Init => IInv
  BY InitGood
<1>2. IInv /\ [Next]_vars => IInv'
  BY InvStep, InvStutter
<1>3. QED
  BY <1>1, <1>2, PTL DEF Spec
-----------------------------------------------------------------------------
(* What the invariant says of the properties of Entities.                   *)

\* Every entity, client and screen has its type through any sequence of steps, and a
\* slot that is free keeps nothing (struct rr_simulation, struct rr_server_client).
THEOREM SpecTypeOK == Spec => []TypeOK
<1>1. IInv => TypeOK
  <2> SUFFICES ASSUME IInv PROVE TypeOK
    OBVIOUS
  <2>1. world \in Worlds /\ SlotsOK(world) /\ turn \in 0 .. MaxClients
    BY DEF IInv, Good
  <2>2. QED
    BY <2>1 DEF TypeOK, Worlds, ClientRecords, ScreenRecords, SlotsOK
<1>2. QED
  BY <1>1, SpecIInv, PTL

\* A client, its player and its flower name one another however often ids are used
\* again, and a flower nobody has any more is dead and about to be deleted: what
\* rr_component_player_info_free and rr_component_flower_free are for.
THEOREM SpecPlayersLinked == Spec => []PlayersLinked
<1>1. IInv => PlayersLinked
  <2> SUFFICES ASSUME IInv PROVE PlayersLinked
    OBVIOUS
  <2>1. Good(world, Before(turn), {}) /\ world \in Worlds
    BY DEF IInv, Good
  <2>2. \A c \in Slots : ClientHasPlayer(c)
    BY <2>1 DEF Good, ClientsLinked, ClientHasPlayer, Players
  <2>3. \A p \in Players(world) : PlayerHasClient(p) /\ PlayerHasFlower(p)
    BY <2>1 DEF Good, ClientsLinked, FlowersLinked, PlayerHasClient, PlayerHasFlower, Flowers
  <2>4. \A f \in Flowers(world) : FlowerHasPlayer(f)
    BY <2>1 DEF Good, FlowersLinked, FlowerHasPlayer, Players
  <2>5. world.pending \subseteq Tracked(world)
    BY <2>1 DEF Good, IdsOK
  <2>6. QED
    BY <2>2, <2>3, <2>4, <2>5 DEF PlayersLinked, Players, Flowers
<1>2. QED
  BY <1>1, SpecIInv, PTL

\* A client that was told everything since its player is in the game shows the
\* entities that the server takes it to show, none of them an earlier one of the same
\* id, and between two ticks none that is gone (rr_simulation_write_binary).
THEOREM SpecWorldAgrees == Spec => []WorldAgrees
<1>1. IInv => WorldAgrees
  <2> SUFFICES ASSUME IInv, NEW c \in Slots, Followed(c)
               PROVE  /\ Shown(c) = world.entity[world.client[c].player].view
                      /\ \A i \in Shown(c) : world.screen[c].shown[i] = "this"
                      /\ Between => Shown(c) \subseteq Tracked(world)
    BY DEF WorldAgrees
  <2>1. Good(world, Before(turn), {}) /\ world \in Worlds
    BY DEF IInv, Good
  <2>2. Told(world, c)
    BY DEF Followed, Told, Verified
  <2>3. ViewOf(world, c) \subseteq Ids
    <3>1. world.client[c].player \in Players(world)
      BY <2>1, <2>2 DEF Told, Good, ClientsLinked
    <3>2. QED
      BY <2>1, <3>1, PlayerFields DEF ViewOf
  <2>4. /\ \A i \in Ids : world.screen[c].shown[i] =
               IF i \in ViewOf(world, c) THEN "this" ELSE "nothing"
        /\ c \in Before(turn) => ViewOf(world, c) \subseteq Tracked(world)
    BY <2>1, <2>2 DEF Good, ScreensOK
  <2>5. Shown(c) = ViewOf(world, c)
    BY <2>3, <2>4 DEF Shown
  <2>6. Between => c \in Before(turn)
    BY SizesAssumption DEF Between, Before, Slots
  <2>7. QED
    BY <2>3, <2>4, <2>5, <2>6 DEF ViewOf
<1>2. QED
  BY <1>1, SpecIInv, PTL

\* No account is given a drop twice or one it was not owed, over any sequence of
\* connections and slots (rr_system_drops_tick, rr_server_client_free and the
\* reconnecting in Server.c).
THEOREM SpecDropsOnce == Spec => []DropsOnce
<1>1. IInv => DropsOnce
  BY DEF IInv, Good, Owing, DropsOnce, Drops
<1>2. QED
  BY <1>1, SpecIInv, PTL
=============================================================================
