--------------------------- MODULE CtfMatchProof ---------------------------
(***************************************************************************)
(* Theorems about CtfMatch, for any number of clients, accounts, squads    *)
(* and teams: the types, the links between squads and teams, that a match  *)
(* nobody plays comes to its end, that the real data of an account         *)
(* survives every match, and that who is out of a match comes back only    *)
(* as a seeker.                                                            *)
(*                                                                         *)
(* A world is the three variables in a record.  There are two inductive    *)
(* invariants.  Sound gives the types of a world and says how its teams    *)
(* and squads are linked.  WorldOK says of every slot what its record may  *)
(* be (RecordOK) and what the phase and the mode of the match allow it to  *)
(* be (PhaseOK); it needs Sound for the loop that drops squads from the    *)
(* lobby.  For each, a lemma per helper says that it keeps such worlds, a  *)
(* lemma per action follows from those, and the theorems from them all.    *)
(***************************************************************************)
EXTENDS CtfMatch, LoopLemmas

(***************************************************************************)
(* Types and links, and a match nobody plays.                              *)
(***************************************************************************)
\* What a slot may be: without an account it has no squad, and who plays sits in a squad.
SeatOK(r) ==
    /\ r.status \in {"free", "unread"} => r.squad = NoSquad /\ r.life = "none"
    /\ r.playing => r.squad # NoSquad /\ r.life # "none"
Seats == {r \in ClientRecords : SeatOK(r)}

\* The types of the three variables.
MatchRecords ==
    [phase : {"lobby", "placement", "farm", "war", "ended"},
     mode : {"ctf", "tdm", "has"}, teams : Seq(TeamRecords),
     host : SquadIds \cup {NoSquad}, team : [SquadIds -> 0..MaxTeams],
     winner : 0..MaxTeams, ready : BOOLEAN]
Worlds ==
    [client : [Clients -> Seats], squad : [SquadIds -> Clients \cup {NoClient}],
     match : MatchRecords]

\* The teams of a match and the team of each squad name each other; in the lobby of
\* hide and seek there is one team.
Named(m) ==
    /\ \A t \in DOMAIN m.teams :
          LET s == m.teams[t].squad
          IN  IF s = NoSquad THEN m.mode = "has" /\ t = Hiders ELSE m.team[s] = t
    /\ \A s \in SquadIds : m.team[s] # NoTeam =>
          m.team[s] \in DOMAIN m.teams /\ m.teams[m.team[s]].squad = s

\* The first team is the squad of the host, and without teams there is no match.
Linked(m) ==
    /\ Len(m.teams) <= MaxTeams
    /\ Named(m)
    /\ m.teams # <<>> => m.host = m.teams[1].squad
    /\ m.teams = <<>> => m.phase = "lobby"
    /\ m.mode = "has" /\ m.phase = "lobby" => Len(m.teams) = 1

\* The owner of a squad sits in it.
OwnersSit(w) ==
    \A s \in SquadIds : w.squad[s] # NoClient => w.client[w.squad[s]].squad = s

\* The invariant of a world.
Sound(w) == w \in Worlds /\ OwnersSit(w) /\ Linked(w.match)

\* A player that is spawned keeps its seat (spawn_member).
LEMMA SeatSpawned ==
    ASSUME NEW r \in Seats, NEW mode
    PROVE  SpawnMember(r, mode) \in Seats /\ SpawnMember(r, mode).squad = r.squad
<1>1. /\ EnterMatchData(r, mode) \in Seats /\ EnterMatchData(r, mode).squad = r.squad
      /\ EnterMatchData(r, mode).status = r.status
  <2> DEFINE d == IF mode = "tdm" THEN r.data ELSE "match"
  <2>1. d \in {"account", "match"} /\ r.data \in {"account", "match"}
    BY DEF Seats, ClientRecords
  <2>2. \/ EnterMatchData(r, mode) = r
        \/ EnterMatchData(r, mode) = [r EXCEPT !.aside = r.data, !.data = d]
    BY DEF EnterMatchData
  <2> HIDE DEF d
  <2>3. QED
    BY <2>1, <2>2 DEF Seats, SeatOK, ClientRecords
<1> DEFINE e == EnterMatchData(r, mode)
<1> HIDE DEF e
<1>2. CASE r.squad = NoSquad \/ r.status = "gone"
  BY <1>2 DEF SpawnMember
<1>3. CASE ~(r.squad = NoSquad \/ r.status = "gone")
  <2> DEFINE q == [e EXCEPT !.life = "alive", !.playing = TRUE, !.played = TRUE]
  <2>1. SpawnMember(r, mode) = q
    BY <1>3 DEF SpawnMember, e
  <2>2. e \in Seats /\ e.squad = r.squad /\ e.status = r.status
    BY <1>1 DEF e
  <2>3. e.squad # NoSquad /\ e.status \notin {"free", "unread"}
    BY <1>3, <2>2 DEF Seats, SeatOK
  <2>4. q \in Seats /\ q.squad = e.squad
    BY <2>2, <2>3 DEF Seats, SeatOK, ClientRecords
  <2>5. QED
    BY <2>1, <2>2, <2>4
<1>4. QED
  BY <1>2, <1>3

\* So does a player that leaves the data of a match.
LEMMA SeatBack ==
    ASSUME NEW r \in Seats
    PROVE  LeaveMatchData(r) \in Seats /\ LeaveMatchData(r).squad = r.squad
<1> DEFINE d == IF r.aside # "none" THEN r.aside ELSE r.data
<1>1. d \in {"account", "match"}
  BY DEF Seats, ClientRecords
<1>2. LeaveMatchData(r) = [r EXCEPT !.played = FALSE, !.out = FALSE, !.forfeit = FALSE,
                                    !.aside = "none", !.data = d]
  BY DEF LeaveMatchData
<1> HIDE DEF d
<1>3. QED
  BY <1>1, <1>2 DEF Seats, SeatOK, ClientRecords

\* So does a player taken out of the game.
LEMMA SeatRemoved ==
    ASSUME NEW r \in Seats
    PROVE  RemoveFromGame(r) \in Seats /\ RemoveFromGame(r).squad = r.squad
BY DEF RemoveFromGame, Seats, SeatOK, ClientRecords

\* So does a player that dies or comes to life.
LEMMA SeatLife ==
    ASSUME NEW r \in Seats, r.life # "none", NEW l \in {"alive", "dead"}
    PROVE  [r EXCEPT !.life = l] \in Seats /\ [r EXCEPT !.life = l].squad = r.squad
BY DEF Seats, SeatOK, ClientRecords

\* Players change, and everybody stays in its squad: the world stays sound.
LEMMA SoundClients ==
    ASSUME NEW w, Sound(w), NEW f \in [Clients -> Seats],
           \A c \in Clients : f[c].squad = w.client[c].squad
    PROVE  LET v == [w EXCEPT !.client = f]
           IN  Sound(v) /\ v.match = w.match /\ v.client = f
<1> DEFINE v == [w EXCEPT !.client = f]
<1>1. v \in Worlds /\ v.match = w.match /\ v.client = f /\ v.squad = w.squad
  BY DEF Sound, Worlds
<1>2. \A s \in SquadIds : w.squad[s] # NoClient => w.squad[s] \in Clients
  BY DEF Sound, Worlds
<1> HIDE DEF v
<1>3. OwnersSit(v)
  BY <1>1, <1>2 DEF Sound, OwnersSit
<1>4. QED
  BY <1>1, <1>3 DEF Sound, v

\* A match whose links agree takes the place of the match.
LEMMA SoundMatch ==
    ASSUME NEW w, Sound(w), NEW m \in MatchRecords, Linked(m)
    PROVE  LET v == [w EXCEPT !.match = m]
           IN  Sound(v) /\ v.match = m /\ v.client = w.client /\ v.squad = w.squad
<1> DEFINE v == [w EXCEPT !.match = m]
<1>1. v \in Worlds /\ v.match = m /\ v.client = w.client /\ v.squad = w.squad
  BY DEF Sound, Worlds
<1> HIDE DEF v
<1>2. OwnersSit(v)
  BY <1>1 DEF Sound, OwnersSit
<1>3. QED
  BY <1>1, <1>2 DEF Sound, v

\* The winner, the phase, what is ready and who is out have no part in the links.
LEMMA SameLinks ==
    ASSUME NEW m \in MatchRecords, Linked(m), NEW n \in MatchRecords,
           n.team = m.team, n.host = m.host, n.mode = m.mode,
           Len(n.teams) = Len(m.teams),
           \A t \in DOMAIN m.teams : n.teams[t].squad = m.teams[t].squad,
           n.phase = m.phase \/ (m.teams # <<>> /\ n.phase # "lobby")
    PROVE  Linked(n)
<1>1. /\ n.teams \in Seq(TeamRecords) /\ m.teams \in Seq(TeamRecords)
      /\ DOMAIN n.teams = DOMAIN m.teams
      /\ m.teams # <<>> => 1 \in DOMAIN m.teams
      /\ n.teams = <<>> <=> m.teams = <<>>
  BY DEF MatchRecords
<1>2. Named(n)
  BY <1>1 DEF Linked, Named
<1>3. QED
  BY <1>1, <1>2 DEF Linked

\* A match that has begun goes on, into a later phase or with flags or with a winner.
LEMMA MatchGoesOnLinked ==
    ASSUME NEW w, Sound(w), w.match.phase # "lobby"
    PROVE  /\ \A b \in BOOLEAN : Sound([w EXCEPT !.match.ready = b])
           /\ \A p \in {"placement", "farm", "war", "ended"} :
                 /\ Sound([w EXCEPT !.match.phase = p])
                 /\ \A win \in 0..MaxTeams :
                       Sound([w EXCEPT !.match.winner = win, !.match.phase = p])
<1>1. 0 \in 0..MaxTeams /\ TRUE \in BOOLEAN /\ "war" \in {"placement", "farm", "war", "ended"}
  BY SizesAssumption
<1> SUFFICES ASSUME NEW p \in {"placement", "farm", "war", "ended"},
                    NEW win \in 0..MaxTeams, NEW b \in BOOLEAN
             PROVE  /\ Sound([w EXCEPT !.match.phase = p])
                    /\ Sound([w EXCEPT !.match.ready = b])
                    /\ Sound([w EXCEPT !.match.winner = win, !.match.phase = p])
  BY <1>1
<1>2. w.match \in MatchRecords /\ Linked(w.match) /\ w.match.teams # <<>>
  BY DEF Sound, Worlds, Linked
<1> DEFINE m == w.match
           n1 == [m EXCEPT !.phase = p]
           n2 == [m EXCEPT !.ready = b]
           n3 == [m EXCEPT !.winner = win, !.phase = p]
<1>3. \A n \in {n1, n2, n3} :
         /\ n \in MatchRecords
         /\ n.team = m.team /\ n.host = m.host /\ n.mode = m.mode /\ n.teams = m.teams
         /\ n.phase \in {m.phase, p}
  BY <1>2 DEF MatchRecords
<1>4. \A n \in {n1, n2, n3} : Linked(n)
  BY <1>2, <1>3, SameLinks
<1>5. /\ [w EXCEPT !.match.phase = p] = [w EXCEPT !.match = n1]
      /\ [w EXCEPT !.match.ready = b] = [w EXCEPT !.match = n2]
      /\ [w EXCEPT !.match.winner = win, !.match.phase = p] = [w EXCEPT !.match = n3]
  BY DEF Sound, Worlds
<1> HIDE DEF n1, n2, n3
<1>6. QED
  BY <1>3, <1>4, <1>5, SoundMatch

\* Players are taken out of the game.
LEMMA SoundTakeOut ==
    ASSUME NEW w, Sound(w), NEW S
    PROVE  /\ Sound(TakeOut(w, S)) /\ TakeOut(w, S).match = w.match
           /\ \A c \in Clients : TakeOut(w, S).client[c].squad = w.client[c].squad
<1> DEFINE f == [c \in Clients |-> IF c \in S THEN RemoveFromGame(w.client[c])
                                               ELSE w.client[c]]
<1>1. TakeOut(w, S) = [w EXCEPT !.client = f]
  BY DEF TakeOut, Sound, Worlds
<1>2. \A c \in Clients : w.client[c] \in Seats
  BY DEF Sound, Worlds
<1>3. f \in [Clients -> Seats] /\ \A c \in Clients : f[c].squad = w.client[c].squad
  BY <1>2, SeatRemoved
<1> HIDE DEF f
<1>4. QED
  BY <1>1, <1>3, SoundClients

\* Players are spawned.
LEMMA SoundSpawn ==
    ASSUME NEW w, Sound(w), NEW S
    PROVE  /\ Sound(Spawn(w, S)) /\ Spawn(w, S).match = w.match
           /\ \A c \in Clients : Spawn(w, S).client[c].squad = w.client[c].squad
<1> DEFINE f == [c \in Clients |-> IF c \in S THEN SpawnMember(w.client[c], w.match.mode)
                                               ELSE w.client[c]]
<1>1. Spawn(w, S) = [w EXCEPT !.client = f]
  BY DEF Spawn, Sound, Worlds
<1>2. \A c \in Clients : w.client[c] \in Seats
  BY DEF Sound, Worlds
<1>3. f \in [Clients -> Seats] /\ \A c \in Clients : f[c].squad = w.client[c].squad
  BY <1>2, SeatSpawned
<1> HIDE DEF f
<1>4. QED
  BY <1>1, <1>3, SoundClients

\* A player dies.
LEMMA SoundKill ==
    ASSUME NEW w, Sound(w), NEW S, \A c \in S : c \in Clients => Alive(w, c)
    PROVE  Sound(Kill(w, S)) /\ Kill(w, S).match = w.match
<1> DEFINE f == [c \in Clients |-> IF c \in S THEN [w.client[c] EXCEPT !.life = "dead"]
                                               ELSE w.client[c]]
<1>1. Kill(w, S) = [w EXCEPT !.client = f]
  BY DEF Kill, Sound, Worlds
<1>2. \A c \in Clients : w.client[c] \in Seats
  BY DEF Sound, Worlds
<1>3. f \in [Clients -> Seats] /\ \A c \in Clients : f[c].squad = w.client[c].squad
  BY <1>2, SeatLife DEF Alive
<1> HIDE DEF f
<1>4. QED
  BY <1>1, <1>3, SoundClients

\* One slot changes and the squad it sits in stays.
LEMMA SoundSlot ==
    ASSUME NEW w, Sound(w), NEW c \in Clients, NEW q \in Seats, q.squad = w.client[c].squad
    PROVE  LET v == [w EXCEPT !.client[c] = q] IN Sound(v) /\ v.match = w.match
<1> DEFINE f == [w.client EXCEPT ![c] = q]
<1>1. [w EXCEPT !.client[c] = q] = [w EXCEPT !.client = f]
  BY DEF Sound, Worlds
<1>2. f \in [Clients -> Seats] /\ \A d \in Clients : f[d].squad = w.client[d].squad
  BY DEF Sound, Worlds
<1> HIDE DEF f
<1>3. QED
  BY <1>1, <1>2, SoundClients

\* The lobby of no match has no links.
LEMMA NoMatchLinked == NoMatch \in MatchRecords /\ Linked(NoMatch)
<1>1. NoMatch \in MatchRecords
  BY SizesAssumption DEF NoMatch, MatchRecords, TeamRecords, NoTeam
<1>2. Len(<<>>) = 0 /\ DOMAIN <<>> = {}
  OBVIOUS
<1>3. QED
  BY <1>1, <1>2, SizesAssumption DEF NoMatch, Linked, Named

\* The match ends: everybody is back with the real data, and nothing is linked.
LEMMA SoundEnd ==
    ASSUME NEW w, Sound(w)
    PROVE  Sound(EndMatch(w)) /\ EndMatch(w).match = NoMatch
<1> DEFINE players == UNION {Team(w, t) : t \in 1..TeamCount(w)}
           u == TakeOut(w, players)
           x == [u EXCEPT !.match = NoMatch]
           f == [c \in Clients |-> LeaveMatchData(x.client[c])]
<1>1. EndMatch(w) = [x EXCEPT !.client = f]
  BY DEF EndMatch, ResetPlayers
<1> HIDE DEF players
<1>2. Sound(u)
  BY SoundTakeOut
<1> HIDE DEF u
<1>3. Sound(x) /\ x.match = NoMatch
  BY <1>2, NoMatchLinked, SoundMatch
<1> HIDE DEF x
<1>4. \A c \in Clients : x.client[c] \in Seats
  BY <1>3 DEF Sound, Worlds
<1>5. f \in [Clients -> Seats] /\ \A c \in Clients : f[c].squad = x.client[c].squad
  BY <1>4, SeatBack
<1> HIDE DEF f
<1>6. QED
  BY <1>1, <1>3, <1>5, SoundClients

\* Who leaves gives the squad to somebody in it, if there is anybody.
LEMMA SoundLeaves ==
    ASSUME NEW w, Sound(w), NEW c \in Clients, NEW v \in Leaves(w, c)
    PROVE  /\ Sound(v) /\ v.match = w.match
           /\ v.client[c].squad = NoSquad /\ v.client[c].playing = FALSE
           /\ v.client[c].life = w.client[c].life
           /\ v.client[c].status = w.client[c].status
<1>1. CASE w.client[c].squad = NoSquad
  <2>1. v = w /\ w.client[c] \in Seats
    BY <1>1 DEF Leaves, Sound, Worlds
  <2>2. w.client[c].playing = FALSE
    BY <1>1, <2>1 DEF Seats, SeatOK, ClientRecords
  <2>3. QED
    BY <1>1, <2>1, <2>2
<1>2. CASE w.client[c].squad # NoSquad
  <2> DEFINE s == w.client[c].squad
             rest == MembersOf(w, s) \ {c}
             q == [w.client[c] EXCEPT !.squad = NoSquad, !.playing = FALSE]
  <2>1. w.client[c] \in Seats /\ s \in SquadIds
    BY <1>2 DEF Sound, Worlds, Seats, ClientRecords
  <2>2. PICK o \in rest \cup {NoClient, w.squad[s]} :
            /\ v = [w EXCEPT !.client[c].squad = NoSquad, !.client[c].playing = FALSE,
                             !.squad[s] = o]
            /\ o \in rest \/ o = NoClient \/ (o = w.squad[s] /\ o # c)
    BY <1>2 DEF Leaves
  <2>3. v = [w EXCEPT !.client[c] = q, !.squad[s] = o]
    BY <2>2 DEF Sound, Worlds
  <2>4. q \in Seats /\ q.squad = NoSquad /\ q.playing = FALSE
        /\ q.life = w.client[c].life /\ q.status = w.client[c].status
    BY <2>1 DEF Seats, SeatOK, ClientRecords
  <2> HIDE DEF q
  <2>5. /\ v.client = [w.client EXCEPT ![c] = q] /\ v.match = w.match
        /\ v.squad = [w.squad EXCEPT ![s] = o] /\ v.client[c] = q
    BY <2>3 DEF Sound, Worlds
  <2>6. o \in Clients \cup {NoClient} /\ (o # NoClient => o # c /\ w.client[o].squad = s)
    BY <2>1, <2>2 DEF Sound, Worlds, OwnersSit, MembersOf
  <2>7. v \in Worlds
    BY <2>3, <2>4, <2>6, <2>1 DEF Sound, Worlds
  <2>8. OwnersSit(v)
    <3>1. SUFFICES ASSUME NEW i \in SquadIds, v.squad[i] # NoClient
                   PROVE  v.client[v.squad[i]].squad = i
      BY DEF OwnersSit
    <3>2. CASE i = s
      BY <2>1, <2>5, <2>6, <3>1, <3>2 DEF Sound, Worlds
    <3>3. CASE i # s
      <4>1. v.squad[i] = w.squad[i] /\ w.squad[i] \in Clients
        BY <2>5, <3>1, <3>3 DEF Sound, Worlds
      <4>2. w.client[w.squad[i]].squad = i
        BY <3>1, <4>1 DEF Sound, OwnersSit
      <4>3. w.squad[i] # c
        BY <3>3, <4>2
      <4>4. QED
        BY <2>5, <4>1, <4>2, <4>3 DEF Sound, Worlds
    <3>4. QED
      BY <3>2, <3>3
  <2>9. QED
    BY <2>4, <2>5, <2>7, <2>8 DEF Sound
<1>3. QED
  BY <1>1, <1>2

\* A slot is freed.
LEMMA SoundFreed ==
    ASSUME NEW w, Sound(w), NEW c \in Clients, NEW v \in Freed(w, c)
    PROVE  Sound(v) /\ v.match = w.match
<1>1. PICK u \in Leaves(w, c) : v = [u EXCEPT !.client[c] = FreeClient]
  BY DEF Freed
<1>2. Sound(u) /\ u.match = w.match /\ u.client[c].squad = NoSquad
  BY SoundLeaves
<1>3. FreeClient \in Seats /\ FreeClient.squad = NoSquad
  BY DEF FreeClient, Seats, SeatOK, ClientRecords
<1> HIDE DEF FreeClient
<1>4. QED
  BY <1>1, <1>2, <1>3, SoundSlot

\* The new connection sits where the old one sat, and owns what it owned.
LEMMA SoundTakeOver ==
    ASSUME NEW w, Sound(w), NEW c \in Clients, NEW o \in Clients \ {c},
           w.client[c].squad = NoSquad, w.client[o].status \in {"verified", "gone"}
    PROVE  Sound(TakeOver(w, c, o)) /\ TakeOver(w, c, o).match = w.match
<1> DEFINE old == w.client[o]
           p == [old EXCEPT !.status = "verified"]
           q == IF old.status = "gone" THEN FreeClient
                ELSE [old EXCEPT !.squad = NoSquad, !.life = "none",
                                 !.playing = FALSE, !.kick = TRUE]
           owner == [s \in SquadIds |-> IF w.squad[s] = o THEN c ELSE w.squad[s]]
           v == TakeOver(w, c, o)
<1>1. old \in Seats
  BY DEF Sound, Worlds
<1>2. p \in Seats /\ p.squad = old.squad
  BY <1>1 DEF Seats, SeatOK, ClientRecords
<1>3. q \in Seats
  BY <1>1 DEF Seats, SeatOK, ClientRecords, FreeClient
<1>4. v = [w EXCEPT !.client[c] = p, !.client[o] = q, !.squad = owner]
  BY DEF TakeOver
<1> HIDE DEF p, q
<1>5. owner \in [SquadIds -> Clients \cup {NoClient}]
  BY DEF Sound, Worlds
<1> HIDE DEF owner
<1> DEFINE f == [w.client EXCEPT ![c] = p, ![o] = q]
<1>6. /\ v \in Worlds /\ v.match = w.match /\ v.squad = owner
      /\ v.client = [w.client EXCEPT ![c] = p, ![o] = q]
  <2>1. w \in Worlds /\ w.client \in [Clients -> Seats]
    BY DEF Sound, Worlds
  <2>2. f \in [Clients -> Seats]
    BY <1>2, <1>3, <2>1
  <2>3. v = [w EXCEPT !.client = f, !.squad = owner]
    BY <1>4, <2>1 DEF Worlds
  <2> HIDE DEF f, v
  <2>4. v \in Worlds /\ v.match = w.match /\ v.squad = owner /\ v.client = f
    BY <1>5, <2>1, <2>2, <2>3 DEF Worlds
  <2>5. QED
    BY <2>4 DEF f
<1> HIDE DEF f
<1>7. OwnersSit(v)
  <2>1. SUFFICES ASSUME NEW i \in SquadIds, v.squad[i] # NoClient
                 PROVE  v.client[v.squad[i]].squad = i
    BY DEF OwnersSit
  <2> HIDE DEF v
  <2>2. /\ w.squad[i] # NoClient => w.client[w.squad[i]].squad = i
        /\ w.squad[i] \in Clients \cup {NoClient}
    BY DEF Sound, Worlds, OwnersSit
  <2>3. i # NoSquad
    BY SizesAssumption DEF SquadIds, NoSquad
  <2>4. NoClient \notin Clients
    BY ClientsAssumption
  <2>5. CASE w.squad[i] = o
    <3>1. v.squad[i] = c /\ w.client[o].squad = i
      BY <1>6, <2>2, <2>4, <2>5 DEF owner
    <3>2. v.client[c] = p
      BY <1>6 DEF Sound, Worlds
    <3>3. QED
      BY <1>2, <3>1, <3>2
  <2>6. CASE w.squad[i] # o
    <3>1. v.squad[i] = w.squad[i] /\ w.squad[i] # c /\ w.squad[i] \in Clients
      BY <1>6, <2>1, <2>2, <2>6, <2>3 DEF owner
    <3>2. v.client[w.squad[i]] = w.client[w.squad[i]]
      BY <1>6, <2>6, <3>1 DEF Sound, Worlds
    <3>3. QED
      BY <2>2, <2>1, <3>1, <3>2
  <2>7. QED
    BY <2>5, <2>6
<1>8. QED
  BY <1>6, <1>7 DEF Sound

\* The variables take the values of a sound world.
LEMMA SoundBecomes ==
    ASSUME NEW w, Sound(w), Becomes(w)
    PROVE  Sound(World')
<1>1. World' = w
  BY DEF World, Becomes, Sound, Worlds
<1>2. QED
  BY <1>1

\* An action that changes one slot and leaves it in its squad.
LEMMA SlotSound ==
    ASSUME Sound(World), NEW c \in Clients, NEW q \in Seats, q.squad = client[c].squad,
           Becomes([World EXCEPT !.client[c] = q])
    PROVE  Sound(World')
<1> DEFINE v == [World EXCEPT !.client[c] = q]
<1>1. Sound(v)
  BY SoundSlot DEF World
<1>2. Becomes(v)
  OBVIOUS
<1> HIDE DEF v
<1>3. QED
  BY <1>1, <1>2, SoundBecomes

\* What the invariant says of the variables themselves.
LEMMA NowSound ==
    ASSUME Sound(World)
    PROVE  /\ World.client = client /\ World.squad = squad /\ World.match = match
           /\ client \in [Clients -> Seats]
           /\ squad \in [SquadIds -> Clients \cup {NoClient}]
           /\ match \in MatchRecords /\ Linked(match)
           /\ \A s \in SquadIds : squad[s] # NoClient => client[squad[s]].squad = s
BY DEF Sound, Worlds, World, OwnersSit

\* A connection takes a free slot.
LEMMA ConnectSound ==
    ASSUME Sound(World), NEW c \in Clients, NEW a \in Accounts, Connect(c, a)
    PROVE  Sound(World')
<1> DEFINE q == [FreeClient EXCEPT !.status = "unread", !.uuid = a]
<1>1. q \in Seats /\ q.squad = NoSquad
  BY DEF FreeClient, Seats, SeatOK, ClientRecords
<1>2. client[c].squad = NoSquad
  BY NowSound DEF Connect, Seats, SeatOK
<1>3. Becomes([World EXCEPT !.client[c] = q])
  BY DEF Connect
<1> HIDE DEF q
<1>4. QED
  BY <1>1, <1>2, <1>3, SlotSound

\* The answer to the account request: the slot is verified, takes over, or is gone.
LEMMA AccountReplySound ==
    ASSUME Sound(World), NEW c \in Clients, AccountReply(c)
    PROVE  Sound(World')
<1> DEFINE q == [client[c] EXCEPT !.status = "verified"]
           w == [World EXCEPT !.client[c] = q]
<1>1. q \in Seats /\ q.squad = client[c].squad /\ q.squad = NoSquad
  BY NowSound DEF AccountReply, Seats, SeatOK, ClientRecords
<1>2. w = [World EXCEPT !.client[c].status = "verified"]
  BY NowSound
<1>3. \/ Becomes(w)
      \/ \E o \in Earlier(w, c) : Becomes(TakeOver(w, c, o))
  BY <1>2 DEF AccountReply
<1> HIDE DEF q
<1>4. Sound(w)
  BY <1>1, SoundSlot, NowSound
<1>5. w.client[c].squad = NoSquad
  BY <1>1, NowSound
<1> HIDE DEF w
<1>6. CASE Becomes(w)
  BY <1>4, <1>6, SoundBecomes
<1>7. ASSUME NEW o \in Earlier(w, c), Becomes(TakeOver(w, c, o)) PROVE Sound(World')
  <2>1. o \in Clients \ {c} /\ w.client[o].status \in {"verified", "gone"}
    BY DEF Earlier
  <2>2. Sound(TakeOver(w, c, o))
    BY <1>4, <1>5, <2>1, SoundTakeOver
  <2>3. QED
    BY <1>7, <2>2, SoundBecomes
<1>8. QED
  BY <1>3, <1>6, <1>7

\* A connection is marked as kicked.
LEMMA MarkKickedSound ==
    ASSUME Sound(World), NEW c \in Clients, MarkKicked(c)
    PROVE  Sound(World')
<1> DEFINE q == [client[c] EXCEPT !.kick = TRUE]
<1>1. q \in Seats /\ q.squad = client[c].squad
  <2>1. client[c] \in Seats
    BY NowSound
  <2>2. QED
    BY <2>1 DEF Seats, SeatOK, ClientRecords
<1>2. Becomes([World EXCEPT !.client[c] = q])
  BY NowSound DEF MarkKicked
<1> HIDE DEF q
<1>3. QED
  BY <1>1, <1>2, SlotSound

\* A slot is freed by an action.
LEMMA FreedSound ==
    ASSUME Sound(World), NEW c \in Clients, \E w \in Freed(World, c) : Becomes(w)
    PROVE  Sound(World')
BY SoundFreed, SoundBecomes

\* A connection closes.
LEMMA CloseSound ==
    ASSUME Sound(World), NEW c \in Clients, Close(c)
    PROVE  Sound(World')
<1> DEFINE q == [client[c] EXCEPT !.status = "gone"]
<1>1. CASE \E w \in Freed(World, c) : Becomes(w)
  BY <1>1, FreedSound
<1>2. CASE Becomes([World EXCEPT !.client[c].status = "gone"])
  <2>1. q \in Seats /\ q.squad = client[c].squad
    BY NowSound DEF Seats, SeatOK, ClientRecords
  <2>2. Becomes([World EXCEPT !.client[c] = q])
    BY <1>2, NowSound
  <2> HIDE DEF q
  <2>3. QED
    BY <2>1, <2>2, SlotSound
<1>3. QED
  BY <1>1, <1>2 DEF Close

\* AfkKick, and KickMember: out of the squad and of the game.
LEMMA ThrownOutSound ==
    ASSUME Sound(World), NEW c \in Clients,
           \E w \in Leaves(World, c) : Becomes([w EXCEPT !.client[c].life = "none"])
    PROVE  Sound(World')
<1>1. PICK w \in Leaves(World, c) : Becomes([w EXCEPT !.client[c].life = "none"])
  OBVIOUS
<1> DEFINE q == [w.client[c] EXCEPT !.life = "none"]
           v == [w EXCEPT !.client[c] = q]
<1>2. Sound(w) /\ w.client[c].playing = FALSE
  BY SoundLeaves
<1>3. q \in Seats /\ q.squad = w.client[c].squad
  <2>1. w.client[c] \in Seats
    BY <1>2 DEF Sound, Worlds
  <2>2. QED
    BY <1>2, <2>1 DEF Seats, SeatOK, ClientRecords
<1>4. Becomes(v)
  BY <1>1, <1>2 DEF Sound, Worlds
<1> HIDE DEF q
<1>5. Sound(v)
  BY <1>2, <1>3, SoundSlot
<1> HIDE DEF v
<1>6. QED
  BY <1>4, <1>5, SoundBecomes

\* A client leaves its squad, by an action.
LEMMA LeavesSound ==
    ASSUME Sound(World), NEW c \in Clients, NEW w \in Leaves(World, c), Becomes(w)
    PROVE  Sound(World')
BY SoundLeaves, SoundBecomes

\* A player with a record of its own sits down, alone or with others.
LEMMA SoundSits ==
    ASSUME NEW w, Sound(w), NEW c \in Clients, w.client[c].squad = NoSquad,
           w.client[c].status \notin {"free", "unread"},
           NEW s \in SquadIds, NEW o \in {w.squad[s], c}
    PROVE  Sound([w EXCEPT !.client[c].squad = s, !.squad[s] = o])
<1> DEFINE q == [w.client[c] EXCEPT !.squad = s]
           v == [w EXCEPT !.client[c] = q, !.squad[s] = o]
<1>1. /\ w.client \in [Clients -> Seats]
      /\ w.squad \in [SquadIds -> Clients \cup {NoClient}]
      /\ \A i \in SquadIds : w.squad[i] # NoClient => w.client[w.squad[i]].squad = i
      /\ s # NoSquad
  BY SizesAssumption DEF Sound, Worlds, OwnersSit, SquadIds, NoSquad
<1>2. q \in Seats /\ q.squad = s
  BY <1>1 DEF Seats, SeatOK, ClientRecords
<1>3. v = [w EXCEPT !.client[c].squad = s, !.squad[s] = o]
  BY DEF Sound, Worlds
<1> HIDE DEF q
<1>4. o \in Clients \cup {NoClient}
  BY <1>1
<1>5. /\ v \in Worlds /\ v.match = w.match
      /\ v.client = [w.client EXCEPT ![c] = q] /\ v.squad = [w.squad EXCEPT ![s] = o]
  BY <1>1, <1>2, <1>4 DEF Sound, Worlds
<1> HIDE DEF v
<1>6. ASSUME NEW i \in SquadIds, v.squad[i] # NoClient
      PROVE  v.client[v.squad[i]].squad = i
  <2>1. CASE v.squad[i] = c /\ i = s
    BY <1>1, <1>2, <1>5, <2>1
  <2>2. CASE ~(v.squad[i] = c /\ i = s)
    <3>1. v.squad[i] = w.squad[i] /\ w.squad[i] \in Clients
      BY <1>1, <1>5, <1>6, <2>2
    <3>2. w.client[w.squad[i]].squad = i /\ i # NoSquad
      BY <1>1, <1>6, <3>1, SizesAssumption DEF SquadIds, NoSquad
    <3>3. w.squad[i] # c
      BY <3>2
    <3>4. QED
      BY <1>1, <1>5, <3>1, <3>2, <3>3
  <2>3. QED
    BY <2>1, <2>2
<1>7. QED
  BY <1>3, <1>5, <1>6 DEF Sound, OwnersSit

\* The message to leave a squad.
LEMMA LeaveSquadSound ==
    ASSUME Sound(World), NEW c \in Clients, LeaveSquad(c)
    PROVE  Sound(World')
BY LeavesSound DEF LeaveSquad

\* Who sends a message and leaves its squad is verified and sits nowhere.
LEMMA ActorLeft ==
    ASSUME Sound(World), NEW c \in Clients, Acts(c), NEW w \in Leaves(World, c)
    PROVE  /\ Sound(w) /\ w.client[c].squad = NoSquad
           /\ w.client[c].status \notin {"free", "unread"}
BY SoundLeaves, NowSound DEF Acts

\* A client sits down in a squad that is empty, as its owner, or in one that is not.
LEMMA SitsSound ==
    ASSUME NEW w, Sound(w), NEW c \in Clients, w.client[c].squad = NoSquad,
           w.client[c].status \notin {"free", "unread"},
           NEW s \in SquadIds, NEW o \in {w.squad[s], c},
           Becomes([w EXCEPT !.client[c].squad = s, !.squad[s] = o])
    PROVE  Sound(World')
<1> DEFINE v == [w EXCEPT !.client[c].squad = s, !.squad[s] = o]
<1>1. Sound(v) /\ Becomes(v)
  BY SoundSits
<1> HIDE DEF v
<1>2. QED
  BY <1>1, SoundBecomes

\* The message to make a squad.
LEMMA CreateSquadSound ==
    ASSUME Sound(World), NEW c \in Clients, CreateSquad(c)
    PROVE  Sound(World')
<1> DEFINE empty(w) == {s \in SquadIds : MembersOf(w, s) = {}}
           first(w) == CHOOSE i \in empty(w) : \A j \in empty(w) : i <= j
<1>1. PICK w \in Leaves(World, c) :
        Becomes(IF empty(w) = {} THEN w
                ELSE [w EXCEPT !.client[c].squad = first(w), !.squad[first(w)] = c])
  BY DEF CreateSquad
<1>2. Acts(c)
  BY DEF CreateSquad
<1>3. CASE empty(w) = {}
  BY <1>1, <1>3, LeavesSound
<1>4. CASE empty(w) # {}
  <2> DEFINE s == first(w)
  <2>1. \E i \in empty(w) : \A j \in empty(w) : i <= j
    <3>1. empty(w) \in SUBSET Nat
      BY SizesAssumption DEF SquadIds
    <3> HIDE DEF empty
    <3>2. QED
      BY <1>4, <3>1, Least
  <2>2. s \in SquadIds
    BY <2>1
  <2>3. Becomes([w EXCEPT !.client[c].squad = s, !.squad[s] = c])
    BY <1>1, <1>4
  <2> HIDE DEF empty, s
  <2>4. QED
    BY <1>2, <2>2, <2>3, ActorLeft, SitsSound
<1>5. QED
  BY <1>3, <1>4

\* The message to join a squad.
LEMMA JoinSquadSound ==
    ASSUME Sound(World), NEW c \in Clients, NEW s \in SquadIds, JoinSquad(c, s)
    PROVE  Sound(World')
<1>1. PICK w \in Leaves(World, c) :
         Becomes(w) \/ Becomes([w EXCEPT !.client[c].squad = s])
  BY DEF JoinSquad
<1>2. Acts(c)
  BY DEF JoinSquad
<1>3. CASE Becomes(w)
  BY <1>3, LeavesSound
<1>4. CASE Becomes([w EXCEPT !.client[c].squad = s])
  <2>1. Sound(w)
    BY <1>2, ActorLeft
  <2> DEFINE o == w.squad[s]
  <2>2. [w EXCEPT !.client[c].squad = s] = [w EXCEPT !.client[c].squad = s, !.squad[s] = o]
    BY <2>1 DEF Sound, Worlds
  <2>3. Becomes([w EXCEPT !.client[c].squad = s, !.squad[s] = o])
    BY <1>4, <2>2
  <2>4. o = w.squad[s]
    OBVIOUS
  <2> HIDE DEF o
  <2>5. QED
    BY <1>2, <2>3, <2>4, ActorLeft, SitsSound
<1>5. QED
  BY <1>1, <1>3, <1>4

\* The message to kick a member.
LEMMA KickMemberSound ==
    ASSUME Sound(World), NEW c \in Clients, NEW k \in Clients, KickMember(c, k)
    PROVE  Sound(World')
BY ThrownOutSound DEF KickMember

\* The messages of an owner about its squad: the match keeps its links.
LEMMA OwnerSound ==
    ASSUME Sound(World), NEW s \in SquadIds, NEW o \in Clients \cup {NoClient},
           o # NoClient => client[o].squad = s,
           Becomes([World EXCEPT !.squad[s] = o])
    PROVE  Sound(World')
<1> DEFINE v == [World EXCEPT !.squad[s] = o]
<1>1. v.client = client /\ v.match = match /\ v.squad = [squad EXCEPT ![s] = o]
  BY DEF World
<1>2. v \in Worlds
  BY NowSound DEF Sound, Worlds
<1>3. Becomes(v)
  OBVIOUS
<1> HIDE DEF v
<1>4. OwnersSit(v)
  BY <1>1, NowSound DEF OwnersSit
<1>5. Sound(v)
  BY <1>1, <1>2, <1>4, NowSound DEF Sound
<1>6. QED
  BY <1>3, <1>5, SoundBecomes

\* The message to hand a squad to a member.
LEMMA TransferOwnershipSound ==
    ASSUME Sound(World), NEW c \in Clients, NEW k \in Clients, TransferOwnership(c, k)
    PROVE  Sound(World')
<1> DEFINE s == client[c].squad
<1>1. s \in SquadIds /\ client[k].squad = s /\ Becomes([World EXCEPT !.squad[s] = k])
  BY NowSound DEF TransferOwnership, IsLeader
<1> HIDE DEF s
<1>2. QED
  BY <1>1, OwnerSound

\* The message that makes a squad private.
LEMMA PrivateUpdateSound ==
    ASSUME Sound(World), NEW c \in Clients, PrivateUpdate(c)
    PROVE  Sound(World')
<1> DEFINE s == client[c].squad
<1>1. s \in SquadIds /\ Becomes([World EXCEPT !.squad[s] = NoClient])
  BY NowSound DEF PrivateUpdate, IsLeader
<1> HIDE DEF s
<1>2. QED
  BY <1>1, OwnerSound

\* The host cancels the match.
LEMMA CancelSound ==
    ASSUME Sound(World), NEW h \in Clients, Cancel(h)
    PROVE  Sound(World')
BY SoundEnd, SoundBecomes DEF Cancel

\* A player asks to be spawned again.
LEMMA RespawnSound ==
    ASSUME Sound(World), NEW c \in Clients, Respawn(c)
    PROVE  Sound(World')
<1>1. Alive(World, c) /\ Becomes(Kill(World, {c}))
  BY DEF Respawn
<1>2. Sound(Kill(World, {c}))
  BY <1>1, SoundKill
<1>3. QED
  BY <1>1, <1>2, SoundBecomes

\* Forfeit and Leave: one slot is edited, and taken out of the game.
LEMMA EditedSound ==
    ASSUME Sound(World), NEW c \in Clients, NEW q \in Seats, q.squad = client[c].squad,
           Becomes(TakeOut([World EXCEPT !.client[c] = q], {c}))
    PROVE  Sound(World')
<1> DEFINE v == [World EXCEPT !.client[c] = q]
<1>1. Sound(v)
  BY SoundSlot, NowSound
<1>2. Becomes(TakeOut(v, {c}))
  OBVIOUS
<1> HIDE DEF v
<1>3. QED
  BY <1>1, <1>2, SoundTakeOut, SoundBecomes

\* A player forfeits.
LEMMA ForfeitSound ==
    ASSUME Sound(World), NEW c \in Clients, Forfeit(c)
    PROVE  Sound(World')
<1> DEFINE q == [client[c] EXCEPT !.forfeit = TRUE]
<1>1. client[c] \in Seats
  BY NowSound
<1>2. q \in Seats /\ q.squad = client[c].squad
  BY <1>1 DEF Seats, SeatOK, ClientRecords
<1>3. Becomes(TakeOut([World EXCEPT !.client[c] = q], {c}))
  BY NowSound DEF Forfeit
<1> HIDE DEF q
<1>4. QED
  BY <1>2, <1>3, EditedSound

\* A player leaves the match.
LEMMA LeaveSound ==
    ASSUME Sound(World), NEW c \in Clients, Leave(c)
    PROVE  Sound(World')
<1> DEFINE b == client[c].out \/ (match.mode = "has" /\ ClientTeam(World, c) = Hiders)
           q == [client[c] EXCEPT !.out = b]
<1>1. client[c] \in Seats
  BY NowSound
<1>2. b \in BOOLEAN
  OBVIOUS
<1>3. Becomes(TakeOut([World EXCEPT !.client[c] = q], {c}))
  BY NowSound DEF Leave
<1> HIDE DEF b
<1>4. q \in Seats /\ q.squad = client[c].squad
  BY <1>1, <1>2 DEF Seats, SeatOK, ClientRecords
<1> HIDE DEF q
<1>5. QED
  BY <1>3, <1>4, EditedSound

\* A player enters a match that has begun.
LEMMA EnterSound ==
    ASSUME Sound(World), NEW c \in Clients, Enter(c)
    PROVE  Sound(World')
BY SoundSpawn, SoundBecomes DEF Enter

\* A player earns in the match.
LEMMA EarnSound ==
    ASSUME Sound(World), NEW c \in Clients, Earn(c)
    PROVE  Sound(World')
<1> DEFINE q == [client[c] EXCEPT !.data = "match"]
<1>1. client[c] \in Seats
  BY NowSound
<1>2. q \in Seats /\ q.squad = client[c].squad
  BY <1>1 DEF Seats, SeatOK, ClientRecords
<1>3. Becomes([World EXCEPT !.client[c] = q])
  BY NowSound DEF Earn
<1> HIDE DEF q
<1>4. QED
  BY <1>2, <1>3, SlotSound

\* No squad is typed twice.
LEMMA Distinct ==
    ASSUME NEW S, NEW q \in Seq(S), Cardinality(ToSet(q)) = Len(q)
    PROVE  \A i, j \in DOMAIN q : q[i] = q[j] => i = j
<1>1. DOMAIN q = 1 .. Len(q) /\ Len(q) \in Nat /\ q \in [1 .. Len(q) -> ToSet(q)]
  BY DEF ToSet
<1>2. IsFiniteSet(DOMAIN q) /\ Cardinality(DOMAIN q) = Len(q)
  <2>1. ASSUME NEW n \in Nat
        PROVE  IsFiniteSet(1 .. n) /\ Cardinality(1 .. n) = n
    <3>1. \A a, b \in Int : /\ IsFiniteSet(a .. b)
                            /\ Cardinality(a .. b) = IF a > b THEN 0 ELSE b - a + 1
      BY FS_Interval, Zenon
    <3>2. 1 \in Int /\ n \in Int
      OBVIOUS
    <3>3. /\ IsFiniteSet(1 .. n)
          /\ Cardinality(1 .. n) = IF 1 > n THEN 0 ELSE n - 1 + 1
      BY <3>1, <3>2, Zenon
    <3>4. QED
      BY <3>3
  <2>2. QED
    BY <1>1, <2>1
<1>3. q \in Surjection(DOMAIN q, ToSet(q))
  BY <1>1 DEF Surjection, ToSet
<1>4. q \in Injection(DOMAIN q, ToSet(q))
  BY <1>2, <1>3, FS_Surjection
<1>5. QED
  BY <1>4 DEF Injection, IsInjective

\* The host creates a match, with the squads it names.
LEMMA CreateSound ==
    ASSUME Sound(World), NEW h \in Clients, NEW mode \in Modes, NEW codes \in Codes,
           Create(h, mode, codes)
    PROVE  Sound(World')
<1> DEFINE mine == client[h].squad
           all == IF mode = "has" THEN <<mine>> ELSE <<mine>> \o codes
           teams == [t \in DOMAIN all |-> [squad |-> all[t], out |-> FALSE]]
           team == [s \in SquadIds |-> IF s \in ToSet(all)
                       THEN CHOOSE t \in DOMAIN all : all[t] = s ELSE NoTeam]
           m == [NoMatch EXCEPT !.mode = mode, !.host = mine, !.teams = teams,
                                !.team = team]
<1>1. /\ match' = m /\ UNCHANGED <<client, squad>>
      /\ Cardinality(ToSet(all)) = Len(all)
  BY DEF Create
<1>2. mine \in SquadIds
  BY DEF Create, IsLeader, World
<1>3. /\ all \in Seq(SquadIds) /\ Len(all) <= MaxTeams /\ Len(all) >= 1 /\ all[1] = mine
      /\ mode = "has" => Len(all) = 1
  <2>1. PICK n \in 0 .. MaxTeams - 1 : codes \in [1 .. n -> SquadIds]
    BY DEF Codes
  <2>2. MaxTeams \in Nat
    BY SizesAssumption
  <2>3. codes \in Seq(SquadIds) /\ Len(codes) = n
    BY <2>1, <2>2
  <2>4. CASE mode = "has"
    BY <1>2, <2>4, SizesAssumption
  <2>5. CASE mode # "has"
    BY <1>2, <2>1, <2>2, <2>3, <2>5
  <2>6. QED
    BY <2>4, <2>5
<1> HIDE DEF mine, all
<1>4. \A i, j \in DOMAIN all : all[i] = all[j] => i = j
  BY <1>1, <1>3, Distinct
<1>5. /\ teams \in Seq(TeamRecords) /\ Len(teams) = Len(all) /\ DOMAIN teams = DOMAIN all
      /\ \A t \in DOMAIN all : teams[t].squad = all[t]
  <2>1. \A t \in DOMAIN all : [squad |-> all[t], out |-> FALSE] \in TeamRecords
    BY <1>3 DEF TeamRecords
  <2>2. DOMAIN all = 1 .. Len(all) /\ Len(all) \in Nat
    BY <1>3
  <2>3. QED
    BY <2>1, <2>2
<1>6. ASSUME NEW s \in SquadIds
      PROVE  /\ team[s] \in 0 .. MaxTeams
             /\ team[s] # NoTeam => team[s] \in DOMAIN all /\ all[team[s]] = s
             /\ \A t \in DOMAIN all : all[t] = s => team[s] = t
  <2>1. DOMAIN all \subseteq 0 .. MaxTeams
    BY <1>3, SizesAssumption
  <2>2. CASE s \in ToSet(all)
    <3>1. \E t \in DOMAIN all : all[t] = s
      BY <2>2 DEF ToSet
    <3>2. team[s] \in DOMAIN all /\ all[team[s]] = s
      BY <2>2, <3>1
    <3> HIDE DEF team
    <3>3. QED
      BY <1>4, <2>1, <3>2
  <2>3. CASE s \notin ToSet(all)
    <3>1. team[s] = NoTeam /\ ~\E t \in DOMAIN all : all[t] = s
      BY <2>3 DEF ToSet
    <3>2. NoTeam \in 0 .. MaxTeams
      BY SizesAssumption DEF NoTeam
    <3> HIDE DEF team
    <3>3. QED
      BY <3>1, <3>2
  <2>4. QED
    BY <2>2, <2>3
<1>7. team \in [SquadIds -> 0 .. MaxTeams]
  BY <1>6
<1>8. /\ m.teams = teams /\ m.team = team /\ m.host = mine /\ m.mode = mode
      /\ m.phase = "lobby"
  BY DEF NoMatch
<1>9. m \in MatchRecords
  <2>1. mode \in {"ctf", "tdm", "has"}
    BY SizesAssumption
  <2> HIDE DEF team, teams
  <2>2. QED
    BY <1>2, <1>5, <1>7, <2>1, NoMatchLinked DEF MatchRecords
<1> HIDE DEF m, team, teams
<1>10. Named(m)
  <2>1. ASSUME NEW t \in DOMAIN m.teams
        PROVE  m.teams[t].squad # NoSquad /\ m.team[m.teams[t].squad] = t
    <3>1. t \in DOMAIN all /\ m.teams[t].squad = all[t] /\ all[t] \in SquadIds
      BY <1>3, <1>5, <1>8, <2>1
    <3>2. all[t] # NoSquad
      BY <3>1, SizesAssumption DEF SquadIds, NoSquad
    <3>3. QED
      BY <1>6, <1>8, <3>1, <3>2
  <2>2. \A s \in SquadIds : m.team[s] # NoTeam =>
          m.team[s] \in DOMAIN m.teams /\ m.teams[m.team[s]].squad = s
    BY <1>5, <1>6, <1>8
  <2>3. QED
    BY <2>1, <2>2 DEF Named
<1>11. Linked(m)
  <2>1. /\ 1 \in DOMAIN all /\ m.teams[1].squad = mine /\ m.teams # <<>>
        /\ Len(m.teams) = Len(all)
    BY <1>3, <1>5, <1>8
  <2>2. QED
    BY <1>3, <1>8, <1>10, <2>1 DEF Linked
<1> DEFINE v == [World EXCEPT !.match = m]
<1>12. Sound(v)
  BY <1>9, <1>11, SoundMatch
<1>13. Becomes(v)
  BY <1>1 DEF Becomes, World
<1> HIDE DEF v
<1>14. QED
  BY <1>12, <1>13, SoundBecomes

\* An element is appended to a sequence.
LEMMA Joined ==
    ASSUME NEW S, NEW q \in Seq(S), NEW e \in S
    PROVE  LET r == q \o <<e>>
           IN  /\ r \in Seq(S) /\ Len(r) = Len(q) + 1 /\ r[Len(q) + 1] = e
               /\ \A t \in DOMAIN q : t \in DOMAIN r /\ r[t] = q[t]
               /\ q \o <<>> = q
OBVIOUS

\* The match begins with the teams of the lobby; in hide and seek the hiders are one more.
BegunTeams(m) ==
    [t \in DOMAIN m.teams |-> [m.teams[t] EXCEPT !.out = FALSE]] \o
        IF m.mode = "has" THEN <<[squad |-> NoSquad, out |-> FALSE]>> ELSE <<>>

\* The teams the match begins with are those of the lobby, and the hiders.
LEMMA TeamsBegun ==
    ASSUME NEW m \in MatchRecords, Linked(m), m.phase = "lobby", m.teams # <<>>
    PROVE  /\ BegunTeams(m) \in Seq(TeamRecords) /\ BegunTeams(m) # <<>>
           /\ m.mode = "has" => /\ DOMAIN BegunTeams(m) = 1 .. 2 /\ Len(BegunTeams(m)) = 2
                                /\ DOMAIN m.teams = 1 .. 1 /\ BegunTeams(m)[2].squad = NoSquad
           /\ m.mode # "has" => /\ Len(BegunTeams(m)) = Len(m.teams)
                                /\ DOMAIN BegunTeams(m) = DOMAIN m.teams
           /\ \A t \in DOMAIN m.teams :
                 t \in DOMAIN BegunTeams(m) /\ BegunTeams(m)[t].squad = m.teams[t].squad
<1> DEFINE old == [t \in DOMAIN m.teams |-> [m.teams[t] EXCEPT !.out = FALSE]]
           hiders == [squad |-> NoSquad, out |-> FALSE]
           teams == BegunTeams(m)
<1>1. /\ m.teams \in Seq(TeamRecords) /\ Len(m.teams) \in Nat
      /\ DOMAIN m.teams = 1 .. Len(m.teams) /\ 1 \in DOMAIN m.teams
  BY DEF MatchRecords
<1>2. /\ old \in Seq(TeamRecords) /\ Len(old) = Len(m.teams)
      /\ \A t \in DOMAIN m.teams : t \in DOMAIN old /\ old[t].squad = m.teams[t].squad
  <2>1. ASSUME NEW t \in DOMAIN m.teams
        PROVE  /\ [m.teams[t] EXCEPT !.out = FALSE] \in TeamRecords
               /\ [m.teams[t] EXCEPT !.out = FALSE].squad = m.teams[t].squad
    <3>1. m.teams[t] \in TeamRecords
      BY <1>1
    <3>2. QED
      BY <3>1 DEF TeamRecords
  <2>2. QED
    BY <1>1, <2>1
<1>3. hiders \in TeamRecords /\ hiders.squad = NoSquad
  BY DEF TeamRecords
<1>4. /\ m.mode = "has" => teams = old \o <<hiders>>
      /\ m.mode # "has" => teams = old \o <<>>
  BY DEF BegunTeams
<1> HIDE DEF old, hiders, teams
<1>5. CASE m.mode = "has"
  <2>1. Len(m.teams) = 1 /\ teams = old \o <<hiders>>
    BY <1>4, <1>5 DEF Linked
  <2>2. /\ teams \in Seq(TeamRecords) /\ Len(teams) = Len(old) + 1
        /\ teams[Len(old) + 1] = hiders
        /\ \A t \in DOMAIN old : t \in DOMAIN teams /\ teams[t] = old[t]
    BY <1>2, <1>3, <2>1, Joined
  <2>3. DOMAIN teams = 1 .. 2 /\ DOMAIN m.teams = 1 .. 1 /\ teams # <<>>
    BY <1>1, <1>2, <2>1, <2>2
  <2>4. teams[2].squad = NoSquad /\ Len(teams) = 2
    BY <1>2, <1>3, <2>1, <2>2
  <2>5. \A t \in DOMAIN m.teams : t \in DOMAIN teams /\ teams[t].squad = m.teams[t].squad
    BY <1>2, <2>2
  <2>6. QED
    BY <1>5, <2>2, <2>3, <2>4, <2>5 DEF teams
<1>6. CASE m.mode # "has"
  <2>1. teams = old
    BY <1>2, <1>3, <1>4, <1>6, Joined
  <2>2. DOMAIN old = DOMAIN m.teams /\ old # <<>>
    BY <1>1, <1>2
  <2>3. QED
    BY <1>2, <1>6, <2>1, <2>2 DEF teams
<1>7. QED
  BY <1>5, <1>6

\* So the match that begins is linked.
LEMMA BegunLinked ==
    ASSUME NEW m \in MatchRecords, Linked(m), m.phase = "lobby", m.teams # <<>>,
           NEW p \in {"placement", "farm", "war"}
    PROVE  LET n == [m EXCEPT !.phase = p, !.ready = FALSE, !.winner = NoTeam,
                              !.teams = BegunTeams(m)]
           IN  n \in MatchRecords /\ Linked(n)
<1> DEFINE teams == BegunTeams(m)
           zero == NoTeam
           n == [m EXCEPT !.phase = p, !.ready = FALSE, !.winner = zero, !.teams = teams]
<1>1. /\ teams \in Seq(TeamRecords) /\ teams # <<>>
      /\ m.mode = "has" => /\ DOMAIN teams = 1 .. 2 /\ Len(teams) = 2
                           /\ DOMAIN m.teams = 1 .. 1 /\ teams[2].squad = NoSquad
      /\ m.mode # "has" => Len(teams) = Len(m.teams) /\ DOMAIN teams = DOMAIN m.teams
      /\ \A t \in DOMAIN m.teams : t \in DOMAIN teams /\ teams[t].squad = m.teams[t].squad
  BY TeamsBegun
<1> HIDE DEF teams
<1>2. MaxTeams >= 2 /\ MaxTeams \in Nat /\ zero \in 0 .. MaxTeams
  BY SizesAssumption DEF NoTeam
<1>3. 1 \in DOMAIN m.teams
  BY DEF MatchRecords
<1> HIDE DEF zero
<1>4. n \in MatchRecords
  BY <1>1, <1>2 DEF MatchRecords
<1>5. /\ n.teams = teams /\ n.team = m.team /\ n.host = m.host /\ n.mode = m.mode
      /\ n.phase = p
  BY DEF MatchRecords
<1> HIDE DEF n
<1>6. Named(n)
  <2>1. ASSUME NEW t \in DOMAIN teams
        PROVE  IF teams[t].squad = NoSquad THEN m.mode = "has" /\ t = Hiders
               ELSE m.team[teams[t].squad] = t
    <3>1. CASE t \in DOMAIN m.teams
      BY <1>1, <3>1 DEF Linked, Named
    <3>2. CASE t \notin DOMAIN m.teams
      BY <1>1, <3>2 DEF Hiders
    <3>3. QED
      BY <3>1, <3>2
  <2>2. ASSUME NEW s \in SquadIds, m.team[s] # NoTeam
        PROVE  m.team[s] \in DOMAIN teams /\ teams[m.team[s]].squad = s
    BY <1>1, <2>2 DEF Linked, Named
  <2>3. QED
    BY <1>5, <2>1, <2>2 DEF Named
<1>7. Linked(n)
  BY <1>1, <1>2, <1>3, <1>5, <1>6 DEF Linked
<1>8. QED
  BY <1>4, <1>7 DEF n, teams, zero

\* The host starts the match.
LEMMA StartSound ==
    ASSUME Sound(World), NEW h \in Clients, Start(h)
    PROVE  Sound(World')
<1> DEFINE p == FirstPhase(match.mode)
           n == [match EXCEPT !.phase = p, !.ready = FALSE, !.winner = NoTeam,
                              !.teams = BegunTeams(match)]
           f == [c \in Clients |->
                [client[c] EXCEPT !.played = FALSE, !.out = FALSE, !.forfeit = FALSE]]
           begun == [World EXCEPT
            !.match.phase = FirstPhase(match.mode), !.match.ready = FALSE,
            !.match.winner = NoTeam,
            !.match.teams = [t \in DOMAIN @ |-> [@[t] EXCEPT !.out = FALSE]] \o
                IF match.mode = "has" THEN <<[squad |-> NoSquad, out |-> FALSE]>>
                                      ELSE <<>>,
            !.client = [c \in Clients |->
                [@[c] EXCEPT !.played = FALSE, !.out = FALSE, !.forfeit = FALSE]]]
           noted == [begun EXCEPT !.client = [c \in Clients |->
                        [begun.client[c] EXCEPT !.played = @ \/ c \in Team(begun, Seekers)]]]
<1>1. /\ match.phase = "lobby" /\ match.teams # <<>>
      /\ Becomes(IF match.mode = "has"
                 THEN Spawn(noted, Team(begun, Hiders))
                 ELSE Spawn(begun, UNION {Team(begun, t) : t \in DOMAIN match.teams}))
  BY NowSound DEF Start, IsHost
<1>2. begun = [client |-> f, squad |-> squad, match |-> n]
  <2>1. begun = [World EXCEPT !.match = n, !.client = f]
    BY DEF World, BegunTeams
  <2> HIDE DEF begun, n, f
  <2>2. QED
    BY <2>1 DEF World
<1>3. p \in {"placement", "farm", "war"} /\ match \in MatchRecords /\ Linked(match)
  BY NowSound DEF MatchRecords, FirstPhase
<1> HIDE DEF p
<1>4. n \in MatchRecords /\ Linked(n)
  BY <1>1, <1>3, BegunLinked
<1> HIDE DEF n
<1>5. f \in [Clients -> Seats] /\ \A c \in Clients : f[c].squad = client[c].squad
  <2>1. ASSUME NEW c \in Clients
        PROVE  f[c] \in Seats /\ f[c].squad = client[c].squad
    <3>1. client[c] \in Seats
      BY NowSound
    <3>2. QED
      BY <3>1 DEF Seats, SeatOK, ClientRecords
  <2>2. QED
    BY <2>1
<1> HIDE DEF f
<1>6. Sound(begun)
  <2>1. [client |-> f, squad |-> squad, match |-> n] \in Worlds
    BY <1>4, <1>5, NowSound DEF Worlds
  <2>2. OwnersSit([client |-> f, squad |-> squad, match |-> n])
    BY <1>5, NowSound DEF OwnersSit
  <2> HIDE DEF begun
  <2>3. QED
    BY <1>2, <1>4, <2>1, <2>2 DEF Sound
<1> HIDE DEF begun
<1>7. Sound(noted)
  <2> DEFINE g == [c \in Clients |-> [begun.client[c] EXCEPT
                        !.played = @ \/ c \in Team(begun, Seekers)]]
  <2>1. ASSUME NEW c \in Clients
        PROVE  g[c] \in Seats /\ g[c].squad = begun.client[c].squad
    <3> DEFINE b == begun.client[c].played \/ c \in Team(begun, Seekers)
    <3>1. begun.client[c] \in Seats /\ b \in BOOLEAN
      BY <1>6 DEF Sound, Worlds
    <3>2. g[c] = [begun.client[c] EXCEPT !.played = b]
      OBVIOUS
    <3> HIDE DEF b, g
    <3>3. QED
      BY <3>1, <3>2 DEF Seats, SeatOK, ClientRecords
  <2>2. DOMAIN g = Clients /\ g \in [Clients -> Seats]
    BY <2>1
  <2>3. noted = [begun EXCEPT !.client = g]
    OBVIOUS
  <2> HIDE DEF g, noted
  <2>4. QED
    BY <1>6, <2>1, <2>2, <2>3, SoundClients
<1> HIDE DEF noted
<1>8. \E v : Sound(v) /\ Becomes(v)
  BY <1>1, <1>6, <1>7, SoundSpawn
<1>9. QED
  BY <1>8, SoundBecomes

\* The simulation kills and revives, before the match part of a tick.
LEMMA SoundSimulated ==
    ASSUME NEW w, Sound(w), NEW v \in Simulated(w)
    PROVE  /\ Sound(v) /\ v.match = w.match
           /\ \A c \in Clients : v.client[c].squad = w.client[c].squad
<1>1. PICK k \in SUBSET {c \in Clients : Alive(w, c)}, r \in SUBSET Seeded(w) :
          v = Lives(w, k, r)
  BY DEF Simulated
<1> DEFINE f == [c \in Clients |-> IF c \in k THEN [w.client[c] EXCEPT !.life = "dead"]
                    ELSE IF c \in r THEN [w.client[c] EXCEPT !.life = "alive"]
                    ELSE w.client[c]]
<1>2. v = [w EXCEPT !.client = f]
  BY <1>1 DEF Lives, Sound, Worlds
<1>3. \A c \in Clients : /\ w.client[c] \in Seats
                         /\ c \in k \/ c \in r => w.client[c].life # "none"
  BY DEF Sound, Worlds, Seeded, Alive
<1>4. f \in [Clients -> Seats] /\ \A c \in Clients : f[c].squad = w.client[c].squad
  BY <1>3, SeatLife
<1> HIDE DEF f
<1>5. QED
  BY <1>2, <1>4, SoundClients

\* A match that goes on keeps its links.
GoesOn(w) == Sound(w) /\ w.match.phase # "lobby"

\* The match has a winner.
LEMMA SoundFinish ==
    ASSUME NEW w, GoesOn(w), NEW t \in 0 .. MaxTeams
    PROVE  Sound(Finish(w, t))
<1> DEFINE p == "ended"
<1>1. p \in {"placement", "farm", "war", "ended"} /\ Sound(w) /\ w.match.phase # "lobby"
  BY DEF GoesOn
<1>2. Finish(w, t) = [w EXCEPT !.match.winner = t, !.match.phase = p]
  BY DEF Finish
<1> HIDE DEF p
<1>3. \A r \in {"placement", "farm", "war", "ended"} : \A win \in 0 .. MaxTeams :
         Sound([w EXCEPT !.match.winner = win, !.match.phase = r])
  BY <1>1, MatchGoesOnLinked
<1>4. QED
  BY <1>1, <1>2, <1>3

\* The teams are numbered from 1 to their count.
LEMMA TeamNumbers ==
    ASSUME NEW w, GoesOn(w)
    PROVE  1 .. TeamCount(w) \subseteq 0 .. MaxTeams /\ TeamCount(w) \in Nat
BY SizesAssumption DEF GoesOn, Sound, Worlds, MatchRecords, Linked, TeamCount

\* Teams go out.
LEMMA SoundJudged ==
    ASSUME NEW w, GoesOn(w), NEW T
    PROVE  GoesOn(Eliminate(w, T)) /\ TeamCount(Eliminate(w, T)) = TeamCount(w)
<1> DEFINE m == w.match
           teams == [t \in DOMAIN m.teams |-> [m.teams[t] EXCEPT !.out = @ \/ t \in T]]
           n == [m EXCEPT !.teams = teams]
<1>1. m \in MatchRecords /\ Linked(m) /\ m.phase # "lobby"
  BY DEF GoesOn, Sound, Worlds
<1>2. /\ teams \in Seq(TeamRecords) /\ Len(teams) = Len(m.teams)
      /\ \A t \in DOMAIN m.teams : teams[t].squad = m.teams[t].squad
  <2>1. ASSUME NEW t \in DOMAIN m.teams
        PROVE  /\ teams[t] \in TeamRecords /\ teams[t].squad = m.teams[t].squad
    <3> DEFINE b == m.teams[t].out \/ t \in T
    <3>1. m.teams[t] \in TeamRecords /\ b \in BOOLEAN
      BY <1>1 DEF MatchRecords
    <3>2. teams[t] = [m.teams[t] EXCEPT !.out = b]
      OBVIOUS
    <3> HIDE DEF b, teams
    <3>3. QED
      BY <3>1, <3>2 DEF TeamRecords
  <2>2. m.teams \in Seq(TeamRecords) /\ DOMAIN teams = DOMAIN m.teams
    BY <1>1 DEF MatchRecords
  <2> HIDE DEF teams
  <2>3. DOMAIN m.teams = 1 .. Len(m.teams) /\ Len(m.teams) \in Nat
    BY <2>2
  <2>4. teams \in [1 .. Len(m.teams) -> TeamRecords]
    BY <2>1, <2>2, <2>3 DEF teams
  <2>5. teams \in Seq(TeamRecords) /\ Len(teams) = Len(m.teams)
    BY <2>3, <2>4
  <2>6. QED
    BY <2>1, <2>5
<1> DEFINE v == Eliminate(w, T)
<1>3. v = [w EXCEPT !.match = n]
  BY DEF Eliminate, GoesOn, Sound, Worlds
<1> HIDE DEF teams, v
<1>4. /\ n \in MatchRecords /\ n.team = m.team /\ n.host = m.host /\ n.mode = m.mode
      /\ n.teams = teams /\ n.phase = m.phase
  BY <1>1, <1>2 DEF MatchRecords
<1>5. Linked(n)
  BY <1>1, <1>2, <1>4, SameLinks
<1> HIDE DEF n
<1>6. n \in MatchRecords /\ Sound(w)
  BY <1>4 DEF GoesOn
<1>7. Sound(v) /\ v.match = n
  BY <1>3, <1>5, <1>6, SoundMatch
<1>8. QED
  BY <1>1, <1>2, <1>4, <1>7 DEF GoesOn, TeamCount, v

\* A tick of the team deathmatch.
LEMMA SoundTdm ==
    ASSUME NEW w, GoesOn(w), NEW due, NEW v \in TickTdm(w, due)
    PROVE  Sound(v)
<1> DEFINE alive == {t \in 1..TeamCount(w) : AliveInTeam(w, t) # {}}
           judged == [w EXCEPT !.match.teams = [t \in DOMAIN @ |->
                      [w.match.teams[t] EXCEPT !.out = @ \/ t \notin alive]]]
           win == IF alive = {} THEN NoTeam ELSE CHOOSE t \in alive : TRUE
           T == {t \in DOMAIN w.match.teams : t \notin alive}
<1>1. v \in {w, judged, Finish(judged, win)}
  BY DEF TickTdm
<1>2. GoesOn(judged) /\ TeamCount(judged) = TeamCount(w)
  <2> HIDE DEF alive
  <2>1. [t \in DOMAIN w.match.teams |-> [w.match.teams[t] EXCEPT !.out = @ \/ t \notin alive]]
        = [t \in DOMAIN w.match.teams |-> [w.match.teams[t] EXCEPT !.out = @ \/ t \in T]]
    OBVIOUS
  <2>2. judged = Eliminate(w, T)
    BY <2>1 DEF Eliminate
  <2> HIDE DEF T, judged
  <2>3. QED
    BY <2>2, SoundJudged
<1>3. win \in 0 .. MaxTeams
  <2>1. alive \subseteq 0 .. MaxTeams
    BY TeamNumbers
  <2> HIDE DEF alive
  <2>2. CASE alive = {}
    BY <2>2, SizesAssumption DEF NoTeam
  <2>3. CASE alive # {}
    <3>1. \E t \in alive : TRUE
      BY <2>3
    <3>2. (CHOOSE t \in alive : TRUE) \in alive
      BY <3>1
    <3>3. QED
      BY <2>1, <2>3, <3>2
  <2>4. QED
    BY <2>2, <2>3
<1> HIDE DEF judged, win
<1>4. QED
  BY <1>1, <1>2, <1>3, SoundFinish DEF GoesOn

\* A tick of hide and seek.
LEMMA SoundHas ==
    ASSUME NEW w, GoesOn(w), w.match.mode = "has", NEW due, NEW v \in TickHas(w, due)
    PROVE  Sound(v)
<1> DEFINE f == [c \in Clients |-> IF c \in Dead(w, Hiders)
                    THEN [w.client[c] EXCEPT !.out = TRUE] ELSE w.client[c]]
           caught == [w EXCEPT !.client = f]
<1>1. ASSUME v # EndMatch(w)
      PROVE  \E S : v \in {Spawn(caught, S), Finish(Spawn(caught, S), Seekers),
                           Finish(Spawn(caught, S), Hiders)}
             /\ (v = Spawn(caught, S) \/ w.match.phase = "war")
  <2> DEFINE x == [w EXCEPT !.client = [c \in Clients |->
                      IF c \in Dead(w, Hiders) THEN [@[c] EXCEPT !.out = TRUE] ELSE @[c]]]
  <2>1. \E S : /\ v \in {Spawn(x, S), Finish(Spawn(x, S), Seekers),
                         Finish(Spawn(x, S), Hiders)}
               /\ v = Spawn(x, S) \/ Spawn(x, S).match.phase = "war"
    BY <1>1 DEF TickHas
  <2>2. x = caught
    OBVIOUS
  <2>3. \A S : Spawn(caught, S).match = w.match
    BY DEF Spawn, GoesOn, Sound, Worlds
  <2> HIDE DEF caught, x
  <2>4. QED
    BY <2>1, <2>2, <2>3
<1>2. Sound(caught) /\ caught.match = w.match
  <2>1. ASSUME NEW c \in Clients
        PROVE  f[c] \in Seats /\ f[c].squad = w.client[c].squad
    <3> DEFINE q == [w.client[c] EXCEPT !.out = TRUE]
    <3>1. w.client[c] \in Seats
      BY DEF GoesOn, Sound, Worlds
    <3>2. q \in Seats /\ q.squad = w.client[c].squad
      BY <3>1 DEF Seats, SeatOK, ClientRecords
    <3>3. f[c] \in {q, w.client[c]}
      OBVIOUS
    <3> HIDE DEF q, f
    <3>4. QED
      BY <3>1, <3>2, <3>3
  <2>2. f \in [Clients -> Seats]
    BY <2>1
  <2> HIDE DEF f
  <2>3. QED
    BY <2>1, <2>2, SoundClients DEF GoesOn
<1> HIDE DEF caught
<1>3. CASE v = EndMatch(w)
  BY <1>3, SoundEnd DEF GoesOn
<1>4. CASE v # EndMatch(w)
  <2>1. PICK S : v \in {Spawn(caught, S), Finish(Spawn(caught, S), Seekers),
                        Finish(Spawn(caught, S), Hiders)}
    BY <1>1, <1>4
  <2> DEFINE u == Spawn(caught, S)
  <2>2. GoesOn(u) /\ u.match = w.match
    BY <1>2, SoundSpawn DEF GoesOn
  <2> HIDE DEF u
  <2>3. ASSUME NEW t \in {Seekers, Hiders} PROVE Sound(Finish(u, t))
    <3>1. t \in 0 .. MaxTeams
      BY SizesAssumption DEF Seekers, Hiders
    <3>2. QED
      BY <2>2, <3>1, SoundFinish
  <2>4. QED
    BY <2>1, <2>2, <2>3 DEF u, GoesOn
<1>5. QED
  BY <1>3, <1>4

\* A tick of capture the flag.
LEMMA SoundCtf ==
    ASSUME NEW w, GoesOn(w), NEW v \in TickCtf(w)
    PROVE  Sound(v)
<1>1. CASE v = EndMatch(w)
  BY <1>1, SoundEnd DEF GoesOn
<1>2. CASE v # EndMatch(w)
  <2>1. PICK u \in Outcomes(w) : v \in Continued(u)
    BY <1>2 DEF TickCtf
  <2>2. GoesOn(u)
    <3>1. CASE u = w
      BY <3>1
    <3>2. CASE u # w
      <4>1. PICK T : u = StayDead(Eliminate(w, T))
        BY <2>1, <3>2 DEF Outcomes
      <4> DEFINE e == Eliminate(w, T)
                 S == {c \in Clients : ClientTeam(e, c) \in Out(e) /\ Alive(e, c)}
      <4>2. GoesOn(e)
        BY SoundJudged
      <4>3. u = Kill(e, S) /\ \A c \in S : c \in Clients => Alive(e, c)
        BY <4>1 DEF StayDead
      <4> HIDE DEF e, S
      <4>4. QED
        BY <4>2, <4>3, SoundKill DEF GoesOn
    <3>3. QED
      BY <3>1, <3>2
  <2>3. CASE \E S : v = Spawn(u, S)
    BY <2>2, <2>3, SoundSpawn DEF GoesOn
  <2>4. CASE \E t \in 1 .. TeamCount(u) : v = Finish(u, t)
    <3>1. PICK t \in 1 .. TeamCount(u) : v = Finish(u, t)
      BY <2>4
    <3>2. t \in 0 .. MaxTeams
      BY <2>2, TeamNumbers
    <3>3. QED
      BY <2>2, <3>1, <3>2, SoundFinish
  <2>5. QED
    BY <2>1, <2>3, <2>4 DEF Continued
<1>3. QED
  BY <1>1, <1>2

\* A tick of any mode.
LEMMA SoundMode ==
    ASSUME NEW w, GoesOn(w), NEW due, NEW v \in TickMode(w, due)
    PROVE  Sound(v)
<1>1. w.match.mode \in {"ctf", "tdm", "has"}
  BY DEF GoesOn, Sound, Worlds, MatchRecords
<1>2. CASE w.match.mode = "ctf"
  BY <1>2, SoundCtf DEF TickMode, Chosen
<1>3. CASE w.match.mode = "tdm"
  BY <1>3, SoundTdm DEF TickMode, Chosen
<1>4. CASE w.match.mode = "has"
  BY <1>4, SoundHas DEF TickMode, Chosen
<1>5. QED
  BY <1>1, <1>2, <1>3, <1>4

\* The matches the loop over vanished squads goes through: in the lobby, of a mode that
\* links squads, with a team.
Lobbies ==
    {m \in MatchRecords :
        m.phase = "lobby" /\ m.mode # "has" /\ m.teams # <<>> /\ Linked(m)}

\* A squad that is not the host is unlinked: the teams after it move down by one, and the
\* squads of those are told (drop_vanished_squads).
LEMMA Unlinks ==
    ASSUME NEW m \in Lobbies, NEW t \in DOMAIN m.teams, t # 1
    PROVE  /\ Unlink(m, t) \in Lobbies /\ Unlink(m, t).mode = m.mode
           /\ Unlink(m, t).host = m.host
           /\ Len(Unlink(m, t).teams) = Len(m.teams) - 1
<1> DEFINE L == Len(m.teams)
           teams == RemoveAt(m.teams, t)
           MovedTo(s) == {k \in t .. Len(teams) : teams[k].squad = s}
           team == [s \in SquadIds |->
                      IF MovedTo(s) # {} THEN CHOOSE k \in MovedTo(s) : TRUE
                      ELSE IF s = m.teams[t].squad THEN NoTeam ELSE m.team[s]]
           n == [m EXCEPT !.teams = teams, !.team = team]
<1>1. /\ m \in MatchRecords /\ m.phase = "lobby" /\ m.mode # "has"
      /\ m.host = m.teams[1].squad /\ Named(m)
      /\ m.teams \in Seq(TeamRecords) /\ DOMAIN m.teams = 1 .. L
      /\ L \in Nat /\ L <= MaxTeams /\ MaxTeams \in Nat
      /\ m.team \in [SquadIds -> 0 .. MaxTeams]
  BY SizesAssumption DEF Lobbies, Linked, MatchRecords
<1>2. t \in 2 .. L
  BY <1>1
<1>3. /\ teams \in Seq(TeamRecords) /\ Len(teams) = L - 1 /\ DOMAIN teams = 1 .. L - 1
      /\ \A k \in 1 .. L - 1 : teams[k] = m.teams[IF k < t THEN k ELSE k + 1]
  <2>1. IsRest(teams, m.teams, t)
    BY DEF RemoveAt, IsRest
  <2>2. m.teams \in Seq(TeamRecords)
    BY <1>1
  <2> HIDE DEF teams
  <2>3. /\ teams \in Seq(TeamRecords) /\ DOMAIN teams = 1 .. Len(m.teams) - 1
        /\ \A k \in 1 .. Len(m.teams) - 1 : teams[k] = m.teams[IF k < t THEN k ELSE k + 1]
    BY <2>2, <2>1, WithoutOne
  <2>4. Len(teams) = L - 1
    BY <1>1, <1>2, <2>3
  <2>5. QED
    BY <2>3, <2>4
<1>4. Unlink(m, t) = n
  BY DEF Unlink
<1> HIDE DEF teams
<1>5. \A k \in DOMAIN m.teams : m.teams[k].squad \in SquadIds /\ m.team[m.teams[k].squad] = k
  <2>1. ASSUME NEW k \in DOMAIN m.teams
        PROVE  m.teams[k].squad \in SquadIds /\ m.team[m.teams[k].squad] = k
    <3>1. m.teams[k] \in TeamRecords
      BY <1>1
    <3>2. QED
      BY <1>1, <3>1 DEF Named, TeamRecords
  <2>2. QED
    BY <2>1
<1>6. ASSUME NEW k \in DOMAIN teams
      PROVE  /\ teams[k].squad \in SquadIds
             /\ m.team[teams[k].squad] = IF k < t THEN k ELSE k + 1
  <2> DEFINE i == IF k < t THEN k ELSE k + 1
  <2>1. k \in 1 .. L - 1
    BY <1>3
  <2>2. i \in DOMAIN m.teams
    BY <1>1, <1>2, <2>1
  <2>3. teams[k] = m.teams[i]
    BY <1>3, <2>1
  <2> HIDE DEF i
  <2>4. teams[k].squad \in SquadIds /\ m.team[teams[k].squad] = i
    BY <1>5, <2>2, <2>3
  <2>5. QED
    BY <2>4 DEF i
<1>7. ASSUME NEW s \in SquadIds
      PROVE  /\ team[s] \in 0 .. MaxTeams
             /\ team[s] # NoTeam => team[s] \in DOMAIN teams /\ teams[team[s]].squad = s
             /\ \A k \in DOMAIN teams : teams[k].squad = s => team[s] = k
  <2>1. CASE MovedTo(s) # {}
    <3>1. \E k \in MovedTo(s) : TRUE
      BY <2>1
    <3>2. team[s] \in MovedTo(s)
      BY <2>1, <3>1
    <3>3. team[s] \in t .. L - 1 /\ teams[team[s]].squad = s
      BY <1>3, <3>2
    <3> HIDE DEF team
    <3>4. team[s] \in DOMAIN teams /\ team[s] \in 0 .. MaxTeams
      BY <1>1, <1>2, <1>3, <3>3
    <3>5. ASSUME NEW k \in DOMAIN teams, teams[k].squad = s PROVE team[s] = k
      <4>1. m.team[s] = team[s] + 1
        BY <1>6, <1>2, <3>3, <3>4
      <4>2. m.team[s] = IF k < t THEN k ELSE k + 1
        BY <1>6, <3>5
      <4>3. QED
        BY <1>2, <1>3, <3>3, <4>1, <4>2
    <3>6. QED
      BY <3>3, <3>4, <3>5
  <2>2. CASE MovedTo(s) = {}
    <3>1. team[s] = IF s = m.teams[t].squad THEN NoTeam ELSE m.team[s]
      BY <2>2
    <3>2. \A k \in t .. L - 1 : teams[k].squad # s
      BY <1>3, <2>2
    <3> HIDE DEF team, MovedTo
    <3>3. team[s] \in 0 .. MaxTeams
      BY <1>1, <3>1 DEF NoTeam
    <3>4. ASSUME team[s] # NoTeam
          PROVE  team[s] \in DOMAIN teams /\ teams[team[s]].squad = s
      <4> DEFINE j == m.team[s]
      <4>1. s # m.teams[t].squad /\ team[s] = j /\ j # NoTeam
        BY <3>1, <3>4
      <4>2. j \in 1 .. L /\ m.teams[j].squad = s
        BY <1>1, <4>1 DEF Named
      <4>3. j # t
        BY <4>1, <4>2
      <4>4. ~(j > t)
        <5>1. SUFFICES ASSUME j > t PROVE FALSE
          OBVIOUS
        <5> DEFINE i == j - 1
        <5>2. i \in t .. L - 1 /\ ~(i < t) /\ i + 1 = j /\ i \in 1 .. L - 1
          BY <1>2, <4>2, <5>1
        <5> HIDE DEF i, j
        <5>3. teams[i] = m.teams[j]
          BY <1>3, <5>2
        <5>4. QED
          BY <3>2, <4>2, <5>2, <5>3
      <4>5. j < t /\ j \in 1 .. L - 1
        BY <1>2, <4>2, <4>3, <4>4
      <4> HIDE DEF j
      <4>6. QED
        BY <1>3, <4>1, <4>2, <4>5
    <3>5. ASSUME NEW k \in DOMAIN teams, teams[k].squad = s PROVE team[s] = k
      <4>1. k \in 1 .. L - 1 /\ k < t
        BY <1>2, <1>3, <3>2, <3>5
      <4>2. m.teams[k].squad = s /\ k \in DOMAIN m.teams
        BY <1>1, <1>3, <3>5, <4>1
      <4>3. m.team[s] = k
        BY <1>5, <4>2
      <4>4. s # m.teams[t].squad
        BY <1>5, <4>1, <4>3
      <4>5. QED
        BY <3>1, <4>3, <4>4
    <3>6. QED
      BY <3>3, <3>4, <3>5
  <2>3. QED
    BY <2>1, <2>2
<1>8. team \in [SquadIds -> 0 .. MaxTeams]
  BY <1>7
<1> HIDE DEF team
<1>9. /\ n \in MatchRecords /\ n.teams = teams /\ n.team = team /\ n.host = m.host
      /\ n.mode = m.mode /\ n.phase = "lobby"
  BY <1>1, <1>3, <1>8 DEF MatchRecords
<1> HIDE DEF n
<1>10. Named(n)
  <2>1. ASSUME NEW k \in DOMAIN n.teams
        PROVE  n.teams[k].squad # NoSquad /\ n.team[n.teams[k].squad] = k
    <3>1. teams[k].squad \in SquadIds
      BY <1>6, <1>9, <2>1
    <3>2. teams[k].squad # NoSquad
      BY <3>1, SizesAssumption DEF SquadIds, NoSquad
    <3>3. QED
      BY <1>7, <1>9, <2>1, <3>1, <3>2
  <2>2. \A s \in SquadIds : n.team[s] # NoTeam =>
          n.team[s] \in DOMAIN n.teams /\ n.teams[n.team[s]].squad = s
    BY <1>7, <1>9
  <2>3. QED
    BY <2>1, <2>2 DEF Named
<1>11. n.teams[1] = m.teams[1] /\ n.teams # <<>>
  BY <1>2, <1>3, <1>9
<1>12. Linked(n)
  BY <1>1, <1>3, <1>9, <1>10, <1>11 DEF Linked
<1>13. n \in Lobbies
  BY <1>1, <1>9, <1>11, <1>12 DEF Lobbies
<1>14. QED
  BY <1>3, <1>4, <1>9, <1>13

\* Where the loop is after k turns: it has seen k of the other teams, or dropped them.
DropAt(w, k) ==
    {d \in [match : Lobbies, t : Nat] :
        /\ d.t >= 2 /\ Len(d.match.teams) - d.t = Len(w.match.teams) - 2 - k
        /\ d.match.mode = w.match.mode /\ d.match.host = w.match.host}

\* One turn of the loop.
LEMMA DropsNext ==
    ASSUME NEW w, w.match \in Lobbies, NEW k \in 0 .. Len(w.match.teams) - 2,
           NEW d \in DropAt(w, k)
    PROVE  DropNext(w, d) \in DropAt(w, k + 1)
<1>1. /\ d.match \in Lobbies /\ d.t \in Nat /\ d.t >= 2
      /\ Len(d.match.teams) - d.t = Len(w.match.teams) - 2 - k
      /\ d.match.mode = w.match.mode /\ d.match.host = w.match.host
  BY DEF DropAt
<1>2. /\ d.match.teams \in Seq(TeamRecords) /\ w.match.teams \in Seq(TeamRecords)
      /\ Len(d.match.teams) \in Nat /\ Len(w.match.teams) \in Nat /\ k \in Nat
  BY <1>1 DEF Lobbies, MatchRecords
<1>3. d.t \in DOMAIN d.match.teams /\ d.t # 1
  BY <1>1, <1>2
<1> DEFINE n == Unlink(d.match, d.t)
<1>4. /\ n \in Lobbies /\ n.mode = d.match.mode /\ n.host = d.match.host
      /\ Len(n.teams) = Len(d.match.teams) - 1
  BY <1>1, <1>3, Unlinks
<1>5. DropNext(w, d) \in {[match |-> n, t |-> d.t], [match |-> d.match, t |-> d.t + 1]}
  BY DEF DropNext, DropAt
<1> HIDE DEF n
<1>6. /\ Len(d.match.teams) - 1 - d.t = Len(w.match.teams) - 2 - (k + 1)
      /\ Len(d.match.teams) - (d.t + 1) = Len(w.match.teams) - 2 - (k + 1)
  <2> DEFINE a == Len(d.match.teams)
             b == Len(w.match.teams)
             i == d.t
  <2>1. a \in Nat /\ b \in Nat /\ i \in Nat /\ k \in Nat /\ a - i = b - 2 - k
    BY <1>1, <1>2
  <2> HIDE DEF a, b, i
  <2>2. a - 1 - i = b - 2 - (k + 1) /\ a - (i + 1) = b - 2 - (k + 1)
    BY <2>1
  <2>3. QED
    BY <2>2 DEF a, b, i
<1>7. [match |-> n, t |-> d.t] \in DropAt(w, k + 1)
  <2>1. Len(n.teams) - d.t = Len(w.match.teams) - 2 - (k + 1)
    BY <1>4, <1>6
  <2>2. QED
    BY <1>1, <1>4, <2>1 DEF DropAt
<1>8. [match |-> d.match, t |-> d.t + 1] \in DropAt(w, k + 1)
  <2>1. Len(d.match.teams) - (d.t + 1) = Len(w.match.teams) - 2 - (k + 1)
    BY <1>6
  <2>2. d.t + 1 \in Nat /\ d.t + 1 >= 2
    BY <1>1
  <2>3. QED
    BY <1>1, <2>1, <2>2 DEF DropAt
<1>9. QED
  BY <1>5, <1>7, <1>8

\* A tick of the lobby: the links stay sound, and in hide and seek as they were.
LEMMA SoundDrop ==
    ASSUME NEW w, Sound(w), w.match.phase = "lobby"
    PROVE  LET v == DropVanished(w)
           IN  /\ Sound(v) /\ v = [w EXCEPT !.match = v.match]
               /\ \/ v.match = NoMatch \/ v.match = w.match
                  \/ /\ v.match.mode = w.match.mode /\ v.match.mode # "has"
                     /\ v.match.phase = "lobby"
<1> DEFINE m == w.match
           others == Len(m.teams) - 1
           start == [match |-> m, t |-> 2]
           g == [k \in 0 .. others - 1 |-> [d \in DropAt(w, k) |-> DropNext(w, d)]]
           Is(f) == f = [k \in 0 .. others |-> IF k = 0 THEN start
                                                ELSE DropNext(w, f[k - 1])]
           drop == CHOOSE f : Is(f)
           v == DropVanished(w)
<1>1. m \in MatchRecords /\ Linked(m) /\ w = [w EXCEPT !.match = m]
  BY DEF Sound, Worlds
<1>2. CASE m.teams = <<>>
  <2>1. v = w
    BY <1>2 DEF DropVanished
  <2>2. QED
    BY <1>1, <2>1
<1>3. CASE m.teams # <<>> /\ MembersOf(w, m.host) = {}
  <2>1. v = [w EXCEPT !.match = NoMatch]
    BY <1>3 DEF DropVanished
  <2>2. Sound(v) /\ v.match = NoMatch
    BY <2>1, NoMatchLinked, SoundMatch
  <2>3. QED
    BY <2>1, <2>2
<1>4. CASE m.teams # <<>> /\ MembersOf(w, m.host) # {}
  <2>1. v = [w EXCEPT !.match = drop[others].match]
    BY <1>4 DEF DropVanished
  <2>2. m.teams \in Seq(TeamRecords) /\ Len(m.teams) \in Nat /\ others \in Nat
    BY <1>1, <1>4 DEF MatchRecords
  <2>3. CASE m.mode = "has"
    <3>1. others = 0
      BY <1>1, <2>3 DEF Linked
    <3>2. Is([k \in 0 .. others |-> start])
      <4> HIDE DEF others, start
      <4>1. \A k \in 0 .. others : k = 0
        BY <3>1
      <4>2. QED
        BY <4>1
    <3>3. Is(drop)
      BY <3>2
    <3>4. drop[others] = start
      <4>1. 0 \in 0 .. others
        BY <2>2
      <4> HIDE DEF drop, others, start
      <4>2. QED
        BY <3>1, <3>3, <4>1
    <3> HIDE DEF drop
    <3>5. drop[others].match = m
      BY <3>4
    <3>6. v = w /\ v.match = m
      BY <1>1, <2>1, <3>5
    <3>7. QED
      BY <1>1, <3>6
  <2>4. CASE m.mode # "has"
    <3>1. m \in Lobbies
      BY <1>1, <1>4, <2>4 DEF Lobbies
    <3>2. start \in DropAt(w, 0)
      BY <2>2, <3>1 DEF DropAt
    <3>3. \A k \in 0 .. others - 1 : \A d \in DropAt(w, k) :
             g[k][d] = DropNext(w, d) /\ DropNext(w, d) \in DropAt(w, k + 1)
      BY <2>2, <3>1, DropsNext
    <3> HIDE DEF g
    <3> DEFINE I == [k \in 0 .. others |-> DropAt(w, k)]
    <3>4. start \in I[0] /\ \A k \in 0 .. others : I[k] = DropAt(w, k)
      BY <2>2, <3>2
    <3> HIDE DEF I
    <3>5. \A k \in 0 .. others - 1 : \A d \in I[k] : g[k][d] \in I[k + 1]
      <4>1. \A k \in 0 .. others - 1 : k \in 0 .. others /\ k + 1 \in 0 .. others
        BY <2>2
      <4> HIDE DEF others
      <4>2. QED
        BY <3>3, <3>4, <4>1
    <3>6. PICK f : IsLoop(f, others, start, g) /\ \A k \in 0 .. others : f[k] \in I[k]
      <4> HIDE DEF others, start
      <4>1. QED
        BY <2>2, <3>4, <3>5, LoopExists
    <3>7. \A k \in 0 .. others : k # 0 => g[k - 1][f[k - 1]] = DropNext(w, f[k - 1])
      <4>1. \A k \in 0 .. others : k # 0 => k - 1 \in 0 .. others - 1 /\ k - 1 \in 0 .. others
        BY <2>2
      <4> HIDE DEF others
      <4>2. QED
        BY <3>3, <3>4, <3>6, <4>1
    <3>8. Is(f)
      BY <3>6, <3>7 DEF IsLoop
    <3>9. Is(drop)
      BY <3>8
    <3> HIDE DEF drop, Is
    <3>10. drop[0] \in I[0] /\ \A k \in 0 .. others - 1 : drop[k + 1] = DropNext(w, drop[k])
      BY <2>2, <3>4, <3>9 DEF Is
    <3>11. \A k \in 0 .. others - 1 : drop[k] \in I[k] => drop[k + 1] \in I[k + 1]
      <4>1. \A k \in 0 .. others - 1 : k \in 0 .. others /\ k + 1 \in 0 .. others
        BY <2>2
      <4> HIDE DEF others
      <4>2. QED
        BY <3>3, <3>4, <3>10, <4>1
    <3>12. drop[others] \in DropAt(w, others)
      <4>1. others \in 0 .. others
        BY <2>2
      <4> HIDE DEF others
      <4>2. \A k \in 0 .. others : drop[k] \in I[k]
        BY <2>2, <3>10, <3>11, Stays
      <4>3. QED
        BY <3>4, <4>1, <4>2
    <3> DEFINE n == drop[others].match
    <3>13. n \in Lobbies /\ n.mode = m.mode
      BY <3>12 DEF DropAt
    <3>14. v = [w EXCEPT !.match = n]
      BY <2>1
    <3> HIDE DEF n, v
    <3>15. n \in MatchRecords /\ Linked(n) /\ n.phase = "lobby"
      BY <3>13 DEF Lobbies
    <3>16. Sound(v) /\ v.match = n
      BY <3>14, <3>15, SoundMatch
    <3>17. QED
      BY <2>4, <3>13, <3>14, <3>15, <3>16 DEF v
  <2>5. QED
    BY <2>3, <2>4
<1>5. QED
  BY <1>2, <1>3, <1>4

\* The match part of a tick.
LEMMA SoundTicks ==
    ASSUME NEW w0, Sound(w0), NEW due, NEW v \in MatchTick(w0, due)
    PROVE  Sound(v)
<1> DEFINE S == Strays(w0)
           w == TakeOut(w0, S)
           Into(phase) == [w EXCEPT !.match.phase = phase]
           placed == [Into("farm") EXCEPT !.match.ready = TRUE]
<1>1. /\ w.match.phase = "lobby" => v = DropVanished(w)
      /\ w.match.phase = "ended" => v = EndMatch(w) \/ v = w
      /\ w.match.phase = "placement" =>
            v \in TickMode(w, FALSE) \/ v \in TickMode(placed, FALSE)
      /\ w.match.phase = "farm" =>
            \/ v \in TickMode(w, FALSE)
            \/ v \in TickMode(Spawn(Into("war"), Team(w, Seekers)), FALSE)
            \/ v \in TickMode(Into("war"), FALSE)
      /\ w.match.phase = "war" => v \in TickMode(w, due)
  BY DEF MatchTick, Chosen
<1> HIDE DEF S
<1>2. Sound(w)
  BY SoundTakeOut
<1> HIDE DEF w
<1>3. w.match.phase \in {"lobby", "placement", "farm", "war", "ended"}
  BY <1>2 DEF Sound, Worlds, MatchRecords
<1>4. ASSUME w.match.phase # "lobby", NEW p \in {"farm", "war"}
      PROVE  GoesOn(Into(p))
  <2>1. Sound(Into(p))
    BY <1>2, <1>4, MatchGoesOnLinked
  <2>2. Into(p).match.phase = p
    BY <1>2 DEF Sound, Worlds, MatchRecords
  <2> HIDE DEF Into
  <2>3. QED
    BY <2>1, <2>2 DEF GoesOn
<1>5. ASSUME w.match.phase # "lobby"
      PROVE  /\ GoesOn(w) /\ GoesOn(placed) /\ GoesOn(Into("war"))
             /\ \A T : GoesOn(Spawn(Into("war"), T))
  <2>1. GoesOn(Into("war")) /\ GoesOn(Into("farm"))
    BY <1>4, <1>5
  <2> DEFINE u == Into("farm")
             x == [u EXCEPT !.match.ready = TRUE]
  <2>2. Sound(x) /\ x.match.phase = u.match.phase
    <3> HIDE DEF u
    <3>1. u \in Worlds /\ TRUE \in BOOLEAN
      BY <2>1 DEF GoesOn, Sound, u
    <3>2. Sound(u) /\ u.match.phase # "lobby"
      BY <2>1 DEF GoesOn, u
    <3>3. \A b \in BOOLEAN : Sound([u EXCEPT !.match.ready = b])
      BY <3>2, MatchGoesOnLinked
    <3>4. QED
      BY <3>1, <3>3 DEF Worlds, MatchRecords
  <2>3. GoesOn(placed)
    <3>1. placed = x
      OBVIOUS
    <3> HIDE DEF Into, placed
    <3>2. QED
      BY <2>1, <2>2, <3>1 DEF GoesOn
  <2> HIDE DEF Into, u, x, placed
  <2>4. QED
    BY <1>2, <1>5, <2>1, <2>3, SoundSpawn DEF GoesOn
<1> HIDE DEF Into, placed
<1>6. CASE w.match.phase = "lobby"
  BY <1>1, <1>2, <1>6, SoundDrop
<1>7. CASE w.match.phase = "ended"
  BY <1>1, <1>2, <1>7, SoundEnd
<1>8. CASE w.match.phase \in {"placement", "farm", "war"}
  BY <1>1, <1>5, <1>8, SoundMode
<1>9. QED
  BY <1>3, <1>6, <1>7, <1>8

\* A tick, whether or not a team wins at the end of it.
LEMMA TickSound ==
    ASSUME Sound(World), NEW due, Tick(due)
    PROVE  Sound(World')
<1>1. PICK w \in Simulated(World) : \E u \in MatchTick(w, due) : Becomes(u)
  BY DEF Tick
<1>2. PICK v \in MatchTick(w, due) : Becomes(v)
  BY <1>1
<1>3. Sound(v)
  BY SoundSimulated, SoundTicks
<1>4. QED
  BY <1>2, <1>3, SoundBecomes

\* The inductive invariant of types and links.
TypesAndLinks == Sound(World)

\* The server starts with free slots, squads without owners and no match.
LEMMA StartsSound == Init => TypesAndLinks
<1>1. SUFFICES ASSUME Init PROVE Sound(World)
  BY DEF TypesAndLinks
<1>2. FreeClient \in Seats
  BY DEF FreeClient, Seats, SeatOK, ClientRecords
<1>3. World = [client |-> [c \in Clients |-> FreeClient],
               squad |-> [s \in SquadIds |-> NoClient], match |-> NoMatch]
  BY <1>1 DEF Init, World
<1> HIDE DEF FreeClient, NoMatch
<1>4. World \in Worlds /\ OwnersSit(World) /\ World.match = NoMatch
  BY <1>2, <1>3, NoMatchLinked DEF Worlds, OwnersSit
<1>5. QED
  BY <1>4, NoMatchLinked DEF Sound

\* Every action keeps the types and the links.
LEMMA StepsSound == TypesAndLinks /\ [Next]_vars => TypesAndLinks'
<1>1. SUFFICES ASSUME Sound(World), [Next]_vars PROVE Sound(World')
  BY DEF TypesAndLinks
<1>2. CASE UNCHANGED vars
  <2>1. World' = World
    BY <1>2 DEF vars, World
  <2>2. QED
    BY <1>1, <2>1
<1>3. ASSUME NEW c \in Clients, Connection(c) PROVE Sound(World')
  BY <1>1, <1>3, ConnectSound, AccountReplySound, MarkKickedSound, CloseSound,
     FreedSound, ThrownOutSound DEF Connection, Expire, AfkKick
<1>4. ASSUME NEW c \in Clients, SquadMessage(c) PROVE Sound(World')
  BY <1>1, <1>4, LeaveSquadSound, CreateSquadSound, JoinSquadSound, KickMemberSound,
     TransferOwnershipSound, PrivateUpdateSound DEF SquadMessage
<1>5. ASSUME NEW c \in Clients, MatchMessage(c) PROVE Sound(World')
  BY <1>1, <1>5, CreateSound, CancelSound, StartSound, RespawnSound, ForfeitSound,
     LeaveSound, EnterSound, EarnSound DEF MatchMessage
<1>6. CASE Next
  BY <1>1, <1>3, <1>4, <1>5, <1>6, TickSound DEF Next
<1>7. QED
  BY <1>1, <1>2, <1>6

\* The inductive invariant of types and links: slots, squads and the match have their types,
\* owners sit in their squads, and the teams and the squads of a match name each other, in every
\* reachable state.
THEOREM TypesAndLinksHold == Spec => []TypesAndLinks
  BY StartsSound, StepsSound, PTL DEF Spec

\* Slots, squads and the match have their types, and a slot without an account has no squad and
\* no life: TypeOK, for any number of clients, squads and teams.
THEOREM TypesHold == Spec => []TypeOK
<1>1. TypesAndLinks => TypeOK
  <2>1. SUFFICES ASSUME TypesAndLinks PROVE TypeOK
    OBVIOUS
  <2>2. /\ client \in [Clients -> Seats]
        /\ squad \in [SquadIds -> Clients \cup {NoClient}]
        /\ match \in MatchRecords /\ Linked(match)
        /\ \A s \in SquadIds : squad[s] # NoClient => client[squad[s]].squad = s
    BY <2>1, NowSound DEF TypesAndLinks
  <2>3. /\ client \in [Clients -> ClientRecords]
        /\ \A c \in Clients :
              /\ client[c].status \in {"free", "unread"} =>
                    client[c].squad = NoSquad /\ client[c].life = "none"
              /\ client[c].playing => client[c].squad # NoSquad /\ client[c].life # "none"
    BY <2>2 DEF Seats, SeatOK
  <2>4. QED
    BY <2>2, <2>3 DEF TypeOK, MatchRecords, Linked
<1>2. QED
  BY <1>1, TypesAndLinksHold, PTL

\* A squad says it is in a team if and only if the team says it is that squad, whatever squads
\* were created, dropped from the middle of the list, started, ended or cancelled: LinksAgree, for
\* any number of clients, squads and teams.
THEOREM LinksHold == Spec => []LinksAgree
<1>1. TypesAndLinks => LinksAgree
  BY NowSound DEF TypesAndLinks, LinksAgree, Linked, Named
<1>2. QED
  BY <1>1, TypesAndLinksHold, PTL

\* Nobody sits in any squad.
Deserted(w) == \A c \in Clients : w.client[c].squad = NoSquad

\* Then the squads of the teams are empty, and no team has a player.
LEMMA NobodyPlays ==
    ASSUME NEW w, GoesOn(w), Deserted(w)
    PROVE  /\ \A t \in 1 .. TeamCount(w) : AliveInTeam(w, t) = {}
           /\ \A t : Team(w, t) # {} => t = NoTeam
           /\ w.match.mode # "has" => Empty(w) = 1 .. TeamCount(w)
           /\ MembersOf(w, w.match.host) = {}
<1>1. /\ w.match \in MatchRecords /\ Named(w.match) /\ w.match.teams # <<>>
      /\ w.match.host = w.match.teams[1].squad
      /\ \A c \in Clients : w.client[c].squad = NoSquad
  BY DEF GoesOn, Sound, Worlds, Linked, Deserted
<1>2. /\ w.match.teams \in Seq(TeamRecords)
      /\ DOMAIN w.match.teams = 1 .. TeamCount(w) /\ 1 \in DOMAIN w.match.teams
  BY <1>1 DEF MatchRecords, TeamCount
<1>3. \A c \in Clients : ClientTeam(w, c) = NoTeam
  BY <1>1 DEF ClientTeam
<1>4. \A t : Team(w, t) # {} => t = NoTeam
  BY <1>3 DEF Team
<1>5. \A t \in 1 .. TeamCount(w) : AliveInTeam(w, t) = {}
  BY <1>4 DEF AliveInTeam, NoTeam
<1>6. \A t \in DOMAIN w.match.teams :
         w.match.mode # "has" \/ t = 1 => w.match.teams[t].squad # NoSquad
  BY <1>1 DEF Named, Hiders
<1>7. \A t \in DOMAIN w.match.teams :
         w.match.mode # "has" \/ t = 1 => MembersOf(w, w.match.teams[t].squad) = {}
  BY <1>1, <1>6 DEF MembersOf
<1>8. QED
  BY <1>1, <1>2, <1>4, <1>5, <1>7 DEF Empty

\* What a tick of a mode does with a match nobody plays.
LEMMA DesertedMode ==
    ASSUME NEW w, GoesOn(w), Deserted(w), NEW due \in BOOLEAN, NEW v \in TickMode(w, due)
    PROVE  \/ v.match = NoMatch
           \/ v = w /\ ~due
           \/ v.match.phase = "ended"
<1>1. w.match.mode \in {"ctf", "tdm", "has"} /\ Sound(w)
  BY DEF GoesOn, Sound, Worlds, MatchRecords
<1>2. CASE w.match.mode = "ctf"
  <2>1. v \in TickCtf(w) /\ Empty(w) = 1 .. TeamCount(w)
    BY <1>2, NobodyPlays DEF TickMode, Chosen
  <2>2. v = EndMatch(w)
    BY <2>1 DEF TickCtf
  <2>3. QED
    BY <1>1, <2>2, SoundEnd
<1>3. CASE w.match.mode = "has"
  <2>1. v \in TickHas(w, due) /\ MembersOf(w, w.match.host) = {}
    BY <1>3, NobodyPlays DEF TickMode, Chosen
  <2>2. v = EndMatch(w)
    BY <2>1 DEF TickHas
  <2>3. QED
    BY <1>1, <2>2, SoundEnd
<1>4. CASE w.match.mode = "tdm"
  <2>1. v \in TickTdm(w, due)
    BY <1>4 DEF TickMode, Chosen
  <2>2. CASE ~due
    BY <2>1, <2>2 DEF TickTdm
  <2>3. CASE due
    <3> DEFINE alive == {t \in 1..TeamCount(w) : AliveInTeam(w, t) # {}}
               judged == [w EXCEPT !.match.teams = [t \in DOMAIN @ |->
                             [w.match.teams[t] EXCEPT !.out = @ \/ t \notin alive]]]
    <3>1. alive = {}
      BY NobodyPlays
    <3>2. Cardinality(alive) = 0
      BY <3>1, FS_EmptySet
    <3>3. \E win : v = Finish(judged, win)
      <4> DEFINE win == IF alive = {} THEN NoTeam ELSE CHOOSE t \in alive : TRUE
      <4>1. TickTdm(w, due) = IF ~due THEN {w}
                              ELSE IF Cardinality(alive) > 1 THEN {judged}
                              ELSE {Finish(judged, win)}
        BY DEF TickTdm
      <4> HIDE DEF alive, judged, win
      <4>2. ~(Cardinality(alive) > 1)
        BY <3>2
      <4>3. TickTdm(w, due) = {Finish(judged, win)}
        BY <2>3, <4>1, <4>2, Zenon
      <4>4. v = Finish(judged, win)
        BY <2>1, <4>3
      <4>5. QED
        BY <4>4
    <3>4. \A win : Finish(judged, win).match.phase = "ended"
      <4>1. judged = [w EXCEPT !.match = judged.match] /\ "phase" \in DOMAIN judged.match
            /\ "match" \in DOMAIN judged
        BY <1>1 DEF Sound, Worlds, MatchRecords
      <4> HIDE DEF judged
      <4>2. QED
        BY <4>1 DEF Finish
    <3> HIDE DEF judged
    <3>5. QED
      BY <3>3, <3>4
  <2>4. QED
    BY <2>2, <2>3
<1>5. QED
  BY <1>1, <1>2, <1>3, <1>4

\* A tick with the time up takes a deserted match at least one phase further.
LEMMA DesertedTicks ==
    ASSUME NEW w0, GoesOn(w0), Deserted(w0), NEW v \in MatchTick(w0, TRUE)
    PROVE  Rank(v.match.phase) < Rank(w0.match.phase)
<1> DEFINE S == Strays(w0)
           w == TakeOut(w0, S)
           Into(phase) == [w EXCEPT !.match.phase = phase]
           placed == [Into("farm") EXCEPT !.match.ready = TRUE]
           out == Spawn(Into("war"), Team(w, Seekers))
<1>1. /\ w.match.phase = "ended" => v = EndMatch(w)
      /\ w.match.phase = "placement" => v \in TickMode(placed, FALSE)
      /\ w.match.phase = "farm" => v \in TickMode(out, FALSE) \/ v \in TickMode(Into("war"), FALSE)
      /\ w.match.phase = "war" => v \in TickMode(w, TRUE)
  BY DEF MatchTick, Chosen
<1> HIDE DEF S
<1>2. GoesOn(w) /\ Deserted(w) /\ w.match = w0.match /\ Sound(w)
  BY SoundTakeOut DEF GoesOn, Deserted
<1> HIDE DEF w
<1>3. w.match.phase \in {"placement", "farm", "war", "ended"}
  BY <1>2 DEF GoesOn, Sound, Worlds, MatchRecords
<1>4. ASSUME NEW p \in {"farm", "war"}
      PROVE  GoesOn(Into(p)) /\ Deserted(Into(p)) /\ Into(p).match.phase = p
  <2>1. Sound(Into(p))
    BY <1>2, MatchGoesOnLinked DEF GoesOn
  <2>2. Into(p).match.phase = p /\ Into(p).client = w.client
    BY <1>2 DEF Sound, Worlds, MatchRecords
  <2> HIDE DEF Into
  <2>3. QED
    BY <1>2, <2>1, <2>2 DEF GoesOn, Deserted
<1>5. GoesOn(placed) /\ Deserted(placed) /\ placed.match.phase = "farm"
  <2> DEFINE u == Into("farm")
             x == [u EXCEPT !.match.ready = TRUE]
  <2>1. GoesOn(u) /\ Deserted(u) /\ u.match.phase = "farm"
    BY <1>4
  <2>2. placed = x
    OBVIOUS
  <2> HIDE DEF u, placed
  <2>3. \A b \in BOOLEAN : Sound([u EXCEPT !.match.ready = b])
    BY <2>1, MatchGoesOnLinked DEF GoesOn
  <2>4. x.match.phase = "farm" /\ x.client = u.client
    BY <2>1 DEF GoesOn, Sound, Worlds, MatchRecords
  <2>5. Sound(x)
    BY <2>3
  <2> HIDE DEF x
  <2>6. QED
    BY <2>1, <2>2, <2>4, <2>5 DEF GoesOn, Deserted
<1>6. GoesOn(out) /\ Deserted(out) /\ out.match.phase = "war"
  <2> DEFINE u == Into("war")
             T == Team(w, Seekers)
  <2>1. GoesOn(u) /\ Deserted(u) /\ u.match.phase = "war"
    BY <1>4
  <2>2. out = Spawn(u, T)
    OBVIOUS
  <2> HIDE DEF u, T, out
  <2>3. QED
    BY <2>1, <2>2, SoundSpawn DEF GoesOn, Deserted
<1>7. Into("war").match.phase = "war" /\ GoesOn(Into("war")) /\ Deserted(Into("war"))
  BY <1>4
<1> HIDE DEF Into, placed, out
<1>8. \A p : p = "lobby" \/ p = "ended" \/ p = "war" \/ p = "farm" \/ p = "placement" =>
         Rank(p) = IF p = "placement" THEN 4 ELSE IF p = "farm" THEN 3
                   ELSE IF p = "war" THEN 2 ELSE IF p = "ended" THEN 1 ELSE 0
  BY DEF Rank
<1>9. NoMatch.phase = "lobby"
  BY DEF NoMatch
<1>10. FALSE \in BOOLEAN /\ TRUE \in BOOLEAN
  OBVIOUS
<1>11. CASE w.match.phase = "ended"
  <2>1. v.match = NoMatch
    BY <1>1, <1>2, <1>11, SoundEnd
  <2>2. QED
    BY <1>2, <1>8, <1>9, <1>11, <2>1
<1>12. CASE w.match.phase = "placement"
  <2>1. v.match.phase \in {"lobby", "ended", "farm"}
    BY <1>1, <1>5, <1>9, <1>10, <1>12, DesertedMode
  <2>2. QED
    BY <1>2, <1>8, <1>12, <2>1
<1>13. CASE w.match.phase = "farm"
  <2>1. v.match.phase \in {"lobby", "ended", "war"}
    BY <1>1, <1>6, <1>7, <1>9, <1>10, <1>13, DesertedMode
  <2>2. QED
    BY <1>2, <1>8, <1>13, <2>1
<1>14. CASE w.match.phase = "war"
  <2>1. v.match.phase \in {"lobby", "ended"}
    BY <1>1, <1>2, <1>9, <1>10, <1>14, DesertedMode
  <2>2. QED
    BY <1>2, <1>8, <1>14, <2>1
<1>15. QED
  BY <1>3, <1>11, <1>12, <1>13, <1>14

\* A match whose squads are all empty goes a phase further with every tick whose time is up, so it
\* cannot keep the server: DesertedMatchAdvances, for any number of clients, squads and teams.
THEOREM DesertedEnds == Spec => DesertedMatchAdvances
<1> DEFINE Falls == /\ \A c \in Clients : client[c].squad = NoSquad
                    /\ match.phase # "lobby" /\ Tick(TRUE)
                    => Rank(match.phase') < Rank(match.phase)
<1>1. TypesAndLinks /\ [Next]_vars => [Falls]_vars
  <2>1. SUFFICES ASSUME TypesAndLinks, \A c \in Clients : client[c].squad = NoSquad,
                        match.phase # "lobby", Tick(TRUE)
                 PROVE  Rank(match.phase') < Rank(match.phase)
    OBVIOUS
  <2>2. Sound(World) /\ World.client = client /\ World.match = match
    BY <2>1, NowSound DEF TypesAndLinks
  <2>3. PICK w \in Simulated(World) : \E u \in MatchTick(w, TRUE) : Becomes(u)
    BY <2>1 DEF Tick
  <2>4. PICK v \in MatchTick(w, TRUE) : Becomes(v)
    BY <2>3
  <2>5. GoesOn(w) /\ Deserted(w) /\ w.match = match
    BY <2>1, <2>2, SoundSimulated DEF GoesOn, Deserted
  <2>6. Rank(v.match.phase) < Rank(w.match.phase)
    BY <2>5, DesertedTicks
  <2>7. match' = v.match
    BY <2>4 DEF Becomes
  <2>8. QED
    BY <2>5, <2>6, <2>7
<1>2. QED
  BY <1>1, TypesAndLinksHold, PTL DEF Spec, DesertedMatchAdvances

(***************************************************************************)
(* Whose data is whose, and who is out.                                    *)
(***************************************************************************)
Fields == {"status", "kick", "uuid", "squad", "playing", "life", "data", "aside",
           "played", "out", "forfeit"}
MatchFields == {"phase", "mode", "teams", "host", "team", "winner", "ready"}

RecordOK(r) ==
    /\ DOMAIN r = Fields
    /\ r.aside \in {"none", "account"} /\ r.data \in {"account", "match"}
    /\ r.data = "match" => r.aside = "account"
    /\ r.squad \in SquadIds \cup {NoSquad}
    /\ r.out \in BOOLEAN
    /\ r.status \in {"free", "unread"} =>
          r.squad = NoSquad /\ r.life = "none" /\ r.out = FALSE

PhaseOK(r, m) ==
    /\ m.phase = "lobby" => r.aside = "none"
    /\ r.out = TRUE => m.mode = "has" /\ m.phase # "lobby"

\* In hide and seek the squad of the host is the one team that is linked.
HasOK(m) ==
    m.mode = "has" =>
        /\ m.phase = "lobby" => DOMAIN m.teams = {1} /\ m.teams[1].squad = m.host
        /\ \A s \in SquadIds : m.team[s] = Seekers => s = m.host

MatchOK(m) ==
    /\ DOMAIN m = MatchFields
    /\ m.phase \in {"lobby", "placement", "farm", "war", "ended"}
    /\ m.mode \in {"ctf", "tdm", "has"}
    /\ HasOK(m)

WorldOK(w) ==
    /\ DOMAIN w = {"client", "squad", "match"}
    /\ DOMAIN w.client = Clients
    /\ MatchOK(w.match)
    /\ \A c \in Clients : RecordOK(w.client[c]) /\ PhaseOK(w.client[c], w.match)

\* Nobody who is out of the world w is brought to life in v.
Quiet(w, v) ==
    \A c \in Clients :
        w.client[c].out = TRUE /\ v.client[c].life = "alive" => w.client[c].life = "alive"

\* Who is out of w and alive in v only is a seeker there.
Comeback(w, v) ==
    \A c \in Clients :
        w.client[c].out = TRUE /\ w.client[c].life # "alive" /\ v.client[c].life = "alive"
        => ClientTeam(v, c) = Seekers

\* Who is out of w is out of v, or the match is over.
Marked(w, v) ==
    \A c \in Clients :
        w.client[c].out = TRUE => v.client[c].out = TRUE \/ v.match.phase = "lobby"

\* Who is out of w and alive in v is a seeker there, or lay there dead and is still out.
Return(w, v) ==
    \A c \in Clients :
        w.client[c].out = TRUE /\ w.client[c].life # "alive" /\ v.client[c].life = "alive"
        => \/ ClientTeam(v, c) = Seekers
           \/ /\ w.client[c].life = "dead"
              /\ v.client[c].out = TRUE \/ v.match.phase = "lobby"

(***************************************************************************)
(* What the helpers do to one record.                                      *)
(***************************************************************************)
\* The data of a match is given once, and the real data is what is kept aside.
LEMMA Enters ==
    ASSUME NEW r, NEW mode, RecordOK(r), r.status \notin {"free", "unread"}
    PROVE  LET q == EnterMatchData(r, mode)
           IN  /\ RecordOK(q)
               /\ q.squad = r.squad /\ q.life = r.life /\ q.out = r.out
               /\ q.status = r.status
<1>1. CASE r.aside # "none"
  BY <1>1 DEF EnterMatchData
<1>2. CASE r.aside = "none"
  <2> DEFINE d == IF mode = "tdm" THEN r.data ELSE "match"
             q == [r EXCEPT !.aside = r.data, !.data = d]
  <2>1. r.data = "account" /\ d \in {"account", "match"}
    BY <1>2 DEF RecordOK
  <2>2. EnterMatchData(r, mode) = q
    BY <1>2 DEF EnterMatchData
  <2> HIDE DEF d
  <2>3. /\ DOMAIN q = Fields /\ q.aside = "account" /\ q.data = d
        /\ q.squad = r.squad /\ q.life = r.life /\ q.out = r.out /\ q.status = r.status
    BY <2>1 DEF RecordOK, Fields
  <2>4. QED
    BY <2>1, <2>2, <2>3 DEF RecordOK
<1>3. QED
  BY <1>1, <1>2

\* Who leaves a match has the real data, and nothing of the match.
LEMMA LeavesData ==
    ASSUME NEW r, RecordOK(r)
    PROVE  LET q == LeaveMatchData(r)
           IN  /\ RecordOK(q)
               /\ q.squad = r.squad /\ q.life = r.life
               /\ q.out = FALSE /\ q.aside = "none"
<1> DEFINE d == IF r.aside # "none" THEN r.aside ELSE r.data
           q == LeaveMatchData(r)
<1>1. d = "account"
  BY DEF RecordOK
<1> HIDE DEF d
<1>2. /\ DOMAIN q = Fields /\ q.aside = "none" /\ q.data = d /\ q.out = FALSE
      /\ q.squad = r.squad /\ q.life = r.life /\ q.status = r.status
  BY DEF LeaveMatchData, RecordOK, Fields, d
<1>3. QED
  BY <1>1, <1>2 DEF RecordOK

\* Only a member of a squad is spawned, and spawning does not bring back those
\* who are out.
LEMMA Spawns ==
    ASSUME NEW r, NEW mode, RecordOK(r)
    PROVE  LET q == SpawnMember(r, mode)
           IN  RecordOK(q) /\ q.squad = r.squad /\ q.out = r.out
<1>1. CASE r.squad = NoSquad \/ r.status = "gone"
  BY <1>1 DEF SpawnMember
<1>2. CASE ~(r.squad = NoSquad \/ r.status = "gone")
  <2> DEFINE e == EnterMatchData(r, mode)
             q == [e EXCEPT !.life = "alive", !.playing = TRUE, !.played = TRUE]
  <2>1. r.status \notin {"free", "unread"}
    BY <1>2 DEF RecordOK
  <2>2. RecordOK(e) /\ e.squad = r.squad /\ e.out = r.out /\ e.status = r.status
    BY <2>1, Enters
  <2>3. SpawnMember(r, mode) = q
    BY <1>2 DEF SpawnMember
  <2> HIDE DEF e
  <2>4. /\ DOMAIN q = Fields /\ q.aside = e.aside /\ q.data = e.data
        /\ q.squad = e.squad /\ q.out = e.out /\ q.status = e.status
    BY <2>2 DEF RecordOK, Fields
  <2>5. QED
    BY <2>1, <2>2, <2>3, <2>4 DEF RecordOK
<1>3. QED
  BY <1>1, <1>2

\* A player who is taken out of the game has no flower.
LEMMA Removes ==
    ASSUME NEW r, RecordOK(r)
    PROVE  LET q == RemoveFromGame(r)
           IN  /\ RecordOK(q) /\ q.life = "none"
               /\ q.squad = r.squad /\ q.out = r.out /\ q.aside = r.aside
<1> DEFINE q == RemoveFromGame(r)
<1>1. /\ DOMAIN q = Fields /\ q.aside = r.aside /\ q.data = r.data /\ q.life = "none"
      /\ q.squad = r.squad /\ q.out = r.out /\ q.status = r.status
  BY DEF RemoveFromGame, RecordOK, Fields
<1>2. QED
  BY <1>1 DEF RecordOK

(***************************************************************************)
(* What the helpers do to a world.                                         *)
(***************************************************************************)
\* A world whose slots are written anew is OK when every record is.
LEMMA NewClients ==
    ASSUME NEW w, WorldOK(w), NEW f, DOMAIN f = Clients,
           \A c \in Clients : RecordOK(f[c]) /\ PhaseOK(f[c], w.match)
    PROVE  LET v == [w EXCEPT !.client = f]
           IN  WorldOK(v) /\ v.match = w.match /\ v.client = f
<1> DEFINE v == [w EXCEPT !.client = f]
<1>1. DOMAIN v = {"client", "squad", "match"} /\ v.match = w.match /\ v.client = f
  BY DEF WorldOK
<1> HIDE DEF v
<1>2. QED
  BY <1>1 DEF WorldOK, v

\* Players are taken out of the game.
LEMMA TakenOut ==
    ASSUME NEW w, WorldOK(w), NEW S
    PROVE  LET v == TakeOut(w, S)
           IN  /\ WorldOK(v) /\ v.match = w.match
               /\ \A c \in Clients :
                     /\ v.client[c].squad = w.client[c].squad
                     /\ v.client[c].out = w.client[c].out
                     /\ v.client[c].life \in {"none", w.client[c].life}
<1> DEFINE f == [c \in Clients |-> IF c \in S THEN RemoveFromGame(w.client[c])
                                               ELSE w.client[c]]
<1>1. TakeOut(w, S) = [w EXCEPT !.client = f]
  BY DEF TakeOut, WorldOK
<1>2. ASSUME NEW c \in Clients
      PROVE  /\ RecordOK(f[c]) /\ PhaseOK(f[c], w.match)
             /\ f[c].squad = w.client[c].squad /\ f[c].out = w.client[c].out
             /\ f[c].life \in {"none", w.client[c].life}
  <2>1. RecordOK(w.client[c]) /\ PhaseOK(w.client[c], w.match)
    BY DEF WorldOK
  <2>2. CASE c \in S
    BY <2>1, <2>2, Removes DEF PhaseOK
  <2>3. CASE c \notin S
    BY <2>1, <2>3
  <2>4. QED
    BY <2>2, <2>3
<1>3. DOMAIN f = Clients
  OBVIOUS
<1> HIDE DEF f
<1>4. QED
  BY <1>1, <1>2, <1>3, NewClients

\* Players are spawned while a match runs.
LEMMA Spawned ==
    ASSUME NEW w, WorldOK(w), w.match.phase # "lobby", NEW S
    PROVE  LET v == Spawn(w, S)
           IN  /\ WorldOK(v) /\ v.match = w.match
               /\ \A c \in Clients :
                     /\ v.client[c].squad = w.client[c].squad
                     /\ v.client[c].out = w.client[c].out
                     /\ c \notin S => v.client[c] = w.client[c]
<1> DEFINE f == [c \in Clients |->
                    IF c \in S THEN SpawnMember(w.client[c], w.match.mode)
                    ELSE w.client[c]]
<1>1. Spawn(w, S) = [w EXCEPT !.client = f]
  BY DEF Spawn, WorldOK
<1>2. ASSUME NEW c \in Clients
      PROVE  /\ RecordOK(f[c]) /\ PhaseOK(f[c], w.match)
             /\ f[c].squad = w.client[c].squad /\ f[c].out = w.client[c].out
             /\ c \notin S => f[c] = w.client[c]
  <2>1. RecordOK(w.client[c]) /\ PhaseOK(w.client[c], w.match)
    BY DEF WorldOK
  <2>2. CASE c \in S
    BY <2>1, <2>2, Spawns DEF PhaseOK
  <2>3. CASE c \notin S
    BY <2>1, <2>3
  <2>4. QED
    BY <2>2, <2>3
<1>3. DOMAIN f = Clients
  OBVIOUS
<1> HIDE DEF f
<1>4. QED
  BY <1>1, <1>2, <1>3, NewClients

\* Flowers die.
LEMMA Killed ==
    ASSUME NEW w, WorldOK(w), NEW S, \A c \in S : c \in Clients => Alive(w, c)
    PROVE  LET v == Kill(w, S)
           IN  /\ WorldOK(v) /\ v.match = w.match
               /\ \A c \in Clients :
                     /\ v.client[c].squad = w.client[c].squad
                     /\ v.client[c].out = w.client[c].out
                     /\ v.client[c].life \in {"dead", w.client[c].life}
<1> DEFINE f == [c \in Clients |-> IF c \in S THEN [w.client[c] EXCEPT !.life = "dead"]
                                               ELSE w.client[c]]
<1>1. Kill(w, S) = [w EXCEPT !.client = f]
  BY DEF Kill, WorldOK
<1>2. ASSUME NEW c \in Clients
      PROVE  /\ RecordOK(f[c]) /\ PhaseOK(f[c], w.match)
             /\ f[c].squad = w.client[c].squad /\ f[c].out = w.client[c].out
             /\ f[c].life \in {"dead", w.client[c].life}
  <2>1. RecordOK(w.client[c]) /\ PhaseOK(w.client[c], w.match)
    BY DEF WorldOK
  <2>2. CASE c \in S
    <3> DEFINE r == w.client[c]
               q == [r EXCEPT !.life = "dead"]
    <3>1. f[c] = q /\ r.life = "alive"
      BY <2>2 DEF Alive
    <3>2. /\ DOMAIN q = Fields /\ q.aside = r.aside /\ q.data = r.data
          /\ q.life = "dead" /\ q.squad = r.squad /\ q.out = r.out
          /\ q.status = r.status
      BY <2>1 DEF RecordOK, Fields
    <3> HIDE DEF q, r, f
    <3>3. RecordOK(q)
      BY <2>1, <3>1, <3>2 DEF RecordOK, r
    <3>4. QED
      BY <2>1, <3>1, <3>2, <3>3 DEF PhaseOK, r
  <2>3. CASE c \notin S
    BY <2>1, <2>3
  <2>4. QED
    BY <2>2, <2>3
<1>3. DOMAIN f = Clients
  OBVIOUS
<1> HIDE DEF f
<1>4. QED
  BY <1>1, <1>2, <1>3, NewClients

\* A client leaves its squad: everything else of everybody stays.
LEMMA LeavesSquad ==
    ASSUME NEW w, WorldOK(w), NEW k \in Clients, NEW v \in Leaves(w, k)
    PROVE  /\ WorldOK(v) /\ v.match = w.match
           /\ \A c \in Clients :
                 /\ v.client[c].life = w.client[c].life
                 /\ v.client[c].out = w.client[c].out
                 /\ v.client[c].status = w.client[c].status
                 /\ c # k => v.client[c] = w.client[c]
<1>1. CASE w.client[k].squad = NoSquad
  BY <1>1 DEF Leaves
<1>2. CASE w.client[k].squad # NoSquad
  <2> DEFINE r == w.client[k]
             q == [r EXCEPT !.squad = NoSquad, !.playing = FALSE]
  <2>1. PICK o : v = [w EXCEPT !.client[k].squad = NoSquad, !.client[k].playing = FALSE,
                               !.squad[w.client[k].squad] = o]
    BY <1>2 DEF Leaves
  <2>2. /\ v.match = w.match /\ DOMAIN v = DOMAIN w /\ DOMAIN v.client = Clients
        /\ v.client[k] = q
        /\ \A c \in Clients : c # k => v.client[c] = w.client[c]
    BY <2>1 DEF WorldOK
  <2>3. RecordOK(r) /\ PhaseOK(r, w.match)
    BY DEF WorldOK
  <2>4. /\ DOMAIN q = Fields /\ q.aside = r.aside /\ q.data = r.data
        /\ q.life = r.life /\ q.squad = NoSquad /\ q.out = r.out /\ q.status = r.status
    BY <2>3 DEF RecordOK, Fields
  <2> HIDE DEF q
  <2>5. RecordOK(q) /\ PhaseOK(q, w.match)
    BY <2>3, <2>4 DEF RecordOK, PhaseOK
  <2>6. QED
    BY <2>2, <2>4, <2>5 DEF WorldOK
<1>3. QED
  BY <1>1, <1>2

\* A free slot is OK in every world.
LEMMA FreeOK ==
    ASSUME NEW m
    PROVE  RecordOK(FreeClient) /\ PhaseOK(FreeClient, m) /\ FreeClient.life = "none"
BY SizesAssumption DEF RecordOK, PhaseOK, FreeClient, Fields

\* A slot is given up: whoever else is there is as before.
LEMMA FreedSlot ==
    ASSUME NEW w, WorldOK(w), NEW k \in Clients, NEW v \in Freed(w, k)
    PROVE  WorldOK(v) /\ Quiet(w, v)
<1>1. PICK u \in Leaves(w, k) : v = [u EXCEPT !.client[k] = FreeClient]
  BY DEF Freed
<1>2. /\ WorldOK(u) /\ u.match = w.match
      /\ \A c \in Clients : /\ u.client[c].life = w.client[c].life
                            /\ u.client[c].out = w.client[c].out
  BY LeavesSquad
<1>3. /\ DOMAIN v = DOMAIN u /\ DOMAIN v.client = Clients /\ v.match = u.match
      /\ v.client[k] = FreeClient
      /\ \A c \in Clients : c # k => v.client[c] = u.client[c]
  BY <1>1, <1>2 DEF WorldOK
<1>4. WorldOK(v)
  BY <1>2, <1>3, FreeOK DEF WorldOK
<1>5. Quiet(w, v)
  BY <1>2, <1>3, FreeOK DEF Quiet
<1>6. QED
  BY <1>4, <1>5

\* The lobby of nobody is an OK match.
LEMMA NoMatchOK == MatchOK(NoMatch) /\ NoMatch.phase = "lobby"
BY DEF MatchOK, MatchFields, NoMatch, HasOK

\* A match that ends, from whatever phase, gives everybody the real data back and
\* brings nobody to life.
LEMMA EndsMatch ==
    ASSUME NEW w, WorldOK(w)
    PROVE  LET v == EndMatch(w)
           IN  WorldOK(v) /\ v.match = NoMatch /\ Quiet(w, v)
<1> DEFINE players == UNION {Team(w, t) : t \in 1..TeamCount(w)}
           u == TakeOut(w, players)
           x == [u EXCEPT !.match = NoMatch]
           f == [c \in Clients |-> LeaveMatchData(x.client[c])]
           v == [x EXCEPT !.client = f]
<1>1. EndMatch(w) = v
  BY DEF EndMatch, ResetPlayers
<1> HIDE DEF players
<1>2. /\ WorldOK(u)
      /\ \A c \in Clients : u.client[c].life \in {"none", w.client[c].life}
  BY TakenOut
<1> HIDE DEF u
<1>3. /\ DOMAIN x = {"client", "squad", "match"} /\ x.match = NoMatch
      /\ x.client = u.client
  BY <1>2 DEF WorldOK
<1> HIDE DEF x
<1>4. ASSUME NEW c \in Clients
      PROVE  /\ RecordOK(f[c]) /\ PhaseOK(f[c], NoMatch)
             /\ f[c].life = u.client[c].life
  <2>1. RecordOK(u.client[c])
    BY <1>2 DEF WorldOK
  <2>2. f[c] = LeaveMatchData(u.client[c])
    BY <1>3
  <2> DEFINE q == LeaveMatchData(u.client[c])
  <2>3. RecordOK(q) /\ q.aside = "none" /\ q.out = FALSE /\ q.life = u.client[c].life
    BY <2>1, LeavesData
  <2> HIDE DEF q, f
  <2>4. PhaseOK(q, NoMatch)
    BY <2>3 DEF PhaseOK
  <2>5. QED
    BY <2>2, <2>3, <2>4 DEF q
<1>5. DOMAIN f = Clients
  OBVIOUS
<1> HIDE DEF f
<1>6. /\ DOMAIN v = {"client", "squad", "match"} /\ v.match = NoMatch /\ v.client = f
  BY <1>3
<1> HIDE DEF v
<1>7. WorldOK(v)
  BY <1>4, <1>5, <1>6, NoMatchOK DEF WorldOK
<1>8. Quiet(w, v)
  BY <1>2, <1>4, <1>6 DEF Quiet
<1>9. QED
  BY <1>1, <1>6, <1>7, <1>8

\* A match that is decided keeps its players for a while.
LEMMA Finishes ==
    ASSUME NEW w, WorldOK(w), w.match.phase # "lobby", NEW t
    PROVE  LET v == Finish(w, t)
           IN  /\ WorldOK(v) /\ v.client = w.client
               /\ \A c \in Clients : ClientTeam(v, c) = ClientTeam(w, c)
<1> DEFINE v == Finish(w, t)
<1>1. /\ DOMAIN v = DOMAIN w /\ v.client = w.client
      /\ DOMAIN v.match = DOMAIN w.match
      /\ v.match.phase = "ended" /\ v.match.mode = w.match.mode
      /\ v.match.team = w.match.team /\ v.match.teams = w.match.teams
      /\ v.match.host = w.match.host
  BY DEF Finish, WorldOK, MatchOK, MatchFields
<1> HIDE DEF v
<1>2. WorldOK(v)
  <2>1. MatchOK(v.match)
    BY <1>1 DEF WorldOK, MatchOK, HasOK
  <2>2. \A c \in Clients : PhaseOK(v.client[c], v.match)
    BY <1>1 DEF WorldOK, PhaseOK
  <2>3. QED
    BY <1>1, <2>1, <2>2 DEF WorldOK
<1>3. \A c \in Clients : ClientTeam(v, c) = ClientTeam(w, c)
  BY <1>1 DEF ClientTeam
<1>4. QED
  BY <1>1, <1>2, <1>3 DEF v

(***************************************************************************)
(* Steps.                                                                  *)
(***************************************************************************)
Inv == WorldOK(World)

\* What every action is shown to do.
Step == WorldOK(World') /\ Comeback(World, World')

\* A step to a world that is OK and brings back nobody who is out.
LEMMA Becoming ==
    ASSUME NEW w, WorldOK(w), Comeback(World, w), Becomes(w)
    PROVE  Step
<1>1. World'.client = w.client /\ World'.squad = w.squad /\ World'.match = w.match
  BY DEF World, Becomes
<1>2. DOMAIN World' = {"client", "squad", "match"}
  BY DEF World
<1> DEFINE v == World'
<1>3. WorldOK(v)
  <2> HIDE DEF v
  <2>1. v.client = w.client /\ v.match = w.match /\ DOMAIN v = {"client", "squad", "match"}
    BY <1>1, <1>2 DEF v
  <2>2. QED
    BY <2>1 DEF WorldOK
<1>4. Comeback(World, v)
  <2> DEFINE u == World
  <2> HIDE DEF v, u
  <2>1. v.client = w.client /\ v.match = w.match
    BY <1>1 DEF v
  <2>2. Comeback(u, v)
    BY <2>1 DEF Comeback, ClientTeam, u
  <2>3. QED
    BY <2>2 DEF u
<1>5. QED
  BY <1>3, <1>4 DEF Step

\* Bringing nobody back is one way to bring back seekers only.
LEMMA QuietComeback ==
    ASSUME NEW w, NEW v, Quiet(w, v)
    PROVE  Comeback(w, v)
BY DEF Quiet, Comeback

\* One slot changes to a record that is OK and is not brought to life.
LEMMA OneSlot ==
    ASSUME NEW w, WorldOK(w), NEW k \in Clients, NEW q,
           RecordOK(q), PhaseOK(q, w.match),
           q.life = "alive" /\ w.client[k].out = TRUE => w.client[k].life = "alive",
           NEW v, DOMAIN v = {"client", "squad", "match"}, v.match = w.match,
           DOMAIN v.client = Clients, v.client[k] = q,
           \A c \in Clients : c # k => v.client[c] = w.client[c]
    PROVE  WorldOK(v) /\ Quiet(w, v)
<1>1. WorldOK(v)
  BY DEF WorldOK
<1>2. Quiet(w, v)
  BY DEF Quiet
<1>3. QED
  BY <1>1, <1>2

\* The world of the variables, field by field.
LEMMA WorldFields ==
    /\ World.client = client /\ World.squad = squad /\ World.match = match
    /\ DOMAIN World = {"client", "squad", "match"}
BY DEF World

\* A connection is made.
LEMMA ConnectStep ==
    ASSUME Inv, NEW c \in Clients, NEW a, Connect(c, a)
    PROVE  Step
<1> DEFINE q == [FreeClient EXCEPT !.status = "unread", !.uuid = a]
           v == [World EXCEPT !.client[c] = q]
<1>1. Becomes(v)
  BY DEF Connect
<1>2. RecordOK(q) /\ PhaseOK(q, World.match) /\ q.life = "none"
  BY DEF FreeClient, RecordOK, PhaseOK, Fields
<1> HIDE DEF q
<1>3. /\ DOMAIN v = {"client", "squad", "match"} /\ v.match = World.match
      /\ DOMAIN v.client = Clients /\ v.client[c] = q
      /\ \A d \in Clients : d # c => v.client[d] = World.client[d]
  BY DEF Inv, WorldOK, World
<1> HIDE DEF v
<1>4. WorldOK(v) /\ Quiet(World, v)
  BY <1>2, <1>3, OneSlot DEF Inv
<1>5. QED
  BY <1>1, <1>4, QuietComeback, Becoming

\* The player of an earlier session passes to the new connection with its data.
LEMMA TakesOver ==
    ASSUME NEW w, WorldOK(w), NEW c \in Clients, NEW o \in Clients, c # o,
           w.client[o].status \in {"verified", "gone"}, w.client[c].out = FALSE
    PROVE  LET v == TakeOver(w, c, o)
           IN  WorldOK(v) /\ Quiet(w, v)
<1> DEFINE v == TakeOver(w, c, o)
           r == w.client[o]
           q == [r EXCEPT !.status = "verified"]
           p == IF r.status = "gone" THEN FreeClient
                ELSE [r EXCEPT !.squad = NoSquad, !.life = "none", !.playing = FALSE,
                               !.kick = TRUE]
<1>1. /\ DOMAIN v = {"client", "squad", "match"} /\ v.match = w.match
      /\ DOMAIN v.client = Clients /\ v.client[c] = q /\ v.client[o] = p
      /\ \A d \in Clients \ {c, o} : v.client[d] = w.client[d]
  BY DEF TakeOver, WorldOK
<1>2. RecordOK(r) /\ PhaseOK(r, w.match)
  BY DEF WorldOK
<1>3. RecordOK(q) /\ PhaseOK(q, w.match)
  <2>1. /\ DOMAIN q = Fields /\ q.aside = r.aside /\ q.data = r.data
        /\ q.squad = r.squad /\ q.out = r.out /\ q.status = "verified"
    BY <1>2 DEF RecordOK, Fields
  <2> HIDE DEF q, r
  <2>2. QED
    BY <1>2, <2>1 DEF RecordOK, PhaseOK
<1>4. RecordOK(p) /\ PhaseOK(p, w.match) /\ p.life = "none"
  <2>1. CASE r.status = "gone"
    BY <2>1, FreeOK
  <2>2. CASE r.status # "gone"
    <3>1. /\ DOMAIN p = Fields /\ p.aside = r.aside /\ p.data = r.data
          /\ p.squad = NoSquad /\ p.out = r.out /\ p.status = "verified"
          /\ p.life = "none"
      BY <1>2, <2>2 DEF RecordOK, Fields
    <3> HIDE DEF p, r
    <3>2. QED
      BY <1>2, <3>1 DEF RecordOK, PhaseOK
  <2>3. QED
    BY <2>1, <2>2
<1> HIDE DEF v, p, q
<1>5. WorldOK(v)
  BY <1>1, <1>3, <1>4 DEF WorldOK
<1>6. Quiet(w, v)
  BY <1>1, <1>4 DEF Quiet
<1>7. QED
  BY <1>5, <1>6 DEF v

\* The master's answer.
LEMMA AccountReplyStep ==
    ASSUME Inv, NEW c \in Clients, AccountReply(c)
    PROVE  Step
<1> DEFINE r == client[c]
           q == [r EXCEPT !.status = "verified"]
           w == [World EXCEPT !.client[c].status = "verified"]
<1>1. RecordOK(r) /\ PhaseOK(r, World.match) /\ r.status = "unread"
  BY WorldFields DEF AccountReply, Inv, WorldOK
<1>2. /\ DOMAIN q = Fields /\ q.aside = r.aside /\ q.data = r.data /\ q.life = r.life
      /\ q.squad = r.squad /\ q.out = r.out /\ q.status = "verified"
  BY <1>1 DEF RecordOK, Fields
<1>3. /\ DOMAIN w = {"client", "squad", "match"} /\ w.match = World.match
      /\ DOMAIN w.client = Clients /\ w.client[c] = q
      /\ \A d \in Clients : d # c => w.client[d] = World.client[d]
  BY DEF Inv, WorldOK, World
<1>4. \/ Becomes(w)
      \/ \E o \in Clients \ {c} :
            /\ w.client[o].status \in {"verified", "gone"}
            /\ Becomes(TakeOver(w, c, o))
  BY DEF AccountReply, Earlier
<1>5. World.client[c] = r
  BY WorldFields
<1> HIDE DEF w, q, r
<1>6. RecordOK(q) /\ PhaseOK(q, World.match)
  BY <1>1, <1>2 DEF RecordOK, PhaseOK
<1>7. WorldOK(w) /\ Quiet(World, w)
  <2> DEFINE u == World
  <2>1. WorldOK(u) /\ (q.life = "alive" => u.client[c].life = "alive")
    BY <1>2, <1>5 DEF Inv
  <2>2. /\ w.match = u.match /\ PhaseOK(q, u.match)
        /\ \A d \in Clients : d # c => w.client[d] = u.client[d]
    BY <1>3, <1>6
  <2> HIDE DEF u
  <2>3. WorldOK(w) /\ Quiet(u, w)
    BY <1>3, <1>6, <2>1, <2>2, OneSlot
  <2>4. QED
    BY <2>3 DEF u
<1>8. CASE Becomes(w)
  BY <1>7, <1>8, QuietComeback, Becoming
<1>9. ASSUME NEW o \in Clients \ {c}, w.client[o].status \in {"verified", "gone"},
             Becomes(TakeOver(w, c, o))
      PROVE  Step
  <2> DEFINE v == TakeOver(w, c, o)
  <2>1. w.client[c].out = FALSE
    BY <1>1, <1>2, <1>3 DEF RecordOK
  <2>2. WorldOK(v) /\ Quiet(w, v)
    BY <1>7, <1>9, <2>1, TakesOver
  <2> HIDE DEF v
  <2>3. Quiet(World, v)
    <3>1. ASSUME NEW d \in Clients, World.client[d].out = TRUE,
                 v.client[d].life = "alive"
          PROVE  World.client[d].life = "alive"
      <4>1. w.client[d].out = World.client[d].out /\ w.client[d].life = World.client[d].life
        BY <1>2, <1>3, <1>5
      <4>2. QED
        BY <2>2, <3>1, <4>1 DEF Quiet
    <3>2. QED
      BY <3>1 DEF Quiet
  <2>4. QED
    BY <1>9, <2>2, <2>3, QuietComeback, Becoming DEF v
<1>10. QED
  BY <1>4, <1>8, <1>9

\* Two changes that bring back nobody who is out, where the first keeps who is out.
LEMMA QuietTwice ==
    ASSUME NEW w, NEW v, NEW u, Quiet(w, v), Quiet(v, u),
           \A c \in Clients : v.client[c].out = w.client[c].out
    PROVE  Quiet(w, u)
BY DEF Quiet

\* One slot changes after a change of the world that keeps who is out.
LEMMA SlotStep ==
    ASSUME NEW w, WorldOK(w), Quiet(World, w),
           \A c \in Clients : w.client[c].out = World.client[c].out,
           NEW k \in Clients, NEW q, RecordOK(q), PhaseOK(q, w.match),
           q.life = "alive" => w.client[k].life = "alive",
           NEW v, DOMAIN v = {"client", "squad", "match"}, v.match = w.match,
           DOMAIN v.client = Clients, v.client[k] = q,
           \A c \in Clients : c # k => v.client[c] = w.client[c],
           Becomes(v)
    PROVE  Step
<1>1. WorldOK(v) /\ Quiet(w, v)
  BY OneSlot
<1>2. Quiet(World, v)
  BY <1>1, QuietTwice
<1>3. QED
  BY <1>1, <1>2, QuietComeback, Becoming

\* The world as it is.
LEMMA Now == ASSUME Inv PROVE WorldOK(World) /\ Quiet(World, World)
BY DEF Inv, Quiet

\* A connection is marked for closing.
LEMMA MarkKickedStep ==
    ASSUME Inv, NEW c \in Clients, MarkKicked(c)
    PROVE  Step
<1> DEFINE r == World.client[c]
           q == [r EXCEPT !.kick = TRUE]
           v == [World EXCEPT !.client[c].kick = TRUE]
<1>1. RecordOK(r) /\ PhaseOK(r, World.match) /\ Becomes(v)
  BY DEF MarkKicked, Inv, WorldOK
<1>2. /\ DOMAIN q = Fields /\ q.aside = r.aside /\ q.data = r.data /\ q.life = r.life
      /\ q.squad = r.squad /\ q.out = r.out /\ q.status = r.status
  BY <1>1 DEF RecordOK, Fields
<1>3. /\ DOMAIN v = {"client", "squad", "match"} /\ v.match = World.match
      /\ DOMAIN v.client = Clients /\ v.client[c] = q
      /\ \A d \in Clients : d # c => v.client[d] = World.client[d]
  BY DEF Inv, WorldOK, World
<1> HIDE DEF v, q
<1>4. RecordOK(q) /\ PhaseOK(q, World.match)
  BY <1>1, <1>2 DEF RecordOK, PhaseOK
<1>5. QED
  BY <1>1, <1>2, <1>3, <1>4, Now, SlotStep

\* The slot of a client is given up.
LEMMA FreedStep ==
    ASSUME Inv, NEW c \in Clients, NEW w \in Freed(World, c), Becomes(w)
    PROVE  Step
<1>1. WorldOK(w) /\ Quiet(World, w)
  BY FreedSlot DEF Inv
<1>2. QED
  BY <1>1, QuietComeback, Becoming

\* A socket is closed.
LEMMA CloseStep ==
    ASSUME Inv, NEW c \in Clients, Close(c)
    PROVE  Step
<1> DEFINE r == World.client[c]
           q == [r EXCEPT !.status = "gone"]
           v == [World EXCEPT !.client[c].status = "gone"]
<1>1. CASE client[c].status = "unread" \/ client[c].kick
  BY <1>1, FreedStep DEF Close
<1>2. CASE ~(client[c].status = "unread" \/ client[c].kick)
  <2>1. Becomes(v) /\ RecordOK(r) /\ PhaseOK(r, World.match)
    BY <1>2 DEF Close, Inv, WorldOK
  <2>2. /\ DOMAIN q = Fields /\ q.aside = r.aside /\ q.data = r.data
        /\ q.life = r.life /\ q.squad = r.squad /\ q.out = r.out /\ q.status = "gone"
    BY <2>1 DEF RecordOK, Fields
  <2>3. /\ DOMAIN v = {"client", "squad", "match"} /\ v.match = World.match
        /\ DOMAIN v.client = Clients /\ v.client[c] = q
        /\ \A d \in Clients : d # c => v.client[d] = World.client[d]
    BY DEF Inv, WorldOK, World
  <2> HIDE DEF v, q
  <2>4. RecordOK(q) /\ PhaseOK(q, World.match)
    BY <2>1, <2>2 DEF RecordOK, PhaseOK
  <2>5. QED
    BY <2>1, <2>2, <2>3, <2>4, Now, SlotStep
<1>3. QED
  BY <1>1, <1>2

\* The place of a lost connection is given up.
LEMMA ExpireStep ==
    ASSUME Inv, NEW c \in Clients, Expire(c)
    PROVE  Step
BY FreedStep DEF Expire

\* A client leaves its squad and the game (an idle player, a kicked one).
LEMMA LeavesGame ==
    ASSUME Inv, NEW c \in Clients, NEW w \in Leaves(World, c),
           Becomes([w EXCEPT !.client[c].life = "none"])
    PROVE  Step
<1> DEFINE r == w.client[c]
           q == [r EXCEPT !.life = "none"]
           v == [w EXCEPT !.client[c].life = "none"]
<1>1. /\ WorldOK(w)
      /\ \A d \in Clients : /\ w.client[d].life = World.client[d].life
                            /\ w.client[d].out = World.client[d].out
  BY LeavesSquad DEF Inv
<1>2. Quiet(World, w)
  BY <1>1 DEF Quiet
<1>3. RecordOK(r) /\ PhaseOK(r, w.match)
  BY <1>1 DEF WorldOK
<1>4. /\ DOMAIN q = Fields /\ q.aside = r.aside /\ q.data = r.data /\ q.life = "none"
      /\ q.squad = r.squad /\ q.out = r.out /\ q.status = r.status
  BY <1>3 DEF RecordOK, Fields
<1>5. /\ DOMAIN v = {"client", "squad", "match"} /\ v.match = w.match
      /\ DOMAIN v.client = Clients /\ v.client[c] = q
      /\ \A d \in Clients : d # c => v.client[d] = w.client[d]
  BY <1>1 DEF WorldOK
<1>6. Becomes(v)
  OBVIOUS
<1> HIDE DEF v, q
<1>7. RecordOK(q) /\ PhaseOK(q, w.match)
  BY <1>3, <1>4 DEF RecordOK, PhaseOK
<1>8. QED
  BY <1>1, <1>2, <1>4, <1>5, <1>6, <1>7, SlotStep

\* An idle player is kicked by the server.
LEMMA AfkKickStep ==
    ASSUME Inv, NEW c \in Clients, AfkKick(c)
    PROVE  Step
BY LeavesGame DEF AfkKick

\* A member is kicked by the squad.
LEMMA KickMemberStep ==
    ASSUME Inv, NEW c \in Clients, NEW k \in Clients, KickMember(c, k)
    PROVE  Step
BY LeavesGame DEF KickMember

\* A client leaves its squad and nothing more.
LEMMA LeavesOnly ==
    ASSUME Inv, NEW c \in Clients, NEW w \in Leaves(World, c)
    PROVE  /\ WorldOK(w) /\ Quiet(World, w) /\ w.match = World.match
           /\ \A d \in Clients : /\ w.client[d].status = World.client[d].status
                                 /\ w.client[d].out = World.client[d].out
<1>1. /\ WorldOK(w) /\ w.match = World.match
      /\ \A d \in Clients : /\ w.client[d].life = World.client[d].life
                            /\ w.client[d].out = World.client[d].out
                            /\ w.client[d].status = World.client[d].status
  BY LeavesSquad DEF Inv
<1>2. Quiet(World, w)
  BY <1>1 DEF Quiet
<1>3. QED
  BY <1>1, <1>2

\* A client leaves its squad.
LEMMA LeaveSquadStep ==
    ASSUME Inv, NEW c \in Clients, LeaveSquad(c)
    PROVE  Step
BY LeavesOnly, QuietComeback, Becoming DEF LeaveSquad

\* A nonempty set of squads has a first one.
LEMMA FirstSquad ==
    ASSUME NEW S \in SUBSET SquadIds, S # {}
    PROVE  (CHOOSE i \in S : \A j \in S : i <= j) \in S
<1>1. S \in SUBSET Nat
  BY SizesAssumption DEF SquadIds
<1>2. QED
  BY <1>1, Least

\* A verified client sits down in a squad.
LEMMA SitsDown ==
    ASSUME NEW w, WorldOK(w), Quiet(World, w),
           \A d \in Clients : w.client[d].out = World.client[d].out,
           NEW c \in Clients, w.client[c].status = "verified", NEW s \in SquadIds,
           NEW v, DOMAIN v = {"client", "squad", "match"}, v.match = w.match,
           v.client = [w.client EXCEPT ![c].squad = s], Becomes(v)
    PROVE  Step
<1> DEFINE r == w.client[c]
           q == [r EXCEPT !.squad = s]
<1>1. RecordOK(r) /\ PhaseOK(r, w.match)
  BY DEF WorldOK
<1>2. /\ DOMAIN q = Fields /\ q.aside = r.aside /\ q.data = r.data /\ q.life = r.life
      /\ q.squad = s /\ q.out = r.out /\ q.status = "verified"
  BY <1>1 DEF RecordOK, Fields
<1>3. /\ DOMAIN v.client = Clients /\ v.client[c] = q
      /\ \A d \in Clients : d # c => v.client[d] = w.client[d]
  BY DEF WorldOK
<1> HIDE DEF q
<1>4. RecordOK(q) /\ PhaseOK(q, w.match)
  BY <1>1, <1>2 DEF RecordOK, PhaseOK
<1>5. q.life = "alive" => w.client[c].life = "alive"
  BY <1>2
<1>6. QED
  BY <1>3, <1>4, <1>5, SlotStep

\* A client makes a squad.
LEMMA CreateSquadStep ==
    ASSUME Inv, NEW c \in Clients, CreateSquad(c)
    PROVE  Step
<1> DEFINE empty(w) == {s \in SquadIds : MembersOf(w, s) = {}}
           first(w) == CHOOSE i \in empty(w) : \A j \in empty(w) : i <= j
           v(w) == [w EXCEPT !.client[c].squad = first(w), !.squad[first(w)] = c]
<1>1. PICK w \in Leaves(World, c) :
        Becomes(IF empty(w) = {} THEN w ELSE v(w))
  BY DEF CreateSquad
<1>2. /\ WorldOK(w) /\ Quiet(World, w) /\ w.match = World.match
      /\ \A d \in Clients : /\ w.client[d].status = World.client[d].status
                            /\ w.client[d].out = World.client[d].out
  BY LeavesOnly
<1>3. World.client[c].status = "verified"
  BY WorldFields DEF CreateSquad, Acts
<1>4. CASE empty(w) = {}
  BY <1>1, <1>2, <1>4, QuietComeback, Becoming
<1>5. CASE empty(w) # {}
  <2>1. first(w) \in SquadIds
    BY <1>5, FirstSquad
  <2>2. Becomes(v(w))
    BY <1>1, <1>5
  <2> DEFINE s == first(w)
             x == v(w)
  <2>3. /\ DOMAIN x = {"client", "squad", "match"} /\ x.match = w.match
        /\ x.client = [w.client EXCEPT ![c].squad = s]
    <3> HIDE DEF first
    <3>1. QED
      BY <1>2 DEF WorldOK
  <2> HIDE DEF first, v
  <2>4. s \in SquadIds /\ Becomes(x)
    BY <2>1, <2>2
  <2> HIDE DEF s, x
  <2>5. w.client[c].status = "verified"
    BY <1>2, <1>3
  <2>6. QED
    BY <1>2, <2>3, <2>4, <2>5, SitsDown
<1>6. QED
  BY <1>4, <1>5

\* A client joins a squad.
LEMMA JoinSquadStep ==
    ASSUME Inv, NEW c \in Clients, NEW s \in SquadIds, JoinSquad(c, s)
    PROVE  Step
<1> DEFINE v(w) == [w EXCEPT !.client[c].squad = s]
<1>1. PICK w \in Leaves(World, c) : Becomes(w) \/ Becomes(v(w))
  BY DEF JoinSquad
<1>2. /\ WorldOK(w) /\ Quiet(World, w) /\ w.match = World.match
      /\ \A d \in Clients : /\ w.client[d].status = World.client[d].status
                            /\ w.client[d].out = World.client[d].out
  BY LeavesOnly
<1>3. w.client[c].status = "verified"
  BY <1>2, WorldFields DEF JoinSquad, Acts
<1>4. CASE Becomes(w)
  BY <1>2, <1>4, QuietComeback, Becoming
<1>5. CASE Becomes(v(w))
  <2> DEFINE x == v(w)
  <2>1. /\ DOMAIN x = {"client", "squad", "match"} /\ x.match = w.match
        /\ x.client = [w.client EXCEPT ![c].squad = s]
    BY <1>2 DEF WorldOK
  <2>2. Becomes(x)
    BY <1>5
  <2> HIDE DEF x
  <2>3. QED
    BY <1>2, <1>3, <2>1, <2>2, SitsDown
<1>6. QED
  BY <1>1, <1>4, <1>5

\* The owner of a squad changes.
LEMMA OwnerStep ==
    ASSUME Inv, NEW s, NEW o, Becomes([World EXCEPT !.squad[s] = o])
    PROVE  Step
<1> DEFINE v == [World EXCEPT !.squad[s] = o]
<1>1. /\ DOMAIN v = {"client", "squad", "match"} /\ v.client = World.client
      /\ v.match = World.match
  BY WorldFields
<1>2. Becomes(v)
  OBVIOUS
<1> HIDE DEF v
<1>3. WorldOK(v) /\ Quiet(World, v)
  BY <1>1 DEF Inv, WorldOK, Quiet
<1>4. QED
  BY <1>2, <1>3, QuietComeback, Becoming

\* A host links squads: in the lobby, where nobody is out and no data is kept aside.
LEMMA CreateStep ==
    ASSUME Inv, NEW h \in Clients, NEW mode \in Modes, NEW codes \in Codes,
           Create(h, mode, codes)
    PROVE  Step
<1> DEFINE mine == client[h].squad
           all == IF mode = "has" THEN <<mine>> ELSE <<mine>> \o codes
           teams == [t \in DOMAIN all |-> [squad |-> all[t], out |-> FALSE]]
           team == [s \in SquadIds |-> IF s \in ToSet(all)
                       THEN CHOOSE t \in DOMAIN all : all[t] = s ELSE NoTeam]
           m == [NoMatch EXCEPT !.mode = mode, !.host = mine, !.teams = teams,
                                !.team = team]
<1>1. match' = m /\ UNCHANGED <<client, squad>> /\ match.phase = "lobby"
  BY DEF Create
<1>2. mode = "has" => DOMAIN teams = {1} /\ teams[1].squad = mine
  <2>1. SUFFICES ASSUME mode = "has" PROVE DOMAIN teams = {1} /\ teams[1].squad = mine
    OBVIOUS
  <2>2. all = <<mine>>
    BY <2>1
  <2> HIDE DEF all
  <2>3. DOMAIN all = {1} /\ all[1] = mine
    BY <2>2
  <2>4. QED
    BY <2>3
<1>3. mode = "has" => \A s \in SquadIds : team[s] = Seekers => s = mine
  <2>1. SUFFICES ASSUME mode = "has", NEW s \in SquadIds, team[s] = Seekers
                 PROVE  s = mine
    OBVIOUS
  <2>2. all = <<mine>>
    BY <2>1
  <2>3. s \in ToSet(all)
    BY <2>1 DEF NoTeam, Seekers
  <2>4. QED
    BY <2>2, <2>3 DEF ToSet
<1> HIDE DEF teams, team, all, mine
<1>4. /\ DOMAIN m = MatchFields /\ m.phase = "lobby" /\ m.mode = mode
      /\ m.host = mine /\ m.teams = teams /\ m.team = team
  BY DEF NoMatch, MatchFields
<1> HIDE DEF m
<1>5. MatchOK(m)
  BY <1>2, <1>3, <1>4, SizesAssumption DEF MatchOK, HasOK
<1>6. \A c \in Clients : RecordOK(client[c]) /\ PhaseOK(client[c], match)
  BY WorldFields DEF Inv, WorldOK
<1>7. \A c \in Clients : PhaseOK(client[c], m)
  BY <1>1, <1>4, <1>6 DEF PhaseOK
<1> DEFINE v == [client |-> client, squad |-> squad, match |-> m]
<1>8. v.client = client /\ v.match = m /\ DOMAIN v = {"client", "squad", "match"}
  OBVIOUS
<1>9. Becomes(v)
  BY <1>1 DEF Becomes
<1> HIDE DEF v
<1>10. WorldOK(v)
  BY <1>5, <1>6, <1>7, <1>8, WorldFields DEF WorldOK, Inv
<1>11. Quiet(World, v)
  BY <1>8, WorldFields DEF Quiet
<1>12. QED
  BY <1>9, <1>10, <1>11, QuietComeback, Becoming

\* Nobody is out of the lobby, so nobody comes back into it.
LEMMA LobbyComeback ==
    ASSUME NEW w, WorldOK(w), w.match.phase = "lobby" \/ w.match.mode # "has", NEW v
    PROVE  Comeback(w, v)
BY DEF WorldOK, PhaseOK, Comeback

\* Nobody is out of the lobby, nor of the other modes.
LEMMA LobbyMarked ==
    ASSUME NEW w, WorldOK(w), w.match.phase = "lobby" \/ w.match.mode # "has", NEW v
    PROVE  Marked(w, v)
BY DEF WorldOK, PhaseOK, Marked

\* A match that ends leaves the lobby.
LEMMA EndMarked ==
    ASSUME NEW w, NEW v, v.match = NoMatch
    PROVE  Marked(w, v)
BY DEF Marked, NoMatch

\* The host starts the match.
LEMMA StartStep ==
    ASSUME Inv, NEW h \in Clients, Start(h)
    PROVE  Step
<1> DEFINE teams == [t \in DOMAIN match.teams |-> [match.teams[t] EXCEPT !.out = FALSE]] \o
                IF match.mode = "has" THEN <<[squad |-> NoSquad, out |-> FALSE]>>
                                      ELSE <<>>
           m == [match EXCEPT !.phase = FirstPhase(match.mode), !.ready = FALSE,
                              !.winner = NoTeam, !.teams = teams]
           f == [c \in Clients |->
                [client[c] EXCEPT !.played = FALSE, !.out = FALSE, !.forfeit = FALSE]]
           begun == [World EXCEPT
            !.match.phase = FirstPhase(match.mode), !.match.ready = FALSE,
            !.match.winner = NoTeam,
            !.match.teams = [t \in DOMAIN @ |-> [@[t] EXCEPT !.out = FALSE]] \o
                IF match.mode = "has" THEN <<[squad |-> NoSquad, out |-> FALSE]>>
                                      ELSE <<>>,
            !.client = [c \in Clients |->
                [@[c] EXCEPT !.played = FALSE, !.out = FALSE, !.forfeit = FALSE]]]
           noted == [begun EXCEPT !.client = [c \in Clients |->
                        [begun.client[c] EXCEPT !.played = @ \/ c \in Team(begun, Seekers)]]]
<1>1. /\ World.match.phase = "lobby"
      /\ Becomes(IF match.mode = "has"
                 THEN Spawn(noted, Team(begun, Hiders))
                 ELSE Spawn(begun, UNION {Team(begun, t) : t \in DOMAIN match.teams}))
  BY WorldFields DEF Start
<1>2. /\ DOMAIN begun = {"client", "squad", "match"}
      /\ begun.match = m /\ begun.client = f
  BY DEF World
<1>3. MatchOK(match) /\ \A c \in Clients : RecordOK(client[c])
  BY WorldFields DEF Inv, WorldOK
<1>4. MatchOK(m) /\ m.phase # "lobby"
  <2> HIDE DEF teams
  <2>1. /\ DOMAIN m = MatchFields /\ m.phase = FirstPhase(match.mode)
        /\ m.mode = match.mode /\ m.host = match.host /\ m.team = match.team
    BY <1>3 DEF MatchOK, MatchFields
  <2>2. FirstPhase(match.mode) \in {"placement", "farm", "war"}
    BY <1>3 DEF FirstPhase, MatchOK
  <2> HIDE DEF m
  <2>3. QED
    BY <1>3, <2>1, <2>2 DEF MatchOK, HasOK
<1> HIDE DEF begun, m
<1>5. WorldOK(begun)
  <2>1. ASSUME NEW c \in Clients
        PROVE  RecordOK(f[c]) /\ PhaseOK(f[c], m)
    <3> DEFINE r == client[c]
               q == [r EXCEPT !.played = FALSE, !.out = FALSE, !.forfeit = FALSE]
    <3>1. f[c] = q /\ RecordOK(r)
      BY <1>3
    <3>2. /\ DOMAIN q = Fields /\ q.aside = r.aside /\ q.data = r.data
          /\ q.life = r.life /\ q.squad = r.squad /\ q.out = FALSE
          /\ q.status = r.status
      BY <3>1 DEF RecordOK, Fields
    <3> HIDE DEF q, r, f
    <3>3. RecordOK(q) /\ PhaseOK(q, m)
      BY <1>4, <3>1, <3>2 DEF RecordOK, PhaseOK
    <3>4. QED
      BY <3>1, <3>3
  <2>2. DOMAIN f = Clients
    OBVIOUS
  <2> HIDE DEF f
  <2>3. QED
    BY <1>2, <1>4, <2>1, <2>2 DEF WorldOK
<1>6. WorldOK(noted) /\ noted.match = begun.match
  <2> DEFINE g == [c \in Clients |-> [begun.client[c] EXCEPT
                        !.played = @ \/ c \in Team(begun, Seekers)]]
  <2>1. noted = [begun EXCEPT !.client = g]
    BY <1>2
  <2>2. ASSUME NEW c \in Clients
        PROVE  RecordOK(g[c]) /\ PhaseOK(g[c], begun.match)
    <3> DEFINE r == begun.client[c]
               b == r.played \/ c \in Team(begun, Seekers)
               q == [r EXCEPT !.played = b]
    <3>1. g[c] = q /\ RecordOK(r) /\ PhaseOK(r, begun.match)
      BY <1>5 DEF WorldOK
    <3> HIDE DEF b
    <3>2. /\ DOMAIN q = Fields /\ q.aside = r.aside /\ q.data = r.data
          /\ q.life = r.life /\ q.squad = r.squad /\ q.out = r.out
          /\ q.status = r.status
      BY <3>1 DEF RecordOK, Fields
    <3> HIDE DEF q, r, g
    <3>3. RecordOK(q) /\ PhaseOK(q, begun.match)
      BY <3>1, <3>2 DEF RecordOK, PhaseOK
    <3>4. QED
      BY <3>1, <3>3
  <2>3. DOMAIN g = Clients
    OBVIOUS
  <2> HIDE DEF g
  <2>4. QED
    BY <1>5, <2>1, <2>2, <2>3, NewClients
<1> HIDE DEF noted
<1>7. \A S : WorldOK(Spawn(noted, S)) /\ WorldOK(Spawn(begun, S))
  BY <1>2, <1>4, <1>5, <1>6, Spawned
<1>8. PICK v : WorldOK(v) /\ Becomes(v)
  BY <1>1, <1>7
<1>9. Comeback(World, v)
  BY <1>1, LobbyComeback DEF Inv
<1>10. QED
  BY <1>8, <1>9, Becoming

\* The host cancels the match.
LEMMA CancelStep ==
    ASSUME Inv, NEW h \in Clients, Cancel(h)
    PROVE  Step
BY EndsMatch, QuietComeback, Becoming DEF Cancel, Inv

\* A player dies on purpose.
LEMMA RespawnStep ==
    ASSUME Inv, NEW c \in Clients, Respawn(c)
    PROVE  Step
<1> DEFINE v == Kill(World, {c})
<1>1. Becomes(v) /\ Alive(World, c)
  BY DEF Respawn
<1>2. /\ WorldOK(v)
      /\ \A d \in Clients : v.client[d].life \in {"dead", World.client[d].life}
  BY <1>1, Killed DEF Inv
<1> HIDE DEF v
<1>3. Quiet(World, v)
  BY <1>2 DEF Quiet
<1>4. QED
  BY <1>1, <1>2, <1>3, QuietComeback, Becoming

\* A slot changes without coming to life, then its player is taken out of the game.
LEMMA EditedAndTakenOut ==
    ASSUME Inv, NEW k \in Clients, NEW q, RecordOK(q), PhaseOK(q, World.match),
           q.life = World.client[k].life,
           NEW w, DOMAIN w = {"client", "squad", "match"}, w.match = World.match,
           DOMAIN w.client = Clients, w.client[k] = q,
           \A c \in Clients : c # k => w.client[c] = World.client[c],
           Becomes(TakeOut(w, {k}))
    PROVE  Step
<1> DEFINE v == TakeOut(w, {k})
<1>1. WorldOK(w)
  BY DEF Inv, WorldOK
<1>2. /\ WorldOK(v)
      /\ \A c \in Clients : v.client[c].life \in {"none", w.client[c].life}
  BY <1>1, TakenOut
<1>3. Becomes(v)
  OBVIOUS
<1> HIDE DEF v
<1>4. \A c \in Clients : w.client[c].life = World.client[c].life
  OBVIOUS
<1>5. Quiet(World, v)
  BY <1>2, <1>4 DEF Quiet
<1>6. QED
  BY <1>2, <1>3, <1>5, QuietComeback, Becoming

\* A player gives up a team deathmatch.
LEMMA ForfeitStep ==
    ASSUME Inv, NEW c \in Clients, Forfeit(c)
    PROVE  Step
<1> DEFINE r == World.client[c]
           q == [r EXCEPT !.forfeit = TRUE]
           w == [World EXCEPT !.client[c].forfeit = TRUE]
<1>1. Becomes(TakeOut(w, {c})) /\ RecordOK(r) /\ PhaseOK(r, World.match)
  BY DEF Forfeit, Inv, WorldOK
<1>2. /\ DOMAIN q = Fields /\ q.aside = r.aside /\ q.data = r.data /\ q.life = r.life
      /\ q.squad = r.squad /\ q.out = r.out /\ q.status = r.status
  BY <1>1 DEF RecordOK, Fields
<1>3. /\ DOMAIN w = {"client", "squad", "match"} /\ w.match = World.match
      /\ DOMAIN w.client = Clients /\ w.client[c] = q
      /\ \A d \in Clients : d # c => w.client[d] = World.client[d]
  BY DEF Inv, WorldOK, World
<1> HIDE DEF w, q
<1>4. RecordOK(q) /\ PhaseOK(q, World.match)
  BY <1>1, <1>2 DEF RecordOK, PhaseOK
<1>5. QED
  BY <1>1, <1>2, <1>3, <1>4, EditedAndTakenOut

\* A player leaves the game; a hider is out from then on.
LEMMA LeaveStep ==
    ASSUME Inv, NEW c \in Clients, Leave(c)
    PROVE  Step
<1> DEFINE r == World.client[c]
           t == ClientTeam(World, c)
           b == r.out \/ (match.mode = "has" /\ t = Hiders)
           q == [r EXCEPT !.out = b]
           w == [World EXCEPT !.client[c].out = @ \/ (match.mode = "has" /\ t = Hiders)]
<1>1. Becomes(TakeOut(w, {c})) /\ RecordOK(r) /\ PhaseOK(r, World.match)
  BY DEF Leave, Inv, WorldOK
<1>2. b = TRUE => World.match.mode = "has" /\ World.match.phase # "lobby"
  <2>1. match.phase # "lobby"
    BY DEF Leave, Running
  <2>2. CASE r.out = TRUE
    BY <1>1, <2>2 DEF PhaseOK
  <2>3. CASE r.out # TRUE
    BY <1>1, <2>1, <2>3, WorldFields DEF RecordOK
  <2>4. QED
    BY <2>2, <2>3
<1>3. b \in BOOLEAN
  OBVIOUS
<1>4. World.client[c].status \notin {"free", "unread"}
  BY WorldFields DEF Leave, Acts
<1>5. w = [World EXCEPT !.client[c].out = b]
  OBVIOUS
<1> HIDE DEF b, t
<1>6. /\ DOMAIN q = Fields /\ q.aside = r.aside /\ q.data = r.data /\ q.life = r.life
      /\ q.squad = r.squad /\ q.out = b /\ q.status = r.status
  BY <1>1 DEF RecordOK, Fields
<1>7. /\ DOMAIN w = {"client", "squad", "match"} /\ w.match = World.match
      /\ DOMAIN w.client = Clients /\ w.client[c] = q
      /\ \A d \in Clients : d # c => w.client[d] = World.client[d]
  <2> HIDE DEF w
  <2>1. QED
    BY <1>5 DEF Inv, WorldOK, World
<1> HIDE DEF w, q
<1>8. RecordOK(q) /\ PhaseOK(q, World.match)
  BY <1>1, <1>2, <1>3, <1>4, <1>6 DEF RecordOK, PhaseOK
<1>9. QED
  BY <1>1, <1>6, <1>7, <1>8, EditedAndTakenOut

\* A player who is not out enters.
LEMMA EnterStep ==
    ASSUME Inv, NEW c \in Clients, Enter(c)
    PROVE  Step
<1> DEFINE v == Spawn(World, {c})
<1>1. /\ Becomes(v) /\ World.match.phase # "lobby" /\ World.client[c].out = FALSE
  <2>1. RecordOK(World.client[c])
    BY DEF Inv, WorldOK
  <2>2. QED
    BY <2>1, WorldFields DEF Enter, Running, RecordOK
<1>2. /\ WorldOK(v)
      /\ \A d \in Clients : d # c => v.client[d] = World.client[d]
  BY <1>1, Spawned DEF Inv
<1> HIDE DEF v
<1>3. Quiet(World, v)
  BY <1>1, <1>2 DEF Quiet
<1>4. QED
  BY <1>1, <1>2, <1>3, QuietComeback, Becoming

\* What is earned in a match is data of the match.
LEMMA EarnStep ==
    ASSUME Inv, NEW c \in Clients, Earn(c)
    PROVE  Step
<1> DEFINE r == World.client[c]
           q == [r EXCEPT !.data = "match"]
           v == [World EXCEPT !.client[c].data = "match"]
<1>1. Becomes(v) /\ RecordOK(r) /\ PhaseOK(r, World.match) /\ r.aside # "none"
  BY WorldFields DEF Earn, Inv, WorldOK
<1>2. /\ DOMAIN q = Fields /\ q.aside = r.aside /\ q.data = "match" /\ q.life = r.life
      /\ q.squad = r.squad /\ q.out = r.out /\ q.status = r.status
  BY <1>1 DEF RecordOK, Fields
<1>3. /\ DOMAIN v = {"client", "squad", "match"} /\ v.match = World.match
      /\ DOMAIN v.client = Clients /\ v.client[c] = q
      /\ \A d \in Clients : d # c => v.client[d] = World.client[d]
  BY DEF Inv, WorldOK, World
<1> HIDE DEF v, q
<1>4. RecordOK(q) /\ PhaseOK(q, World.match)
  BY <1>1, <1>2 DEF RecordOK, PhaseOK
<1>5. QED
  BY <1>1, <1>2, <1>3, <1>4, Now, SlotStep

(***************************************************************************)
(* The tick.                                                               *)
(***************************************************************************)
\* The simulation kills, and brings back only those who lie there dead.
LEMMA Simulates ==
    ASSUME NEW w, WorldOK(w), NEW v \in Simulated(w)
    PROVE  /\ WorldOK(v) /\ v.match = w.match
           /\ \A c \in Clients :
                 /\ v.client[c].out = w.client[c].out
                 /\ v.client[c].life = "alive" => w.client[c].life \in {"alive", "dead"}
<1> DEFINE f(killed, revived) == [c \in Clients |->
                IF c \in killed THEN [w.client[c] EXCEPT !.life = "dead"]
                ELSE IF c \in revived THEN [w.client[c] EXCEPT !.life = "alive"]
                ELSE w.client[c]]
<1>1. PICK killed \in SUBSET {c \in Clients : Alive(w, c)}, revived \in SUBSET Seeded(w) :
        v = Lives(w, killed, revived)
  BY DEF Simulated
<1> DEFINE g == f(killed, revived)
<1>2. ASSUME NEW c \in Clients
      PROVE  /\ RecordOK(g[c]) /\ PhaseOK(g[c], w.match)
             /\ g[c].out = w.client[c].out
             /\ g[c].life = "alive" => w.client[c].life \in {"alive", "dead"}
  <2> DEFINE r == w.client[c]
             Q(l) == [r EXCEPT !.life = l]
  <2>1. RecordOK(r) /\ PhaseOK(r, w.match)
    BY DEF WorldOK
  <2>2. \A l : /\ DOMAIN Q(l) = Fields /\ Q(l).aside = r.aside /\ Q(l).data = r.data
               /\ Q(l).life = l /\ Q(l).squad = r.squad /\ Q(l).out = r.out
               /\ Q(l).status = r.status
    BY <2>1 DEF RecordOK, Fields
  <2>3. CASE c \in killed
    <3>1. g[c] = Q("dead") /\ r.life = "alive"
      BY <2>3 DEF Alive
    <3> HIDE DEF g, Q, r
    <3>2. RecordOK(Q("dead")) /\ PhaseOK(Q("dead"), w.match)
      BY <2>1, <2>2, <3>1 DEF RecordOK, PhaseOK
    <3>3. QED
      BY <2>2, <3>1, <3>2 DEF r
  <2>4. CASE c \notin killed /\ c \in revived
    <3>1. g[c] = Q("alive") /\ r.life = "dead"
      BY <2>4 DEF Seeded
    <3> HIDE DEF g, Q, r
    <3>2. RecordOK(Q("alive")) /\ PhaseOK(Q("alive"), w.match)
      BY <2>1, <2>2, <3>1 DEF RecordOK, PhaseOK
    <3>3. QED
      BY <2>2, <3>1, <3>2 DEF r
  <2>5. CASE c \notin killed /\ c \notin revived
    <3>1. g[c] = r
      BY <2>5
    <3>2. QED
      BY <2>1, <3>1
  <2>6. QED
    BY <2>3, <2>4, <2>5
<1>3. DOMAIN g = Clients
  OBVIOUS
<1>4. v = [w EXCEPT !.client = g]
  BY <1>1 DEF Lives
<1> HIDE DEF g, f
<1>5. WorldOK(v) /\ v.match = w.match /\ v.client = g
  BY <1>2, <1>3, <1>4, NewClients
<1>6. QED
  BY <1>2, <1>5

\* A match that goes on changes its phase among those of a match, or its teams.
LEMMA MatchGoesOn ==
    ASSUME NEW w, WorldOK(w), w.match.phase # "lobby", NEW v,
           DOMAIN v = {"client", "squad", "match"}, v.client = w.client,
           DOMAIN v.match = MatchFields,
           v.match.phase \in {"placement", "farm", "war", "ended"},
           v.match.mode = w.match.mode, v.match.host = w.match.host,
           v.match.team = w.match.team
    PROVE  WorldOK(v)
<1>1. MatchOK(v.match)
  BY DEF WorldOK, MatchOK, HasOK
<1>2. \A c \in Clients : PhaseOK(v.client[c], v.match)
  BY DEF WorldOK, PhaseOK
<1>3. QED
  BY <1>1, <1>2 DEF WorldOK

\* Teams are put out.
LEMMA TeamsJudged ==
    ASSUME NEW w, WorldOK(w), w.match.phase # "lobby", NEW teams
    PROVE  LET v == [w EXCEPT !.match.teams = teams]
           IN  WorldOK(v) /\ v.match.phase = w.match.phase /\ v.match.mode = w.match.mode
<1> DEFINE v == [w EXCEPT !.match.teams = teams]
<1>1. /\ DOMAIN v = {"client", "squad", "match"} /\ v.client = w.client
      /\ DOMAIN v.match = MatchFields /\ v.match.phase = w.match.phase
      /\ v.match.mode = w.match.mode /\ v.match.host = w.match.host
      /\ v.match.team = w.match.team
  BY DEF WorldOK, MatchOK, MatchFields
<1>2. w.match.phase \in {"placement", "farm", "war", "ended"}
  BY DEF WorldOK, MatchOK
<1> HIDE DEF v
<1>3. WorldOK(v)
  BY <1>1, <1>2, MatchGoesOn
<1>4. QED
  BY <1>1, <1>3 DEF v

\* A tick of team deathmatch.
LEMMA TdmTicks ==
    ASSUME NEW w, WorldOK(w), w.match.phase # "lobby", NEW due, NEW v \in TickTdm(w, due)
    PROVE  WorldOK(v)
<1> DEFINE alive == {t \in 1..TeamCount(w) : AliveInTeam(w, t) # {}}
           teams == [t \in DOMAIN w.match.teams |->
                        [w.match.teams[t] EXCEPT !.out = @ \/ t \notin alive]]
           judged == [w EXCEPT !.match.teams = teams]
<1>1. v = w \/ v = judged \/ \E t : v = Finish(judged, t)
  BY DEF TickTdm
<1> HIDE DEF teams
<1>2. WorldOK(judged) /\ judged.match.phase = w.match.phase
  BY TeamsJudged
<1> HIDE DEF judged
<1>3. QED
  BY <1>1, <1>2, Finishes

\* Teams are put out and their players die.
LEMMA Eliminates ==
    ASSUME NEW w, WorldOK(w), w.match.phase # "lobby", NEW v \in Outcomes(w)
    PROVE  WorldOK(v) /\ v.match.phase # "lobby"
<1>1. CASE v = w
  BY <1>1
<1>2. ASSUME NEW T, v = StayDead(Eliminate(w, T))
      PROVE  WorldOK(v) /\ v.match.phase # "lobby"
  <2> DEFINE u == Eliminate(w, T)
             D == {c \in Clients : ClientTeam(u, c) \in Out(u) /\ Alive(u, c)}
  <2>1. WorldOK(u) /\ u.match.phase # "lobby"
    BY TeamsJudged DEF Eliminate
  <2>2. \A c \in D : c \in Clients => Alive(u, c)
    OBVIOUS
  <2>3. v = Kill(u, D)
    BY <1>2 DEF StayDead
  <2> HIDE DEF u, D
  <2>4. QED
    BY <2>1, <2>2, <2>3, Killed
<1>3. QED
  BY <1>1, <1>2 DEF Outcomes

\* A tick of capture the flag.
LEMMA CtfTicks ==
    ASSUME NEW w, WorldOK(w), w.match.phase # "lobby", NEW v \in TickCtf(w)
    PROVE  WorldOK(v)
<1>1. CASE v = EndMatch(w)
  BY <1>1, EndsMatch
<1>2. ASSUME NEW u \in Outcomes(w), v \in Continued(u)
      PROVE  WorldOK(v)
  <2>1. WorldOK(u) /\ u.match.phase # "lobby"
    BY Eliminates
  <2>2. (\E S : v = Spawn(u, S)) \/ (\E t : v = Finish(u, t))
    BY <1>2 DEF Continued
  <2>3. QED
    BY <2>1, <2>2, Spawned, Finishes
<1>3. QED
  BY <1>1, <1>2 DEF TickCtf

\* The hiders who are dead are out.
LEMMA Catches ==
    ASSUME NEW w, WorldOK(w), w.match.phase # "lobby", w.match.mode = "has",
           NEW S, \A c \in S : c \in Clients => w.client[c].life = "dead"
    PROVE  LET v == [w EXCEPT !.client = [c \in Clients |->
                        IF c \in S THEN [@[c] EXCEPT !.out = TRUE] ELSE @[c]]]
           IN  /\ WorldOK(v) /\ v.match = w.match
               /\ \A c \in Clients : /\ v.client[c].squad = w.client[c].squad
                                     /\ v.client[c].life = w.client[c].life
                                     /\ w.client[c].out = TRUE => v.client[c].out = TRUE
<1> DEFINE f == [c \in Clients |-> IF c \in S THEN [w.client[c] EXCEPT !.out = TRUE]
                                               ELSE w.client[c]]
<1>1. ASSUME NEW c \in Clients
      PROVE  /\ RecordOK(f[c]) /\ PhaseOK(f[c], w.match)
             /\ f[c].squad = w.client[c].squad /\ f[c].life = w.client[c].life
             /\ w.client[c].out = TRUE => f[c].out = TRUE
  <2> DEFINE r == w.client[c]
             q == [r EXCEPT !.out = TRUE]
  <2>1. RecordOK(r) /\ PhaseOK(r, w.match)
    BY DEF WorldOK
  <2>2. CASE c \in S
    <3>1. f[c] = q /\ r.life = "dead"
      BY <2>2
    <3>2. /\ DOMAIN q = Fields /\ q.aside = r.aside /\ q.data = r.data
          /\ q.life = r.life /\ q.squad = r.squad /\ q.out = TRUE /\ q.status = r.status
      BY <2>1 DEF RecordOK, Fields
    <3> HIDE DEF f, q, r
    <3>3. RecordOK(q) /\ PhaseOK(q, w.match)
      BY <2>1, <3>1, <3>2 DEF RecordOK, PhaseOK
    <3>4. QED
      BY <3>1, <3>2, <3>3 DEF r
  <2>3. CASE c \notin S
    BY <2>1, <2>3
  <2>4. QED
    BY <2>2, <2>3
<1>2. DOMAIN f = Clients
  OBVIOUS
<1> HIDE DEF f
<1>3. LET v == [w EXCEPT !.client = f]
      IN  WorldOK(v) /\ v.match = w.match /\ v.client = f
  BY <1>1, <1>2, NewClients
<1>4. QED
  BY <1>1, <1>3 DEF f

\* A tick of hide and seek: the match ends because the squad of the host is empty, or
\* only seekers come back and everybody keeps the team.
LEMMA HasTicks ==
    ASSUME NEW w, WorldOK(w), w.match.phase # "lobby", w.match.mode = "has",
           NEW due, NEW v \in TickHas(w, due)
    PROVE  \/ v = EndMatch(w) /\ MembersOf(w, w.match.host) = {}
           \/ /\ WorldOK(v) /\ Marked(w, v)
              /\ \A c \in Clients :
                    /\ ClientTeam(v, c) = ClientTeam(w, c)
                    /\ v.client[c].life = "alive"
                         => w.client[c].life = "alive" \/ ClientTeam(w, c) = Seekers
<1> DEFINE caught == [w EXCEPT !.client = [c \in Clients |->
                        IF c \in Dead(w, Hiders) THEN [@[c] EXCEPT !.out = TRUE] ELSE @[c]]]
<1>1. CASE MembersOf(w, w.match.host) = {}
  BY <1>1 DEF TickHas
<1>2. CASE MembersOf(w, w.match.host) # {}
  <2>1. PICK S \in SUBSET Dead(w, Seekers) :
            \E t : v = Spawn(caught, S) \/ v = Finish(Spawn(caught, S), t)
    BY <1>2 DEF TickHas
  <2>2. \A c \in Dead(w, Hiders) : c \in Clients => w.client[c].life = "dead"
    BY DEF Dead
  <2>3. /\ WorldOK(caught) /\ caught.match = w.match
        /\ \A c \in Clients : /\ caught.client[c].squad = w.client[c].squad
                              /\ caught.client[c].life = w.client[c].life
                              /\ w.client[c].out = TRUE => caught.client[c].out = TRUE
    BY <2>2, Catches
  <2> HIDE DEF caught
  <2> DEFINE u == Spawn(caught, S)
  <2>4. /\ WorldOK(u) /\ u.match = caught.match
        /\ \A c \in Clients : /\ u.client[c].squad = caught.client[c].squad
                              /\ u.client[c].out = caught.client[c].out
                              /\ c \notin S => u.client[c] = caught.client[c]
    BY <2>3, Spawned
  <2>5. PICK t : v = u \/ v = Finish(u, t)
    BY <2>1
  <2> HIDE DEF u
  <2>6. \A c \in Clients : ClientTeam(u, c) = ClientTeam(w, c)
    BY <2>3, <2>4 DEF ClientTeam
  <2>7. \A c \in S : c \in Clients => ClientTeam(w, c) = Seekers
    BY <2>1 DEF Dead, Team
  <2>8. /\ WorldOK(v) /\ v.client = u.client
        /\ \A c \in Clients : ClientTeam(v, c) = ClientTeam(u, c)
    BY <2>3, <2>4, <2>5, Finishes
  <2>9. ASSUME NEW c \in Clients, v.client[c].life = "alive"
        PROVE  w.client[c].life = "alive" \/ ClientTeam(w, c) = Seekers
    BY <2>3, <2>4, <2>7, <2>8, <2>9
  <2>10. Marked(w, v)
    BY <2>3, <2>4, <2>8 DEF Marked
  <2>11. QED
    BY <2>6, <2>8, <2>9, <2>10
<1>3. QED
  BY <1>1, <1>2

\* A tick of any mode.
LEMMA ModeTicks ==
    ASSUME NEW w, WorldOK(w), w.match.phase # "lobby", NEW due, NEW v \in TickMode(w, due)
    PROVE  WorldOK(v) /\ Comeback(w, v) /\ Marked(w, v)
<1>1. w.match.mode \in {"ctf", "tdm", "has"}
  BY DEF WorldOK, MatchOK
<1>2. CASE w.match.mode = "ctf"
  <2>1. v \in TickCtf(w)
    BY <1>2 DEF TickMode, Chosen
  <2>2. QED
    BY <1>2, <2>1, CtfTicks, LobbyComeback, LobbyMarked
<1>3. CASE w.match.mode = "tdm"
  <2>1. v \in TickTdm(w, due)
    BY <1>3 DEF TickMode, Chosen
  <2>2. QED
    BY <1>3, <2>1, TdmTicks, LobbyComeback, LobbyMarked
<1>4. CASE w.match.mode = "has"
  <2>1. v \in TickHas(w, due)
    BY <1>4 DEF TickMode, Chosen
  <2>2. CASE v = EndMatch(w)
    BY <2>2, EndsMatch, QuietComeback, EndMarked
  <2>3. CASE v # EndMatch(w)
    BY <1>4, <2>1, <2>3, HasTicks DEF Comeback
  <2>4. QED
    BY <2>2, <2>3
<1>5. QED
  BY <1>1, <1>2, <1>3, <1>4

\* The next phase begins.
LEMMA PhaseBegins ==
    ASSUME NEW w, WorldOK(w), w.match.phase # "lobby",
           NEW p \in {"placement", "farm", "war"}
    PROVE  LET v == [w EXCEPT !.match.phase = p]
           IN  /\ WorldOK(v) /\ v.match.phase = p /\ v.match.mode = w.match.mode
               /\ v.client = w.client
               /\ \A c \in Clients : ClientTeam(v, c) = ClientTeam(w, c)
<1> DEFINE v == [w EXCEPT !.match.phase = p]
<1>1. /\ DOMAIN v = {"client", "squad", "match"} /\ v.client = w.client
      /\ DOMAIN v.match = MatchFields /\ v.match.phase = p
      /\ v.match.mode = w.match.mode /\ v.match.host = w.match.host
      /\ v.match.team = w.match.team /\ v.match.teams = w.match.teams
  BY DEF WorldOK, MatchOK, MatchFields
<1>2. p \in {"placement", "farm", "war", "ended"}
  BY DEF WorldOK, MatchOK
<1> HIDE DEF v
<1>3. WorldOK(v)
  BY <1>1, <1>2, MatchGoesOn
<1>4. \A c \in Clients : ClientTeam(v, c) = ClientTeam(w, c)
  <2>1. p # "lobby"
    BY <1>2
  <2>2. QED
    BY <1>1, <2>1 DEF ClientTeam
<1>5. QED
  BY <1>1, <1>3, <1>4 DEF v

\* The flags are created.
LEMMA FlagsCreated ==
    ASSUME NEW w, WorldOK(w), w.match.phase # "lobby"
    PROVE  LET v == [w EXCEPT !.match.ready = TRUE]
           IN  /\ WorldOK(v) /\ v.match.phase = w.match.phase /\ v.match.mode = w.match.mode
               /\ v.client = w.client
               /\ \A c \in Clients : ClientTeam(v, c) = ClientTeam(w, c)
<1> DEFINE v == [w EXCEPT !.match.ready = TRUE]
<1>1. /\ DOMAIN v = {"client", "squad", "match"} /\ v.client = w.client
      /\ DOMAIN v.match = MatchFields /\ v.match.phase = w.match.phase
      /\ v.match.mode = w.match.mode /\ v.match.host = w.match.host
      /\ v.match.team = w.match.team /\ v.match.teams = w.match.teams
  BY DEF WorldOK, MatchOK, MatchFields
<1>2. w.match.phase \in {"placement", "farm", "war", "ended"}
  BY DEF WorldOK, MatchOK
<1> HIDE DEF v
<1>3. WorldOK(v)
  BY <1>1, <1>2, MatchGoesOn
<1>4. \A c \in Clients : ClientTeam(v, c) = ClientTeam(w, c)
  <2>1. w.match.phase # "lobby"
    BY <1>2
  <2>2. QED
    BY <1>1, <2>1 DEF ClientTeam
<1>5. QED
  BY <1>1, <1>3, <1>4 DEF v

\* A tick of the lobby drops squads that are empty.
LEMMA LobbyTicks ==
    ASSUME NEW w, WorldOK(w), Sound(w), w.match.phase = "lobby"
    PROVE  WorldOK(DropVanished(w))
<1> DEFINE v == DropVanished(w)
           x == [w EXCEPT !.match = v.match]
<1>1. /\ Sound(v) /\ v = x
      /\ \/ v.match = NoMatch \/ v.match = w.match
         \/ /\ v.match.mode = w.match.mode /\ v.match.mode # "has"
            /\ v.match.phase = "lobby"
  BY SoundDrop
<1> HIDE DEF v
<1>2. /\ DOMAIN v = {"client", "squad", "match"} /\ v.client = w.client
      /\ DOMAIN v.client = Clients /\ \A c \in Clients : RecordOK(v.client[c])
  <2>1. DOMAIN x = {"client", "squad", "match"} /\ x.client = w.client
    BY DEF WorldOK
  <2> HIDE DEF x
  <2>2. QED
    BY <1>1, <2>1 DEF WorldOK
<1>3. MatchOK(v.match) /\ v.match.phase = "lobby"
  <2>1. CASE v.match = NoMatch
    BY <2>1, NoMatchOK
  <2>2. CASE v.match = w.match
    BY <2>2 DEF WorldOK
  <2>3. CASE v.match.mode # "has" /\ v.match.phase = "lobby"
    <3>1. v.match \in MatchRecords
      BY <1>1 DEF Sound, Worlds
    <3>2. QED
      BY <2>3, <3>1 DEF MatchOK, HasOK, MatchRecords, MatchFields
  <2>4. QED
    BY <1>1, <2>1, <2>2, <2>3
<1>4. \A c \in Clients : PhaseOK(v.client[c], v.match)
  BY <1>2, <1>3 DEF WorldOK, PhaseOK
<1>5. QED
  BY <1>2, <1>3, <1>4 DEF WorldOK, v

\* The hiding time is over: the seekers come out, and the tick goes on.
LEMMA SeekersComeOut ==
    ASSUME NEW w, WorldOK(w), w.match.phase # "lobby", w.match.mode = "has",
           NEW due, NEW v \in TickMode(Spawn([w EXCEPT !.match.phase = "war"],
                                            Team(w, Seekers)), due)
    PROVE  WorldOK(v) /\ Comeback(w, v) /\ Marked(w, v)
<1> DEFINE u == [w EXCEPT !.match.phase = "war"]
           T == Team(w, Seekers)
           x == Spawn(u, T)
<1>1. /\ WorldOK(u) /\ u.match.phase = "war" /\ u.match.mode = "has"
      /\ u.client = w.client
      /\ \A c \in Clients : ClientTeam(u, c) = ClientTeam(w, c)
  <2> DEFINE p == "war"
  <2>1. p \in {"placement", "farm", "war"} /\ p = "war"
    OBVIOUS
  <2> HIDE DEF p
  <2>2. LET y == [w EXCEPT !.match.phase = p]
        IN  /\ WorldOK(y) /\ y.match.phase = p /\ y.match.mode = w.match.mode
            /\ y.client = w.client
            /\ \A c \in Clients : ClientTeam(y, c) = ClientTeam(w, c)
    BY <2>1, PhaseBegins
  <2>3. QED
    BY <2>1, <2>2
<1>2. v \in TickMode(x, due)
  OBVIOUS
<1> HIDE DEF u, T
<1>3. /\ WorldOK(x) /\ x.match = u.match
      /\ \A c \in Clients : /\ x.client[c].squad = u.client[c].squad
                            /\ x.client[c].out = u.client[c].out
                            /\ c \notin T => x.client[c] = u.client[c]
  BY <1>1, Spawned
<1> HIDE DEF x
<1>4. \A c \in Clients : ClientTeam(x, c) = ClientTeam(w, c)
  <2>1. \A c \in Clients : ClientTeam(x, c) = ClientTeam(u, c)
    BY <1>3 DEF ClientTeam
  <2>2. QED
    BY <1>1, <2>1
<1>5. WorldOK(v) /\ Marked(w, v)
  <2>1. WorldOK(v) /\ Marked(x, v)
    BY <1>1, <1>2, <1>3, ModeTicks
  <2>2. QED
    BY <1>1, <1>3, <2>1 DEF Marked
<1>6. v \in TickHas(x, due)
  BY <1>1, <1>2, <1>3 DEF TickMode, Chosen
<1>7. \/ v = EndMatch(x) /\ MembersOf(x, x.match.host) = {}
      \/ \A c \in Clients :
            /\ ClientTeam(v, c) = ClientTeam(x, c)
            /\ v.client[c].life = "alive"
                 => x.client[c].life = "alive" \/ ClientTeam(x, c) = Seekers
  BY <1>1, <1>3, <1>6, HasTicks
<1>8. ASSUME NEW c \in Clients
      PROVE  (c \in T => ClientTeam(w, c) = Seekers) /\
             (c \notin T => x.client[c] = w.client[c])
  BY <1>1, <1>3 DEF T, Team
<1>9. CASE v = EndMatch(x) /\ MembersOf(x, x.match.host) = {}
  <2>1. ASSUME NEW c \in Clients PROVE ClientTeam(x, c) # Seekers
    <3>1. SUFFICES ASSUME ClientTeam(x, c) = Seekers PROVE FALSE
      OBVIOUS
    <3> DEFINE s == x.client[c].squad
    <3>2. s # NoSquad /\ x.match.team[s] = Seekers
      BY <3>1 DEF ClientTeam, NoTeam, Seekers, Hiders
    <3>3. s \in SquadIds
      BY <1>3, <3>2 DEF WorldOK, RecordOK
    <3>4. s = x.match.host
      BY <1>1, <1>3, <3>2, <3>3 DEF WorldOK, MatchOK, HasOK
    <3>5. QED
      BY <1>9, <3>4 DEF MembersOf
  <2>2. \A c \in Clients : x.client[c] = w.client[c]
    BY <1>4, <1>8, <2>1
  <2>3. Quiet(x, v)
    BY <1>3, <1>9, EndsMatch
  <2>4. Quiet(w, v)
    BY <2>2, <2>3 DEF Quiet
  <2>5. QED
    BY <1>5, <2>4, QuietComeback
<1>10. CASE \A c \in Clients :
            /\ ClientTeam(v, c) = ClientTeam(x, c)
            /\ v.client[c].life = "alive"
                 => x.client[c].life = "alive" \/ ClientTeam(x, c) = Seekers
  <2>1. Comeback(w, v)
    BY <1>4, <1>8, <1>10 DEF Comeback
  <2>2. QED
    BY <1>5, <2>1
<1>11. QED
  BY <1>7, <1>9, <1>10

\* What happens after a change that keeps everybody's record and team.
LEMMA SameClients ==
    ASSUME NEW w, NEW u, NEW v, u.client = w.client, Comeback(u, v), Marked(u, v)
    PROVE  Comeback(w, v) /\ Marked(w, v)
BY DEF Comeback, Marked

\* The match part of a tick.
LEMMA MatchTicks ==
    ASSUME NEW w0, WorldOK(w0), Sound(w0), NEW due, NEW v \in MatchTick(w0, due)
    PROVE  WorldOK(v) /\ Comeback(w0, v) /\ Marked(w0, v)
<1> DEFINE S == Strays(w0)
           w == TakeOut(w0, S)
           Into(phase) == [w EXCEPT !.match.phase = phase]
<1>1. /\ w.match.phase = "lobby" => v = DropVanished(w)
      /\ w.match.phase = "ended" => v = EndMatch(w) \/ v = w
      /\ w.match.phase = "placement" =>
            \/ v \in TickMode(w, FALSE)
            \/ v \in TickMode([Into("farm") EXCEPT !.match.ready = TRUE], FALSE)
      /\ w.match.phase = "farm" =>
            \/ v \in TickMode(w, FALSE)
            \/ /\ w.match.mode = "has"
               /\ v \in TickMode(Spawn(Into("war"), Team(w, Seekers)), FALSE)
            \/ v \in TickMode(Into("war"), FALSE)
      /\ w.match.phase = "war" => v \in TickMode(w, due)
  BY DEF MatchTick, Chosen
<1> HIDE DEF S
<1>2. /\ WorldOK(w) /\ Sound(w)
      /\ \A c \in Clients : /\ w.client[c].out = w0.client[c].out
                            /\ w.client[c].life \in {"none", w0.client[c].life}
  BY TakenOut, SoundTakeOut
<1> HIDE DEF w
<1>3. w.match.phase \in {"lobby", "placement", "farm", "war", "ended"}
  BY <1>2 DEF WorldOK, MatchOK
<1>4. WorldOK(v) /\ Comeback(w, v) /\ Marked(w, v)
  <2>1. CASE w.match.phase = "lobby"
    BY <1>1, <1>2, <2>1, LobbyTicks, LobbyComeback, LobbyMarked
  <2>2. CASE w.match.phase = "ended"
    <3>1. CASE v = EndMatch(w)
      BY <1>2, <3>1, EndsMatch, QuietComeback, EndMarked
    <3>2. CASE v = w
      BY <1>2, <3>2 DEF Comeback, Marked
    <3>3. QED
      BY <1>1, <2>2, <3>1, <3>2
  <2>3. CASE w.match.phase = "placement"
    <3>1. CASE v \in TickMode(w, FALSE)
      BY <1>2, <2>3, <3>1, ModeTicks
    <3>2. CASE v \in TickMode([Into("farm") EXCEPT !.match.ready = TRUE], FALSE)
      <4> DEFINE p == "farm"
                 u == Into(p)
                 x == [u EXCEPT !.match.ready = TRUE]
      <4>1. p \in {"placement", "farm", "war"} /\ p # "lobby" /\ v \in TickMode(x, FALSE)
        BY <3>2
      <4> HIDE DEF p
      <4>2. WorldOK(u) /\ u.match.phase = p /\ u.client = w.client
        BY <1>2, <2>3, <4>1, PhaseBegins
      <4> HIDE DEF u
      <4>3. WorldOK(x) /\ x.match.phase = p /\ x.client = u.client
        BY <4>1, <4>2, FlagsCreated
      <4> HIDE DEF x
      <4>4. WorldOK(v) /\ Comeback(x, v) /\ Marked(x, v)
        BY <4>1, <4>3, ModeTicks
      <4>5. QED
        BY <4>2, <4>3, <4>4, SameClients
    <3>3. QED
      BY <1>1, <2>3, <3>1, <3>2
  <2>4. CASE w.match.phase = "farm"
    <3>1. CASE v \in TickMode(w, FALSE)
      BY <1>2, <2>4, <3>1, ModeTicks
    <3>2. CASE /\ w.match.mode = "has"
               /\ v \in TickMode(Spawn(Into("war"), Team(w, Seekers)), FALSE)
      BY <1>2, <2>4, <3>2, SeekersComeOut
    <3>3. CASE v \in TickMode(Into("war"), FALSE)
      <4> DEFINE p == "war"
                 u == Into(p)
      <4>1. p \in {"placement", "farm", "war"} /\ p # "lobby" /\ v \in TickMode(u, FALSE)
        BY <3>3
      <4> HIDE DEF p
      <4>2. WorldOK(u) /\ u.match.phase = p /\ u.client = w.client
        BY <1>2, <2>4, <4>1, PhaseBegins
      <4> HIDE DEF u
      <4>3. WorldOK(v) /\ Comeback(u, v) /\ Marked(u, v)
        BY <4>1, <4>2, ModeTicks
      <4>4. QED
        BY <4>2, <4>3, SameClients
    <3>4. QED
      BY <1>1, <2>4, <3>1, <3>2, <3>3
  <2>5. CASE w.match.phase = "war"
    BY <1>1, <1>2, <2>5, ModeTicks
  <2>6. QED
    BY <1>3, <2>1, <2>2, <2>3, <2>4, <2>5
<1>5. Comeback(w0, v) /\ Marked(w0, v)
  BY <1>2, <1>4 DEF Comeback, Marked
<1>6. QED
  BY <1>4, <1>5

\* A tick of the server brings back seekers, and those whom a seed raises.
LEMMA TickStep ==
    ASSUME Inv, TypesAndLinks, NEW due \in BOOLEAN, Tick(due)
    PROVE  WorldOK(World') /\ Return(World, World')
<1>1. PICK w \in Simulated(World) : \E u \in MatchTick(w, due) : Becomes(u)
  BY DEF Tick
<1>2. PICK v \in MatchTick(w, due) : Becomes(v)
  BY <1>1
<1>3. /\ WorldOK(w) /\ Sound(w) /\ w.match = World.match
      /\ \A c \in Clients :
            /\ w.client[c].out = World.client[c].out
            /\ w.client[c].life = "alive" => World.client[c].life \in {"alive", "dead"}
  BY Simulates, SoundSimulated DEF Inv, TypesAndLinks
<1>4. WorldOK(v) /\ Comeback(w, v) /\ Marked(w, v)
  BY <1>3, MatchTicks
<1>5. Return(World, v)
  BY <1>3, <1>4 DEF Comeback, Marked, Return
<1>6. /\ World'.client = v.client /\ World'.match = v.match
      /\ DOMAIN World' = {"client", "squad", "match"}
  BY <1>2 DEF World, Becomes
<1> DEFINE u == World'
           x == World
<1>7. WorldOK(u) /\ Return(x, u)
  <2> HIDE DEF u, x
  <2>1. u.client = v.client /\ u.match = v.match /\ DOMAIN u = {"client", "squad", "match"}
    BY <1>6 DEF u
  <2>2. WorldOK(u)
    BY <1>4, <2>1 DEF WorldOK
  <2>3. Return(x, u)
    BY <1>5, <2>1 DEF Return, ClientTeam, x
  <2>4. QED
    BY <2>2, <2>3
<1>8. QED
  BY <1>7

(***************************************************************************)
(* The theorems.                                                           *)
(***************************************************************************)
\* The server starts with free slots and a lobby.
LEMMA Starts == Init => Inv
<1>1. SUFFICES ASSUME Init PROVE WorldOK(World)
  BY DEF Inv
<1>2. /\ World.client = [c \in Clients |-> FreeClient] /\ World.match = NoMatch
      /\ DOMAIN World = {"client", "squad", "match"}
  BY <1>1, WorldFields DEF Init
<1>3. QED
  BY <1>2, FreeOK, NoMatchOK DEF WorldOK

\* Every step keeps the invariant; a message brings back only seekers, and a tick those
\* whom a seed raises too.
LEMMA Steps ==
    ASSUME Inv, TypesAndLinks, [Next]_vars
    PROVE  /\ Inv'
           /\ \/ Step
              \/ Return(World, World') /\ \E due \in BOOLEAN : Tick(due)
              \/ UNCHANGED vars
<1>1. CASE Next
  <2>1. \/ Step
        \/ WorldOK(World') /\ Return(World, World') /\ \E due \in BOOLEAN : Tick(due)
    <3>1. ASSUME NEW c \in Clients, Connection(c) PROVE Step
      BY <3>1, ConnectStep, AccountReplyStep, MarkKickedStep, CloseStep, ExpireStep,
         AfkKickStep DEF Connection
    <3>2. ASSUME NEW c \in Clients, SquadMessage(c) PROVE Step
      <4>1. ASSUME NEW k \in Clients, TransferOwnership(c, k) PROVE Step
        BY <4>1, OwnerStep DEF TransferOwnership
      <4>2. ASSUME PrivateUpdate(c) PROVE Step
        BY <4>2, OwnerStep DEF PrivateUpdate
      <4>3. QED
        BY <3>2, <4>1, <4>2, LeaveSquadStep, CreateSquadStep, JoinSquadStep,
           KickMemberStep DEF SquadMessage
    <3>3. ASSUME NEW c \in Clients, MatchMessage(c) PROVE Step
      BY <3>3, CreateStep, CancelStep, StartStep, RespawnStep, ForfeitStep, LeaveStep,
         EnterStep, EarnStep DEF MatchMessage
    <3>4. QED
      BY <1>1, <3>1, <3>2, <3>3, TickStep DEF Next
  <2>2. Inv'
    BY <2>1 DEF Step, Inv
  <2>3. QED
    BY <2>1, <2>2
<1>2. CASE UNCHANGED vars
  <2>1. World' = World
    BY <1>2 DEF vars, World
  <2>2. QED
    BY <1>2, <2>1 DEF Inv
<1>3. QED
  BY <1>1, <1>2

\* The inductive invariant: every slot's record is one that the phase and the mode
\* of the match allow, in every reachable state.
THEOREM InvariantHolds == Spec => []Inv
<1>1. Inv /\ TypesAndLinks /\ [Next]_vars => Inv'
  BY Steps
<1>2. QED
  BY Starts, <1>1, TypesAndLinksHold, PTL DEF Spec

\* Whoever has data of a match has the real data kept aside, and outside a match
\* nobody has: RealDataKept, for any number of clients, squads and teams.
THEOREM RealDataIsKept == Spec => []RealDataKept
<1>1. Inv => RealDataKept
  BY WorldFields DEF Inv, WorldOK, RecordOK, PhaseOK, RealDataKept
<1>2. QED
  BY <1>1, InvariantHolds, PTL

\* Who is out of a match of hide and seek gets a flower only as a seeker, or back the
\* one that lies there and stays out: OutStaysOut, for any number of clients, squads and
\* teams.
THEOREM OutIsOut == Spec => OutStaysOut
<1> DEFINE Only == \A c \in Clients :
                      client[c].out /\ ~Alive(World, c) /\ Alive(World', c)
                      => ClientTeam(World', c) = Seekers \/ Raised(c)
<1>1. Inv /\ TypesAndLinks /\ [Next]_vars => [Only]_vars
  <2>1. SUFFICES ASSUME Inv, TypesAndLinks, [Next]_vars, ~UNCHANGED vars PROVE Only
    OBVIOUS
  <2>2. /\ \/ Comeback(World, World')
           \/ Return(World, World') /\ \E due \in BOOLEAN : Tick(due)
        /\ Inv'
    BY <2>1, Steps DEF Step
  <2>3. \A c \in Clients : client[c].out \in BOOLEAN
    BY <2>1, WorldFields DEF Inv, WorldOK, RecordOK
  <2>4. CASE Comeback(World, World')
    BY <2>3, <2>4, WorldFields DEF Comeback, Alive
  <2>5. CASE Return(World, World') /\ \E due \in BOOLEAN : Tick(due)
    <3>1. SUFFICES ASSUME NEW c \in Clients, client[c].out, ~Alive(World, c),
                          Alive(World', c), ClientTeam(World', c) # Seekers
                   PROVE  Raised(c)
      OBVIOUS
    <3>2. /\ client[c].life = "dead"
          /\ client'[c].out = TRUE \/ match'.phase = "lobby"
      BY <2>3, <2>5, <3>1, WorldFields DEF Return, Alive, World
    <3>3. QED
      BY <2>5, <3>2 DEF Raised
  <2>6. QED
    BY <2>2, <2>4, <2>5
<1>2. QED
  BY <1>1, InvariantHolds, TypesAndLinksHold, PTL DEF Spec, OutStaysOut
=============================================================================
