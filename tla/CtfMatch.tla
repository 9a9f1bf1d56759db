------------------------------ MODULE CtfMatch ------------------------------
(***************************************************************************)
(* The minigames of a game server (Server/Ctf.c, the CTF build): linking   *)
(* squads, the phases of capture the flag (ctf), team deathmatch (tdm) and *)
(* hide and seek (has), who is put in the game, who is out, and the real   *)
(* data of an account that is kept aside while a match gives its own.      *)
(* With them, the steps of Server/Server.c that move a client into, out of *)
(* and between squads and connections while a match runs.                  *)
(*                                                                         *)
(* The server is one thread: a message, a socket event, the answer of the  *)
(* master, the simulation and match part of a tick, and the turn of one    *)
(* client in the tick's loop are each one step.                            *)
(*                                                                         *)
(* Squads models seats, ballots and the history of a squad; here a squad   *)
(* is its owner and the clients that say they sit in it, which Squads      *)
(* shows to be the same thing.  CtfRules models the flags; here a tick of  *)
(* the rules may put teams out and may name a winner.  Every length that   *)
(* the environment configures, and the ten ticks between two squad         *)
(* actions, are left open: a countdown may be over at any tick.  Accounts  *)
(* are neither devs nor anonymous, and a host types the PIN.               *)
(***************************************************************************)
EXTENDS Integers, Sequences, FiniteSets, SequencesExt

CONSTANTS
    Clients,        \* the slots of server->clients
    NoClient,       \* no owner: a squad that is empty or public
    Accounts,       \* account uuids
    NoAccount,      \* the uuid of a slot nobody uses
    NumSquads,      \* RR_SQUAD_COUNT
    SquadSize,      \* RR_SQUAD_MEMBER_COUNT
    MaxTeams,       \* RR_CTF_MAX_TEAMS
    Modes           \* the modes hosts pick

ASSUME ClientsAssumption == NoClient \notin Clients /\ IsFiniteSet(Clients)
ASSUME SizesAssumption ==
    /\ NumSquads \in Nat \ {0} /\ SquadSize \in Nat \ {0} /\ MaxTeams \in Nat \ {0, 1}
    /\ Modes \subseteq {"ctf", "tdm", "has"}

VARIABLES
    client,         \* the slots, with the member record and the flower of each
    squad,          \* owner of each private squad
    match           \* struct rr_ctf_match

vars == <<client, squad, match>>

SquadIds == 0..(NumSquads - 1)
NoSquad == -1
NoTeam == 0                         \* RR_CTF_NONE; teams count from 1 here
Seekers == 1                        \* RR_HAS_SEEKER_TEAM
Hiders == 2                         \* RR_HAS_HIDER_TEAM
Running == {"placement", "farm", "war"}

FreeClient ==
    [status |-> "free", kick |-> FALSE, uuid |-> NoAccount,
     squad |-> NoSquad, playing |-> FALSE, life |-> "none",
     data |-> "account", aside |-> "none",
     played |-> FALSE, out |-> FALSE, forfeit |-> FALSE]

\* struct rr_ctf_match after rr_ctf_match_reset
NoMatch ==
    [phase |-> "lobby", mode |-> "ctf", teams |-> <<>>, host |-> NoSquad,
     team |-> [s \in SquadIds |-> NoTeam], winner |-> NoTeam, ready |-> FALSE]

World == [client |-> client, squad |-> squad, match |-> match]
Becomes(w) == client' = w.client /\ squad' = w.squad /\ match' = w.match

(***************************************************************************)
(* Who is who.                                                             *)
(***************************************************************************)
InUse(w, c) == w.client[c].status # "free"
Connected(w, c) == w.client[c].status # "gone"
Alive(w, c) == w.client[c].life = "alive"
MembersOf(w, s) == {c \in Clients : w.client[c].squad = s}
TeamCount(w) == Len(w.match.teams)

\* rr_ctf_client_team: in hide and seek whoever is in no linked squad hides
ClientTeam(w, c) ==
    LET s == w.client[c].squad
        m == w.match
    IN  IF s = NoSquad THEN NoTeam
        ELSE IF m.mode = "has" /\ m.team[s] = NoTeam /\ Len(m.teams) = 2
                /\ m.phase # "lobby"
        THEN Hiders
        ELSE m.team[s]
Team(w, t) == {c \in Clients : InUse(w, c) /\ ClientTeam(w, c) = t}
Locked(w, s) == w.match.team[s] # NoTeam /\ w.match.phase # "lobby"
AliveInTeam(w, t) == {c \in Team(w, t) : Connected(w, c) /\ Alive(w, c)}
IsLeader(w, c) == \E s \in SquadIds : w.client[c].squad = s /\ w.squad[s] = c
IsHost(w, c) ==
    IsLeader(w, c) /\ w.match.teams # <<>> /\ w.match.host = w.client[c].squad

(***************************************************************************)
(* Squads (see Squads for the rest of them).                               *)
(***************************************************************************)
\* rr_client_leave_squad: a private squad whose owner leaves gets another one
Leaves(w, c) ==
    LET s == w.client[c].squad
        rest == MembersOf(w, s) \ {c}
        heirs == IF rest = {} THEN {NoClient}
                 ELSE IF w.squad[s] = c THEN rest ELSE {w.squad[s]}
    IN  IF s = NoSquad THEN {w}
        ELSE {[w EXCEPT !.client[c].squad = NoSquad, !.client[c].playing = FALSE,
                        !.squad[s] = o] : o \in heirs}

\* rr_server_client_free
Freed(w, c) == {[v EXCEPT !.client[c] = FreeClient] : v \in Leaves(w, c)}

(***************************************************************************)
(* The data of a match, and putting players in the game.                   *)
(***************************************************************************)
\* mutant: a player who spawns again has the data of the match kept as the real one
EnterMatchData_Again(r, mode) ==
    [r EXCEPT !.aside = r.data, !.data = IF mode = "tdm" THEN r.data ELSE "match"]

\* enter_match_data; mg_backup_valid is aside # "none"
EnterMatchData(r, mode) ==
    IF r.aside # "none" THEN r
    ELSE [r EXCEPT !.aside = r.data, !.data = IF mode = "tdm" THEN r.data ELSE "match"]

LeaveMatchData(r) ==
    [r EXCEPT !.played = FALSE, !.out = FALSE, !.forfeit = FALSE, !.aside = "none",
              !.data = IF r.aside # "none" THEN r.aside ELSE r.data]

SpawnMember(r, mode) ==
    IF r.squad = NoSquad \/ r.status = "gone" THEN r
    ELSE [EnterMatchData(r, mode) EXCEPT !.life = "alive", !.playing = TRUE,
                                         !.played = TRUE]

RemoveFromGame(r) == [r EXCEPT !.life = "none", !.playing = FALSE]

Spawn(w, S) ==
    [w EXCEPT !.client = [c \in Clients |->
        IF c \in S THEN SpawnMember(@[c], w.match.mode) ELSE @[c]]]
TakeOut(w, S) ==
    [w EXCEPT !.client = [c \in Clients |->
        IF c \in S THEN RemoveFromGame(@[c]) ELSE @[c]]]
Kill(w, S) ==
    [w EXCEPT !.client = [c \in Clients |->
        IF c \in S THEN [@[c] EXCEPT !.life = "dead"] ELSE @[c]]]

ResetPlayers(w) ==
    [w EXCEPT !.client = [c \in Clients |-> LeaveMatchData(@[c])]]

EndMatch(w) ==
    LET players == UNION {Team(w, t) : t \in 1..TeamCount(w)}
    IN  ResetPlayers([TakeOut(w, players) EXCEPT !.match = NoMatch])

Finish(w, winner) ==
    [w EXCEPT !.match.winner = winner, !.match.phase = "ended"]

(***************************************************************************)
(* The connections.                                                        *)
(***************************************************************************)
\* a connection is made and its first packet names the account
Connect(c, a) ==
    /\ client[c].status = "free"
    /\ Becomes([World EXCEPT !.client[c] = [FreeClient EXCEPT !.status = "unread",
                                                              !.uuid = a]])

\* mutant: the new connection does not learn that real data is kept aside
TakeOver_NoBackup(w, c, o) ==
    LET old == w.client[o]
    IN  [w EXCEPT !.client[c] = [old EXCEPT !.status = "verified", !.aside = "none"],
                  !.client[o] = IF old.status = "gone" THEN FreeClient
                                ELSE [old EXCEPT !.squad = NoSquad, !.life = "none",
                                                 !.playing = FALSE, !.kick = TRUE],
                  !.squad = [s \in SquadIds |-> IF @[s] = o THEN c ELSE @[s]]]

\* mutant: the old connection stays in the squad too
TakeOver_KeepsSeat(w, c, o) ==
    LET old == w.client[o]
    IN  [w EXCEPT !.client[c] = [old EXCEPT !.status = "verified"],
                  !.client[o] = IF old.status = "gone" THEN FreeClient
                                ELSE [old EXCEPT !.life = "none", !.kick = TRUE],
                  !.squad = [s \in SquadIds |-> IF @[s] = o THEN c ELSE @[s]]]

\* the player, the seat and what the match gave pass to the new connection
TakeOver(w, c, o) ==
    LET old == w.client[o]
    IN  [w EXCEPT !.client[c] = [old EXCEPT !.status = "verified"],
                  !.client[o] = IF old.status = "gone" THEN FreeClient
                                ELSE [old EXCEPT !.squad = NoSquad, !.life = "none",
                                                 !.playing = FALSE, !.kick = TRUE],
                  !.squad = [s \in SquadIds |-> IF @[s] = o THEN c ELSE @[s]]]

Earlier(w, c) ==
    {o \in Clients \ {c} : /\ w.client[o].status \in {"verified", "gone"}
                           /\ ~w.client[o].kick
                           /\ w.client[o].uuid = w.client[c].uuid}

\* the master's answer: the real data, then what an earlier session leaves
AccountReply(c) ==
    /\ client[c].status = "unread"
    /\ LET w == [World EXCEPT !.client[c].status = "verified"]
       IN  IF Earlier(w, c) = {} THEN Becomes(w)
           ELSE \E o \in Earlier(w, c) : Becomes(TakeOver(w, c, o))

\* a packet that is no message, or a queue of messages that is full
MarkKicked(c) ==
    /\ client[c].status = "verified" /\ ~client[c].kick
    /\ Becomes([World EXCEPT !.client[c].kick = TRUE])

\* the socket is closed, by the player or because the server kicks them
Close(c) ==
    /\ client[c].status \in {"unread", "verified"}
    /\ IF client[c].status = "unread" \/ client[c].kick
       THEN \E w \in Freed(World, c) : Becomes(w)
       ELSE Becomes([World EXCEPT !.client[c].status = "gone"])

\* a client's turn in the tick's loop: the place of a lost connection is given up
Expire(c) ==
    /\ client[c].status = "gone"
    /\ \E w \in Freed(World, c) : Becomes(w)

\* the same turn: a player who does nothing for long leaves the game and the squad
AfkKick(c) ==
    /\ client[c].status = "verified" /\ client[c].life # "none"
    /\ \E w \in Leaves(World, c) : Becomes([w EXCEPT !.client[c].life = "none"])

(***************************************************************************)
(* The messages about squads.                                              *)
(***************************************************************************)
Acts(c) == client[c].status = "verified"

LeaveSquad(c) ==
    /\ Acts(c) /\ client[c].squad # NoSquad
    /\ \E w \in Leaves(World, c) : Becomes(w)

\* rr_serverbound_squad_join, to make a squad: the first empty one, if any
CreateSquad(c) ==
    /\ Acts(c)
    /\ \E w \in Leaves(World, c) :
         LET empty == {s \in SquadIds : MembersOf(w, s) = {}}
             s == CHOOSE i \in empty : \A j \in empty : i <= j
         IN  Becomes(IF empty = {} THEN w
                     ELSE [w EXCEPT !.client[c].squad = s, !.squad[s] = c])

\* the same with the code of a squad; whoever it kicked before does not get in
JoinSquad(c, s) ==
    /\ Acts(c)
    /\ \E w \in Leaves(World, c) :
         \/ Becomes(w)
         \/ /\ MembersOf(w, s) # {} /\ Cardinality(MembersOf(w, s)) < SquadSize
            /\ ~Locked(w, s)
            /\ Becomes([w EXCEPT !.client[c].squad = s])

\* rr_serverbound_squad_kick by the owner, or the last vote in a public squad
KickMember(c, k) ==
    /\ Acts(c) /\ c # k /\ client[c].squad # NoSquad /\ client[k].squad = client[c].squad
    /\ squad[client[c].squad] \in {c, NoClient}
    /\ \E w \in Leaves(World, k) : Becomes([w EXCEPT !.client[k].life = "none"])

TransferOwnership(c, k) ==
    /\ Acts(c) /\ c # k /\ IsLeader(World, c) /\ client[k].squad = client[c].squad
    /\ Becomes([World EXCEPT !.squad[client[c].squad] = k])

\* rr_serverbound_private_update: the owner makes the squad public for good
PrivateUpdate(c) ==
    /\ Acts(c) /\ IsLeader(World, c)
    /\ Becomes([World EXCEPT !.squad[client[c].squad] = NoClient])

(***************************************************************************)
(* The messages of the host and of the players.                            *)
(***************************************************************************)
\* rr_ctf_on_create: the host's squad and those whose codes the host typed
Create(h, mode, codes) ==
    LET mine == client[h].squad
        all == IF mode = "has" THEN <<mine>> ELSE <<mine>> \o codes
        linked == ToSet(all)
    IN  /\ Acts(h) /\ IsLeader(World, h)
        /\ match.phase = "lobby" /\ (match.teams = <<>> \/ match.host = mine)
        /\ \A s \in linked : squad[s] # NoClient
        /\ Cardinality(linked) = Len(all)
        /\ match' = [NoMatch EXCEPT
              !.mode = mode, !.host = mine,
              !.teams = [t \in DOMAIN all |-> [squad |-> all[t], out |-> FALSE]],
              !.team = [s \in SquadIds |-> IF s \in linked
                           THEN CHOOSE t \in DOMAIN all : all[t] = s ELSE NoTeam]]
        /\ UNCHANGED <<client, squad>>

\* rr_ctf_on_cancel: a running match too
Cancel(h) == Acts(h) /\ IsHost(World, h) /\ Becomes(EndMatch(World))

FirstPhase(mode) ==
    CASE mode = "tdm" -> "war" [] mode = "has" -> "farm" [] OTHER -> "placement"

\* rr_ctf_on_start
Start(h) ==
    LET Others == {c \in Clients : /\ client[c].status = "verified"
                                   /\ client[c].squad \notin {NoSquad, match.host}}
        begun == [World EXCEPT
            !.match.phase = FirstPhase(match.mode), !.match.ready = FALSE,
            !.match.winner = NoTeam,
            !.match.teams = [t \in DOMAIN @ |-> [@[t] EXCEPT !.out = FALSE]] \o
                IF match.mode = "has" THEN <<[squad |-> NoSquad, out |-> FALSE]>>
                                      ELSE <<>>,
            !.client = [c \in Clients |->
                [@[c] EXCEPT !.played = FALSE, !.out = FALSE, !.forfeit = FALSE]]]
        In(t) == Team(begun, t)
    IN  /\ Acts(h) /\ IsHost(World, h) /\ match.phase = "lobby"
        /\ IF match.mode = "has" THEN Others # {} ELSE Len(match.teams) >= 2
        /\ \A t \in DOMAIN match.teams : MembersOf(World, match.teams[t].squad) # {}
        /\ Becomes(IF match.mode = "has"
                   THEN Spawn([begun EXCEPT !.client = [c \in Clients |->
                            [begun.client[c] EXCEPT !.played = @ \/ c \in In(Seekers)]]],
                            In(Hiders))
                   ELSE Spawn(begun, UNION {In(t) : t \in DOMAIN match.teams}))

\* rr_ctf_on_respawn: dying on purpose
Respawn(c) ==
    /\ Acts(c) /\ match.phase \in Running
    /\ ClientTeam(World, c) # NoTeam /\ Alive(World, c)
    /\ Becomes(Kill(World, {c}))

\* rr_ctf_on_forfeit
Forfeit(c) ==
    /\ Acts(c) /\ match.phase \in Running /\ match.mode = "tdm"
    /\ ClientTeam(World, c) # NoTeam
    /\ Becomes(TakeOut([World EXCEPT !.client[c].forfeit = TRUE], {c}))

\* rr_ctf_on_ready of a player who is in the game: leaving it
Leave(c) ==
    LET t == ClientTeam(World, c)
    IN  /\ Acts(c) /\ match.phase \in Running /\ t # NoTeam /\ client[c].playing
        /\ match.mode = "tdm" => client[c].forfeit \/ AliveInTeam(World, t) = {}
        /\ Becomes(TakeOut([World EXCEPT
              !.client[c].out = @ \/ (match.mode = "has" /\ t = Hiders)], {c}))

\* mutant: a player who is out may enter again
Enter_Out(c) ==
    LET t == ClientTeam(World, c)
    IN  /\ Acts(c) /\ match.phase \in Running /\ t # NoTeam /\ ~client[c].playing
        /\ match.mode = "has" => match.phase = "farm" /\ t # Seekers
        /\ ~match.teams[t].out
        /\ Becomes(Spawn(World, {c}))

\* rr_ctf_on_ready of one who is not
Enter(c) ==
    LET t == ClientTeam(World, c)
    IN  /\ Acts(c) /\ match.phase \in Running /\ t # NoTeam /\ ~client[c].playing
        /\ ~client[c].out
        /\ match.mode = "has" => match.phase = "farm" /\ t # Seekers
        /\ ~match.teams[t].out
        /\ Becomes(Spawn(World, {c}))

\* petals picked up or crafted while a match gives the data
Earn(c) ==
    /\ Acts(c) /\ client[c].aside # "none"
    /\ Becomes([World EXCEPT !.client[c].data = "match"])

(***************************************************************************)
(* The tick.                                                               *)
(***************************************************************************)
\* who may be brought back by the seed of a player alive: the seed is bound to a dead
\* flower of its team, and then asks only whether that one still lies there dead,
\* whatever the mode and the squads are by then
Seeded(w) ==
    {c \in Clients : w.client[c].life = "dead" /\ \E o \in Clients : Alive(w, o)}
Lives(w, killed, revived) ==
    [w EXCEPT !.client = [c \in Clients |->
        IF c \in killed THEN [@[c] EXCEPT !.life = "dead"]
        ELSE IF c \in revived THEN [@[c] EXCEPT !.life = "alive"] ELSE @[c]]]

\* the simulation: flowers die, and a seed brings some back
Simulated(w) ==
    {Lives(w, k, r) : k \in SUBSET {c \in Clients : Alive(w, c)}, r \in SUBSET Seeded(w)}

\* a player in the game who left their squad is no longer anybody's
Strays(w) == {c \in Clients : w.client[c].squad = NoSquad /\ w.client[c].life # "none"}

\* mutant: the squad that vanished stays linked
Unlink_KeepsTeam(m, t) == [m EXCEPT !.teams = RemoveAt(@, t)]

\* a team goes: the ones behind it move up, and their squads learn their numbers
Unlink(m, t) ==
    LET teams == RemoveAt(m.teams, t)
        MovedTo(s) == {k \in t .. Len(teams) : teams[k].squad = s}
    IN  [m EXCEPT !.teams = teams,
                  !.team = [s \in SquadIds |->
                      IF MovedTo(s) # {} THEN CHOOSE k \in MovedTo(s) : TRUE
                      ELSE IF s = m.teams[t].squad THEN NoTeam ELSE @[s]]]

\* drop_vanished_squads, in the lobby: the match is over when the squad of the host is
\* empty, else the loop looks at the other teams, and at d.t again when a team went
DropNext(w, d) ==
    IF MembersOf(w, d.match.teams[d.t].squad) = {}
    THEN [d EXCEPT !.match = Unlink(@, d.t)]
    ELSE [d EXCEPT !.t = @ + 1]
DropVanished(w) ==
    LET others == Len(w.match.teams) - 1
        drop[k \in 0 .. others] ==
            IF k = 0 THEN [match |-> w.match, t |-> 2] ELSE DropNext(w, drop[k - 1])
    IN  IF w.match.teams = <<>> THEN w
        ELSE IF MembersOf(w, w.match.host) = {} THEN [w EXCEPT !.match = NoMatch]
        ELSE [w EXCEPT !.match = drop[others].match]

Chosen(w, mode) == w.match.mode = mode
Dead(w, t) == {c \in Team(w, t) : Connected(w, c) /\ w.client[c].life = "dead"}

\* team deathmatch, after the first second: the last team with a player alive wins
TickTdm(w, due) ==
    LET alive == {t \in 1..TeamCount(w) : AliveInTeam(w, t) # {}}
        judged == [w EXCEPT !.match.teams = [t \in DOMAIN @ |->
                      [w.match.teams[t] EXCEPT !.out = @ \/ t \notin alive]]]
    IN  IF ~due THEN {w}
        ELSE IF Cardinality(alive) > 1 THEN {judged}
        ELSE {Finish(judged, IF alive = {} THEN NoTeam ELSE CHOOSE t \in alive : TRUE)}

HidersLeft(w) ==
    {c \in Team(w, Hiders) : /\ w.client[c].played /\ ~w.client[c].out
                             /\ Connected(w, c)}

\* hide and seek: caught hiders are out, seekers come back, until nobody hides any
\* more or the time is over
TickHas(w, due) ==
    LET caught == [w EXCEPT !.client = [c \in Clients |->
                      IF c \in Dead(w, Hiders) THEN [@[c] EXCEPT !.out = TRUE] ELSE @[c]]]
        back == IF w.match.phase = "war" THEN SUBSET Dead(w, Seekers) ELSE {{}}
        Judged(v) == IF v.match.phase # "war" THEN v
                     ELSE IF HidersLeft(v) = {} THEN Finish(v, Seekers)
                     ELSE IF due THEN Finish(v, Hiders) ELSE v
    IN  IF MembersOf(w, w.match.host) = {} THEN {EndMatch(w)}
        ELSE {Judged(Spawn(caught, S)) : S \in back}

\* capture the flag: teams whose squads are empty are out, and the rules (CtfRules)
\* may put others out; the players of teams that are out die
Empty(w) == {t \in 1..TeamCount(w) : MembersOf(w, w.match.teams[t].squad) = {}}
Out(w) == {t \in 1..TeamCount(w) : w.match.teams[t].out}
Eliminate(w, T) ==
    [w EXCEPT !.match.teams =
        [t \in DOMAIN @ |-> [w.match.teams[t] EXCEPT !.out = @ \/ t \in T]]]
StayDead(w) ==
    Kill(w, {c \in Clients : ClientTeam(w, c) \in Out(w) /\ Alive(w, c)})
Outcomes(w) ==
    IF w.match.ready
    THEN {StayDead(Eliminate(w, Empty(w) \cup T)) : T \in SUBSET (1..TeamCount(w))}
    ELSE {w}

\* the rules may name a winner, or players of teams that are in come back
Continued(w) ==
    LET In == 1..TeamCount(w) \ Out(w)
    IN  {Spawn(w, S) : S \in SUBSET UNION {Dead(w, t) : t \in In}}
        \cup IF w.match.ready THEN {Finish(w, t) : t \in In} ELSE {}

\* mutant: the match goes on when every squad is empty
TickCtf_Stays(w) == UNION {Continued(v) : v \in Outcomes(w)}

TickCtf(w) ==
    IF Empty(w) = 1..TeamCount(w) THEN {EndMatch(w)}
    ELSE UNION {Continued(v) : v \in Outcomes(w)}

TickMode(w, due) ==
    CASE Chosen(w, "ctf") -> TickCtf(w)
      [] Chosen(w, "tdm") -> TickTdm(w, due)
      [] Chosen(w, "has") -> TickHas(w, due)

\* rr_ctf_tick; "due" when the time of the phase is over
MatchTick(w0, due) ==
    LET w == TakeOut(w0, Strays(w0))
        Into(phase) == [w EXCEPT !.match.phase = phase]
    IN  CASE w.match.phase = "lobby" -> {DropVanished(w)}
          [] w.match.phase = "ended" -> {IF due THEN EndMatch(w) ELSE w}
          [] w.match.phase = "placement" ->
                TickMode(IF due THEN [Into("farm") EXCEPT !.match.ready = TRUE] ELSE w, FALSE)
          [] w.match.phase = "farm" ->
                TickMode(IF ~due THEN w
                         ELSE IF Chosen(w, "has")
                         THEN Spawn(Into("war"), Team(w, Seekers)) ELSE Into("war"), FALSE)
          [] w.match.phase = "war" -> TickMode(w, due)

Tick(due) ==
    \E w \in Simulated(World) : \E v \in MatchTick(w, due) : Becomes(v)

(***************************************************************************)
(* The specification.                                                      *)
(***************************************************************************)
Init ==
    /\ client = [c \in Clients |-> FreeClient]
    /\ squad = [s \in SquadIds |-> NoClient]
    /\ match = NoMatch

Codes == UNION {[1..n -> SquadIds] : n \in 0..(MaxTeams - 1)}

Connection(c) ==
    \/ \E a \in Accounts : Connect(c, a)
    \/ AccountReply(c) \/ MarkKicked(c) \/ Close(c) \/ Expire(c) \/ AfkKick(c)
SquadMessage(c) ==
    \/ LeaveSquad(c) \/ CreateSquad(c) \/ PrivateUpdate(c)
    \/ \E s \in SquadIds : JoinSquad(c, s)
    \/ \E k \in Clients : KickMember(c, k) \/ TransferOwnership(c, k)
MatchMessage(c) ==
    \/ \E mode \in Modes, codes \in Codes : Create(c, mode, codes)
    \/ Cancel(c) \/ Start(c) \/ Respawn(c) \/ Forfeit(c) \/ Leave(c) \/ Enter(c) \/ Earn(c)

Next ==
    \/ \E c \in Clients : Connection(c) \/ SquadMessage(c) \/ MatchMessage(c)
    \/ \E due \in BOOLEAN : Tick(due)

Spec == Init /\ [][Next]_vars

(***************************************************************************)
(* Properties.                                                             *)
(***************************************************************************)
ClientRecords ==
    [status : {"free", "unread", "verified", "gone"}, kick : BOOLEAN,
     uuid : Accounts \cup {NoAccount}, squad : SquadIds \cup {NoSquad},
     playing : BOOLEAN, life : {"none", "alive", "dead"},
     data : {"account", "match"}, aside : {"none", "account", "match"},
     played : BOOLEAN, out : BOOLEAN, forfeit : BOOLEAN]
TeamRecords == [squad : SquadIds \cup {NoSquad}, out : BOOLEAN]

\* Types: a slot that is free or not yet verified has no seat and no player, a member
\* shown as playing has a player, the owner of a private squad sits in it.
TypeOK ==
    /\ client \in [Clients -> ClientRecords]
    /\ squad \in [SquadIds -> Clients \cup {NoClient}]
    /\ match.phase \in {"lobby", "placement", "farm", "war", "ended"}
    /\ match.mode \in {"ctf", "tdm", "has"} /\ match.ready \in BOOLEAN
    /\ match.host \in SquadIds \cup {NoSquad}
    /\ match.team \in [SquadIds -> 0..MaxTeams] /\ match.winner \in 0..MaxTeams
    /\ match.teams \in Seq(TeamRecords) /\ Len(match.teams) <= MaxTeams
    /\ \A c \in Clients :
          /\ client[c].status \in {"free", "unread"} =>
                client[c].squad = NoSquad /\ client[c].life = "none"
          /\ client[c].playing => client[c].squad # NoSquad /\ client[c].life # "none"
    /\ \A s \in SquadIds : squad[s] # NoClient => client[squad[s]].squad = s

\* The teams of the match and the team of each squad name each other, however squads
\* vanish from the lobby, and the first team is the host's (squad_team, teams[].squad).
LinksAgree ==
    /\ \A t \in DOMAIN match.teams :
          LET s == match.teams[t].squad
          IN  IF s = NoSquad THEN match.mode = "has" /\ t = Hiders
              ELSE match.team[s] = t
    /\ \A s \in SquadIds : match.team[s] # NoTeam =>
          match.team[s] \in DOMAIN match.teams /\ match.teams[match.team[s]].squad = s
    /\ match.teams # <<>> => match.host = match.teams[1].squad
    /\ match.teams = <<>> => match.phase = "lobby"

\* "The second it ends, for any reason, every player has their real account back"
\* (reset_players): whoever has data of a match has the real data kept aside, through
\* deaths, lost connections and takeovers, and outside a match nobody has.
RealDataKept ==
    \A c \in Clients :
        /\ client[c].aside # "match"
        /\ client[c].data = "match" => client[c].aside = "account"
        /\ match.phase = "lobby" => client[c].aside = "none"

\* raised by a seed in a tick: the flower that lay there, of a player who stays out
Raised(c) ==
    /\ client[c].life = "dead"
    /\ client'[c].out \/ match'.phase = "lobby"
    /\ \E due \in BOOLEAN : Tick(due)

\* A hider who was caught, or who left the game, gets no flower again in that match but
\* as a seeker (mg_out: "died, can't enter again"), not by entering again, in another
\* squad or over another connection. A seed can raise the flower that still lies there
\* ("a dead player stays dead, until a squad mate seeds them"): its player stays out, and
\* does not count among the hiders left.
OutStaysOut ==
    [][\A c \in Clients :
         client[c].out /\ ~Alive(World, c) /\ Alive(World', c)
         => ClientTeam(World', c) = Seekers \/ Raised(c)]_vars

\* "When nobody is left the match is over, or the server would stay in it for ever":
\* without a player in any squad, whatever the mode and the phase, the end of a
\* countdown brings the match closer to the lobby.
Rank(phase) ==
    CASE phase = "placement" -> 4 [] phase = "farm" -> 3 [] phase = "war" -> 2
      [] phase = "ended" -> 1 [] phase = "lobby" -> 0
DesertedMatchAdvances ==
    [][/\ \A c \in Clients : client[c].squad = NoSquad
       /\ match.phase # "lobby" /\ Tick(TRUE)
       => Rank(match.phase') < Rank(match.phase)]_vars
=============================================================================
