---------------------------- MODULE SquadsProof ----------------------------
(***************************************************************************)
(* The invariants of Squads hold in every behaviour, for any number of     *)
(* clients, squads and places.                                             *)
(***************************************************************************)
EXTENDS SquadLemmas

\* A lost connection is in use only until its time is over.
GoneBounded == \A c \in Clients : status[c] # "free" => goneTicks[c] <= ReconnectTicks

\* The inductive invariant: what the runs check, and the bound of goneTicks.
IInv ==
    /\ TypeOK
    /\ GoneBounded
    /\ LobbyOK(lobby)
    /\ BallotsTimed
    /\ PlayingHasPlayer

\* With nobody newly voting or playing, timers and players stay sufficient.
LEMMA CalmStep ==
    ASSUME IInv, Calm(lobby, lobby'),
           \A j \in Clients : Seated(lobby', j) =>
              voteWait'[j] = voteWait[j] /\ player'[j] = player[j]
    PROVE  BallotsTimed' /\ PlayingHasPlayer'
BY DEF IInv, Calm, BallotsTimed, PlayingHasPlayer

\* The invariant holds at the start.
LEMMA InitIInv == Init => IInv
<1> SUFFICES ASSUME Init PROVE IInv
  OBVIOUS
<1>1. /\ lobby.squads = [s \in SquadIds |-> EmptySquad]
      /\ lobby.seat = [c \in Clients |-> NoSeat]
      /\ lobby.joined = [c \in Clients |-> {}]
      /\ lobby = [squads |-> lobby.squads, seat |-> lobby.seat, joined |-> lobby.joined]
  BY DEF Init
<1>2. lobby \in Lobbies
  <2>1. /\ lobby.squads \in [SquadIds -> SquadRecords]
        /\ lobby.seat \in [Clients -> Seats \cup {NoSeat}]
        /\ lobby.joined \in [Clients -> SUBSET SquadIds]
    BY <1>1, EmptySquadOK
  <2>2. QED
    BY <1>1, <2>1 DEF Lobbies
<1>3. \A c \in Clients : ~Seated(lobby, c)
  BY <1>1 DEF Seated
<1>4. \A s \in SquadIds : lobby.squads[s] = EmptySquad
  BY <1>1
<1>5. LobbyOK(lobby)
  BY <1>2, <1>3, <1>4, EmptySquadOK DEF LobbyOK, SeatsMatch
<1>6. TypeOK
  <2>1. /\ status = [c \in Clients |-> "free"]
        /\ pendingKick = [c \in Clients |-> FALSE]
        /\ uuid = [c \in Clients |-> NoAccount]
        /\ player = [c \in Clients |-> FALSE]
        /\ quickJoin = [c \in Clients |-> FALSE]
        /\ actionWait = [c \in Clients |-> 0]
        /\ voteWait = [c \in Clients |-> 0]
        /\ goneTicks = [c \in Clients |-> 0]
    BY DEF Init
  <2>2. QED
    BY <1>2, <1>3, <2>1, SizesAssumption DEF TypeOK, Statuses
<1>7. GoneBounded /\ BallotsTimed /\ PlayingHasPlayer
  BY <1>3, SizesAssumption DEF Init, GoneBounded, BallotsTimed, PlayingHasPlayer
<1>8. QED
  BY <1>5, <1>6, <1>7 DEF IInv

(***************************************************************************)
(* The connection.                                                         *)
(***************************************************************************)
LEMMA ConnectStep ==
    ASSUME IInv, NEW c \in Clients, Connect(c)
    PROVE  IInv'
<1>1. ~Seated(lobby, c) /\ lobby \in Lobbies
  BY DEF IInv, TypeOK, Connect
<1>2. lobby' \in Lobbies /\ lobby'.squads = lobby.squads /\ lobby'.seat = lobby.seat
  <2>1. lobby' = [lobby EXCEPT !.joined[c] = {}, !.seat[c] = NoSeat]
    BY DEF Connect
  <2>2. lobby' \in Lobbies /\ lobby'.squads = lobby.squads
        /\ lobby'.seat = [lobby.seat EXCEPT ![c] = NoSeat]
    BY <1>1, <2>1, LobbyParts DEF Lobbies
  <2>3. QED
    BY <1>1, <2>2, LobbyParts DEF Seated
<1>3. LobbyOK(lobby') /\ Calm(lobby, lobby')
  BY <1>2, HistoryIsFree DEF IInv
<1>4. \A j \in Clients : Seated(lobby', j) <=> Seated(lobby, j)
  BY <1>2 DEF Seated
<1>5. TypeOK'
  BY <1>1, <1>2, <1>4, SizesAssumption DEF IInv, TypeOK, Connect, Statuses
<1>6. GoneBounded'
  BY SizesAssumption DEF IInv, GoneBounded, TypeOK, Connect
<1>7. BallotsTimed' /\ PlayingHasPlayer'
  <2>1. \A j \in Clients : Seated(lobby', j) =>
           voteWait'[j] = voteWait[j] /\ player'[j] = player[j]
    BY <1>1, <1>4 DEF Connect, IInv, TypeOK
  <2>2. QED
    BY <1>3, <2>1, CalmStep
<1>8. QED
  BY <1>3, <1>5, <1>6, <1>7 DEF IInv

\* Steps that touch only the account and the mark of a connection.
LEMMA MarkStep ==
    ASSUME IInv, NEW c \in Clients,
           (\E a \in Accounts : FirstPacket(c, a)) \/ MarkKicked(c)
    PROVE  IInv'
<1>1. /\ uuid' \in [Clients -> Accounts \cup {NoAccount}]
      /\ pendingKick' \in [Clients -> BOOLEAN]
      /\ UNCHANGED <<status, goneTicks, timers, player, quickJoin, lobby>>
  BY DEF IInv, TypeOK, FirstPacket, MarkKicked
<1>2. QED
  BY <1>1 DEF IInv, TypeOK, GoneBounded, BallotsTimed, PlayingHasPlayer, timers

LEMMA CloseStep ==
    ASSUME IInv, NEW c \in Clients, Close(c)
    PROVE  IInv'
<1>1. CASE status[c] = "verified" /\ ~pendingKick[c]
  <2>1. /\ status' = [status EXCEPT ![c] = "disconnected"]
        /\ UNCHANGED <<pendingKick, uuid, goneTicks, timers, quickJoin, player, lobby>>
    BY <1>1 DEF Close
  <2>2. TypeOK' /\ GoneBounded'
    BY <1>1, <2>1 DEF IInv, TypeOK, GoneBounded, timers, Statuses
  <2>3. QED
    BY <2>1, <2>2 DEF IInv, BallotsTimed, PlayingHasPlayer, timers
<1>2. CASE ~(status[c] = "verified" /\ ~pendingKick[c])
  <2>1. /\ status' = [status EXCEPT ![c] = "free"]
        /\ player' = [player EXCEPT ![c] = FALSE]
        /\ lobby' \in LeaveSquad(lobby, c)
        /\ UNCHANGED <<pendingKick, uuid, goneTicks, timers, quickJoin>>
    BY <1>2 DEF Close
  <2>2. /\ LobbyOK(lobby') /\ Calm(lobby, lobby')
        /\ lobby'.seat = [lobby.seat EXCEPT ![c] = NoSeat]
        /\ ~Seated(lobby', c)
    BY <2>1, LeaveSquadOK DEF IInv
  <2>3. \A j \in Clients : Seated(lobby', j) => Seated(lobby, j) /\ j # c
    BY <2>2, LobbyParts DEF Calm, Seated, IInv, TypeOK
  <2>4. TypeOK' /\ GoneBounded'
    <3>1. lobby' \in Lobbies
      BY <2>2 DEF LobbyOK
    <3>2. QED
      BY <2>1, <2>3, <3>1 DEF IInv, TypeOK, GoneBounded, timers, Statuses
  <2>5. BallotsTimed' /\ PlayingHasPlayer'
    <3>1. \A j \in Clients : Seated(lobby', j) =>
             voteWait'[j] = voteWait[j] /\ player'[j] = player[j]
      BY <2>1, <2>3 DEF timers, IInv, TypeOK
    <3>2. QED
      BY <2>2, <3>1, CalmStep
  <2>6. QED
    BY <2>2, <2>4, <2>5 DEF IInv
<1>3. QED
  BY <1>1, <1>2

\* The account reply: whoever is thrown out loses its seat, whoever is taken over
\* hands seat, ballot, player and the vote's timer to the new client.
LEMMA AccountReplyStep ==
    ASSUME IInv, NEW c \in Clients, AccountReply(c)
    PROVE  IInv'
<1>1. status[c] = "connected" /\ ~Seated(lobby, c)
  BY DEF AccountReply, IInv, TypeOK
<1> DEFINE Ended(d, o) == {j \in {d, o} \ {NoClient} : status[j] = "disconnected"}
           Kicked(d, o) == {d, o} \ ({NoClient} \cup Ended(d, o))
<1>2. PICK d \in Duplicates(c), o \in Earlier(c) :
         /\ status' = [j \in Clients |-> IF j = c THEN "verified"
                                         ELSE IF j \in Ended(d, o) THEN "free"
                                         ELSE status[j]]
         /\ pendingKick' = [j \in Clients |-> j \in Kicked(d, o) \/ pendingKick[j]]
         /\ \E w \in (IF d \in Ended(d, o) THEN LeaveSquad(lobby, d) ELSE {lobby}) :
              lobby' = IF o = NoClient THEN w ELSE TakeOver(w, c, o)
         /\ player' = [j \in Clients |-> IF j = o \/ j \in Ended(d, o) THEN FALSE
                                         ELSE IF j = c /\ o # NoClient THEN player[o]
                                         ELSE player[j]]
         /\ IF o = NoClient THEN UNCHANGED timers
            ELSE /\ actionWait' = [actionWait EXCEPT ![c] = actionWait[o]]
                 /\ voteWait' = [voteWait EXCEPT ![c] = voteWait[o]]
  BY DEF AccountReply
<1>3. UNCHANGED <<uuid, goneTicks, quickJoin>>
  BY DEF AccountReply
<1> DEFINE ended == Ended(d, o)
<1>4. /\ d # NoClient => d \in Clients /\ Settled(c, d) /\ uuid[d] # uuid[c]
      /\ o # NoClient => o \in Clients /\ Settled(c, o) /\ uuid[o] = uuid[c]
  BY DEF Duplicates, Earlier
<1>5. /\ NoClient \notin Clients
      /\ d # c /\ o # c /\ (d = o => d = NoClient)
      /\ d \in Clients => status[d] \in {"verified", "disconnected"}
      /\ o \in Clients => status[o] \in {"verified", "disconnected"}
      /\ \A j \in ended : j \in Clients /\ j \in {d, o}
  BY <1>4, ClientsAssumption DEF Settled
<1>6. PICK w \in (IF d \in ended THEN LeaveSquad(lobby, d) ELSE {lobby}) :
         lobby' = IF o = NoClient THEN w ELSE TakeOver(w, c, o)
  BY <1>2
<1>7. /\ LobbyOK(w) /\ Calm(lobby, w)
      /\ \A j \in Clients : Seated(w, j) => Seated(lobby, j) /\ (j = d => d \notin ended)
  <2>1. CASE d \in ended
    <3>1. d \in Clients /\ w \in LeaveSquad(lobby, d)
      BY <1>5, <1>6, <2>1
    <3>2. /\ LobbyOK(w) /\ Calm(lobby, w)
          /\ w.seat = [lobby.seat EXCEPT ![d] = NoSeat]
          /\ ~Seated(w, d)
      BY <3>1, LeaveSquadOK DEF IInv
    <3>3. QED
      BY <3>1, <3>2, LobbyParts DEF IInv, TypeOK, Seated
  <2>2. CASE d \notin ended
    BY <1>6, <2>2 DEF IInv, Calm
  <2>3. QED
    BY <2>1, <2>2
<1>8. ~Seated(w, c)
  BY <1>1, <1>7
<1> HIDE DEF ended
<1>9. /\ status' \in [Clients -> Statuses]
      /\ pendingKick' \in [Clients -> BOOLEAN]
      /\ player' \in [Clients -> BOOLEAN]
      /\ actionWait' \in [Clients -> 0..ActionTicks]
      /\ voteWait' \in [Clients -> 0..VoteTicks]
      /\ UNCHANGED <<uuid, quickJoin, goneTicks>>
  <2>1. status' \in [Clients -> Statuses]
    BY <1>2 DEF IInv, TypeOK, Statuses, ended
  <2>2. pendingKick' \in [Clients -> BOOLEAN]
    BY <1>2 DEF IInv, TypeOK
  <2>3. player' \in [Clients -> BOOLEAN]
    BY <1>2, <1>4 DEF IInv, TypeOK
  <2>4. actionWait' \in [Clients -> 0..ActionTicks] /\ voteWait' \in [Clients -> 0..VoteTicks]
    BY <1>2, <1>4 DEF IInv, TypeOK, timers
  <2>5. QED
    BY <1>3, <2>1, <2>2, <2>3, <2>4
<1>10. /\ \A j \in Clients : j # c /\ j \notin ended => status'[j] = status[j]
       /\ \A j \in Clients : j = o \/ j \in ended => ~player'[j]
       /\ \A j \in Clients \ {c, o} : j \notin ended => player'[j] = player[j]
       /\ o = NoClient => player'[c] = player[c]
       /\ o # NoClient => player'[c] = player[o]
       /\ status'[c] = "verified"
  BY <1>2, <1>5 DEF ended
<1>11. GoneBounded'
  BY <1>1, <1>2, <1>3 DEF IInv, GoneBounded
<1>12. CASE o = NoClient
  <2>1. lobby' = w /\ UNCHANGED timers
    BY <1>2, <1>6, <1>12
  <2>2. \A j \in Clients : Seated(lobby', j) => Seated(lobby, j) /\ j # c /\ j \notin ended
    BY <1>5, <1>7, <1>8, <1>12, <2>1
  <2>3. TypeOK'
    <3>1. lobby' \in Lobbies
      BY <1>7, <2>1 DEF LobbyOK
    <3>2. \A j \in Clients : status'[j] \in {"free", "connected"} =>
             ~Seated(lobby', j) /\ ~player'[j]
      BY <1>5, <1>10, <1>12, <2>2 DEF IInv, TypeOK
    <3>3. QED
      BY <1>9, <3>1, <3>2 DEF IInv, TypeOK
  <2>4. BallotsTimed' /\ PlayingHasPlayer'
    <3>1. \A j \in Clients : Seated(lobby', j) =>
             voteWait'[j] = voteWait[j] /\ player'[j] = player[j]
      BY <1>5, <1>10, <1>12, <2>1, <2>2 DEF timers
    <3>2. QED
      BY <1>7, <2>1, <3>1, CalmStep
  <2>5. QED
    BY <1>7, <1>11, <2>1, <2>3, <2>4 DEF IInv
<1>13. CASE o # NoClient
  <2>1. lobby' = TakeOver(w, c, o) /\ o \in Clients
    BY <1>4, <1>6, <1>13
  <2>2. /\ LobbyOK(lobby')
        /\ ~Seated(lobby', o)
        /\ \A j \in Clients \ {c, o} : lobby'.seat[j] = w.seat[j]
        /\ \A j \in Clients :
              Seated(lobby', j) =>
                 LET i == IF j = c THEN o ELSE j
                 IN  /\ Seated(w, i)
                     /\ MemberOf(lobby', j).vote = MemberOf(w, i).vote
                     /\ MemberOf(lobby', j).playing = MemberOf(w, i).playing
    BY <1>5, <1>7, <1>8, <2>1, TakeOverOK
  <2>3. TypeOK'
    <3>1. lobby' \in Lobbies
      BY <2>2 DEF LobbyOK
    <3>2. ASSUME NEW j \in Clients, status'[j] \in {"free", "connected"}
          PROVE  ~Seated(lobby', j) /\ ~player'[j]
      <4>1. j # c
        BY <1>10, <3>2
      <4>2. CASE j = o
        BY <1>10, <2>2, <4>2
      <4>3. CASE j # o /\ j \in ended
        <5>1. j = d /\ ~Seated(w, j)
          BY <1>5, <1>7, <4>3
        <5>2. QED
          BY <1>10, <2>2, <4>1, <4>3, <5>1 DEF Seated
      <4>4. CASE j # o /\ j \notin ended
        <5>1. status[j] \in {"free", "connected"} /\ player'[j] = player[j]
          BY <1>10, <3>2, <4>1, <4>4
        <5>2. ~Seated(lobby, j) /\ ~player[j]
          BY <5>1 DEF IInv, TypeOK
        <5>3. ~Seated(w, j)
          BY <1>7, <5>2
        <5>4. QED
          BY <2>2, <4>1, <4>4, <5>1, <5>2, <5>3 DEF Seated
      <4>5. QED
        BY <4>2, <4>3, <4>4
    <3>3. QED
      BY <1>9, <3>1, <3>2 DEF IInv, TypeOK
  <2>4. voteWait'[c] = voteWait[o] /\ \A j \in Clients : j # c => voteWait'[j] = voteWait[j]
    BY <1>2, <1>13 DEF IInv, TypeOK
  <2>5. ASSUME NEW j \in Clients, Seated(lobby', j)
        PROVE  /\ MemberOf(lobby', j).vote # NoVote => voteWait'[j] > 0
               /\ MemberOf(lobby', j).playing => player'[j]
    <3> DEFINE i == IF j = c THEN o ELSE j
    <3>1. /\ i \in Clients /\ Seated(w, i) /\ j # o
          /\ MemberOf(lobby', j).vote = MemberOf(w, i).vote
          /\ MemberOf(lobby', j).playing = MemberOf(w, i).playing
      BY <2>1, <2>2, <2>5
    <3>2. voteWait'[j] = voteWait[i]
      BY <2>4
    <3>3. player'[j] = player[i]
      <4>1. CASE j = c
        BY <1>10, <1>13, <4>1
      <4>2. CASE j # c
        <5>1. j \notin ended
          BY <1>5, <1>7, <3>1, <4>2
        <5>2. QED
          BY <1>10, <3>1, <4>2, <5>1
      <4>3. QED
        BY <4>1, <4>2
    <3> HIDE DEF i
    <3>4. /\ MemberOf(w, i).vote # NoVote
             => Seated(lobby, i) /\ MemberOf(lobby, i).vote # NoVote
          /\ MemberOf(w, i).playing
             => Seated(lobby, i) /\ MemberOf(lobby, i).playing
      BY <1>7, <3>1 DEF Calm
    <3>5. QED
      BY <3>1, <3>2, <3>3, <3>4 DEF IInv, BallotsTimed, PlayingHasPlayer
  <2>6. BallotsTimed' /\ PlayingHasPlayer'
    BY <2>5 DEF BallotsTimed, PlayingHasPlayer
  <2>7. QED
    BY <1>11, <2>2, <2>3, <2>6 DEF IInv
<1>14. QED
  BY <1>12, <1>13

(***************************************************************************)
(* The squad messages.                                                     *)
(***************************************************************************)
\* A message of client c that moves only c, to or from a squad, and perhaps takes
\* the seat and the player of others.
LEMMA QuietStep ==
    ASSUME IInv, NEW c \in Clients, Listening(c),
           UNCHANGED <<connection, voteWait>>,
           actionWait' \in [Clients -> 0..ActionTicks],
           quickJoin' \in [Clients -> BOOLEAN],
           player' \in [Clients -> BOOLEAN],
           LobbyOK(lobby'), Calm(lobby, lobby'),
           \A j \in Clients : j # c =>
              /\ lobby'.seat[j] \in {lobby.seat[j], NoSeat}
              /\ player'[j] => player[j],
           \A j \in Clients : Seated(lobby', j) => player'[j] = player[j]
    PROVE  IInv'
<1>1. UNCHANGED <<status, pendingKick, uuid, goneTicks, voteWait>> /\ status[c] = "verified"
  BY DEF connection, Listening
<1>2. lobby' \in Lobbies
  BY DEF LobbyOK
<1>3. TypeOK'
  BY <1>1, <1>2 DEF IInv, TypeOK, Seated
<1>4. GoneBounded'
  BY <1>1 DEF IInv, GoneBounded
<1>5. BallotsTimed' /\ PlayingHasPlayer'
  BY <1>1, CalmStep
<1>6. QED
  BY <1>3, <1>4, <1>5 DEF IInv

\* The guard of a squad action and its timer.
LEMMA SquadActionTimer ==
    ASSUME IInv, NEW c \in Clients, SquadAction(c)
    PROVE  Listening(c) /\ actionWait' \in [Clients -> 0..ActionTicks]
BY SizesAssumption DEF IInv, TypeOK, SquadAction

LEMMA SquadLeaveStep ==
    ASSUME IInv, NEW c \in Clients, SquadLeave(c)
    PROVE  IInv'
<1>1. /\ SquadAction(c) /\ lobby' \in LeaveSquad(lobby, c)
      /\ UNCHANGED <<connection, voteWait, player, quickJoin>>
  BY DEF SquadLeave
<1>2. Listening(c) /\ actionWait' \in [Clients -> 0..ActionTicks]
  BY <1>1, SquadActionTimer
<1>3. /\ LobbyOK(lobby') /\ Calm(lobby, lobby')
      /\ lobby'.seat = [lobby.seat EXCEPT ![c] = NoSeat]
  BY <1>1, LeaveSquadOK DEF IInv
<1>4. \A j \in Clients : j # c => lobby'.seat[j] = lobby.seat[j]
  BY <1>3, LobbyParts DEF IInv, TypeOK
<1>5. /\ quickJoin' \in [Clients -> BOOLEAN] /\ player' \in [Clients -> BOOLEAN]
      /\ player' = player
  BY <1>1 DEF IInv, TypeOK
<1>6. QED
  BY <1>1, <1>2, <1>3, <1>4, <1>5, QuietStep

LEMMA SquadJoinStep ==
    ASSUME IInv, NEW c \in Clients, SquadJoin(c)
    PROVE  IInv'
<1>1. PICK w \in Moved(c) :
         \/ lobby' = FindSquad(w, c)
         \/ \E s \in SquadIds : lobby' = JoinWithCode(w, c, s, Dev(c))
         \/ lobby' = CreateSquad(w, c)
         \/ lobby' = w
  BY DEF SquadJoin
<1>2. SquadAction(c) /\ UNCHANGED <<connection, voteWait, player, quickJoin>>
  BY DEF SquadJoin
<1>3. Listening(c) /\ actionWait' \in [Clients -> 0..ActionTicks]
  BY <1>2, SquadActionTimer
<1>4. /\ LobbyOK(w) /\ Calm(lobby, w) /\ ~Seated(w, c)
      /\ \A j \in Clients : j # c => w.seat[j] = lobby.seat[j]
  <2>1. PICK x \in LeaveSquad(lobby, c) :
           w = IF Seated(lobby, c) /\ ~x.squads[lobby.seat[c].squad].private
               THEN [x EXCEPT !.joined[c] = @ \cup {lobby.seat[c].squad}]
               ELSE x
    BY DEF Moved
  <2>2. /\ LobbyOK(x) /\ Calm(lobby, x) /\ ~Seated(x, c)
        /\ x.seat = [lobby.seat EXCEPT ![c] = NoSeat]
    BY LeaveSquadOK DEF IInv
  <2>3. w \in Lobbies /\ w.squads = x.squads /\ w.seat = x.seat
    <3>1. x \in Lobbies
      BY <2>2 DEF LobbyOK
    <3>2. CASE w = x
      BY <3>1, <3>2
    <3>3. CASE Seated(lobby, c) /\ w = [x EXCEPT !.joined[c] = @ \cup {lobby.seat[c].squad}]
      <4>1. lobby.seat[c].squad \in SquadIds
        BY <3>3, SeatOf DEF IInv
      <4>2. [x.joined EXCEPT ![c] = @ \cup {lobby.seat[c].squad}] \in [Clients -> SUBSET SquadIds]
        BY <3>1, <4>1, LobbyParts
      <4>3. QED
        BY <3>1, <3>3, <4>2 DEF Lobbies
    <3>4. QED
      BY <2>1, <3>2, <3>3
  <2>4. LobbyOK(w) /\ Calm(x, w)
    BY <2>2, <2>3, HistoryIsFree
  <2>5. QED
    BY <2>2, <2>3, <2>4, CalmTransitive, LobbyParts DEF Seated, IInv, TypeOK
<1>5. /\ LobbyOK(lobby') /\ Calm(w, lobby')
      /\ \A j \in Clients : j # c => lobby'.seat[j] = w.seat[j]
  <2>1. CASE lobby' = FindSquad(w, c)
    BY <1>4, <2>1, FindSquadOK
  <2>2. CASE \E s \in SquadIds : lobby' = JoinWithCode(w, c, s, Dev(c))
    BY <1>4, <2>2, JoinWithCodeOK
  <2>3. CASE lobby' = CreateSquad(w, c)
    BY <1>4, <2>3, CreateSquadOK
  <2>4. CASE lobby' = w
    BY <1>4, <2>4 DEF Calm
  <2>5. QED
    BY <1>1, <2>1, <2>2, <2>3, <2>4
<1>6. Calm(lobby, lobby')
  BY <1>4, <1>5, CalmTransitive
<1>7. /\ quickJoin' \in [Clients -> BOOLEAN] /\ player' \in [Clients -> BOOLEAN]
      /\ player' = player
  BY <1>2 DEF IInv, TypeOK
<1>8. QED
  BY <1>2, <1>3, <1>4, <1>5, <1>6, <1>7, QuietStep

\* A seated client enters or leaves the game: slot and player change together.
LEMMA PlayStep ==
    ASSUME IInv, NEW c \in Clients, Listening(c), Seated(lobby, c),
           UNCHANGED <<connection, voteWait>>,
           actionWait' \in [Clients -> 0..ActionTicks],
           quickJoin' \in [Clients -> BOOLEAN],
           NEW b \in BOOLEAN,
           lobby' = SetPlaying(lobby, c, b),
           player' = [player EXCEPT ![c] = b]
    PROVE  IInv'
<1>1. UNCHANGED <<status, pendingKick, uuid, goneTicks, voteWait>> /\ status[c] = "verified"
  BY DEF connection, Listening
<1>2. /\ LobbyOK(lobby')
      /\ lobby'.seat = lobby.seat
      /\ \A j \in Clients :
            Seated(lobby', j) => /\ MemberOf(lobby', j).vote = MemberOf(lobby, j).vote
                                 /\ MemberOf(lobby', j).playing =
                                      IF j = c THEN b ELSE MemberOf(lobby, j).playing
  BY PlayingChanged DEF IInv
<1>3. player' \in [Clients -> BOOLEAN] /\ player'[c] = b
      /\ \A j \in Clients : j # c => player'[j] = player[j]
  BY DEF IInv, TypeOK
<1>4. \A j \in Clients : Seated(lobby', j) <=> Seated(lobby, j)
  BY <1>2 DEF Seated
<1>5. TypeOK'
  <2>1. lobby' \in Lobbies
    BY <1>2 DEF LobbyOK
  <2>2. QED
    BY <1>1, <1>3, <1>4, <2>1 DEF IInv, TypeOK
<1>6. GoneBounded' /\ BallotsTimed' /\ PlayingHasPlayer'
  BY <1>1, <1>2, <1>3, <1>4 DEF IInv, GoneBounded, BallotsTimed, PlayingHasPlayer
<1>7. QED
  BY <1>2, <1>5, <1>6 DEF IInv

LEMMA SquadReadyStep ==
    ASSUME IInv, NEW c \in Clients, SquadReady(c)
    PROVE  IInv'
<1>1. SquadAction(c) /\ UNCHANGED <<connection, voteWait>>
  BY DEF SquadReady
<1>2. Listening(c) /\ actionWait' \in [Clients -> 0..ActionTicks]
  BY <1>1, SquadActionTimer
<1>3. quickJoin' \in [Clients -> BOOLEAN]
  BY DEF SquadReady, IInv, TypeOK, Seated
<1>4. CASE ~Seated(lobby, c) /\ lobby' = FindSquad(lobby, c) /\ UNCHANGED player
  <2>1. /\ LobbyOK(lobby') /\ Calm(lobby, lobby')
        /\ \A j \in Clients : j # c => lobby'.seat[j] = lobby.seat[j]
    BY <1>4, FindSquadOK DEF IInv
  <2>2. player' = player /\ player' \in [Clients -> BOOLEAN]
    BY <1>4 DEF IInv, TypeOK
  <2>3. QED
    BY <1>1, <1>2, <1>3, <2>1, <2>2, QuietStep
<1>5. ASSUME NEW b \in BOOLEAN, Seated(lobby, c),
             lobby' = SetPlaying(lobby, c, b),
             player' = [player EXCEPT ![c] = b]
      PROVE  IInv'
  BY <1>1, <1>2, <1>3, <1>5, PlayStep
<1>6. CASE UNCHANGED <<lobby, player>>
  <2>1. LobbyOK(lobby') /\ Calm(lobby, lobby') /\ lobby' = lobby
        /\ player' = player /\ player' \in [Clients -> BOOLEAN]
    BY <1>6 DEF IInv, TypeOK, Calm
  <2>2. QED
    BY <1>1, <1>2, <1>3, <2>1, QuietStep
<1>7. QED
  BY <1>4, <1>5, <1>6 DEF SquadReady

LEMMA SquadUpdateStep ==
    ASSUME IInv, NEW c \in Clients, SquadUpdate(c)
    PROVE  IInv'
<1> DEFINE enters == ~MemberOf(lobby, c).playing
<1>1. /\ Listening(c) /\ Seated(lobby, c) /\ UNCHANGED <<connection, timers>>
      /\ enters \in BOOLEAN
  BY DEF SquadUpdate
<1>2. /\ UNCHANGED voteWait
      /\ actionWait' \in [Clients -> 0..ActionTicks]
      /\ quickJoin' \in [Clients -> BOOLEAN]
  BY <1>1 DEF SquadUpdate, IInv, TypeOK, timers
<1>3. CASE enters \/ player[c]
  <2>1. /\ lobby' = SetPlaying(lobby, c, enters)
        /\ player' = [player EXCEPT ![c] = enters]
    BY <1>3 DEF SquadUpdate
  <2> HIDE DEF enters
  <2>2. QED
    BY <1>1, <1>2, <2>1, PlayStep
<1>4. CASE ~(enters \/ player[c])
  <2>1. UNCHANGED <<lobby, player>>
    BY <1>4 DEF SquadUpdate
  <2>2. LobbyOK(lobby') /\ Calm(lobby, lobby') /\ lobby' = lobby
        /\ player' = player /\ player' \in [Clients -> BOOLEAN]
    BY <2>1 DEF IInv, TypeOK, Calm
  <2>3. QED
    BY <1>1, <1>2, <2>2, QuietStep
<1>5. QED
  BY <1>3, <1>4

\* A message that changes the settings of one squad.
LEMMA SettingsStep ==
    ASSUME IInv, NEW c \in Clients, Listening(c),
           UNCHANGED <<connection, voteWait, player, quickJoin>>,
           actionWait' \in [Clients -> 0..ActionTicks],
           LobbyOK(lobby'), Calm(lobby, lobby'), lobby'.seat = lobby.seat
    PROVE  IInv'
<1>1. /\ quickJoin' \in [Clients -> BOOLEAN] /\ player' \in [Clients -> BOOLEAN]
      /\ player' = player
  BY DEF IInv, TypeOK
<1>2. QED
  BY <1>1, QuietStep

LEMMA PrivateUpdateStep ==
    ASSUME IInv, NEW c \in Clients, PrivateUpdate(c)
    PROVE  IInv'
<1> DEFINE s == lobby.seat[c].squad
           sq == lobby.squads[s]
<1>1. /\ Listening(c) /\ Seated(lobby, c)
      /\ UNCHANGED <<connection, voteWait, player, quickJoin>>
      /\ actionWait' \in [Clients -> 0..ActionTicks]
  BY DEF PrivateUpdate, IInv, TypeOK, timers
<1>2. s \in SquadIds /\ sq.owner \in Positions /\ LobbyOK(lobby)
  BY <1>1, SeatOf, Fields DEF IInv
<1>3. \/ lobby' = Configure(lobby, s, FALSE, TRUE, sq.owner)
      \/ \E o \in Used(sq) : lobby' = [Configure(lobby, s, TRUE, FALSE, o) EXCEPT !.joined = Forget(@, s)]
  BY DEF PrivateUpdate
<1> HIDE DEF s
<1>4. CASE lobby' = Configure(lobby, s, FALSE, TRUE, sq.owner)
  <2>1. LobbyOK(lobby') /\ Calm(lobby, lobby') /\ lobby'.seat = lobby.seat
    <3> HIDE DEF sq
    <3>1. QED
      BY <1>2, <1>4, NewSettings
  <2>2. QED
    BY <1>1, <2>1, SettingsStep
<1>5. CASE \E o \in Used(sq) : lobby' = [Configure(lobby, s, TRUE, FALSE, o) EXCEPT !.joined = Forget(@, s)]
  <2>1. PICK o \in Used(sq) : lobby' = [Configure(lobby, s, TRUE, FALSE, o) EXCEPT !.joined = Forget(@, s)]
    BY <1>5
  <2> DEFINE x == Configure(lobby, s, TRUE, FALSE, o)
  <2>2. lobby' = [x EXCEPT !.joined = Forget(@, s)]
    BY <2>1
  <2>3. LobbyOK(x) /\ Calm(lobby, x) /\ x.seat = lobby.seat
    BY <1>2, NewSettings DEF Used
  <2> HIDE DEF x
  <2>4. lobby' \in Lobbies /\ lobby'.squads = x.squads /\ lobby'.seat = x.seat
    <3>1. x \in Lobbies
      BY <2>3 DEF LobbyOK
    <3>2. Forget(x.joined, s) \in [Clients -> SUBSET SquadIds]
      BY <3>1, LobbyParts DEF Forget
    <3>3. QED
      BY <2>2, <3>1, <3>2 DEF Lobbies
  <2>5. LobbyOK(lobby') /\ Calm(x, lobby')
    BY <2>3, <2>4, HistoryIsFree
  <2>6. Calm(lobby, lobby')
    BY <2>3, <2>5, CalmTransitive
  <2>7. QED
    BY <1>1, <2>3, <2>4, <2>5, <2>6, SettingsStep
<1>6. QED
  BY <1>3, <1>4, <1>5

LEMMA ExposeCodeStep ==
    ASSUME IInv, NEW c \in Clients, ExposeCode(c)
    PROVE  IInv'
<1> DEFINE s == lobby.seat[c].squad
           sq == lobby.squads[s]
<1>1. SquadAction(c) /\ UNCHANGED <<connection, voteWait, player, quickJoin>>
  BY DEF ExposeCode
<1>2. Listening(c) /\ actionWait' \in [Clients -> 0..ActionTicks]
  BY <1>1, SquadActionTimer
<1>3. LobbyOK(lobby)
  BY DEF IInv
<1>4. CASE lobby' = lobby
  <2>1. Calm(lobby, lobby')
    BY <1>4 DEF Calm
  <2>2. QED
    BY <1>1, <1>2, <1>3, <1>4, <2>1, SettingsStep
<1>5. CASE /\ Seated(lobby, c) /\ sq.private
           /\ lobby' = Configure(lobby, s, TRUE, ~sq.expose, sq.owner)
  <2>1. s \in SquadIds /\ sq \in SquadRecords
    BY <1>3, <1>5, SeatOf
  <2>2. sq.owner \in Used(sq) /\ sq.owner \in Positions
    BY <1>3, <1>5, <2>1, Fields DEF LobbyOK, SquadOK, SettingsOK
  <2>3. (~sq.expose) \in BOOLEAN
    OBVIOUS
  <2>4. LobbyOK(lobby') /\ Calm(lobby, lobby') /\ lobby'.seat = lobby.seat
    <3> DEFINE e == ~sq.expose
               o == sq.owner
    <3>1. e \in BOOLEAN /\ o \in Positions /\ o \in Used(lobby.squads[s])
          /\ lobby' = Configure(lobby, s, TRUE, e, o)
      BY <1>5, <2>2, <2>3
    <3> HIDE DEF e, o, s, sq
    <3>2. QED
      BY <1>3, <2>1, <3>1, NewSettings
  <2>5. QED
    BY <1>1, <1>2, <2>4, SettingsStep
<1>6. QED
  BY <1>4, <1>5 DEF ExposeCode

LEMMA TransferOwnershipStep ==
    ASSUME IInv, NEW c \in Clients, NEW s \in SquadIds, NEW p \in Positions,
           TransferOwnership(c, s, p)
    PROVE  IInv'
<1> DEFINE e == lobby.squads[s].expose
<1>1. /\ Listening(c) /\ UNCHANGED <<connection, voteWait, player, quickJoin>>
      /\ actionWait' \in [Clients -> 0..ActionTicks]
      /\ p \in Used(lobby.squads[s])
      /\ lobby' = Configure(lobby, s, TRUE, e, p)
  BY DEF TransferOwnership, IInv, TypeOK, timers, SeatTaken, Used
<1>2. LobbyOK(lobby) /\ e \in BOOLEAN
  BY LobbyParts, Fields DEF IInv, LobbyOK
<1> HIDE DEF e
<1>3. LobbyOK(lobby') /\ Calm(lobby, lobby') /\ lobby'.seat = lobby.seat
  BY <1>1, <1>2, NewSettings
<1>4. QED
  BY <1>1, <1>3, SettingsStep

\* What the kick of a member does to the lobby it happens in.
LEMMA EvictOK ==
    ASSUME NEW w, LobbyOK(w), NEW s \in SquadIds, NEW p \in Used(w.squads[s]),
           Evict(w, s, p)
    PROVE  LET k == w.squads[s].members[p].client
           IN  /\ k \in Clients
               /\ LobbyOK(lobby') /\ Calm(w, lobby')
               /\ lobby'.seat = [w.seat EXCEPT ![k] = NoSeat]
               /\ ~Seated(lobby', k)
               /\ player' = [player EXCEPT ![k] = FALSE]
<1> DEFINE k == w.squads[s].members[p].client
<1>1. k \in Clients
  <2>1. w.squads[s] \in SquadRecords /\ p \in Positions /\ k # NoClient
    BY LobbyParts DEF LobbyOK, Used
  <2>2. QED
    BY <2>1, Fields
<1>2. PICK left \in LeaveSquad(w, k) : lobby' = [left EXCEPT !.joined[k] = @ \cup {s}]
  BY DEF Evict
<1>3. player' = [player EXCEPT ![k] = FALSE]
  BY DEF Evict
<1> HIDE DEF k
<1>4. /\ LobbyOK(left) /\ Calm(w, left)
      /\ left.seat = [w.seat EXCEPT ![k] = NoSeat]
      /\ ~Seated(left, k)
  BY <1>1, <1>2, LeaveSquadOK
<1>5. lobby' \in Lobbies /\ lobby'.squads = left.squads /\ lobby'.seat = left.seat
  <2>1. left \in Lobbies
    BY <1>4 DEF LobbyOK
  <2>2. [left.joined EXCEPT ![k] = @ \cup {s}] \in [Clients -> SUBSET SquadIds]
    BY <1>1, <2>1, LobbyParts
  <2>3. QED
    BY <1>2, <2>1, <2>2 DEF Lobbies
<1>6. LobbyOK(lobby') /\ Calm(left, lobby')
  BY <1>4, <1>5, HistoryIsFree
<1>7. QED
  BY <1>1, <1>3, <1>4, <1>5, <1>6, CalmTransitive DEF Seated, k

\* A kick that is decided at once.
LEMMA EvictStep ==
    ASSUME IInv, NEW c \in Clients, Listening(c),
           UNCHANGED <<connection, voteWait, actionWait, quickJoin>>,
           NEW s \in SquadIds, NEW p \in Used(lobby.squads[s]), Evict(lobby, s, p)
    PROVE  IInv'
<1> DEFINE k == lobby.squads[s].members[p].client
<1>1. /\ k \in Clients
      /\ LobbyOK(lobby') /\ Calm(lobby, lobby')
      /\ lobby'.seat = [lobby.seat EXCEPT ![k] = NoSeat]
      /\ ~Seated(lobby', k)
      /\ player' = [player EXCEPT ![k] = FALSE]
  BY EvictOK DEF IInv
<1> HIDE DEF k
<1>2. /\ \A j \in Clients : lobby'.seat[j] \in {lobby.seat[j], NoSeat}
      /\ \A j \in Clients : player'[j] => player[j]
      /\ \A j \in Clients : j # k => player'[j] = player[j]
      /\ player' \in [Clients -> BOOLEAN]
  BY <1>1, LobbyParts DEF IInv, TypeOK
<1>3. actionWait' \in [Clients -> 0..ActionTicks] /\ quickJoin' \in [Clients -> BOOLEAN]
  BY DEF IInv, TypeOK
<1>4. \A j \in Clients : Seated(lobby', j) => player'[j] = player[j]
  BY <1>1, <1>2
<1>5. QED
  BY <1>1, <1>2, <1>3, <1>4, QuietStep

\* A kick by vote: the ballot of c starts its timer, and may be the last one needed.
LEMMA VoteStep ==
    ASSUME IInv, NEW c \in Clients, Listening(c), Seated(lobby, c),
           NEW p \in Used(SquadOf(lobby, c)), lobby.seat[c].pos # p,
           UNCHANGED <<connection, actionWait, quickJoin>>,
           voteWait[c] = 0,
           voteWait' = [voteWait EXCEPT ![c] = VoteTicks],
           \/ lobby' = Vote(lobby, c, p) /\ UNCHANGED player
           \/ Evict(Vote(lobby, c, p), lobby.seat[c].squad, p)
    PROVE  IInv'
<1> DEFINE s == lobby.seat[c].squad
           w == Vote(lobby, c, p)
<1>1. MemberOf(lobby, c).vote = NoVote
  BY SizesAssumption DEF IInv, BallotsTimed
<1>2. /\ LobbyOK(w)
      /\ w.seat = lobby.seat
      /\ \A j \in Clients :
            Seated(w, j) => /\ MemberOf(w, j).playing = MemberOf(lobby, j).playing
                            /\ j # c => MemberOf(w, j).vote = MemberOf(lobby, j).vote
  BY <1>1, VoteLobby DEF IInv
<1>3. /\ voteWait' \in [Clients -> 0..VoteTicks] /\ voteWait'[c] > 0
      /\ \A j \in Clients : j # c => voteWait'[j] = voteWait[j]
  BY SizesAssumption DEF IInv, TypeOK
<1>4. UNCHANGED <<status, pendingKick, uuid, goneTicks, actionWait, quickJoin>>
      /\ status[c] = "verified"
  BY DEF connection, Listening
<1>5. ASSUME NEW j \in Clients, Seated(w, j)
      PROVE  /\ Seated(lobby, j)
             /\ MemberOf(w, j).vote # NoVote => voteWait'[j] > 0
             /\ MemberOf(w, j).playing => player[j]
  BY <1>2, <1>3, <1>5 DEF IInv, BallotsTimed, PlayingHasPlayer, Seated
<1>6. p \in Used(w.squads[s]) /\ s \in SquadIds
  BY <1>1, VoteLobby, SeatOf DEF IInv
<1> HIDE DEF w, s
<1>7. CASE lobby' = w /\ UNCHANGED player
  <2>1. TypeOK'
    <3>1. lobby' \in Lobbies
      BY <1>2, <1>7 DEF LobbyOK
    <3>2. QED
      BY <1>3, <1>4, <1>5, <1>7, <3>1 DEF IInv, TypeOK
  <2>2. BallotsTimed' /\ PlayingHasPlayer' /\ GoneBounded'
    BY <1>4, <1>5, <1>7 DEF BallotsTimed, PlayingHasPlayer, GoneBounded, IInv
  <2>3. QED
    BY <1>2, <1>7, <2>1, <2>2 DEF IInv
<1>8. CASE Evict(w, s, p)
  <2> DEFINE k == w.squads[s].members[p].client
  <2>1. /\ k \in Clients
        /\ LobbyOK(lobby') /\ Calm(w, lobby')
        /\ lobby'.seat = [w.seat EXCEPT ![k] = NoSeat]
        /\ ~Seated(lobby', k)
        /\ player' = [player EXCEPT ![k] = FALSE]
    BY <1>2, <1>6, <1>8, EvictOK
  <2> HIDE DEF k
  <2>2. /\ lobby' \in Lobbies /\ w \in Lobbies
        /\ player' \in [Clients -> BOOLEAN]
        /\ \A j \in Clients : player'[j] => player[j]
        /\ \A j \in Clients : j # k => player'[j] = player[j]
    BY <1>2, <2>1 DEF LobbyOK, IInv, TypeOK
  <2>3. \A j \in Clients : Seated(lobby', j) => Seated(w, j) /\ j # k
    BY <2>1, <2>2, LobbyParts DEF Seated
  <2>4. TypeOK'
    BY <1>3, <1>4, <1>5, <2>2, <2>3 DEF IInv, TypeOK
  <2>5. BallotsTimed' /\ PlayingHasPlayer' /\ GoneBounded'
    BY <1>4, <1>5, <2>1, <2>2, <2>3 DEF Calm, BallotsTimed, PlayingHasPlayer, GoneBounded, IInv
  <2>6. QED
    BY <2>1, <2>4, <2>5 DEF IInv
<1>9. QED
  BY <1>7, <1>8 DEF w, s

LEMMA SquadKickStep ==
    ASSUME IInv, NEW c \in Clients, NEW s \in SquadIds, NEW p \in Positions,
           SquadKick(c, s, p)
    PROVE  IInv'
<1>1. /\ Listening(c) /\ p \in Used(lobby.squads[s])
      /\ UNCHANGED <<connection, actionWait, quickJoin>>
  BY DEF SquadKick, SeatTaken, Used
<1>2. CASE Evict(lobby, s, p) /\ UNCHANGED voteWait
  BY <1>1, <1>2, EvictStep
<1>3. CASE /\ Seated(lobby, c) /\ lobby.seat[c].squad = s /\ lobby.seat[c].pos # p
           /\ voteWait[c] = 0 /\ voteWait' = [voteWait EXCEPT ![c] = VoteTicks]
           /\ \/ lobby' = Vote(lobby, c, p) /\ UNCHANGED player
              \/ Evict(Vote(lobby, c, p), s, p)
  <2>1. p \in Used(SquadOf(lobby, c))
    BY <1>1, <1>3 DEF SquadOf
  <2>2. \/ lobby' = Vote(lobby, c, p) /\ UNCHANGED player
        \/ Evict(Vote(lobby, c, p), lobby.seat[c].squad, p)
    BY <1>3
  <2>3. QED
    BY <1>1, <1>3, <2>1, <2>2, VoteStep
<1>4. QED
  BY <1>2, <1>3 DEF SquadKick

(***************************************************************************)
(* The tick.                                                               *)
(***************************************************************************)
LEMMA TickStep ==
    ASSUME IInv, NEW c \in Clients, Tick(c)
    PROVE  IInv'
<1> DEFINE w == IF voteWait[c] = 1 THEN Retract(lobby, c) ELSE lobby
<1>1. /\ actionWait' = [actionWait EXCEPT ![c] = IF @ > 0 THEN @ - 1 ELSE 0]
      /\ voteWait' = [voteWait EXCEPT ![c] = IF @ > 0 THEN @ - 1 ELSE 0]
      /\ goneTicks' = [goneTicks EXCEPT
                          ![c] = IF status[c] = "disconnected"
                                   THEN goneTicks[c] + 1 ELSE goneTicks[c]]
      /\ status' = [status EXCEPT ![c] = IF Expired(c) THEN "free" ELSE @]
      /\ UNCHANGED <<pendingKick, uuid, quickJoin>>
  BY DEF Tick, Gone
<1>2. \/ /\ Expired(c) \/ status[c] = "verified"
         /\ lobby' \in LeaveSquad(w, c) /\ player' = [player EXCEPT ![c] = FALSE]
      \/ ~Expired(c) /\ lobby' = w /\ UNCHANGED player
  BY DEF Tick
<1>3. /\ LobbyOK(w)
      /\ w.seat = lobby.seat
      /\ Calm(lobby, w)
      /\ voteWait[c] = 1 /\ Seated(w, c) => MemberOf(w, c).vote = NoVote
  BY RetractLobby DEF IInv, Calm
<1>4. /\ actionWait' \in [Clients -> 0..ActionTicks]
      /\ voteWait' \in [Clients -> 0..VoteTicks]
      /\ voteWait'[c] = IF voteWait[c] > 0 THEN voteWait[c] - 1 ELSE 0
      /\ \A j \in Clients : j # c => voteWait'[j] = voteWait[j]
  BY <1>1, SizesAssumption DEF IInv, TypeOK
<1>5. goneTicks' \in [Clients -> 0..(ReconnectTicks + 1)] /\ GoneBounded'
  <2>1. status[c] # "free" => goneTicks[c] <= ReconnectTicks
    BY DEF IInv, GoneBounded
  <2>2. status[c] = "disconnected" => goneTicks[c] + 1 \in 0..(ReconnectTicks + 1)
    BY <2>1, SizesAssumption DEF IInv, TypeOK
  <2>3. goneTicks' \in [Clients -> 0..(ReconnectTicks + 1)]
    BY <1>1, <2>2 DEF IInv, TypeOK
  <2>4. status'[c] # "free" => goneTicks'[c] <= ReconnectTicks
    BY <1>1, <2>1, <2>2, SizesAssumption DEF IInv, TypeOK, Expired, Gone
  <2>5. \A j \in Clients : j # c => status'[j] = status[j] /\ goneTicks'[j] = goneTicks[j]
    BY <1>1 DEF IInv, TypeOK
  <2>6. QED
    BY <2>3, <2>4, <2>5 DEF IInv, GoneBounded
<1>6. ASSUME NEW j \in Clients, Seated(w, j)
      PROVE  /\ Seated(lobby, j)
             /\ MemberOf(w, j).vote # NoVote => voteWait'[j] > 0
             /\ MemberOf(w, j).playing => player[j]
  <2>1. Seated(lobby, j)
    BY <1>3, <1>6 DEF Seated
  <2>2. MemberOf(w, j).vote # NoVote => voteWait[j] > 0
    BY <1>3, <1>6 DEF Calm, IInv, BallotsTimed
  <2>3. MemberOf(w, j).playing => player[j]
    BY <1>3, <1>6 DEF Calm, IInv, PlayingHasPlayer
  <2>4. voteWait[c] \in Int
    BY SizesAssumption DEF IInv, TypeOK
  <2> HIDE DEF w
  <2>5. QED
    BY <1>3, <1>4, <1>6, <2>1, <2>2, <2>3, <2>4
<1> HIDE DEF w
<1>7. status' \in [Clients -> Statuses] /\ \A j \in Clients : j # c => status'[j] = status[j]
  BY <1>1 DEF IInv, TypeOK, Statuses
<1>8. CASE /\ Expired(c) \/ status[c] = "verified"
           /\ lobby' \in LeaveSquad(w, c) /\ player' = [player EXCEPT ![c] = FALSE]
  <2>1. /\ LobbyOK(lobby') /\ Calm(w, lobby')
        /\ lobby'.seat = [w.seat EXCEPT ![c] = NoSeat]
        /\ ~Seated(lobby', c)
    BY <1>3, <1>8, LeaveSquadOK
  <2>2. /\ lobby' \in Lobbies /\ w \in Lobbies
        /\ player' \in [Clients -> BOOLEAN] /\ ~player'[c]
        /\ \A j \in Clients : j # c => player'[j] = player[j]
    BY <1>3, <1>8, <2>1 DEF LobbyOK, IInv, TypeOK
  <2>3. \A j \in Clients : Seated(lobby', j) => Seated(w, j) /\ j # c
    BY <2>1, <2>2, LobbyParts DEF Seated
  <2>4. TypeOK'
    BY <1>1, <1>4, <1>5, <1>6, <1>7, <2>2, <2>3 DEF IInv, TypeOK
  <2>5. BallotsTimed' /\ PlayingHasPlayer'
    BY <1>6, <2>1, <2>2, <2>3 DEF Calm, BallotsTimed, PlayingHasPlayer
  <2>6. QED
    BY <1>5, <2>1, <2>4, <2>5 DEF IInv
<1>9. CASE ~Expired(c) /\ lobby' = w /\ UNCHANGED player
  <2>1. status' = status
    BY <1>1, <1>9 DEF IInv, TypeOK
  <2>2. TypeOK'
    <3>1. lobby' \in Lobbies
      BY <1>3, <1>9 DEF LobbyOK
    <3>2. QED
      BY <1>1, <1>4, <1>5, <1>6, <1>9, <2>1, <3>1 DEF IInv, TypeOK
  <2>3. BallotsTimed' /\ PlayingHasPlayer'
    BY <1>6, <1>9 DEF BallotsTimed, PlayingHasPlayer
  <2>4. QED
    BY <1>3, <1>5, <1>9, <2>2, <2>3 DEF IInv
<1>10. QED
  BY <1>2, <1>8, <1>9

(***************************************************************************)
(* The theorems.                                                           *)
(***************************************************************************)
LEMMA NextIInv == IInv /\ [Next]_vars => IInv'
<1> SUFFICES ASSUME IInv, [Next]_vars PROVE IInv'
  OBVIOUS
<1>1. CASE UNCHANGED vars
  <2>1. UNCHANGED <<status, pendingKick, uuid, goneTicks, actionWait, voteWait,
                    player, quickJoin, lobby>>
    BY <1>1 DEF vars, connection, timers
  <2>2. QED
    BY <2>1 DEF IInv, TypeOK, GoneBounded, BallotsTimed, PlayingHasPlayer
<1>2. CASE Next
  <2>1. PICK c \in Clients :
          \/ Connect(c)
          \/ \E a \in Accounts : FirstPacket(c, a)
          \/ MarkKicked(c)
          \/ Close(c)
          \/ AccountReply(c)
          \/ SquadLeave(c)
          \/ SquadJoin(c)
          \/ SquadReady(c)
          \/ SquadUpdate(c)
          \/ PrivateUpdate(c)
          \/ ExposeCode(c)
          \/ \E s \in SquadIds, p \in Positions :
                SquadKick(c, s, p) \/ TransferOwnership(c, s, p)
          \/ Tick(c)
    BY <1>2 DEF Next
  <2>2. CASE Connect(c)
    BY <2>2, ConnectStep
  <2>3. CASE (\E a \in Accounts : FirstPacket(c, a)) \/ MarkKicked(c)
    BY <2>3, MarkStep
  <2>4. CASE Close(c)
    BY <2>4, CloseStep
  <2>5. CASE AccountReply(c)
    BY <2>5, AccountReplyStep
  <2>6. CASE SquadLeave(c)
    BY <2>6, SquadLeaveStep
  <2>7. CASE SquadJoin(c)
    BY <2>7, SquadJoinStep
  <2>8. CASE SquadReady(c)
    BY <2>8, SquadReadyStep
  <2>9. CASE SquadUpdate(c)
    BY <2>9, SquadUpdateStep
  <2>10. CASE PrivateUpdate(c)
    BY <2>10, PrivateUpdateStep
  <2>11. CASE ExposeCode(c)
    BY <2>11, ExposeCodeStep
  <2>12. CASE \E s \in SquadIds, p \in Positions :
                SquadKick(c, s, p) \/ TransferOwnership(c, s, p)
    BY <2>12, SquadKickStep, TransferOwnershipStep
  <2>13. CASE Tick(c)
    BY <2>13, TickStep
  <2>14. QED
    BY <2>1, <2>2, <2>3, <2>4, <2>5, <2>6, <2>7, <2>8, <2>9, <2>10, <2>11, <2>12, <2>13
<1>3. QED
  BY <1>1, <1>2

THEOREM SpecIInv == Spec => []IInv
BY InitIInv, NextIInv, PTL DEF Spec

\* Only a verified client, or one that was and lost its connection, has a seat or a
\* player, and every variable stays in its range: Server/Server.c and Squad.c.
THEOREM SpecTypeOK == Spec => []TypeOK
<1>1. IInv => TypeOK
  BY DEF IInv
<1>2. QED
  BY <1>1, SpecIInv, PTL

\* The seat a client believes it has and the client a slot names always agree
\* (rr_squad_add_client, rr_squad_remove_client, the takeover of a session).
THEOREM SpecSeatsMatch == Spec => []SeatsMatchMembers
<1>1. IInv => SeatsMatchMembers
  BY DEF IInv, LobbyOK, SeatsMatchMembers
<1>2. QED
  BY <1>1, SpecIInv, PTL

\* Member counts, ballots, tallies and owners of all squads are consistent
\* (Server/Squad.c and the kick and ownership messages).
THEOREM SpecSquadsConsistent == Spec => []SquadsConsistent
<1>1. IInv => SquadsConsistent
  BY DEF IInv, LobbyOK, SquadsConsistent
<1>2. QED
  BY <1>1, SpecIInv, PTL

\* No ballot outlives its timer (the vote of rr_serverbound_squad_kick and the tick).
THEOREM SpecBallotsTimed == Spec => []BallotsTimed
<1>1. IInv => BallotsTimed
  BY DEF IInv
<1>2. QED
  BY <1>1, SpecIInv, PTL

\* A slot shown as playing always has its player (squad ready, kick, AFK, timeout).
THEOREM SpecPlayingHasPlayer == Spec => []PlayingHasPlayer
<1>1. IInv => PlayingHasPlayer
  BY DEF IInv
<1>2. QED
  BY <1>1, SpecIInv, PTL

(***************************************************************************)
(* One session per account.                                                *)
(***************************************************************************)
\* A session that is on its own: verified or lost, and not on its way out.
Alive(j) == status[j] \in {"verified", "disconnected"} /\ ~pendingKick[j]

\* A step after which nobody is alive that was not before, under the same account.
LEMMA NobodyNew ==
    ASSUME OneSessionPerAccount,
           \A j \in Clients : Alive(j)' => Alive(j) /\ uuid'[j] = uuid[j]
    PROVE  OneSessionPerAccount'
BY DEF OneSessionPerAccount, Settled, Alive, Dev

LEMMA AccountReplySession ==
    ASSUME TypeOK, OneSessionPerAccount, NEW c \in Clients, AccountReply(c)
    PROVE  OneSessionPerAccount'
<1> DEFINE Ended(d, o) == {j \in {d, o} \ {NoClient} : status[j] = "disconnected"}
           Kicked(d, o) == {d, o} \ ({NoClient} \cup Ended(d, o))
<1>1. PICK d \in Duplicates(c), o \in Earlier(c) :
         /\ status' = [j \in Clients |-> IF j = c THEN "verified"
                                         ELSE IF j \in Ended(d, o) THEN "free"
                                         ELSE status[j]]
         /\ pendingKick' = [j \in Clients |-> j \in Kicked(d, o) \/ pendingKick[j]]
         /\ uuid' = uuid
  BY DEF AccountReply
<1>2. status[c] = "connected"
  BY DEF AccountReply
<1>3. \A j \in Clients : j # c /\ Alive(j)' => Alive(j) /\ j \notin Ended(d, o) \cup Kicked(d, o)
  BY <1>1 DEF Alive
<1>4. \A j \in Clients : j # c /\ Alive(j)' => j # o
  <2>1. o # NoClient => o \in Ended(d, o) \cup Kicked(d, o)
    OBVIOUS
  <2>2. QED
    BY <1>3, <2>1, ClientsAssumption
<1>5. ASSUME NEW j \in Clients, j # c, Alive(j)', uuid[j] = uuid[c]
      PROVE  Dev(c)
  <2> SUFFICES ASSUME ~Dev(c) PROVE FALSE
    OBVIOUS
  <2>1. Settled(c, j) /\ Alive(j) /\ j # o
    BY <1>3, <1>4, <1>5 DEF Settled, Alive
  <2>2. o \in Clients /\ Settled(c, o) /\ uuid[o] = uuid[c]
    BY <1>5, <2>1 DEF Earlier
  <2>3. Settled(j, o) /\ Settled(o, j)
    BY <2>1, <2>2 DEF Settled, Alive
  <2>4. Dev(o)
    BY <1>5, <2>1, <2>2, <2>3 DEF OneSessionPerAccount
  <2>5. QED
    BY <2>2, <2>4 DEF Dev
<1>6. ASSUME NEW i \in Clients, NEW j \in Clients, i # j, Alive(i)', Alive(j)', uuid[i] = uuid[j]
      PROVE  Dev(i)
  <2>1. CASE i = c
    BY <1>5, <1>6, <2>1
  <2>2. CASE j = c
    BY <1>5, <1>6, <2>2 DEF Dev
  <2>3. CASE i # c /\ j # c
    BY <1>3, <1>6, <2>3 DEF OneSessionPerAccount, Settled, Alive
  <2>4. QED
    BY <2>1, <2>2, <2>3
<1>7. QED
  BY <1>1, <1>6 DEF OneSessionPerAccount, Settled, Alive, Dev

\* An account that is not a dev has one living session, whatever its connections do
\* (the session loops of op 1 of the api connection in Server/Server.c).
THEOREM SpecOneSession == Spec => []OneSessionPerAccount
<1>1. Init => OneSessionPerAccount
  BY DEF Init, OneSessionPerAccount, Settled
<1>2. TypeOK /\ OneSessionPerAccount /\ [Next]_vars => OneSessionPerAccount'
  <2> SUFFICES ASSUME TypeOK, OneSessionPerAccount, [Next]_vars PROVE OneSessionPerAccount'
    OBVIOUS
  <2>1. CASE \E c \in Clients : AccountReply(c)
    BY <2>1, AccountReplySession
  <2>2. ASSUME NEW c \in Clients, Connect(c)
        PROVE  \A j \in Clients : Alive(j)' => Alive(j) /\ uuid'[j] = uuid[j]
    BY <2>2 DEF Connect, Alive, TypeOK
  <2>3. ASSUME NEW c \in Clients, NEW a \in Accounts, FirstPacket(c, a)
        PROVE  \A j \in Clients : Alive(j)' => Alive(j) /\ uuid'[j] = uuid[j]
    BY <2>3 DEF FirstPacket, Alive, TypeOK
  <2>4. ASSUME NEW c \in Clients, MarkKicked(c)
        PROVE  \A j \in Clients : Alive(j)' => Alive(j) /\ uuid'[j] = uuid[j]
    BY <2>4 DEF MarkKicked, Alive, TypeOK
  <2>5. ASSUME NEW c \in Clients, Close(c)
        PROVE  \A j \in Clients : Alive(j)' => Alive(j) /\ uuid'[j] = uuid[j]
    BY <2>5 DEF Close, Alive, TypeOK
  <2>6. ASSUME NEW c \in Clients, Tick(c)
        PROVE  \A j \in Clients : Alive(j)' => Alive(j) /\ uuid'[j] = uuid[j]
    BY <2>6 DEF Tick, Alive, TypeOK
  <2>7. ASSUME \/ UNCHANGED vars
               \/ \E c \in Clients :
                     \/ SquadLeave(c) \/ SquadJoin(c) \/ SquadReady(c) \/ SquadUpdate(c)
                     \/ PrivateUpdate(c) \/ ExposeCode(c)
                     \/ \E s \in SquadIds, p \in Positions :
                           SquadKick(c, s, p) \/ TransferOwnership(c, s, p)
        PROVE  \A j \in Clients : Alive(j)' => Alive(j) /\ uuid'[j] = uuid[j]
    <3>1. UNCHANGED vars => UNCHANGED connection
      BY DEF vars
    <3>2. \A c \in Clients : SquadLeave(c) \/ SquadJoin(c) => UNCHANGED connection
      BY DEF SquadLeave, SquadJoin
    <3>3. \A c \in Clients : SquadReady(c) => UNCHANGED connection
      BY DEF SquadReady
    <3>4. \A c \in Clients : SquadUpdate(c) => UNCHANGED connection
      BY DEF SquadUpdate
    <3>5. \A c \in Clients : PrivateUpdate(c) \/ ExposeCode(c) => UNCHANGED connection
      BY DEF PrivateUpdate, ExposeCode
    <3>6. \A c \in Clients, s \in SquadIds, p \in Positions :
             SquadKick(c, s, p) \/ TransferOwnership(c, s, p) => UNCHANGED connection
      BY DEF SquadKick, TransferOwnership
    <3>7. UNCHANGED connection
      BY <2>7, <3>1, <3>2, <3>3, <3>4, <3>5, <3>6
    <3>8. QED
      BY <3>7 DEF Alive, connection
  <2>8. QED
    BY <2>1, <2>2, <2>3, <2>4, <2>5, <2>6, <2>7, NobodyNew DEF Next
<1>3. QED
  BY <1>1, <1>2, SpecTypeOK, PTL DEF Spec

(***************************************************************************)
(* A vote kick is unanimous.                                               *)
(***************************************************************************)
\* Of a squad whose member p has SquadSize - 1 votes all places are taken and all
\* others vote for p.
LEMMA AllVote ==
    ASSUME NEW sq \in SquadRecords, SquadOK(sq), NEW p \in Used(sq),
           sq.members[p].votes >= SquadSize - 1
    PROVE  /\ Used(sq) = Positions
           /\ \A q \in Positions \ {p} : sq.members[q].vote = p
<1> DEFINE V == Voters(sq, p)
           all == V \cup {p}
<1>1. p \in Positions /\ Used(sq) \subseteq Positions
  BY DEF Used
<1>2. V \subseteq Used(sq) /\ p \notin V
  <2>1. sq.members[p].vote \in {NoVote} \cup (Used(sq) \ {p})
    BY DEF SquadOK, CountsOK
  <2>2. sq.members[p].vote # p
    BY <1>1, <2>1, SizesAssumption DEF NoVote, Positions
  <2>3. QED
    BY <2>2 DEF Voters
<1>3. \A q \in V : sq.members[q].vote = p
  BY DEF Voters
<1>4. Cardinality(V) >= SquadSize - 1
  BY DEF SquadOK, CountsOK
<1> HIDE DEF V
<1>5. all \in SUBSET Positions /\ V \in SUBSET Positions
  BY <1>1, <1>2
<1>6. IsFiniteSet(V) /\ Cardinality(V) \in 0..SquadSize /\ Cardinality(all) \in 0..SquadSize
  BY <1>5, PositionSets
<1>7. Cardinality(all) = Cardinality(V) + 1
  BY <1>2, <1>6, FS_AddElement
<1>8. Cardinality(all) = SquadSize
  BY <1>4, <1>6, <1>7, SizesAssumption
<1>9. all = Positions
  BY <1>5, <1>8, PositionSets
<1>10. QED
  BY <1>1, <1>2, <1>3, <1>9

\* The kick message of a client that is not a dev.
LEMMA KickIsUnanimousStep == IInv => KickIsUnanimous
<1> SUFFICES ASSUME IInv, NEW s \in SquadIds, NEW p \in Positions,
                    ~lobby.squads[s].private,
                    lobby'.squads[s].members[p].client # lobby.squads[s].members[p].client,
                    NEW c \in Clients, ~Dev(c), SquadKick(c, s, p)
             PROVE  /\ Used(lobby.squads[s]) = Positions
                    /\ \A q \in Positions \ {p, lobby.seat[c].pos} :
                          lobby.squads[s].members[q].vote = p
  BY DEF KickIsUnanimous
<1> DEFINE sq == lobby.squads[s]
           x == lobby.seat[c].pos
           r == Ballot(sq, x, p)
           voted == Vote(lobby, c, p)
<1>1. /\ p \in Used(sq)
      /\ Seated(lobby, c) /\ lobby.seat[c].squad = s /\ x # p
      /\ voteWait[c] = 0
      /\ IF voted.squads[s].members[p].votes < SquadSize - 1
         THEN lobby' = voted ELSE TRUE
  BY DEF SquadKick, SeatTaken, Used
<1>2. sq \in SquadRecords /\ SquadOK(sq)
  BY LobbyParts DEF IInv, LobbyOK
<1>3. x \in Used(sq) /\ x \in Positions /\ sq.members[x].vote = NoVote
  <2>1. x \in Used(sq) /\ x \in Positions
    BY <1>1, SeatOf DEF IInv
  <2>2. MemberOf(lobby, c).vote = NoVote
    BY <1>1 DEF IInv, BallotsTimed
  <2>3. QED
    BY <1>1, <2>1, <2>2 DEF MemberOf, SquadOf
<1>4. /\ r \in SquadRecords
      /\ SquadOK(r)
      /\ Used(r) = Used(sq)
      /\ \A q \in Positions :
            /\ r.members[q].client = sq.members[q].client
            /\ r.members[q].vote = IF q = x THEN p ELSE sq.members[q].vote
  <2> HIDE DEF sq, x
  <2>1. QED
    BY <1>1, <1>2, <1>3, VoteOK
<1>5. voted.squads[s] = r
  BY <1>1, LobbyParts DEF Vote, IInv, TypeOK
<1> HIDE DEF r, voted
<1>6. ~(voted.squads[s].members[p].votes < SquadSize - 1)
  BY <1>1, <1>4, <1>5
<1>7. r.members[p].votes \in 0..255
  BY <1>4, Fields
<1>8. r.members[p].votes >= SquadSize - 1
  <2> DEFINE n == r.members[p].votes
  <2>1. ~(n < SquadSize - 1) /\ n \in 0..255
    BY <1>5, <1>6, <1>7
  <2> HIDE DEF n
  <2>2. n >= SquadSize - 1
    BY <2>1, SizesAssumption
  <2>3. QED
    BY <2>2 DEF n
<1>9. Used(r) = Positions /\ \A q \in Positions \ {p} : r.members[q].vote = p
  BY <1>1, <1>4, <1>8, AllVote
<1>10. QED
  BY <1>4, <1>9

\* Nobody is voted out of a public squad but by all others (threshold of
\* rr_serverbound_squad_kick in Server/Server.c).
THEOREM SpecVoteKickIsUnanimous == Spec => VoteKickIsUnanimous
<1>1. IInv => KickIsUnanimous
  BY KickIsUnanimousStep
<1>2. QED
  BY <1>1, SpecIInv, PTL DEF VoteKickIsUnanimous

(***************************************************************************)
(* Only a kick locks out.                                                  *)
(***************************************************************************)
\* Client c may not come back to s: it is private, and c was in it or kicked.
ShutOut(w, c, s) == w.squads[s].private /\ s \in w.joined[c]

\* Nobody is shut out of a squad in x who was not in w.
NoneShutOut(w, x) == \A c \in Clients, s \in SquadIds : ShutOut(x, c, s) => ShutOut(w, c, s)

LEMMA NoneShutOutTransitive ==
    ASSUME NEW w, NEW x, NEW y, NoneShutOut(w, x), NoneShutOut(x, y)
    PROVE  NoneShutOut(w, y)
BY DEF NoneShutOut

\* Squads as private as before and no longer histories shut nobody out.
LEMMA LessIsOpen ==
    ASSUME NEW w, NEW x,
           \A s \in SquadIds : x.squads[s].private => w.squads[s].private,
           \A c \in Clients : x.joined[c] \subseteq w.joined[c]
    PROVE  NoneShutOut(w, x)
BY DEF NoneShutOut, ShutOut

\* One squad replaced by one that is no more private.
LEMMA SquadReplaced ==
    ASSUME NEW w \in Lobbies, NEW s \in SquadIds, NEW r,
           r.private => w.squads[s].private
    PROVE  NoneShutOut(w, [w EXCEPT !.squads[s] = r])
<1> DEFINE x == [w EXCEPT !.squads[s] = r]
<1>1. x.joined = w.joined /\ x.squads = [w.squads EXCEPT ![s] = r]
  BY LobbyParts DEF Lobbies
<1> HIDE DEF x
<1>2. \A t \in SquadIds : x.squads[t].private => w.squads[t].private
  BY <1>1, LobbyParts
<1>3. NoneShutOut(w, x)
  BY <1>1, <1>2, LessIsOpen
<1>4. QED
  BY <1>3 DEF x

\* Leaving: what is left of a squad is no more private than it was.
LEMMA LeaveShutsNobody ==
    ASSUME NEW w, LobbyOK(w), NEW c \in Clients, NEW x \in LeaveSquad(w, c)
    PROVE  NoneShutOut(w, x)
<1> DEFINE s == w.seat[c].squad
           p == w.seat[c].pos
<1>1. CASE ~Seated(w, c)
  BY <1>1 DEF LeaveSquad, NoneShutOut
<1>2. CASE Seated(w, c)
  <2>1. s \in SquadIds /\ w.squads[s] \in SquadRecords /\ w \in Lobbies
    BY <1>2, SeatOf DEF LobbyOK
  <2>2. PICK r \in RemoveMember(w.squads[s], p) :
           x = [squads |-> [w.squads EXCEPT ![s] = r],
                seat |-> [w.seat EXCEPT ![c] = NoSeat],
                joined |-> IF r.count = 0 THEN Forget(w.joined, s) ELSE w.joined]
    BY <1>2 DEF LeaveSquad
  <2>3. r.private => w.squads[s].private
    <3> DEFINE sq == w.squads[s]
    <3>1. sq \in SquadRecords /\ r \in RemoveMember(sq, p)
      BY <2>1, <2>2
    <3> HIDE DEF sq, p
    <3>2. r.private => sq.private
      <4> DEFINE counted == Uncount(sq.members, p)
                 others == [q \in Positions |->
                              IF q = p THEN EmptyMember
                              ELSE IF counted[q].client # NoClient /\ counted[q].vote = p
                                   THEN [counted[q] EXCEPT !.vote = NoVote]
                                   ELSE counted[q]]
                 rest == [sq EXCEPT !.members = others, !.count = Less8(@)]
      <4>1. \/ r = EmptySquad
            \/ \E o \in Used(rest) : r = [rest EXCEPT !.owner = o]
            \/ r = rest
        BY <3>1 DEF RemoveMember
      <4>2. rest.private = sq.private
        BY <3>1 DEF SquadRecords
      <4>3. \A o : [rest EXCEPT !.owner = o].private = sq.private
        BY <3>1 DEF SquadRecords
      <4> HIDE DEF rest
      <4>4. ~EmptySquad.private
        BY DEF EmptySquad
      <4>5. QED
        BY <4>1, <4>2, <4>3, <4>4
    <3>3. QED
      BY <3>2 DEF sq
  <2>4. \A t \in SquadIds : x.squads[t].private => w.squads[t].private
    <3>1. x.squads = [w.squads EXCEPT ![s] = r]
      BY <2>2
    <3>2. QED
      BY <2>1, <2>3, <3>1, LobbyParts
  <2>5. \A j \in Clients : x.joined[j] \subseteq w.joined[j]
    <3>1. x.joined = IF r.count = 0 THEN Forget(w.joined, s) ELSE w.joined
      BY <2>2
    <3>2. QED
      BY <3>1 DEF Forget
  <2>6. QED
    BY <2>4, <2>5, LessIsOpen
<1>3. QED
  BY <1>1, <1>2

\* Joining: only a public squad is remembered.
LEMMA JoinShutsNobody ==
    ASSUME NEW w \in Lobbies, NEW c \in Clients, NEW s \in SquadIds
    PROVE  NoneShutOut(w, JoinSquad(w, c, s))
<1> DEFINE x == JoinSquad(w, c, s)
           r == AddClient(w.squads[s], c)
<1>1. CASE ~HasSpace(w.squads[s])
  BY <1>1 DEF JoinSquad, NoneShutOut
<1>2. CASE HasSpace(w.squads[s])
  <2>1. /\ x.squads = [w.squads EXCEPT ![s] = r]
        /\ x.joined = IF w.squads[s].private THEN w.joined
                      ELSE [w.joined EXCEPT ![c] = @ \cup {s}]
    BY <1>2 DEF JoinSquad
  <2>2. r.private = w.squads[s].private
    BY LobbyParts DEF AddClient, SquadRecords
  <2> HIDE DEF r, x
  <2>3. \A t \in SquadIds : x.squads[t].private = w.squads[t].private
    BY <2>1, <2>2, LobbyParts
  <2>4. \A j \in Clients : \A t \in x.joined[j] : t \in w.joined[j] \/ (t = s /\ ~w.squads[s].private)
    BY <2>1, LobbyParts
  <2>5. NoneShutOut(w, x)
    BY <2>3, <2>4 DEF NoneShutOut, ShutOut
  <2>6. QED
    BY <2>5 DEF x
<1>3. QED
  BY <1>1, <1>2

\* Quick find, joining by code and a new private squad, whose index is forgotten.
LEMMA FindShutsNobody ==
    ASSUME NEW w \in Lobbies, NEW c \in Clients
    PROVE  NoneShutOut(w, FindSquad(w, c))
<1>1. CASE Open(w, c) = {}
  BY <1>1 DEF FindSquad, NoneShutOut
<1>2. CASE Open(w, c) # {}
  <2> DEFINE s == First(Open(w, c))
             v == CanRejoinSquads(w, c, s)
  <2>1. s \in SquadIds
    BY <1>2, FirstOK DEF Open
  <2>2. FindSquad(w, c) = JoinSquad(v, c, s)
    BY <1>2 DEF FindSquad
  <2> HIDE DEF s
  <2>3. v \in Lobbies /\ NoneShutOut(w, v)
    <3>1. CASE v = w
      BY <3>1 DEF NoneShutOut
    <3>2. CASE v = [w EXCEPT !.joined[c] = {t \in @ : w.squads[t].private}]
      <4>1. /\ v \in Lobbies
            /\ v.squads = w.squads
            /\ v.joined = [w.joined EXCEPT ![c] = {t \in @ : w.squads[t].private}]
        BY <3>2, LobbyParts DEF Lobbies
      <4> HIDE DEF v
      <4>2. \A j \in Clients : v.joined[j] \subseteq w.joined[j]
        BY <4>1, LobbyParts
      <4>3. QED
        BY <4>1, <4>2, LessIsOpen
    <3>3. QED
      BY <3>1, <3>2 DEF CanRejoinSquads
  <2> HIDE DEF v
  <2>4. QED
    BY <2>1, <2>2, <2>3, JoinShutsNobody, NoneShutOutTransitive
<1>3. QED
  BY <1>1, <1>2

LEMMA CodeShutsNobody ==
    ASSUME NEW w \in Lobbies, NEW c \in Clients, NEW s \in SquadIds, NEW dev
    PROVE  NoneShutOut(w, JoinWithCode(w, c, s, dev))
<1>1. NoneShutOut(w, w)
  BY DEF NoneShutOut
<1>2. QED
  BY <1>1, JoinShutsNobody DEF JoinWithCode

\* A squad made private while what it was before is forgotten.
LEMMA NewPrivate ==
    ASSUME NEW w \in Lobbies, NEW s \in SquadIds, NEW o \in Positions, NEW e \in BOOLEAN
    PROVE  LET v == [Configure(w, s, TRUE, e, o) EXCEPT !.joined = Forget(@, s)]
           IN  v \in Lobbies /\ NoneShutOut(w, v)
<1> DEFINE v == [Configure(w, s, TRUE, e, o) EXCEPT !.joined = Forget(@, s)]
           r == [w.squads[s] EXCEPT !.private = TRUE, !.expose = e, !.owner = o]
<1>1. v = [squads |-> [w.squads EXCEPT ![s] = r], seat |-> w.seat, joined |-> Forget(w.joined, s)]
  <2> DEFINE x == Configure(w, s, TRUE, e, o)
  <2>1. x = [w EXCEPT !.squads[s] = r]
    BY DEF Configure
  <2> HIDE DEF r
  <2>2. x = [squads |-> [w.squads EXCEPT ![s] = r], seat |-> w.seat, joined |-> w.joined]
    BY <2>1, LobbyParts DEF Lobbies
  <2> HIDE DEF x
  <2>3. x.joined = w.joined
    BY <2>2
  <2>4. v = [x EXCEPT !.joined = Forget(x.joined, s)]
    BY DEF x
  <2> HIDE DEF v
  <2>5. QED
    BY <2>2, <2>3, <2>4
<1>2. r \in SquadRecords
  <2> DEFINE old == w.squads[s]
  <2>1. old \in SquadRecords
    BY LobbyParts
  <2>2. r = [old EXCEPT !.private = TRUE, !.expose = e, !.owner = o]
    OBVIOUS
  <2> HIDE DEF old, r
  <2>3. QED
    BY <2>1, <2>2 DEF SquadRecords
<1>3. Forget(w.joined, s) \in [Clients -> SUBSET SquadIds]
  BY LobbyParts DEF Forget
<1> HIDE DEF r, v
<1>4. v \in Lobbies
  BY <1>1, <1>2, <1>3, LobbyParts DEF Lobbies
<1>5. \A t \in SquadIds : t # s => v.squads[t] = w.squads[t]
  BY <1>1, LobbyParts
<1>6. \A j \in Clients : v.joined[j] = w.joined[j] \ {s}
  BY <1>1 DEF Forget
<1>7. NoneShutOut(w, v)
  BY <1>5, <1>6 DEF NoneShutOut, ShutOut
<1>8. QED
  BY <1>4, <1>7 DEF v

LEMMA CreateShutsNobody ==
    ASSUME NEW w \in Lobbies, NEW c \in Clients
    PROVE  NoneShutOut(w, CreateSquad(w, c))
<1> DEFINE empty == {s \in SquadIds : w.squads[s].count = 0}
           s == First(empty)
           v == [Configure(w, s, TRUE, FALSE, 0) EXCEPT !.joined = Forget(@, s)]
<1>1. CASE empty = {}
  BY <1>1 DEF CreateSquad, NoneShutOut
<1>2. CASE empty # {}
  <2>1. s \in SquadIds
    BY <1>2, FirstOK
  <2>2. CreateSquad(w, c) = JoinSquad(v, c, s)
    BY <1>2 DEF CreateSquad
  <2>3. 0 \in Positions
    BY SizesAssumption DEF Positions
  <2> HIDE DEF s
  <2>4. v \in Lobbies /\ NoneShutOut(w, v)
    BY <2>1, <2>3, NewPrivate
  <2> HIDE DEF v
  <2>5. QED
    BY <2>1, <2>2, <2>4, JoinShutsNobody, NoneShutOutTransitive
<1>3. QED
  BY <1>1, <1>2

\* A squad that stays as private as it was, or is opened.
LEMMA ConfigureShutsNobody ==
    ASSUME NEW w \in Lobbies, NEW s \in SquadIds, NEW priv, NEW e, NEW o,
           priv => w.squads[s].private
    PROVE  NoneShutOut(w, Configure(w, s, priv, e, o))
<1> DEFINE r == [w.squads[s] EXCEPT !.private = priv, !.expose = e, !.owner = o]
<1>1. Configure(w, s, priv, e, o) = [w EXCEPT !.squads[s] = r]
  BY DEF Configure
<1>2. r.private = priv
  BY LobbyParts DEF SquadRecords
<1> HIDE DEF r
<1>3. QED
  BY <1>1, <1>2, SquadReplaced

(***************************************************************************)
(* The steps.                                                              *)
(***************************************************************************)
\* A step that shuts nobody out and makes nobody present or another account.
LEMMA NobodyLockedOut ==
    ASSUME NoneShutOut(lobby, lobby'),
           \A c \in Clients : InUse(c)' => InUse(c) /\ uuid'[c] = uuid[c]
    PROVE  KickLocksOut
BY DEF KickLocksOut, LockedOut, NoneShutOut, ShutOut, Dev

LEMMA ConnectLocksNobodyOut ==
    ASSUME IInv, NEW c \in Clients, Connect(c)
    PROVE  KickLocksOut
<1>1. /\ lobby'.squads = lobby.squads
      /\ lobby'.joined = [lobby.joined EXCEPT ![c] = {}]
      /\ lobby.joined \in [Clients -> SUBSET SquadIds]
  BY LobbyParts DEF Connect, IInv, TypeOK, Lobbies
<1>2. \A j \in Clients : j # c => status'[j] = status[j] /\ uuid'[j] = uuid[j]
  BY DEF Connect, IInv, TypeOK
<1>3. lobby'.joined[c] = {} /\ \A j \in Clients : j # c => lobby'.joined[j] = lobby.joined[j]
  BY <1>1
<1>4. QED
  BY <1>1, <1>2, <1>3 DEF KickLocksOut, LockedOut, InUse, Dev

\* A client that names its account was no dev before.
LEMMA FirstPacketLocksNobodyOut ==
    ASSUME IInv, NEW c \in Clients, NEW a \in Accounts, FirstPacket(c, a)
    PROVE  KickLocksOut
<1>1. /\ uuid[c] = NoAccount /\ status' = status /\ lobby' = lobby
      /\ \A j \in Clients : j # c => uuid'[j] = uuid[j]
  BY DEF FirstPacket, IInv, TypeOK
<1>2. ~Dev(c)
  BY <1>1, ClientsAssumption DEF Dev
<1>3. QED
  BY <1>1, <1>2 DEF KickLocksOut, LockedOut, InUse, Dev

LEMMA CloseLocksNobodyOut ==
    ASSUME IInv, NEW c \in Clients, Close(c)
    PROVE  KickLocksOut
<1>1. lobby' = lobby \/ lobby' \in LeaveSquad(lobby, c)
  BY DEF Close
<1>2. NoneShutOut(lobby, lobby')
  <2>1. NoneShutOut(lobby, lobby)
    BY DEF NoneShutOut
  <2>2. QED
    BY <1>1, <2>1, LeaveShutsNobody DEF IInv
<1>3. \A j \in Clients : InUse(j)' => InUse(j) /\ uuid'[j] = uuid[j]
  BY DEF Close, InUse, IInv, TypeOK
<1>4. QED
  BY <1>2, <1>3, NobodyLockedOut

\* A session that is taken over hands what it was shut out of to the new one.
LEMMA AccountReplyLocksOut ==
    ASSUME IInv, NEW c \in Clients, AccountReply(c)
    PROVE  KickLocksOut
<1> DEFINE Ended(d, o) == {j \in {d, o} \ {NoClient} : status[j] = "disconnected"}
<1>1. PICK d \in Duplicates(c), o \in Earlier(c) :
         /\ status' = [j \in Clients |-> IF j = c THEN "verified"
                                         ELSE IF j \in Ended(d, o) THEN "free"
                                         ELSE status[j]]
         /\ \E w \in (IF d \in Ended(d, o) THEN LeaveSquad(lobby, d) ELSE {lobby}) :
              lobby' = IF o = NoClient THEN w ELSE TakeOver(w, c, o)
  BY DEF AccountReply
<1>2. uuid' = uuid /\ status[c] = "connected"
  BY DEF AccountReply
<1>3. /\ d # NoClient => d \in Clients
      /\ o # NoClient => o \in Clients /\ Settled(c, o) /\ uuid[o] = uuid[c] /\ o # c
  BY DEF Duplicates, Earlier, Settled
<1>4. PICK w \in (IF d \in Ended(d, o) THEN LeaveSquad(lobby, d) ELSE {lobby}) :
         lobby' = IF o = NoClient THEN w ELSE TakeOver(w, c, o)
  BY <1>1
<1>5. w \in Lobbies /\ NoneShutOut(lobby, w)
  <2>1. CASE d \in Ended(d, o)
    <3>1. d \in Clients /\ w \in LeaveSquad(lobby, d)
      BY <1>3, <1>4, <2>1
    <3>2. QED
      BY <3>1, LeaveSquadOK, LeaveShutsNobody DEF IInv, LobbyOK
  <2>2. CASE d \notin Ended(d, o)
    BY <1>4, <2>2 DEF NoneShutOut, IInv, TypeOK
  <2>3. QED
    BY <2>1, <2>2
<1>6. \A j \in Clients : InUse(j)' => InUse(j)
  BY <1>1, <1>2 DEF InUse, IInv, TypeOK
<1>7. CASE o = NoClient
  BY <1>2, <1>4, <1>5, <1>6, <1>7, NobodyLockedOut
<1>8. CASE o # NoClient
  <2>1. /\ \A s \in SquadIds : lobby'.squads[s].private = w.squads[s].private
        /\ lobby'.joined = [w.joined EXCEPT ![c] = w.joined[o]]
    <3> DEFINE moved == [w EXCEPT !.seat[c] = w.seat[o],
                                  !.seat[o] = NoSeat,
                                  !.joined[c] = w.joined[o]]
               s == w.seat[o].squad
               p == w.seat[o].pos
    <3>1. /\ moved.squads = w.squads
          /\ moved.joined = [w.joined EXCEPT ![c] = w.joined[o]]
          /\ moved = [squads |-> moved.squads, seat |-> moved.seat, joined |-> moved.joined]
      <4> DEFINE seat == [w.seat EXCEPT ![c] = w.seat[o], ![o] = NoSeat]
                 joined == [w.joined EXCEPT ![c] = w.joined[o]]
      <4>1. moved = [w EXCEPT !.seat = seat, !.joined = joined]
        BY <1>3, <1>5, <1>8, LobbyParts
      <4> HIDE DEF moved, seat
      <4>2. QED
        BY <1>5, <4>1 DEF Lobbies
    <3>2. lobby' = IF Seated(w, o) THEN [moved EXCEPT !.squads[s].members[p].client = c]
                   ELSE moved
      BY <1>4, <1>8 DEF TakeOver
    <3> HIDE DEF moved, s, p
    <3>3. CASE ~Seated(w, o)
      BY <3>1, <3>2, <3>3
    <3>4. CASE Seated(w, o)
      <4> DEFINE r == [moved.squads[s] EXCEPT !.members[p].client = c]
      <4>1. lobby' = [moved EXCEPT !.squads[s] = r]
        BY <3>2, <3>4
      <4>2. s \in SquadIds => r.private = w.squads[s].private
        BY <1>5, <3>1, LobbyParts DEF SquadRecords
      <4> HIDE DEF r
      <4>3. lobby'.squads = [w.squads EXCEPT ![s] = r] /\ lobby'.joined = moved.joined
        BY <3>1, <4>1
      <4>4. QED
        BY <1>5, <3>1, <4>2, <4>3, LobbyParts
    <3>5. QED
      BY <3>3, <3>4
  <2>2. /\ lobby'.joined[c] = w.joined[o]
        /\ \A j \in Clients : j # c => lobby'.joined[j] = w.joined[j]
    BY <1>5, <2>1, LobbyParts
  <2>3. ASSUME NEW j \in Clients, NEW s \in SquadIds, LockedOut(j, s)', ~LockedOut(j, s)
        PROVE  \E i \in Clients : Settled(j, i) /\ uuid[i] = uuid[j] /\ LockedOut(i, s)
    <3>1. InUse(j) /\ ~Dev(j) /\ ShutOut(lobby', j, s) /\ ~ShutOut(lobby, j, s)
      BY <1>2, <1>6, <2>3 DEF LockedOut, ShutOut, Dev
    <3>2. j = c
      BY <1>5, <2>1, <2>2, <3>1 DEF ShutOut, NoneShutOut
    <3>3. ShutOut(lobby, o, s)
      BY <1>3, <1>5, <1>8, <2>1, <2>2, <3>1, <3>2 DEF ShutOut, NoneShutOut
    <3>4. InUse(o) /\ ~Dev(o)
      BY <1>3, <1>8, <3>1, <3>2 DEF Settled, InUse, Dev
    <3>5. QED
      BY <1>3, <1>8, <3>2, <3>3, <3>4 DEF LockedOut, ShutOut
  <2>4. QED
    BY <2>3 DEF KickLocksOut
<1>9. QED
  BY <1>7, <1>8

\* A kick: the member at p is the only one shut out, and of s only.
LEMMA EvictLocksOut ==
    ASSUME IInv, NEW k \in Clients, NEW s \in SquadIds, NEW p \in Positions,
           SquadKick(k, s, p), NEW w, LobbyOK(w), NoneShutOut(lobby, w), w.seat = lobby.seat,
           p \in Used(w.squads[s]), Evict(w, s, p), UNCHANGED connection
    PROVE  KickLocksOut
<1> DEFINE c == w.squads[s].members[p].client
<1>1. c \in Clients /\ w.seat[c] = [squad |-> s, pos |-> p]
  <2>1. c \in Clients
    BY EvictOK
  <2>2. QED
    BY <2>1 DEF LobbyOK, SeatsMatch
<1>2. PICK left \in LeaveSquad(w, c) : lobby' = [left EXCEPT !.joined[c] = @ \cup {s}]
  BY DEF Evict
<1>3. NoneShutOut(lobby, left) /\ left \in Lobbies
  BY <1>1, LeaveShutsNobody, LeaveSquadOK, NoneShutOutTransitive DEF LobbyOK
<1> HIDE DEF c
<1>4. /\ lobby'.squads = left.squads
      /\ lobby'.joined = [left.joined EXCEPT ![c] = @ \cup {s}]
  BY <1>2, <1>3 DEF Lobbies
<1>5. \A j \in Clients, t \in SquadIds :
         ShutOut(lobby', j, t) => ShutOut(lobby, j, t) \/ (j = c /\ t = s)
  <2>1. \A j \in Clients : \A t \in lobby'.joined[j] : t \in left.joined[j] \/ (j = c /\ t = s)
    BY <1>3, <1>4, LobbyParts
  <2>2. QED
    BY <1>3, <1>4, <2>1 DEF ShutOut, NoneShutOut
<1>6. UNCHANGED <<status, uuid>>
  BY DEF connection
<1>7. ASSUME NEW j \in Clients, NEW t \in SquadIds, LockedOut(j, t)', ~LockedOut(j, t)
      PROVE  Seated(lobby, j) /\ lobby.seat[j].squad = t /\ SquadKick(k, t, lobby.seat[j].pos)
  <2>1. j = c /\ t = s
    BY <1>5, <1>6, <1>7 DEF LockedOut, ShutOut, InUse, Dev
  <2>2. lobby.seat[j] = [squad |-> s, pos |-> p]
    BY <1>1, <2>1
  <2>3. lobby.seat[j] # NoSeat
    BY <2>2, SizesAssumption DEF NoSeat, Positions
  <2>4. QED
    BY <2>1, <2>2, <2>3 DEF Seated
<1>8. QED
  BY <1>7 DEF KickLocksOut

\* The lobby of the other messages: they move the sender, or change its squad.
LEMMA MessageLocksNobodyOut ==
    ASSUME IInv, NEW c \in Clients,
           \/ SquadLeave(c) \/ SquadJoin(c) \/ SquadReady(c) \/ SquadUpdate(c)
           \/ PrivateUpdate(c) \/ ExposeCode(c)
           \/ \E s \in SquadIds, p \in Positions : TransferOwnership(c, s, p)
    PROVE  KickLocksOut
<1>1. NoneShutOut(lobby, lobby) /\ lobby \in Lobbies /\ LobbyOK(lobby)
  BY DEF NoneShutOut, IInv, LobbyOK
<1>2. ASSUME SquadLeave(c)
      PROVE  NoneShutOut(lobby, lobby') /\ UNCHANGED connection
  BY <1>1, <1>2, LeaveShutsNobody DEF SquadLeave
<1>3. ASSUME SquadJoin(c)
      PROVE  NoneShutOut(lobby, lobby') /\ UNCHANGED connection
  <2>1. PICK w \in Moved(c) :
           \/ lobby' = FindSquad(w, c)
           \/ \E s \in SquadIds : lobby' = JoinWithCode(w, c, s, Dev(c))
           \/ lobby' = CreateSquad(w, c)
           \/ lobby' = w
    BY <1>3 DEF SquadJoin
  <2>2. PICK x \in LeaveSquad(lobby, c) :
           w = IF Seated(lobby, c) /\ ~x.squads[lobby.seat[c].squad].private
               THEN [x EXCEPT !.joined[c] = @ \cup {lobby.seat[c].squad}]
               ELSE x
    BY DEF Moved
  <2>3. NoneShutOut(lobby, x) /\ x \in Lobbies
    BY <1>1, LeaveSquadOK, LeaveShutsNobody DEF LobbyOK
  <2>4. w \in Lobbies /\ NoneShutOut(x, w)
    <3>1. CASE w = x
      BY <2>3, <3>1 DEF NoneShutOut
    <3>2. CASE /\ Seated(lobby, c) /\ ~x.squads[lobby.seat[c].squad].private
               /\ w = [x EXCEPT !.joined[c] = @ \cup {lobby.seat[c].squad}]
      <4> DEFINE s == lobby.seat[c].squad
                 joined == [x.joined EXCEPT ![c] = @ \cup {s}]
      <4>1. s \in SquadIds
        BY <1>1, <3>2, SeatOf
      <4>2. w = [x EXCEPT !.joined = joined]
        BY <3>2
      <4>3. joined \in [Clients -> SUBSET SquadIds]
            /\ \A j \in Clients : \A t \in joined[j] : t \in x.joined[j] \/ t = s
        BY <2>3, <4>1, LobbyParts
      <4> HIDE DEF joined
      <4>4. w \in Lobbies /\ w.squads = x.squads /\ w.joined = joined
        BY <2>3, <4>2, <4>3 DEF Lobbies
      <4>5. QED
        BY <3>2, <4>3, <4>4 DEF NoneShutOut, ShutOut
    <3>3. QED
      BY <2>2, <3>1, <3>2
  <2>5. NoneShutOut(w, lobby')
    <3>1. NoneShutOut(w, w)
      BY DEF NoneShutOut
    <3>2. QED
      BY <2>1, <2>4, <3>1, FindShutsNobody, CodeShutsNobody, CreateShutsNobody
  <2>6. QED
    BY <1>3, <2>3, <2>4, <2>5, NoneShutOutTransitive DEF SquadJoin
<1>4. \A b \in BOOLEAN : Seated(lobby, c) => NoneShutOut(lobby, SetPlaying(lobby, c, b))
  <2> SUFFICES ASSUME NEW b \in BOOLEAN, Seated(lobby, c)
               PROVE  NoneShutOut(lobby, SetPlaying(lobby, c, b))
    OBVIOUS
  <2> DEFINE s == lobby.seat[c].squad
             m == [lobby.squads[s].members EXCEPT ![lobby.seat[c].pos].playing = b]
             r == [lobby.squads[s] EXCEPT !.members = m]
  <2>1. s \in SquadIds /\ lobby.squads[s] \in SquadRecords
    BY <1>1, SeatOf
  <2>2. SetPlaying(lobby, c, b) = [lobby EXCEPT !.squads[s] = r]
    BY DEF SetPlaying
  <2> HIDE DEF s, m
  <2>3. r.private = lobby.squads[s].private
    BY <2>1 DEF SquadRecords
  <2> HIDE DEF r
  <2>4. QED
    BY <1>1, <2>1, <2>2, <2>3, SquadReplaced
<1>5. ASSUME SquadReady(c)
      PROVE  NoneShutOut(lobby, lobby') /\ UNCHANGED connection
  <2>1. \/ lobby' = FindSquad(lobby, c)
        \/ Seated(lobby, c) /\ \E b \in BOOLEAN : lobby' = SetPlaying(lobby, c, b)
        \/ lobby' = lobby
    BY <1>5 DEF SquadReady
  <2>2. QED
    BY <1>1, <1>4, <1>5, <2>1, FindShutsNobody DEF SquadReady
<1>6. ASSUME SquadUpdate(c)
      PROVE  NoneShutOut(lobby, lobby') /\ UNCHANGED connection
  <2>1. \/ Seated(lobby, c) /\ \E b \in BOOLEAN : lobby' = SetPlaying(lobby, c, b)
        \/ lobby' = lobby
    <3>1. (~MemberOf(lobby, c).playing) \in BOOLEAN
      OBVIOUS
    <3>2. QED
      BY <1>6, <3>1 DEF SquadUpdate
  <2>2. QED
    BY <1>1, <1>4, <1>6, <2>1 DEF SquadUpdate
<1>7. ASSUME PrivateUpdate(c)
      PROVE  NoneShutOut(lobby, lobby') /\ UNCHANGED connection
  <2> DEFINE s == lobby.seat[c].squad
             sq == lobby.squads[s]
  <2>1. s \in SquadIds
    BY <1>1, <1>7, SeatOf DEF PrivateUpdate
  <2>2. \/ lobby' = Configure(lobby, s, FALSE, TRUE, sq.owner)
        \/ \E o \in Used(sq) :
              lobby' = [Configure(lobby, s, TRUE, FALSE, o) EXCEPT !.joined = Forget(@, s)]
    BY <1>7 DEF PrivateUpdate
  <2>3. Used(sq) \subseteq Positions
    BY DEF Used
  <2>4. UNCHANGED connection
    BY <1>7 DEF PrivateUpdate
  <2> HIDE DEF s, sq
  <2>5. CASE lobby' = Configure(lobby, s, FALSE, TRUE, sq.owner)
    BY <1>1, <2>1, <2>4, <2>5, ConfigureShutsNobody
  <2>6. CASE \E o \in Used(sq) :
          lobby' = [Configure(lobby, s, TRUE, FALSE, o) EXCEPT !.joined = Forget(@, s)]
    <3>1. PICK o \in Positions :
            lobby' = [Configure(lobby, s, TRUE, FALSE, o) EXCEPT !.joined = Forget(@, s)]
      BY <2>3, <2>6
    <3>2. FALSE \in BOOLEAN
      OBVIOUS
    <3>3. NoneShutOut(lobby, lobby')
      BY <1>1, <2>1, <3>1, <3>2, NewPrivate
    <3>4. QED
      BY <2>4, <3>3
  <2>7. QED
    BY <2>2, <2>5, <2>6
<1>8. ASSUME ExposeCode(c)
      PROVE  NoneShutOut(lobby, lobby') /\ UNCHANGED connection
  <2> DEFINE s == lobby.seat[c].squad
             sq == lobby.squads[s]
  <2>1. \/ lobby' = lobby
        \/ /\ Seated(lobby, c) /\ sq.private
           /\ lobby' = Configure(lobby, s, TRUE, ~sq.expose, sq.owner)
    BY <1>8 DEF ExposeCode
  <2>2. Seated(lobby, c) => s \in SquadIds
    BY <1>1, SeatOf
  <2> HIDE DEF s
  <2>3. QED
    BY <1>1, <1>8, <2>1, <2>2, ConfigureShutsNobody DEF ExposeCode
<1>9. ASSUME NEW s \in SquadIds, NEW p \in Positions, TransferOwnership(c, s, p)
      PROVE  NoneShutOut(lobby, lobby') /\ UNCHANGED connection
  BY <1>1, <1>9, ConfigureShutsNobody DEF TransferOwnership
<1>10. NoneShutOut(lobby, lobby') /\ UNCHANGED connection
  BY <1>2, <1>3, <1>5, <1>6, <1>7, <1>8, <1>9
<1>11. QED
  BY <1>10, NobodyLockedOut DEF connection, InUse

LEMMA SquadKickLocksOut ==
    ASSUME IInv, NEW c \in Clients, NEW s \in SquadIds, NEW p \in Positions,
           SquadKick(c, s, p)
    PROVE  KickLocksOut
<1>1. /\ Listening(c) /\ p \in Used(lobby.squads[s]) /\ UNCHANGED connection
      /\ LobbyOK(lobby) /\ NoneShutOut(lobby, lobby)
  BY DEF SquadKick, SeatTaken, Used, IInv, NoneShutOut
<1>2. CASE Evict(lobby, s, p)
  BY <1>1, <1>2, EvictLocksOut
<1>3. CASE /\ Seated(lobby, c) /\ lobby.seat[c].squad = s /\ lobby.seat[c].pos # p
           /\ voteWait[c] = 0
           /\ lobby' = Vote(lobby, c, p) \/ Evict(Vote(lobby, c, p), s, p)
  <2> DEFINE w == Vote(lobby, c, p)
  <2>1. /\ MemberOf(lobby, c).vote = NoVote
        /\ p \in Used(SquadOf(lobby, c))
    BY <1>1, <1>3 DEF IInv, BallotsTimed, SquadOf
  <2>2. LobbyOK(w) /\ w.seat = lobby.seat /\ p \in Used(w.squads[s])
    BY <1>1, <1>3, <2>1, VoteLobby
  <2>3. NoneShutOut(lobby, w)
    <3> DEFINE r == Ballot(lobby.squads[s], lobby.seat[c].pos, p)
    <3>1. w = [lobby EXCEPT !.squads[s] = r]
      BY <1>3 DEF Vote
    <3>2. r.private = lobby.squads[s].private
      BY <1>1, LobbyParts DEF Ballot, SquadRecords, LobbyOK
    <3> HIDE DEF r
    <3>3. QED
      BY <1>1, <3>1, <3>2, SquadReplaced DEF LobbyOK
  <2> HIDE DEF w
  <2>4. CASE lobby' = w
    BY <1>1, <2>3, <2>4, NobodyLockedOut DEF connection, InUse
  <2>5. CASE Evict(w, s, p)
    BY <1>1, <2>2, <2>3, <2>5, EvictLocksOut
  <2>6. QED
    BY <1>3, <2>4, <2>5 DEF w
<1>4. QED
  BY <1>2, <1>3 DEF SquadKick

LEMMA TickLocksNobodyOut ==
    ASSUME IInv, NEW c \in Clients, Tick(c)
    PROVE  KickLocksOut
<1> DEFINE w == IF voteWait[c] = 1 THEN Retract(lobby, c) ELSE lobby
<1>1. LobbyOK(w)
  BY RetractLobby DEF IInv
<1>2. NoneShutOut(lobby, w)
  <2>1. CASE w = lobby
    BY <2>1 DEF NoneShutOut
  <2>2. CASE w # lobby
    <3> DEFINE s == lobby.seat[c].squad
               p == lobby.seat[c].pos
               m == [Uncount(lobby.squads[s].members, p) EXCEPT ![p].vote = NoVote]
               r == [lobby.squads[s] EXCEPT !.members = m]
    <3>1. Seated(lobby, c) /\ w = [lobby EXCEPT !.squads[s] = r]
      BY <2>2 DEF Retract
    <3>2. s \in SquadIds /\ lobby.squads[s] \in SquadRecords
      BY <3>1, SeatOf DEF IInv
    <3> HIDE DEF m
    <3>3. r.private = lobby.squads[s].private
      BY <3>2 DEF SquadRecords
    <3> HIDE DEF r, s, w
    <3>4. QED
      BY <3>1, <3>2, <3>3, SquadReplaced DEF IInv, TypeOK
  <2>3. QED
    BY <2>1, <2>2
<1>3. lobby' = w \/ lobby' \in LeaveSquad(w, c)
  BY DEF Tick
<1> HIDE DEF w
<1>4. NoneShutOut(lobby, lobby')
  BY <1>1, <1>2, <1>3, LeaveShutsNobody, NoneShutOutTransitive
<1>5. \A j \in Clients : InUse(j)' => InUse(j) /\ uuid'[j] = uuid[j]
  BY DEF Tick, InUse, IInv, TypeOK
<1>6. QED
  BY <1>4, <1>5, NobodyLockedOut

\* Only a kick, or taking over a session that was kicked, shuts a client out of a
\* private squad (joined_squad_before in Server/Squad.c and Server/Server.c): no
\* squad, slot or session leaves its history to the next.
THEOREM SpecLockedOutOnlyByKick == Spec => LockedOutOnlyByKick
<1>1. ASSUME IInv, [Next]_vars PROVE [KickLocksOut]_vars
  <2>1. CASE UNCHANGED vars
    BY <2>1
  <2>2. ASSUME NEW c \in Clients, MarkKicked(c) PROVE KickLocksOut
    BY <1>1, <2>2, NobodyLockedOut DEF MarkKicked, NoneShutOut, InUse
  <2>3. CASE Next
    BY <1>1, <2>2, <2>3, ConnectLocksNobodyOut, FirstPacketLocksNobodyOut,
       CloseLocksNobodyOut, AccountReplyLocksOut, MessageLocksNobodyOut,
       SquadKickLocksOut, TickLocksNobodyOut DEF Next
  <2>4. QED
    BY <1>1, <2>1, <2>3
<1>2. QED
  BY <1>1, SpecIInv, PTL DEF Spec, LockedOutOnlyByKick
=============================================================================
