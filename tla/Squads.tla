------------------------------- MODULE Squads -------------------------------
(***************************************************************************)
(* Squads of one game server: Server/Squad.c, the squad messages of the    *)
(* client socket (Server/Server.c), and everything that takes a client out *)
(* of a squad or hands its seat to another connection: the close of the    *)
(* socket, the account reply of the master, the kick of a member and the   *)
(* client part of the server's tick.                                       *)
(*                                                                         *)
(* The server is one thread: a message, a socket event and one round of    *)
(* the tick's loop over the clients are each one step.  The build modelled *)
(* is the one without CTF.                                                 *)
(*                                                                         *)
(* A client is a slot of server->clients.  A squad's slot is free exactly  *)
(* when its client pointer is NULL (in_use is set and cleared with it), and *)
(* in_squad, squad and squad_pos of a client are one value, its seat.      *)
(***************************************************************************)
EXTENDS Integers, FiniteSets

CONSTANTS
    Clients,        \* the slots of server->clients (RR_MAX_CLIENT_COUNT)
    NoClient,       \* a NULL client pointer
    Accounts,       \* account uuids a client may present
    NoAccount,      \* the uuid of a slot that has not sent its first packet
    DevAccounts,    \* accounts the master marks is_dev
    Anonymous,      \* accounts with neither a name nor a CrazyGames id
    NumSquads,      \* RR_SQUAD_COUNT
    SquadSize,      \* RR_SQUAD_MEMBER_COUNT
    ActionTicks,    \* 10: pause between two squad actions
    VoteTicks,      \* 60 * 25: life of a kick vote
    ReconnectTicks  \* 60 * 25: how long a lost connection keeps its place

ASSUME ClientsAssumption ==
    /\ IsFiniteSet(Clients)
    /\ NoClient \notin Clients
    /\ NoAccount \notin Accounts
    /\ DevAccounts \subseteq Accounts
ASSUME SizesAssumption ==
    /\ NumSquads \in Nat \ {0}
    /\ SquadSize \in 1..127
    /\ ActionTicks \in Nat /\ VoteTicks \in Nat \ {0} /\ ReconnectTicks \in Nat

VARIABLES
    status,         \* in_use, verified and disconnected of each slot
    pendingKick,    \* pending_kick
    uuid,           \* rivet_account.uuid; NoAccount until the first packet
    player,         \* player_info # NULL
    quickJoin,      \* pending_quick_join
    actionWait,     \* ticks_to_next_squad_action
    voteWait,       \* ticks_to_next_kick_vote
    goneTicks,      \* disconnected_ticks
    lobby           \* the squads, the seat of each client, joined_squad_before

connection == <<status, pendingKick, uuid, goneTicks>>
timers == <<actionWait, voteWait>>
vars == <<connection, timers, player, quickJoin, lobby>>

SquadIds == 0..(NumSquads - 1)
Positions == 0..(SquadSize - 1)
NoVote == -1
NoSeat == [squad |-> 0, pos |-> -1]

Statuses == {"free", "connected", "verified", "disconnected"}
Seats == [squad : SquadIds, pos : Positions]
Members == [client : Clients \cup {NoClient}, vote : {NoVote} \cup Positions,
            votes : 0..255, playing : BOOLEAN]
SquadRecords == [members : [Positions -> Members], count : 0..255,
                 owner : Positions, private : BOOLEAN, expose : BOOLEAN]
Lobbies == [squads : [SquadIds -> SquadRecords],
            seat : [Clients -> Seats \cup {NoSeat}],
            joined : [Clients -> SUBSET SquadIds]]

Less8(n) == (n + 255) % 256     \* n - 1 in a uint8_t

(***************************************************************************)
(* One squad.                                                              *)
(***************************************************************************)
\* a slot after memset: vote position 0, not -1
EmptyMember == [client |-> NoClient, vote |-> 0, votes |-> 0, playing |-> FALSE]
EmptySquad == [members |-> [p \in Positions |-> EmptyMember], count |-> 0,
               owner |-> 0, private |-> FALSE, expose |-> TRUE]

Used(sq) == {p \in Positions : sq.members[p].client # NoClient}
HasSpace(sq) == sq.count < SquadSize
FirstFree(sq) ==
    CHOOSE p \in Positions \ Used(sq) : \A q \in Positions \ Used(sq) : p <= q

AddClient(sq, c) ==
    [sq EXCEPT !.members[FirstFree(sq)] =
                   [client |-> c, vote |-> NoVote, votes |-> 0, playing |-> FALSE],
               !.count = @ + 1]

\* the ballot of position p no longer counts for the member it names
Uncount(members, p) ==
    LET v == members[p].vote
    IN  IF v = NoVote THEN members
        ELSE [members EXCEPT ![v].votes = Less8(@)]

\* mutant: the ballot of the member that goes stays counted
RemoveMember_KeepsBallot(sq, p) ==
    LET others == [q \in Positions |->
                     IF q = p THEN EmptyMember
                     ELSE IF sq.members[q].client # NoClient /\ sq.members[q].vote = p
                          THEN [sq.members[q] EXCEPT !.vote = NoVote]
                          ELSE sq.members[q]]
        rest == [sq EXCEPT !.members = others, !.count = Less8(@)]
    IN  IF rest.count = 0 THEN {EmptySquad}
        ELSE IF sq.private /\ sq.owner = p
             THEN {[rest EXCEPT !.owner = o] : o \in Used(rest)}
             ELSE {rest}

\* mutant: a private squad keeps the position of an owner that is gone
RemoveMember_KeepsOwner(sq, p) ==
    LET counted == Uncount(sq.members, p)
        others == [q \in Positions |->
                     IF q = p THEN EmptyMember
                     ELSE IF counted[q].client # NoClient /\ counted[q].vote = p
                          THEN [counted[q] EXCEPT !.vote = NoVote]
                          ELSE counted[q]]
        rest == [sq EXCEPT !.members = others, !.count = Less8(@)]
    IN  IF rest.count = 0 THEN {EmptySquad} ELSE {rest}

\* The squads that remain when the member at p goes: a private squad that loses
\* its owner gets a random one, an empty squad is reinitialised.
RemoveMember(sq, p) ==
    LET counted == Uncount(sq.members, p)
        others == [q \in Positions |->
                     IF q = p THEN EmptyMember
                     ELSE IF counted[q].client # NoClient /\ counted[q].vote = p
                          THEN [counted[q] EXCEPT !.vote = NoVote]
                          ELSE counted[q]]
        rest == [sq EXCEPT !.members = others, !.count = Less8(@)]
    IN  IF rest.count = 0 THEN {EmptySquad}
        ELSE IF sq.private /\ sq.owner = p
             THEN {[rest EXCEPT !.owner = o] : o \in Used(rest)}
             ELSE {rest}

(***************************************************************************)
(* The lobby: all squads, the seats of the clients and the squads each     *)
(* client was in or was kicked from.                                       *)
(***************************************************************************)
Seated(w, c) == w.seat[c] # NoSeat
SquadOf(w, c) == w.squads[w.seat[c].squad]
MemberOf(w, c) == SquadOf(w, c).members[w.seat[c].pos]

\* rr_bitset_unset(clients[i].joined_squad_before, s) for every client
Forget(joined, s) == [c \in Clients |-> joined[c] \ {s}]

LeaveSquad(w, c) ==
    IF ~Seated(w, c) THEN {w}
    ELSE LET s == w.seat[c].squad
         IN  {[squads |-> [w.squads EXCEPT ![s] = sq],
               seat |-> [w.seat EXCEPT ![c] = NoSeat],
               joined |-> IF sq.count = 0 THEN Forget(w.joined, s) ELSE w.joined]
              : sq \in RemoveMember(w.squads[s], w.seat[c].pos)}

JoinSquad(w, c, s) ==
    IF ~HasSpace(w.squads[s]) THEN w
    ELSE [squads |-> [w.squads EXCEPT ![s] = AddClient(@, c)],
          seat |-> [w.seat EXCEPT ![c] = [squad |-> s, pos |-> FirstFree(w.squads[s])]],
          joined |-> IF w.squads[s].private THEN w.joined
                     ELSE [w.joined EXCEPT ![c] = @ \cup {s}]]

Open(w, c) ==
    {s \in SquadIds : /\ HasSpace(w.squads[s])
                      /\ ~w.squads[s].private
                      /\ s \notin w.joined[c]}

First(S) == CHOOSE s \in S : \A t \in S : s <= t

\* all public squads from the chosen one on are empty: start the round again
CanRejoinSquads(w, c, chosen) ==
    IF \E s \in SquadIds : /\ s >= chosen
                           /\ ~w.squads[s].private
                           /\ w.squads[s].count > 0
    THEN w
    ELSE [w EXCEPT !.joined[c] = {s \in @ : w.squads[s].private}]

\* Quick find: the lobby with c in the first open squad, or w if there is none.
FindSquad(w, c) ==
    IF Open(w, c) = {} THEN w
    ELSE LET s == First(Open(w, c)) IN JoinSquad(CanRejoinSquads(w, c, s), c, s)

\* Privacy, code display and owner of a squad.
Configure(w, s, private, expose, owner) ==
    [w EXCEPT !.squads[s] = [@ EXCEPT !.private = private,
                                      !.expose = expose,
                                      !.owner = owner]]

\* mutant: what the squad of that index was before is not forgotten
CreateSquad_KeepsHistory(w, c) ==
    LET empty == {s \in SquadIds : w.squads[s].count = 0}
        s == First(empty)
    IN  IF empty = {} THEN w
        ELSE JoinSquad(Configure(w, s, TRUE, FALSE, 0), c, s)

\* A private squad in the first empty place: slot 0, the owner's, is the first free.
CreateSquad(w, c) ==
    LET empty == {s \in SquadIds : w.squads[s].count = 0}
        s == First(empty)
    IN  IF empty = {} THEN w
        ELSE JoinSquad([Configure(w, s, TRUE, FALSE, 0) EXCEPT !.joined = Forget(@, s)], c, s)

\* Joining by code: whoever was kicked from a private squad stays out of it.
JoinWithCode(w, c, s, dev) ==
    IF ~dev /\ w.squads[s].private /\ s \in w.joined[c] THEN w
    ELSE JoinSquad(w, c, s)

(***************************************************************************)
(* Helpers of the actions.                                                 *)
(***************************************************************************)
Dev(c) == uuid[c] \in DevAccounts
InUse(c) == status[c] # "free"
Listening(c) == status[c] = "verified"      \* its messages are handled
SeatTaken(s, p) == lobby.squads[s].members[p].client # NoClient

Init ==
    /\ status = [c \in Clients |-> "free"]
    /\ pendingKick = [c \in Clients |-> FALSE]
    /\ uuid = [c \in Clients |-> NoAccount]
    /\ player = [c \in Clients |-> FALSE]
    /\ quickJoin = [c \in Clients |-> FALSE]
    /\ actionWait = [c \in Clients |-> 0]
    /\ voteWait = [c \in Clients |-> 0]
    /\ goneTicks = [c \in Clients |-> 0]
    /\ lobby = [squads |-> [s \in SquadIds |-> EmptySquad],
                seat |-> [c \in Clients |-> NoSeat],
                joined |-> [c \in Clients |-> {}]]

(***************************************************************************)
(* The connection.                                                         *)
(***************************************************************************)
\* LWS_CALLBACK_ESTABLISHED on a free slot: rr_server_client_init
Connect(c) ==
    /\ status[c] = "free"
    /\ status' = [status EXCEPT ![c] = "connected"]
    /\ pendingKick' = [pendingKick EXCEPT ![c] = FALSE]
    /\ uuid' = [uuid EXCEPT ![c] = NoAccount]
    /\ player' = [player EXCEPT ![c] = FALSE]
    /\ quickJoin' = [quickJoin EXCEPT ![c] = FALSE]
    /\ actionWait' = [actionWait EXCEPT ![c] = 0]
    /\ voteWait' = [voteWait EXCEPT ![c] = 0]
    /\ goneTicks' = [goneTicks EXCEPT ![c] = 0]
    /\ lobby' = [lobby EXCEPT !.joined[c] = {}, !.seat[c] = NoSeat]

\* the first packet names the account; the master is asked about it
FirstPacket(c, a) ==
    /\ status[c] = "connected" /\ uuid[c] = NoAccount
    /\ uuid' = [uuid EXCEPT ![c] = a]
    /\ UNCHANGED <<status, pendingKick, goneTicks, timers, player, quickJoin, lobby>>

\* A wrong verification, an answer of the master that is a kick or is not for
\* this connection, a message queue of 512: the connection is to be closed.
MarkKicked(c) ==
    /\ status[c] \in {"connected", "verified"}
    /\ pendingKick' = [pendingKick EXCEPT ![c] = TRUE]
    /\ UNCHANGED <<status, uuid, goneTicks, timers, player, quickJoin, lobby>>

\* mutant: the slot is freed with its player left behind
Close_KeepsPlayer(c) ==
    /\ status[c] \in {"connected", "verified"}
    /\ IF status[c] = "verified" /\ ~pendingKick[c]
       THEN status' = [status EXCEPT ![c] = "disconnected"] /\ UNCHANGED lobby
       ELSE status' = [status EXCEPT ![c] = "free"] /\ lobby' \in LeaveSquad(lobby, c)
    /\ UNCHANGED <<pendingKick, uuid, goneTicks, timers, player, quickJoin>>

\* LWS_CALLBACK_CLOSED: a verified client keeps its place for a while, any other
\* frees its slot (rr_server_client_free) and with it its seat.
Close(c) ==
    /\ status[c] \in {"connected", "verified"}
    /\ IF status[c] = "verified" /\ ~pendingKick[c]
       THEN /\ status' = [status EXCEPT ![c] = "disconnected"]
            /\ UNCHANGED <<player, lobby>>
       ELSE /\ status' = [status EXCEPT ![c] = "free"]
            /\ player' = [player EXCEPT ![c] = FALSE]
            /\ lobby' \in LeaveSquad(lobby, c)
    /\ UNCHANGED <<pendingKick, uuid, goneTicks, timers, quickJoin>>

\* mutant: the tick passes over unverified clients before it looks for kicked ones
CloseKicked_VerifiedOnly(c) == Listening(c) /\ pendingKick[c] /\ Close(c)

\* LWS_CALLBACK_SERVER_WRITEABLE, asked for by the tick, returns -1
CloseKicked(c) == pendingKick[c] /\ Close(c)

Settled(c, j) == j # c /\ status[j] \in {"verified", "disconnected"} /\ ~pendingKick[j]

\* Another account without a name behind the same address; whether the
\* addresses are the same is left open, so the reply may also find none.
Duplicates(c) ==
    {j \in Clients : /\ Settled(c, j)
                     /\ uuid[c] \in Anonymous \ DevAccounts
                     /\ uuid[j] \in Anonymous \ DevAccounts
                     /\ uuid[j] # uuid[c]} \cup {NoClient}

\* mutant: only a session that is still connected is looked for
Earlier_ConnectedOnly(c) ==
    LET old == {j \in Clients : Settled(c, j) /\ uuid[j] = uuid[c] /\ status[j] = "verified"}
    IN  IF old = {} THEN {NoClient} ELSE old

\* The earlier session of the same account: a dev's is left alone while connected.
Earlier(c) ==
    LET old == {j \in Clients : /\ Settled(c, j)
                                /\ uuid[j] = uuid[c]
                                /\ Dev(c) => status[j] = "disconnected"}
    IN  IF old = {} THEN {NoClient} ELSE old

\* mutant: the squad still points at the old slot
TakeOver_KeepsPointer(w, c, o) ==
    [w EXCEPT !.seat[c] = w.seat[o], !.seat[o] = NoSeat, !.joined[c] = w.joined[o]]

\* the seat, the ballot and the history of session o become those of client c
TakeOver(w, c, o) ==
    LET moved == [w EXCEPT !.seat[c] = w.seat[o],
                           !.seat[o] = NoSeat,
                           !.joined[c] = w.joined[o]]
    IN  IF Seated(w, o)
        THEN [moved EXCEPT !.squads[w.seat[o].squad].members[w.seat[o].pos].client = c]
        ELSE moved

\* The master's account reply (op 1): the client is verified, a duplicate is
\* thrown out and an earlier session of the account is taken over.
AccountReply(c) ==
    /\ status[c] = "connected" /\ uuid[c] # NoAccount
    /\ \E d \in Duplicates(c), o \in Earlier(c) :
         LET ended == {j \in {d, o} \ {NoClient} : status[j] = "disconnected"}
             kicked == {d, o} \ ({NoClient} \cup ended)
         IN  /\ status' = [j \in Clients |-> IF j = c THEN "verified"
                                             ELSE IF j \in ended THEN "free"
                                             ELSE status[j]]
             /\ pendingKick' = [j \in Clients |-> j \in kicked \/ pendingKick[j]]
             /\ \E w \in (IF d \in ended THEN LeaveSquad(lobby, d) ELSE {lobby}) :
                  lobby' = IF o = NoClient THEN w ELSE TakeOver(w, c, o)
             /\ player' = [j \in Clients |-> IF j = o \/ j \in ended THEN FALSE
                                             ELSE IF j = c /\ o # NoClient THEN player[o]
                                             ELSE player[j]]
             /\ IF o = NoClient THEN UNCHANGED timers
                ELSE /\ actionWait' = [actionWait EXCEPT ![c] = actionWait[o]]
                     /\ voteWait' = [voteWait EXCEPT ![c] = voteWait[o]]
    /\ UNCHANGED <<uuid, goneTicks, quickJoin>>

(***************************************************************************)
(* The squad messages.                                                     *)
(***************************************************************************)
\* the guard and the pause most squad messages share
SquadAction(c) ==
    /\ Listening(c)
    /\ actionWait[c] = 0
    /\ actionWait' = [actionWait EXCEPT ![c] = ActionTicks]

\* rr_serverbound_squad_join, type 3
SquadLeave(c) ==
    /\ SquadAction(c)
    /\ lobby' \in LeaveSquad(lobby, c)
    /\ UNCHANGED <<connection, voteWait, player, quickJoin>>

\* Types 0, 1 and 2 leave the old squad first; a public one is remembered.
Moved(c) ==
    {IF Seated(lobby, c) /\ ~w.squads[lobby.seat[c].squad].private
     THEN [w EXCEPT !.joined[c] = @ \cup {lobby.seat[c].squad}]
     ELSE w : w \in LeaveSquad(lobby, c)}

SquadJoin(c) ==
    /\ SquadAction(c)
    /\ \E w \in Moved(c) :
         \/ lobby' = FindSquad(w, c)
         \/ \E s \in SquadIds : lobby' = JoinWithCode(w, c, s, Dev(c))
         \/ lobby' = CreateSquad(w, c)
         \/ lobby' = w                      \* a code no squad has
    /\ UNCHANGED <<connection, voteWait, player, quickJoin>>

\* the member of c enters or leaves the game
SetPlaying(w, c, b) ==
    [w EXCEPT !.squads[w.seat[c].squad].members[w.seat[c].pos].playing = b]

\* rr_serverbound_squad_ready: outside a squad the quick join, inside it into
\* the game or, once the flower is dead, back out of it.
SquadReady(c) ==
    /\ SquadAction(c)
    /\ LET found == FindSquad(lobby, c) IN
       \/ /\ ~Seated(lobby, c)
          /\ lobby' = found
          /\ quickJoin' = [quickJoin EXCEPT ![c] = Seated(found, c)]
          /\ UNCHANGED player
       \/ /\ Seated(lobby, c) /\ ~MemberOf(lobby, c).playing
          /\ lobby' = SetPlaying(lobby, c, TRUE)
          /\ player' = [player EXCEPT ![c] = TRUE]
          /\ UNCHANGED quickJoin
       \/ /\ Seated(lobby, c) /\ MemberOf(lobby, c).playing
          /\ \/ UNCHANGED <<lobby, player>>   \* no player, or its flower dies now
             \/ /\ player[c]
                /\ lobby' = SetPlaying(lobby, c, FALSE)
                /\ player' = [player EXCEPT ![c] = FALSE]
          /\ UNCHANGED quickJoin
    /\ UNCHANGED <<connection, voteWait>>

\* mutant: the player is deleted, the slot still shows it playing
SquadUpdate_KeepsPlaying(c) ==
    /\ Listening(c) /\ Seated(lobby, c) /\ quickJoin[c]
    /\ quickJoin' = [quickJoin EXCEPT ![c] = FALSE]
    /\ LET enters == ~MemberOf(lobby, c).playing
       IN  /\ lobby' = SetPlaying(lobby, c, TRUE)
           /\ player' = [player EXCEPT ![c] = enters]
    /\ UNCHANGED <<connection, timers>>

\* rr_serverbound_squad_update: the first one after a quick join enters the game
SquadUpdate(c) ==
    /\ Listening(c) /\ Seated(lobby, c) /\ quickJoin[c]
    /\ quickJoin' = [quickJoin EXCEPT ![c] = FALSE]
    /\ LET enters == ~MemberOf(lobby, c).playing
       IN  IF enters \/ player[c]
           THEN /\ lobby' = SetPlaying(lobby, c, enters)
                /\ player' = [player EXCEPT ![c] = enters]
           ELSE UNCHANGED <<lobby, player>>
    /\ UNCHANGED <<connection, timers>>

\* rr_serverbound_private_update: a dev toggles, the owner can only open it
PrivateUpdate(c) ==
    /\ Listening(c) /\ Seated(lobby, c)
    /\ LET s == lobby.seat[c].squad
           sq == lobby.squads[s]
       IN  \/ /\ IF Dev(c) THEN sq.private ELSE sq.owner = lobby.seat[c].pos
              /\ lobby' = Configure(lobby, s, FALSE, TRUE, sq.owner)
           \/ /\ Dev(c) /\ ~sq.private
              /\ \E o \in Used(sq) :
                   lobby' = [Configure(lobby, s, TRUE, FALSE, o)
                                EXCEPT !.joined = Forget(@, s)]
    /\ UNCHANGED <<connection, timers, player, quickJoin>>

\* rr_serverbound_expose_code_update
ExposeCode(c) ==
    /\ SquadAction(c)
    /\ LET s == lobby.seat[c].squad
           sq == lobby.squads[s]
       IN  lobby' = IF /\ Seated(lobby, c) /\ sq.private
                       /\ Dev(c) \/ sq.owner = lobby.seat[c].pos
                    THEN Configure(lobby, s, TRUE, ~sq.expose, sq.owner)
                    ELSE lobby
    /\ UNCHANGED <<connection, voteWait, player, quickJoin>>

\* the member at p of squad s loses its player and its seat, and is remembered
Evict(w, s, p) ==
    LET c == w.squads[s].members[p].client
    IN  /\ \E left \in LeaveSquad(w, c) :
              lobby' = [left EXCEPT !.joined[c] = @ \cup {s}]
        /\ player' = [player EXCEPT ![c] = FALSE]

Ballot(sq, voter, p) ==
    [sq EXCEPT !.members[voter].vote = p, !.members[p].votes = (@ + 1) % 256]
Vote(w, c, p) ==
    [w EXCEPT !.squads[w.seat[c].squad] = Ballot(@, w.seat[c].pos, p)]

\* rr_serverbound_squad_kick: a dev kicks anyone, the owner of a private squad
\* its members; in a public one the votes of all other places are needed.
SquadKick(c, s, p) ==
    /\ Listening(c)
    /\ SeatTaken(s, p)
    /\ \/ Dev(c) /\ Evict(lobby, s, p) /\ UNCHANGED voteWait
       \/ /\ ~Dev(c) /\ Seated(lobby, c)
          /\ lobby.seat[c].squad = s /\ lobby.seat[c].pos # p
          /\ \/ /\ lobby.squads[s].private
                /\ lobby.squads[s].owner = lobby.seat[c].pos
                /\ Evict(lobby, s, p)
                /\ UNCHANGED voteWait
             \/ /\ ~lobby.squads[s].private
                /\ voteWait[c] = 0
                /\ voteWait' = [voteWait EXCEPT ![c] = VoteTicks]
                /\ LET voted == Vote(lobby, c, p)
                   IN  IF voted.squads[s].members[p].votes < SquadSize - 1
                       THEN lobby' = voted /\ UNCHANGED player
                       ELSE Evict(voted, s, p)
    /\ UNCHANGED <<connection, actionWait, quickJoin>>

\* rr_serverbound_squad_transfer_ownership
TransferOwnership(c, s, p) ==
    /\ Listening(c)
    /\ SeatTaken(s, p)
    /\ lobby.squads[s].private
    /\ ~Dev(c) => lobby.seat[c] = [squad |-> s, pos |-> lobby.squads[s].owner]
    /\ lobby' = Configure(lobby, s, TRUE, lobby.squads[s].expose, p)
    /\ UNCHANGED <<connection, timers, player, quickJoin>>

(***************************************************************************)
(* The tick: one round of server_tick's loop over the clients.             *)
(***************************************************************************)
\* mutant: the ballot is taken back, the tally stays
Retract_KeepsTally(w, c) ==
    IF ~Seated(w, c) THEN w
    ELSE [w EXCEPT !.squads[w.seat[c].squad].members[w.seat[c].pos].vote = NoVote]

\* mutant: the timer runs out, the ballot stands
Retract_Never(w, c) == w

\* the vote of c has run out
Retract(w, c) ==
    IF ~Seated(w, c) \/ MemberOf(w, c).vote = NoVote THEN w
    ELSE LET s == w.seat[c].squad
         IN  [w EXCEPT !.squads[s].members =
                [Uncount(@, w.seat[c].pos) EXCEPT ![w.seat[c].pos].vote = NoVote]]

\* mutant: the count stands while a player is still in the game
Gone_NotWhilePlaying(c) ==
    IF status[c] = "disconnected" /\ ~player[c] THEN goneTicks[c] + 1 ELSE goneTicks[c]

\* how long a connection has been lost, this tick included
Gone(c) == IF status[c] = "disconnected" THEN goneTicks[c] + 1 ELSE goneTicks[c]

\* the place of a lost connection has been held long enough
Expired(c) == status[c] = "disconnected" /\ Gone(c) > ReconnectTicks

Tick(c) ==
    /\ InUse(c)
    /\ actionWait' = [actionWait EXCEPT ![c] = IF @ > 0 THEN @ - 1 ELSE 0]
    /\ voteWait' = [voteWait EXCEPT ![c] = IF @ > 0 THEN @ - 1 ELSE 0]
    /\ LET w == IF voteWait[c] = 1 THEN Retract(lobby, c) ELSE lobby
           idle == status[c] = "verified" /\ player[c] /\ ~Dev(c)
           Out == /\ lobby' \in LeaveSquad(w, c)
                  /\ player' = [player EXCEPT ![c] = FALSE]
       IN  /\ goneTicks' = [goneTicks EXCEPT ![c] = Gone(c)]
           /\ status' = [status EXCEPT ![c] = IF Expired(c) THEN "free" ELSE @]
           /\ \/ Expired(c) /\ Out
              \/ idle /\ Out                  \* RR_AFK_TIMEOUT has passed
              \/ ~Expired(c) /\ lobby' = w /\ UNCHANGED player
    /\ UNCHANGED <<pendingKick, uuid, quickJoin>>

Next ==
    \E c \in Clients :
       \/ Connect(c)
       \/ \E a \in Accounts : FirstPacket(c, a)
       \/ MarkKicked(c)
       \/ Close(c)
       \/ AccountReply(c)
       \/ SquadLeave(c)
       \/ SquadJoin(c)
       \/ SquadReady(c)
       \/ SquadUpdate(c)
       \/ PrivateUpdate(c)
       \/ ExposeCode(c)
       \/ \E s \in SquadIds, p \in Positions :
             SquadKick(c, s, p) \/ TransferOwnership(c, s, p)
       \/ Tick(c)

Spec == Init /\ [][Next]_vars

\* The tick runs 25 times a second for every slot and asks for a kicked
\* connection to be closed; clients and the master promise nothing.
Fairness == \A c \in Clients : WF_vars(Tick(c)) /\ WF_vars(CloseKicked(c))
FairSpec == Spec /\ Fairness

(***************************************************************************)
(* Properties.                                                             *)
(***************************************************************************)
\* Types, and what a slot may hold in each stage of its connection: only a
\* verified client, or one that was and lost its connection, has a seat or a player.
TypeOK ==
    /\ status \in [Clients -> Statuses]
    /\ pendingKick \in [Clients -> BOOLEAN]
    /\ uuid \in [Clients -> Accounts \cup {NoAccount}]
    /\ player \in [Clients -> BOOLEAN]
    /\ quickJoin \in [Clients -> BOOLEAN]
    /\ actionWait \in [Clients -> 0..ActionTicks]
    /\ voteWait \in [Clients -> 0..VoteTicks]
    /\ goneTicks \in [Clients -> 0..(ReconnectTicks + 1)]
    /\ lobby \in Lobbies
    /\ \A c \in Clients :
          status[c] \in {"free", "connected"} => ~Seated(lobby, c) /\ ~player[c]

\* Every seat a client believes it has names that client, and every occupied
\* slot of a squad names a client that believes it sits there: true through
\* takeovers, lost connections, kicks and timeouts.
SeatsMatch(w) ==
    /\ \A c \in Clients : Seated(w, c) => MemberOf(w, c).client = c
    /\ \A s \in SquadIds : \A p \in Used(w.squads[s]) :
          w.seat[w.squads[s].members[p].client] = [squad |-> s, pos |-> p]
SeatsMatchMembers == SeatsMatch(lobby)

\* A squad is consistent: member_count counts the occupied slots, a member votes
\* for another member, each tally is the number of ballots for that member, a
\* private squad belongs to a member and a public one shows its code.
Voters(sq, p) == {q \in Used(sq) : sq.members[q].vote = p}
CountsOK(sq) ==
    /\ sq.count = Cardinality(Used(sq))
    /\ \A p \in Used(sq) : /\ sq.members[p].vote \in {NoVote} \cup (Used(sq) \ {p})
                           /\ sq.members[p].votes = Cardinality(Voters(sq, p))
SettingsOK(sq) ==
    /\ sq.private => sq.owner \in Used(sq)
    /\ ~sq.private => sq.expose
SquadOK(sq) == CountsOK(sq) /\ SettingsOK(sq)
SquadsConsistent == \A s \in SquadIds : SquadOK(lobby.squads[s])

\* A ballot stands only while its voter's timer runs, so no one votes twice and
\* every ballot is taken back in the end.
BallotsTimed ==
    \A c \in Clients :
        Seated(lobby, c) /\ MemberOf(lobby, c).vote # NoVote => voteWait[c] > 0

\* A member shown as playing has a player: otherwise its ready button would do
\* nothing any more.
PlayingHasPlayer ==
    \A c \in Clients : Seated(lobby, c) /\ MemberOf(lobby, c).playing => player[c]

\* An account that is not a dev has at most one session that is not on its way
\* out, however its connections and the answers of the master interleave.
OneSessionPerAccount ==
    \A c, j \in Clients :
        c # j /\ Settled(j, c) /\ Settled(c, j) /\ uuid[c] = uuid[j] => Dev(c)

\* Nobody is voted out of a public squad unless every other place of the squad is
\* taken and its member votes for it, the last of them in this step.
KickIsUnanimous ==
    \A s \in SquadIds, p \in Positions :
       LET sq == lobby.squads[s] IN
       ~sq.private /\ lobby'.squads[s].members[p].client # sq.members[p].client =>
       \A c \in Clients :
          ~Dev(c) /\ SquadKick(c, s, p) =>
             /\ Used(sq) = Positions
             /\ \A q \in Positions \ {p, lobby.seat[c].pos} : sq.members[q].vote = p
VoteKickIsUnanimous == [][KickIsUnanimous]_vars

\* A client that is not a dev becomes locked out of a private squad only by being
\* kicked from it, or with the session it takes over: never by what an earlier
\* squad of that index, or an earlier client of that slot, left behind.
LockedOut(c, s) ==
    InUse(c) /\ ~Dev(c) /\ lobby.squads[s].private /\ s \in lobby.joined[c]
KickLocksOut ==
    \A c \in Clients, s \in SquadIds :
       LockedOut(c, s)' /\ ~LockedOut(c, s)
       => \/ Seated(lobby, c) /\ lobby.seat[c].squad = s
             /\ \E k \in Clients : SquadKick(k, s, lobby.seat[c].pos)
          \/ \E j \in Clients : Settled(c, j) /\ uuid[j] = uuid[c] /\ LockedOut(j, s)
LockedOutOnlyByKick == [][KickLocksOut]_vars

\* A place held for a lost connection is given up or taken over in the end.
LostConnectionsEnd ==
    \A c \in Clients : status[c] = "disconnected" ~> status[c] # "disconnected"

\* A connection the server wants closed gives its slot back in the end.
KickedConnectionsEnd ==
    \A c \in Clients : (InUse(c) /\ pendingKick[c]) ~> (status[c] = "free")
=============================================================================
