------------------------------ MODULE CtfRules ------------------------------
(***************************************************************************)
(* The rules of capture the flag (Server/CtfRules.c): one tick of a match  *)
(* whose flags exist, given where the players are.  Flags stand on flag    *)
(* points, are carried, lie on the ground or are banked; a team without    *)
(* flags is out and the team that holds every flag of every other team has *)
(* won.                                                                    *)
(*                                                                         *)
(* The map is abstracted to places: every flag point is a place, and Field *)
(* is everywhere else.  A player at a place is within every radius of the  *)
(* rules there and outside of those of the other places.  The events for   *)
(* the banners of the clients are left out.  Teams that are not in the     *)
(* match have no flags and are not modelled.                               *)
(***************************************************************************)
EXTENDS Integers, FiniteSetsExt

CONSTANTS
    TeamCount,      \* teams in the match, team_count
    FlagsPerTeam,   \* RR_CTF_FLAGS_PER_TEAM
    PlayerCount,    \* player slots of the server that are used
    SetupTicks,     \* RR_CTF_SETUP_TICKS
    ReturnTicks     \* RR_CTF_RETURN_TICKS

ASSUME CtfAssumption ==
    /\ TeamCount \in 2 .. 4 /\ FlagsPerTeam \in 1 .. 3
    /\ PlayerCount \in Nat \ {0}
    /\ SetupTicks \in 1 .. 255 /\ ReturnTicks \in 1 .. 65535

Teams == 0 .. TeamCount - 1
Players == 0 .. PlayerCount - 1
NoTeam == 255       \* RR_CTF_NONE
Nobody == -1
NoFlag == <<-1, -1>>

\* A flag is named by its owner and its index, a flag point by its team and its
\* index, and both are visited in the order of their numbers.
FlagPoints == Teams \X (0 .. FlagsPerTeam - 1)
Flags == FlagPoints
Field == <<"field">>
Places == FlagPoints \union {Field}
Before(f, g) == f[1] < g[1] \/ (f[1] = g[1] /\ f[2] < g[2])
FirstOf(S) == CHOOSE f \in S : \A g \in S : f = g \/ Before(f, g)

\* The loops of the rules: Do for each of 0 to n - 1, and for each flag or point.
InTurn(n, m, Do(_, _)) ==
    LET done[k \in 0 .. n] == IF k = 0 THEN m ELSE Do(done[k - 1], k - 1)
    IN  done[n]
FlagsInTurn(m, Do(_, _)) ==
    InTurn(TeamCount, m, LAMBDA a, t :
        InTurn(FlagsPerTeam, a, LAMBDA b, i : Do(b, <<t, i>>)))

\* The team of a player: a squad in a match is locked.
TeamOf(p) == p % TeamCount

VARIABLE
    match   \* flag: where each flag is; at: the flag on each point; setup: how
            \* long somebody has stood on each point; out: eliminated; taker:
            \* last_taker; winner
rulesVars == <<match>>

-----------------------------------------------------------------------------
(* The flags.  point is where a standing flag stands and where a carried or *)
(* dropped one goes back to; place is where a carried or dropped flag is.    *)
(* Fields that nothing reads in a state have a fixed value.                  *)
Standing(t, i) == [state |-> "standing", holder |-> t, point |-> i,
                   carrier |-> Nobody, ticks |-> 0, place |-> Field]
Banked(t) == [state |-> "banked", holder |-> t, point |-> 0,
              carrier |-> Nobody, ticks |-> 0, place |-> Field]

PlaceOf(fl) == IF fl.state = "standing" THEN <<fl.holder, fl.point>> ELSE fl.place

Held(m, t) == {f \in Flags : m.flag[f].holder = t}
HeldForeign(m, t) ==
    {f \in Held(m, t) : f[1] # t /\ m.flag[f].state \in {"standing", "banked"}}
BankedFlags(m, t) == {f \in Held(m, t) : m.flag[f].state = "banked"}
CarriedBy(m, p) == {f \in Flags : m.flag[f].carrier = p}
EmptyPoints(m, t) ==
    {i \in 0 .. FlagsPerTeam - 1 : m.at[<<t, i>>] = NoFlag}

StandOnPoint(m, f, t, i) ==
    [m EXCEPT !.flag[f] = Standing(t, i), !.at[<<t, i>>] = f,
              !.setup[<<t, i>>] = 0]
BankFlag(m, f, t) == [m EXCEPT !.flag[f] = Banked(t)]

\* A flag on the ground goes back to the point it came from, to another empty
\* point when that one was set up again, or into the bank.
SendHome(m, f) ==
    LET fl == m.flag[f]
        empty == EmptyPoints(m, fl.holder)
    IN  IF fl.point \in empty THEN StandOnPoint(m, f, fl.holder, fl.point)
        ELSE IF empty # {} THEN StandOnPoint(m, f, fl.holder, Min(empty))
        ELSE BankFlag(m, f, fl.holder)

\* mutant: the point keeps the flag that was taken from it
TakeFlag_KeepsPoint(m, f, p) ==
    LET fl == m.flag[f]
    IN  [m EXCEPT !.flag[f] = [fl EXCEPT !.state = "carried", !.carrier = p,
                                         !.ticks = 0, !.place = PlaceOf(fl)]]

TakeFlag(m, f, p) ==
    LET fl == m.flag[f]
        taken == [fl EXCEPT !.state = "carried", !.carrier = p, !.ticks = 0,
                            !.place = PlaceOf(fl)]
        from == <<fl.holder, fl.point>>
    IN  IF fl.state = "standing"
        THEN [m EXCEPT !.flag[f] = taken, !.at[from] = NoFlag, !.setup[from] = 0]
        ELSE [m EXCEPT !.flag[f] = taken]

DropFlag(m, f, place) ==
    [m EXCEPT !.flag[f].state = "dropped", !.flag[f].carrier = Nobody,
              !.flag[f].ticks = ReturnTicks, !.flag[f].place = place]

\* mutant: a team that is out may be given the spoils
Spoils_AnyTeam(m, t, by) ==
    LET others == Teams \ {t}
        most == {o \in others : \A q \in others :
                    Cardinality(Held(m, o)) >= Cardinality(Held(m, q))}
    IN  IF by \in others THEN by ELSE Min(most)

\* A team is out: what it has banked goes to the team that finished it, or to
\* the first of those that hold the most.
Spoils(m, t, by) ==
    LET in == {o \in Teams : o # t /\ ~m.out[o]}
        most == {o \in in : \A q \in in :
                    Cardinality(Held(m, o)) >= Cardinality(Held(m, q))}
    IN  IF by \in in THEN by ELSE IF in = {} THEN t ELSE Min(most)
Eliminate(m, t, by) ==
    IF m.out[t] THEN m
    ELSE [m EXCEPT !.out[t] = TRUE,
                   !.flag = [f \in Flags |-> IF f \in BankedFlags(m, t)
                                             THEN Banked(Spoils(m, t, by))
                                             ELSE m.flag[f]]]

-----------------------------------------------------------------------------
(* One tick.  A report r says of every player whether they are alive, dead   *)
(* or gone, and where they are unless they are gone.                          *)

\* A carried flag follows its carrier and falls where they went down, or where
\* it was when they are gone; one on the ground waits to go home.
MoveFlag(m, f, r) ==
    LET fl == m.flag[f] IN
    CASE fl.state = "carried" ->
            LET p == r[fl.carrier] IN
            IF p.is = "alive" /\ ~m.out[TeamOf(fl.carrier)]
            THEN [m EXCEPT !.flag[f].place = p.place]
            ELSE DropFlag(m, f, IF p.is = "gone" THEN fl.place ELSE p.place)
      [] fl.state = "dropped" ->
            LET waited == [m EXCEPT !.flag[f].ticks = @ - 1]
            IN  IF fl.ticks = 1 THEN SendHome(waited, f) ELSE waited
      [] OTHER -> m
MoveFlags(m, r) == FlagsInTurn(m, LAMBDA a, f : MoveFlag(a, f, r))

\* mutant: every flag that nobody carries can be taken
InReach_Banked(m, f, place) ==
    m.flag[f].state # "carried" /\ PlaceOf(m.flag[f]) = place

InReach(m, f, place) ==
    m.flag[f].state \in {"standing", "dropped"} /\ PlaceOf(m.flag[f]) = place

\* A player banks the flag they carry on a point of their team, or takes the
\* first flag in reach that another team holds, after sending home those of
\* their own on the ground that come before it.
Bank(m, p, place) ==
    LET f == FirstOf(CarriedBy(m, p))
    IN  IF place # Field /\ place[1] = TeamOf(p)
        THEN [BankFlag(m, f, TeamOf(p)) EXCEPT
                !.taker[m.flag[f].holder] = TeamOf(p)]
        ELSE m
GrabNext(a, f, p, place) ==
    IF a.taken \/ ~InReach(a.m, f, place) THEN a
    ELSE IF a.m.flag[f].holder # TeamOf(p)
    THEN [m |-> TakeFlag(a.m, f, p), taken |-> TRUE]
    ELSE IF a.m.flag[f].state = "dropped" THEN [a EXCEPT !.m = SendHome(a.m, f)]
    ELSE a
Grab(m, p, place) ==
    FlagsInTurn([m |-> m, taken |-> FALSE],
                LAMBDA a, f : GrabNext(a, f, p, place)).m

\* The turns of the players; a is the match and the points where somebody may
\* set a flag up.
PlayerTurn(a, p, r) ==
    LET t == TeamOf(p)
        m == IF CarriedBy(a.m, p) # {} THEN Bank(a.m, p, r[p].place)
             ELSE Grab(a.m, p, r[p].place)
        here == IF BankedFlags(m, t) = {} THEN {}
                ELSE {pt \in {<<t, i>> : i \in EmptyPoints(m, t)} : pt = r[p].place}
    IN  IF r[p].is # "alive" \/ a.m.out[t] THEN a
        ELSE [m |-> m, present |-> a.present \union here]
PlayerTurns(m, r) ==
    InTurn(PlayerCount, [m |-> m, present |-> {}],
           LAMBDA a, p : PlayerTurn(a, p, r))

\* A banked flag is set up on an empty point where somebody of the team stood
\* for long enough.
SetUpPoint(m, pt, present) ==
    LET banked == BankedFlags(m, pt[1])
        stood == m.setup[pt] + 1
    IN  CASE m.out[pt[1]] -> m
          [] ~m.out[pt[1]] /\ (m.at[pt] # NoFlag \/ banked = {}) ->
                [m EXCEPT !.setup[pt] = 0]
          [] ~m.out[pt[1]] /\ m.at[pt] = NoFlag /\ banked # {} ->
                IF pt \notin present
                THEN [m EXCEPT !.setup[pt] = IF @ > 0 THEN @ - 1 ELSE 0]
                ELSE IF stood < SetupTicks THEN [m EXCEPT !.setup[pt] = stood]
                ELSE StandOnPoint(m, FirstOf(banked), pt[1], pt[2])
SetUpPoints(a) ==
    FlagsInTurn(a.m, LAMBDA m, pt : SetUpPoint(m, pt, a.present))

\* A team that holds nothing is out; eliminating one may move flags, so all
\* teams are looked at until nothing changes, at most once per team.
JudgeTeam(m, t) ==
    IF Held(m, t) = {} THEN Eliminate(m, t, m.taker[t]) ELSE m
JudgeTeams(m) ==
    InTurn(TeamCount, m, LAMBDA a, round : InTurn(TeamCount, a, JudgeTeam))
FindWinner(m) ==
    LET won == {t \in Teams : ~m.out[t] /\ Cardinality(HeldForeign(m, t)) =
                                  FlagsPerTeam * (TeamCount - 1)}
    IN  [m EXCEPT !.winner = IF won = {} THEN NoTeam ELSE Min(won)]

Step(m, r) == FindWinner(JudgeTeams(SetUpPoints(PlayerTurns(MoveFlags(m, r), r))))

\* The flags are created on the points of their teams.
CreateFlags ==
    [flag |-> [f \in Flags |-> Standing(f[1], f[2])],
     at |-> [pt \in FlagPoints |-> pt],
     setup |-> [pt \in FlagPoints |-> 0],
     out |-> [t \in Teams |-> FALSE],
     taker |-> [t \in Teams |-> NoTeam],
     winner |-> NoTeam]
RulesInit == match = CreateFlags

\* What a report may say.  Somebody without a flag who is dead is as good as
\* gone, and only a carrier dies away from everything.
Away == [is |-> "gone", place |-> Field]
Reports(m, left) ==
    {r \in [Players -> {Away} \union [is : {"alive", "dead"}, place : Places]] :
        \A p \in Players :
            /\ r[p].is = "dead" => CarriedBy(m, p) # {}
            /\ TeamOf(p) \in left => r[p] = Away}

EmptySquadsOut(m, left) ==
    InTurn(TeamCount, m, LAMBDA a, t : IF t \in left THEN Eliminate(a, t, NoTeam)
                                       ELSE a)

\* One tick of the server in the war: the teams whose squads are empty are out,
\* then the rules.
RulesTick(left, r) ==
    /\ match.winner = NoTeam
    /\ match' = Step(EmptySquadsOut(match, left), r)

\* At most one squad empties in a tick (a bound).
RulesNext == \E left \in {{}} \union {{t} : t \in {u \in Teams : ~match.out[u]}} :
            \E r \in Reports(match, left) : RulesTick(left, r)
RulesSpec == RulesInit /\ [][RulesNext]_rulesVars

-----------------------------------------------------------------------------
(* Properties. *)
\* The fields of a flag and of a point have the values the server gives them.
RulesTypeOK ==
    /\ match.flag \in [Flags -> [state : {"standing", "carried", "dropped", "banked"},
                                 holder : Teams, point : 0 .. FlagsPerTeam - 1,
                                 carrier : Players \union {Nobody},
                                 ticks : 0 .. ReturnTicks, place : Places]]
    /\ match.at \in [FlagPoints -> Flags \union {NoFlag}]
    /\ match.setup \in [FlagPoints -> 0 .. SetupTicks]
    /\ match.out \in [Teams -> BOOLEAN]
    /\ match.taker \in [Teams -> Teams \union {NoTeam}]
    /\ match.winner \in Teams \union {NoTeam}

\* A flag stands on a point exactly when the point has that flag: taking, going
\* home, setting up and losing a team keep both sides of the link, so no flag
\* is lost and no point blocked.
PointsMatchFlags ==
    \A f \in Flags, pt \in FlagPoints :
        match.at[pt] = f <=> /\ match.flag[f].state = "standing"
                             /\ <<match.flag[f].holder, match.flag[f].point>> = pt

\* A flag is with a player exactly while it is carried, and a player carries one
\* flag at a time, of a team that is not theirs.
OneFlagEach ==
    /\ \A f \in Flags : LET fl == match.flag[f] IN
        /\ fl.state = "carried" <=> fl.carrier # Nobody
        /\ fl.carrier # Nobody => fl.holder # TeamOf(fl.carrier)
    /\ \A p \in Players : Cardinality(CarriedBy(match, p)) <= 1

\* A team that is still in holds a flag (Shared/Ctf.h: it stays in the game while
\* it holds even one).
InTeamsHoldFlags == \A t \in Teams : match.out[t] \/ Held(match, t) # {}

\* Flags, points, carriers and teams agree with one another after every tick.
FlagsConsistent ==
    RulesTypeOK /\ PointsMatchFlags /\ OneFlagEach /\ InTeamsHoldFlags

\* What is banked is safe (Server/Ctf.h): it leaves the bank only for a point of
\* the team, or when the team is out.
BankIsSafe ==
    [][\A f \in Flags : LET fl == match.flag[f] IN
        fl.state = "banked" /\ ~match'.out[fl.holder] =>
            /\ match'.flag[f].holder = fl.holder
            /\ match'.flag[f].state \in {"banked", "standing"}]_rulesVars

\* When a team goes out, what it had banked goes to teams that are still in, if
\* any is, however many teams go out in one tick.
SpoilsStayInPlay ==
    [][\A f \in Flags : LET fl == match.flag[f] IN
        /\ fl.state = "banked" /\ ~match.out[fl.holder] /\ match'.out[fl.holder]
        /\ \E t \in Teams : ~match'.out[t]
        => ~match'.out[match'.flag[f].holder]]_rulesVars

\* The flags of a team that is out are there for anyone to take
\* (Server/CtfRules.c:260-261), so that a team can still win.
OutTeamsHaveNoBank ==
    (\E t \in Teams : ~match.out[t]) =>
        \A t \in Teams : match.out[t] => BankedFlags(match, t) = {}
=============================================================================
