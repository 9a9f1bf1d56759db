---------------------------- MODULE CtfRulesProof ----------------------------
(***************************************************************************)
(* The invariants of CtfRules and what a tick may do to the banks, for any *)
(* number of teams, flags and players the server may have.                 *)
(*                                                                         *)
(* A tick is a sequence of loops over flags, points, players and teams.    *)
(* For each of them there is a set of matches the loop does not leave,     *)
(* given the match it starts from; LoopLemmas takes care of the rest.      *)
(***************************************************************************)
EXTENDS CtfRules, LoopLemmas

FlagRecords ==
    [state : {"standing", "carried", "dropped", "banked"},
     holder : Teams, point : 0 .. FlagsPerTeam - 1,
     carrier : Players \union {Nobody}, ticks : 0 .. ReturnTicks, place : Places]
Matches ==
    [flag : [Flags -> FlagRecords], at : [FlagPoints -> Flags \union {NoFlag}],
     setup : [FlagPoints -> 0 .. SetupTicks], out : [Teams -> BOOLEAN],
     taker : [Teams -> Teams \union {NoTeam}], winner : Teams \union {NoTeam}]

\* What the server gives a match, but for the teams that hold nothing: the parts
\* of FlagsConsistent, and that a flag on the ground still waits.
Point(fl) == <<fl.holder, fl.point>>
Linked(m) ==
    \A f \in Flags, pt \in FlagPoints :
        m.at[pt] = f <=> m.flag[f].state = "standing" /\ Point(m.flag[f]) = pt
Carried(m) ==
    /\ \A f \in Flags : /\ m.flag[f].state = "carried" <=> m.flag[f].carrier # Nobody
                        /\ m.flag[f].carrier # Nobody =>
                              m.flag[f].holder # TeamOf(m.flag[f].carrier)
    /\ \A f, g \in Flags : m.flag[f].carrier # Nobody /\ m.flag[f].carrier = m.flag[g].carrier
                              => f = g
Waiting(m) == \A f \in Flags : m.flag[f].state = "dropped" => m.flag[f].ticks > 0
Sound == {m \in Matches : Linked(m) /\ Carried(m) /\ Waiting(m)}

-----------------------------------------------------------------------------
(* Teams, flags and players.                                                *)
LEMMA Sizes ==
    /\ TeamCount \in Nat \ {0} /\ FlagsPerTeam \in Nat \ {0} /\ PlayerCount \in Nat \ {0}
    /\ SetupTicks \in Nat \ {0} /\ ReturnTicks \in Nat \ {0}
    /\ 0 \in Teams /\ Nobody \notin Players /\ NoTeam \notin Teams
BY CtfAssumption DEF Teams, Players, Nobody, NoTeam

LEMMA FlagParts ==
    /\ \A f \in Flags : f[1] \in Teams /\ f[2] \in 0 .. FlagsPerTeam - 1 /\ f = <<f[1], f[2]>>
    /\ \A t \in Teams, i \in 0 .. FlagsPerTeam - 1 : <<t, i>> \in Flags
    /\ Flags = FlagPoints /\ NoFlag \notin Flags
BY Sizes DEF Flags, FlagPoints, Teams, NoFlag

\* A player is in one of the teams of the match.
LEMMA TeamOfPlayer == \A p \in Players : TeamOf(p) \in Teams
BY CtfAssumption DEF TeamOf, Players, Teams

\* The first flag of some is one of them.
LEMMA FirstOfIsOne ==
    ASSUME NEW S \in SUBSET Flags, S # {}
    PROVE  FirstOf(S) \in S
<1> DEFINE A == {f[1] : f \in S}
<1>1. PICK a \in A : \A b \in A : a <= b
  <2>1. A \in SUBSET Nat /\ A # {}
    BY FlagParts DEF Teams
  <2>2. QED
    BY <2>1, Least
<1> DEFINE B == {f[2] : f \in {g \in S : g[1] = a}}
<1>2. PICK i \in B : \A j \in B : i <= j
  <2>1. B \in SUBSET Nat /\ B # {}
    BY <1>1, FlagParts
  <2>2. QED
    BY <2>1, Least
<1>3. PICK f \in S : f[1] = a /\ f[2] = i
  BY <1>2
<1>4. ASSUME NEW g \in S
      PROVE  f = g \/ Before(f, g)
  <2>1. /\ a <= g[1] /\ (g[1] = a => i <= g[2])
        /\ f = <<a, i>> /\ g = <<g[1], g[2]>> /\ a \in Nat /\ i \in Nat
        /\ g[1] \in Nat /\ g[2] \in Nat
    BY <1>1, <1>2, <1>3, FlagParts DEF Teams
  <2>2. QED
    BY <1>3, <2>1 DEF Before
<1>5. QED
  BY <1>4 DEF FirstOf

\* The least of some natural numbers is one of them.
LEMMA MinIsOne ==
    ASSUME NEW S \in SUBSET Nat, S # {}
    PROVE  Min(S) \in S
<1>1. \E n \in S : \A k \in S : n <= k
  BY Least
<1>2. QED
  BY <1>1 DEF Min

\* Some team of those given holds the most flags.
LEMMA SomeHoldTheMost ==
    ASSUME NEW m \in Matches, NEW S \in SUBSET Teams, S # {}
    PROVE  \E o \in S : \A q \in S : Cardinality(Held(m, o)) >= Cardinality(Held(m, q))
<1>1. IsFiniteSet(Flags) /\ Cardinality(Flags) \in Nat
  <2>1. IsFiniteSet(Teams) /\ IsFiniteSet(0 .. FlagsPerTeam - 1)
    BY FS_Interval, Sizes DEF Teams
  <2>2. QED
    BY <2>1, FS_Product, FS_CardinalityType DEF Flags, FlagPoints
<1>2. \A o \in Teams : /\ Cardinality(Held(m, o)) \in Nat
                       /\ Cardinality(Held(m, o)) <= Cardinality(Flags)
  <2>1. \A o \in Teams : Held(m, o) \in SUBSET Flags
    BY DEF Held
  <2>2. QED
    BY <1>1, <2>1, FS_Subset, FS_CardinalityType
<1> DEFINE Short(o) == Cardinality(Flags) - Cardinality(Held(m, o))
           T == {Short(o) : o \in S}
<1>3. PICK n \in T : \A k \in T : n <= k
  <2>1. T \in SUBSET Nat /\ T # {}
    BY <1>1, <1>2
  <2>2. QED
    BY <2>1, Least
<1>4. PICK o \in S : n = Short(o)
  BY <1>3
<1>5. \A q \in S : Short(o) <= Short(q)
  BY <1>3, <1>4
<1>6. QED
  BY <1>1, <1>2, <1>5

-----------------------------------------------------------------------------
(* One flag moves.                                                          *)

\* Nothing but f, and what is on the points, differs from m to n.
Only(m, n, f) ==
    /\ n.out = m.out /\ n.taker = m.taker /\ n.winner = m.winner
    /\ \A g \in Flags : g # f => n.flag[g] = m.flag[g]

LEMMA StandOnPointSound ==
    ASSUME NEW m \in Matches, Linked(m), Carried(m), NEW f \in Flags,
           \A g \in Flags : g # f /\ m.flag[g].state = "dropped" => m.flag[g].ticks > 0,
           NEW t \in Teams, NEW i \in 0 .. FlagsPerTeam - 1,
           m.flag[f].state # "standing", m.at[<<t, i>>] = NoFlag
    PROVE  /\ StandOnPoint(m, f, t, i) \in Sound
           /\ Only(m, StandOnPoint(m, f, t, i), f)
           /\ StandOnPoint(m, f, t, i).flag[f] = Standing(t, i)
<1> DEFINE n == StandOnPoint(m, f, t, i)
           pt == <<t, i>>
<1>1. pt \in FlagPoints /\ Standing(t, i) \in FlagRecords
  BY FlagParts, Sizes DEF Standing, FlagRecords, Places
<1>2. /\ n \in Matches
      /\ n.flag = [m.flag EXCEPT ![f] = Standing(t, i)]
      /\ n.at = [m.at EXCEPT ![pt] = f]
      /\ n.out = m.out /\ n.taker = m.taker /\ n.winner = m.winner
  <2>1. n = [m EXCEPT !.flag = [m.flag EXCEPT ![f] = Standing(t, i)],
                      !.at = [m.at EXCEPT ![pt] = f],
                      !.setup = [m.setup EXCEPT ![pt] = 0]]
    BY DEF StandOnPoint, Matches
  <2>2. /\ [m.flag EXCEPT ![f] = Standing(t, i)] \in [Flags -> FlagRecords]
        /\ [m.at EXCEPT ![pt] = f] \in [FlagPoints -> Flags \union {NoFlag}]
        /\ [m.setup EXCEPT ![pt] = 0] \in [FlagPoints -> 0 .. SetupTicks]
    BY <1>1, Sizes DEF Matches
  <2> HIDE DEF n
  <2>3. QED
    BY <2>1, <2>2 DEF Matches
<1> HIDE DEF n
<1>3. n.flag[f] = Standing(t, i) /\ \A g \in Flags : g # f => n.flag[g] = m.flag[g]
  BY <1>2 DEF Matches
<1>4. n.at[pt] = f /\ \A q \in FlagPoints : q # pt => n.at[q] = m.at[q]
  BY <1>1, <1>2 DEF Matches
<1>5. Linked(n)
  <2>1. ASSUME NEW g \in Flags, NEW q \in FlagPoints
        PROVE  n.at[q] = g <=> n.flag[g].state = "standing" /\ Point(n.flag[g]) = q
    <3>1. m.at[q] = g <=> m.flag[g].state = "standing" /\ Point(m.flag[g]) = q
      BY DEF Linked
    <3>2. CASE g = f
      BY <1>3, <1>4, <3>1, <3>2 DEF Standing, Point
    <3>3. CASE g # f
      BY <1>1, <1>3, <1>4, <3>1, <3>3, FlagParts
    <3>4. QED
      BY <3>2, <3>3
  <2>2. QED
    BY <2>1 DEF Linked
<1>6. Carried(n)
  BY <1>3 DEF Carried, Standing
<1>7. Waiting(n)
  BY <1>3 DEF Waiting, Standing
<1>8. QED
  BY <1>2, <1>3, <1>5, <1>6, <1>7 DEF Sound, Only, n

LEMMA BankFlagSound ==
    ASSUME NEW m \in Matches, Linked(m), Carried(m), NEW f \in Flags,
           \A g \in Flags : g # f /\ m.flag[g].state = "dropped" => m.flag[g].ticks > 0,
           NEW t \in Teams, m.flag[f].state # "standing"
    PROVE  /\ BankFlag(m, f, t) \in Sound
           /\ Only(m, BankFlag(m, f, t), f)
           /\ BankFlag(m, f, t).flag[f] = Banked(t)
<1> DEFINE n == BankFlag(m, f, t)
<1>1. Banked(t) \in FlagRecords
  BY Sizes DEF Banked, FlagRecords, Places
<1>2. /\ n \in Matches
      /\ n.flag = [m.flag EXCEPT ![f] = Banked(t)]
      /\ n.at = m.at /\ n.out = m.out /\ n.taker = m.taker /\ n.winner = m.winner
  BY <1>1 DEF BankFlag, Matches
<1> HIDE DEF n
<1>3. n.flag[f] = Banked(t) /\ \A g \in Flags : g # f => n.flag[g] = m.flag[g]
  BY <1>2 DEF Matches
<1>4. Linked(n)
  BY <1>2, <1>3 DEF Linked, Banked
<1>5. Carried(n) /\ Waiting(n)
  BY <1>3 DEF Carried, Waiting, Banked
<1>6. QED
  BY <1>2, <1>3, <1>4, <1>5 DEF Sound, Only, n

\* A flag that goes home stands or is banked, with the team that held it.
LEMMA SendHomeSound ==
    ASSUME NEW m \in Matches, Linked(m), Carried(m), NEW f \in Flags,
           \A g \in Flags : g # f /\ m.flag[g].state = "dropped" => m.flag[g].ticks > 0,
           m.flag[f].state = "dropped"
    PROVE  /\ SendHome(m, f) \in Sound
           /\ Only(m, SendHome(m, f), f)
           /\ SendHome(m, f).flag[f].carrier = Nobody
<1> DEFINE t == m.flag[f].holder
           empty == EmptyPoints(m, t)
<1>1. t \in Teams /\ m.flag[f].point \in 0 .. FlagsPerTeam - 1
  BY DEF Matches, FlagRecords
<1>2. \A i \in empty : i \in 0 .. FlagsPerTeam - 1 /\ m.at[<<t, i>>] = NoFlag
  BY DEF EmptyPoints
<1>3. empty # {} => Min(empty) \in empty
  <2>1. empty \subseteq 0 .. FlagsPerTeam - 1
    BY <1>2
  <2>2. empty \in SUBSET Nat
    BY <2>1, Sizes
  <2>3. QED
    BY <2>2, MinIsOne
<1>4. SendHome(m, f) \in {StandOnPoint(m, f, t, i) : i \in empty} \union {BankFlag(m, f, t)}
  BY <1>3 DEF SendHome
<1>5. CASE SendHome(m, f) = BankFlag(m, f, t)
  <2>1. /\ BankFlag(m, f, t) \in Sound
        /\ Only(m, BankFlag(m, f, t), f)
        /\ BankFlag(m, f, t).flag[f] = Banked(t)
    BY <1>1, BankFlagSound
  <2>2. QED
    BY <1>5, <2>1 DEF Banked
<1>6. ASSUME NEW i \in empty, SendHome(m, f) = StandOnPoint(m, f, t, i)
      PROVE  /\ SendHome(m, f) \in Sound
             /\ Only(m, SendHome(m, f), f)
             /\ SendHome(m, f).flag[f].carrier = Nobody
  <2>1. /\ StandOnPoint(m, f, t, i) \in Sound
        /\ Only(m, StandOnPoint(m, f, t, i), f)
        /\ StandOnPoint(m, f, t, i).flag[f] = Standing(t, i)
    BY <1>1, <1>2, StandOnPointSound
  <2>2. QED
    BY <1>6, <2>1 DEF Standing
<1>7. QED
  BY <1>4, <1>5, <1>6

\* A player without a flag takes one that another team holds.
LEMMA TakeFlagSound ==
    ASSUME NEW m \in Sound, NEW f \in Flags, NEW p \in Players,
           m.flag[f].state \in {"standing", "dropped"}, m.flag[f].holder # TeamOf(p),
           CarriedBy(m, p) = {}
    PROVE  TakeFlag(m, f, p) \in Sound /\ Only(m, TakeFlag(m, f, p), f)
<1> DEFINE n == TakeFlag(m, f, p)
           fl == m.flag[f]
           from == Point(fl)
           taken == [fl EXCEPT !.state = "carried", !.carrier = p, !.ticks = 0,
                               !.place = PlaceOf(fl)]
<1>1. m \in Matches /\ fl \in FlagRecords /\ from \in FlagPoints /\ from \in Flags
  BY FlagParts DEF Sound, Matches, FlagRecords, Point
<1>2. /\ taken \in FlagRecords
      /\ taken.state = "carried" /\ taken.carrier = p /\ taken.holder = fl.holder
  <2>1. PlaceOf(fl) \in Places
    BY <1>1 DEF PlaceOf, Places, FlagRecords, Point
  <2>2. QED
    <3>1. PlaceOf(fl) \in Places /\ 0 \in 0 .. ReturnTicks /\ fl \in FlagRecords
      BY <1>1, <2>1, Sizes
    <3> HIDE DEF fl
    <3>2. taken \in FlagRecords
      BY <3>1 DEF FlagRecords
    <3>3. QED
      BY <3>1, <3>2 DEF FlagRecords
<1> DEFINE stood == fl.state = "standing"
<1>3. /\ n \in Matches
      /\ n.flag = [m.flag EXCEPT ![f] = taken]
      /\ n.at = IF stood THEN [m.at EXCEPT ![from] = NoFlag] ELSE m.at
      /\ n.out = m.out /\ n.taker = m.taker /\ n.winner = m.winner
  <2>1. n = [m EXCEPT !.flag = [m.flag EXCEPT ![f] = taken],
                      !.at = IF stood THEN [m.at EXCEPT ![from] = NoFlag] ELSE m.at,
                      !.setup = IF stood THEN [m.setup EXCEPT ![from] = 0] ELSE m.setup]
    <3>1. CASE stood
      BY <1>1, <3>1 DEF TakeFlag, Matches, Point
    <3>2. CASE ~stood
      BY <1>1, <3>2 DEF TakeFlag, Matches
    <3>3. QED
      BY <3>1, <3>2
  <2>2. /\ [m.flag EXCEPT ![f] = taken] \in [Flags -> FlagRecords]
        /\ [m.at EXCEPT ![from] = NoFlag] \in [FlagPoints -> Flags \union {NoFlag}]
        /\ [m.setup EXCEPT ![from] = 0] \in [FlagPoints -> 0 .. SetupTicks]
    BY <1>1, <1>2, Sizes DEF Matches
  <2> HIDE DEF n, taken, from, stood
  <2>3. QED
    BY <1>1, <2>1, <2>2 DEF Matches
<1> HIDE DEF n, taken
<1>4. n.flag[f] = taken /\ \A g \in Flags : g # f => n.flag[g] = m.flag[g]
  BY <1>1, <1>3 DEF Matches
<1>5. Linked(n)
  <2>1. ASSUME NEW g \in Flags, NEW q \in FlagPoints
        PROVE  n.at[q] = g <=> n.flag[g].state = "standing" /\ Point(n.flag[g]) = q
    <3>1. /\ m.at[q] = g <=> m.flag[g].state = "standing" /\ Point(m.flag[g]) = q
          /\ m.at[q] = f <=> stood /\ from = q
      BY DEF Sound, Linked
    <3>2. n.at[q] = IF stood /\ q = from THEN NoFlag ELSE m.at[q]
      BY <1>1, <1>3 DEF Matches
    <3> HIDE DEF from, stood
    <3>3. CASE g = f
      BY <1>2, <1>4, <3>1, <3>2, <3>3, FlagParts
    <3>4. CASE g # f
      BY <1>4, <3>1, <3>2, <3>4, FlagParts
    <3>5. QED
      BY <3>3, <3>4
  <2>2. QED
    BY <2>1 DEF Linked
<1>6. Carried(n)
  <2>1. \A g \in Flags : m.flag[g].carrier # p
    BY DEF CarriedBy
  <2>2. p # Nobody /\ Carried(m)
    BY Sizes DEF Sound
  <2>3. ASSUME NEW g \in Flags
        PROVE  /\ n.flag[g].state = "carried" <=> n.flag[g].carrier # Nobody
               /\ n.flag[g].carrier # Nobody => n.flag[g].holder # TeamOf(n.flag[g].carrier)
    BY <1>2, <1>4, <2>2 DEF Carried
  <2>4. ASSUME NEW g \in Flags, NEW h \in Flags,
               n.flag[g].carrier # Nobody, n.flag[g].carrier = n.flag[h].carrier
        PROVE  g = h
    BY <1>2, <1>4, <2>1, <2>2, <2>4 DEF Carried
  <2>5. QED
    BY <2>3, <2>4 DEF Carried
<1>7. Waiting(n)
  BY <1>2, <1>4 DEF Sound, Waiting
<1>8. QED
  BY <1>3, <1>4, <1>5, <1>6, <1>7 DEF Sound, Only, n

-----------------------------------------------------------------------------
(* A team goes out.                                                         *)

LEMMA SpoilsSound ==
    ASSUME NEW m \in Matches, NEW t \in Teams, NEW by
    PROVE  /\ Spoils(m, t, by) \in Teams
           /\ (\E o \in Teams : o # t /\ ~m.out[o]) =>
                 Spoils(m, t, by) # t /\ ~m.out[Spoils(m, t, by)]
<1> DEFINE in == {o \in Teams : o # t /\ ~m.out[o]}
           most == {o \in in : \A q \in in :
                       Cardinality(Held(m, o)) >= Cardinality(Held(m, q))}
<1>1. in # {} => Min(most) \in in
  <2>1. ASSUME in # {}
        PROVE  most # {} /\ most \in SUBSET Nat /\ most \subseteq in
    <3>1. in \in SUBSET Teams
      OBVIOUS
    <3>2. \E o \in in : \A q \in in : Cardinality(Held(m, o)) >= Cardinality(Held(m, q))
      <4> HIDE DEF in
      <4>1. QED
        BY <2>1, <3>1, SomeHoldTheMost
    <3>3. Teams \subseteq Nat
      BY DEF Teams
    <3> HIDE DEF in
    <3>4. QED
      BY <3>1, <3>2, <3>3
  <2> HIDE DEF most, in
  <2>2. QED
    BY <2>1, MinIsOne
<1>2. Spoils(m, t, by) = IF by \in in THEN by ELSE IF in = {} THEN t ELSE Min(most)
  BY DEF Spoils
<1>3. Spoils(m, t, by) \in in \/ (in = {} /\ Spoils(m, t, by) = t)
  <2> HIDE DEF most, in
  <2>1. QED
    BY <1>1, <1>2
<1>4. QED
  BY <1>3

\* Only what the team had banked moves, to the bank of a team that is in if any
\* other is.
LEMMA EliminateSound ==
    ASSUME NEW m \in Sound, NEW t \in Teams, NEW by
    PROVE  /\ Eliminate(m, t, by) \in Sound
           /\ Eliminate(m, t, by).out = [m.out EXCEPT ![t] = TRUE]
           /\ \A f \in Flags :
                 IF ~m.out[t] /\ m.flag[f].state = "banked" /\ m.flag[f].holder = t
                 THEN /\ Eliminate(m, t, by).flag[f] = Banked(Spoils(m, t, by))
                 ELSE Eliminate(m, t, by).flag[f] = m.flag[f]
<1> DEFINE n == Eliminate(m, t, by)
           h == Spoils(m, t, by)
           Lost(f) == m.flag[f].state = "banked" /\ m.flag[f].holder = t
<1>1. m \in Matches /\ h \in Teams
  BY SpoilsSound DEF Sound
<1>2. CASE m.out[t]
  BY <1>1, <1>2 DEF Eliminate, Matches
<1>3. CASE ~m.out[t]
  <2>1. \A f \in Flags : f \in BankedFlags(m, t) <=> Lost(f)
    BY DEF BankedFlags, Held
  <2> DEFINE flags == [f \in Flags |-> IF f \in BankedFlags(m, t) THEN Banked(h)
                                                                  ELSE m.flag[f]]
  <2>2. Banked(h) \in FlagRecords
    BY <1>1, Sizes DEF Banked, FlagRecords, Places
  <2>3. /\ n \in Matches /\ n.flag = flags /\ n.at = m.at
        /\ n.out = [m.out EXCEPT ![t] = TRUE]
    <3>1. n = [m EXCEPT !.out = [m.out EXCEPT ![t] = TRUE], !.flag = flags]
      BY <1>1, <1>3 DEF Eliminate, Matches
    <3>2. flags \in [Flags -> FlagRecords] /\ [m.out EXCEPT ![t] = TRUE] \in [Teams -> BOOLEAN]
      BY <1>1, <2>2 DEF Matches
    <3> HIDE DEF n, flags
    <3>3. QED
      BY <1>1, <3>1, <3>2 DEF Matches
  <2> HIDE DEF n
  <2>4. \A f \in Flags : n.flag[f] = IF Lost(f) THEN Banked(h) ELSE m.flag[f]
    BY <2>1, <2>3
  <2> HIDE DEF h
  <2>5. Linked(n) /\ Carried(n) /\ Waiting(n)
    <3>1. /\ \A f \in Flags : \/ n.flag[f] = m.flag[f]
                              \/ n.flag[f] = Banked(h) /\ m.flag[f].state = "banked"
          /\ n.at = m.at /\ Linked(m) /\ Carried(m) /\ Waiting(m)
      BY <2>3, <2>4 DEF Sound
    <3>2. /\ Banked(h).state = "banked" /\ Banked(h).carrier = Nobody
      BY DEF Banked
    <3>3. Linked(n)
      BY <3>1, <3>2 DEF Linked
    <3>4. Carried(n) /\ Waiting(n)
      BY <3>1, <3>2 DEF Carried, Waiting
    <3>5. QED
      BY <3>3, <3>4
  <2>6. QED
    BY <1>3, <2>3, <2>4, <2>5 DEF Sound, n, h
<1>4. QED
  BY <1>2, <1>3

\* What became of the flags of m0 when the teams of gone went out.
Handed(m0, gone) ==
    {n \in Sound :
        /\ \A t \in Teams : n.out[t] <=> m0.out[t] \/ t \in gone
        /\ \A f \in Flags :
              IF m0.flag[f].state = "banked"
              THEN /\ n.flag[f].state = "banked"
                   /\ ~n.out[m0.flag[f].holder] => n.flag[f] = m0.flag[f]
                   /\ ~m0.out[m0.flag[f].holder] /\ (\E t \in Teams : ~n.out[t])
                         => ~n.out[n.flag[f].holder]
              ELSE n.flag[f] = m0.flag[f]}

LEMMA EliminateHands ==
    ASSUME NEW m0 \in Sound, NEW gone \in SUBSET Teams, NEW m \in Handed(m0, gone),
           NEW t \in Teams, NEW by
    PROVE  Eliminate(m, t, by) \in Handed(m0, gone \union {t})
<1> DEFINE n == Eliminate(m, t, by)
           h == Spoils(m, t, by)
<1>1. /\ m \in Sound /\ m \in Matches /\ m0 \in Matches
      /\ \A f \in Flags : m0.flag[f].holder \in Teams /\ m.flag[f].holder \in Teams
  BY DEF Handed, Sound, Matches, FlagRecords
<1>2. /\ n \in Sound /\ n.out = [m.out EXCEPT ![t] = TRUE]
      /\ \A f \in Flags :
            IF ~m.out[t] /\ m.flag[f].state = "banked" /\ m.flag[f].holder = t
            THEN /\ n.flag[f] = Banked(h)
            ELSE n.flag[f] = m.flag[f]
  BY <1>1, EliminateSound
<1>3. /\ h \in Teams
      /\ (\E o \in Teams : o # t /\ ~m.out[o]) => h # t /\ ~m.out[h]
  BY <1>1, SpoilsSound
<1> HIDE DEF n, h
<1>4. \A u \in Teams : n.out[u] <=> m.out[u] \/ u = t
  BY <1>1, <1>2 DEF Matches
<1>5. \A u \in Teams : m.out[u] <=> m0.out[u] \/ u \in gone
  BY DEF Handed
<1>6. ASSUME NEW f \in Flags, m0.flag[f].state = "banked"
      PROVE  /\ n.flag[f].state = "banked"
             /\ ~n.out[m0.flag[f].holder] => n.flag[f] = m0.flag[f]
             /\ ~m0.out[m0.flag[f].holder] /\ (\E u \in Teams : ~n.out[u])
                   => ~n.out[n.flag[f].holder]
  <2>1. /\ m.flag[f].state = "banked"
        /\ ~m.out[m0.flag[f].holder] => m.flag[f] = m0.flag[f]
        /\ ~m0.out[m0.flag[f].holder] /\ (\E u \in Teams : ~m.out[u])
              => ~m.out[m.flag[f].holder]
    BY <1>6 DEF Handed
  <2>2. Banked(h).state = "banked" /\ Banked(h).holder = h
    BY DEF Banked
  <2>3. CASE ~m.out[t] /\ m.flag[f].holder = t
    BY <1>1, <1>2, <1>3, <1>4, <2>1, <2>2, <2>3
  <2>4. CASE ~(~m.out[t] /\ m.flag[f].holder = t)
    BY <1>1, <1>2, <1>4, <2>1, <2>4
  <2>5. QED
    BY <2>3, <2>4
<1>7. ASSUME NEW f \in Flags, m0.flag[f].state # "banked"
      PROVE  n.flag[f] = m0.flag[f]
  BY <1>2, <1>7 DEF Handed
<1>8. QED
  BY <1>2, <1>4, <1>5, <1>6, <1>7 DEF Handed, n

\* The teams whose squads are empty go out one after the other.
LEMMA EmptySquadsOutSound ==
    ASSUME NEW m \in Sound, NEW left \in SUBSET Teams
    PROVE  EmptySquadsOut(m, left) \in Handed(m, left)
<1> DEFINE Gone(k) == {t \in left : t < k}
           I == [k \in 0 .. TeamCount |-> Handed(m, Gone(k))]
           Out(a, t) == IF t \in left THEN Eliminate(a, t, NoTeam) ELSE a
           g == [k \in 0 .. TeamCount - 1 |-> [a \in I[k] |-> Out(a, k)]]
<1>1. /\ TeamCount \in Nat /\ \A t \in left : t \in Nat /\ t < TeamCount
      /\ \A k \in 0 .. TeamCount - 1 : k \in Teams
  BY Sizes DEF Teams
<1>2. /\ Gone(0) = {} /\ Gone(TeamCount) = left
      /\ \A k \in 0 .. TeamCount - 1 :
            Gone(k + 1) = IF k \in left THEN Gone(k) \union {k} ELSE Gone(k)
  <2>1. Gone(0) = {} /\ Gone(TeamCount) = left
    BY <1>1
  <2>2. ASSUME NEW k \in 0 .. TeamCount - 1
        PROVE  Gone(k + 1) = IF k \in left THEN Gone(k) \union {k} ELSE Gone(k)
    <3>1. \A t \in left : t < k + 1 <=> t < k \/ t = k
      BY <1>1
    <3>2. QED
      BY <3>1
  <2>3. QED
    BY <2>1, <2>2
<1>3. \A k : Gone(k) \in SUBSET Teams
  OBVIOUS
<1> HIDE DEF Gone
<1>4. m \in I[0]
  <2>1. m \in Handed(m, {})
    BY DEF Handed
  <2>2. QED
    BY <1>1, <1>2, <2>1
<1>5. ASSUME NEW k \in 0 .. TeamCount - 1, NEW a \in I[k]
      PROVE  Out(a, k) \in I[k + 1]
  <2>1. a \in Handed(m, Gone(k)) /\ I[k + 1] = Handed(m, Gone(k + 1))
    BY <1>1
  <2>2. Eliminate(a, k, NoTeam) \in Handed(m, Gone(k) \union {k})
    BY <1>1, <1>3, <2>1, EliminateHands
  <2>3. QED
    BY <1>2, <2>1, <2>2
<1> HIDE DEF I, Out
<1> DEFINE Is(d) == d = [k \in 0 .. TeamCount |-> IF k = 0 THEN m ELSE Out(d[k - 1], k - 1)]
<1>6. \E d : Is(d)
  <2>1. \A k \in 0 .. TeamCount - 1 : \A a \in I[k] : g[k][a] = Out(a, k)
    OBVIOUS
  <2> HIDE DEF g
  <2>2. PICK d : IsLoop(d, TeamCount, m, g) /\ \A k \in 0 .. TeamCount : d[k] \in I[k]
    <3>1. \A k \in 0 .. TeamCount - 1 : \A a \in I[k] : g[k][a] \in I[k + 1]
      BY <1>5, <2>1
    <3>2. TeamCount \in Nat /\ m \in I[0]
      BY <1>1, <1>4
    <3>3. QED
      BY ONLY <3>1, <3>2, LoopExists
  <2>3. \A k \in 0 .. TeamCount : k # 0 => g[k - 1][d[k - 1]] = Out(d[k - 1], k - 1)
    BY <1>1, <2>1, <2>2
  <2>4. Is(d)
    BY <2>2, <2>3 DEF IsLoop
  <2>5. QED
    BY <2>4
<1> DEFINE done == CHOOSE d : Is(d)
<1>7. Is(done)
  BY <1>6
<1>8. EmptySquadsOut(m, left) = done[TeamCount]
  BY DEF EmptySquadsOut, InTurn, Out
<1> HIDE DEF done
<1>9. \A k \in 0 .. TeamCount : done[k] \in I[k]
  <2>1. done[0] = m /\ \A k \in 0 .. TeamCount - 1 : done[k + 1] = Out(done[k], k)
    BY <1>1, <1>7
  <2>2. QED
    BY <1>1, <1>4, <1>5, <2>1, Stays
<1>10. QED
  BY <1>1, <1>2, <1>8, <1>9 DEF I

-----------------------------------------------------------------------------
(* The flags that are carried and those on the ground.                      *)

\* A flag that does not stand may change while it is carried by the same player or
\* once it is not carried any more.
LEMMA ChangeFlagSound ==
    ASSUME NEW m \in Sound, NEW f \in Flags, NEW fl \in FlagRecords, NEW n,
           n = [m EXCEPT !.flag[f] = fl],
           m.flag[f].state # "standing", fl.state # "standing",
           fl.state = "carried" => fl.carrier = m.flag[f].carrier
                                   /\ fl.holder = m.flag[f].holder
                                   /\ m.flag[f].state = "carried",
           fl.state # "carried" => fl.carrier = Nobody,
           fl.state = "dropped" => fl.ticks > 0
    PROVE  n \in Sound /\ Only(m, n, f)
<1>1. m \in Matches /\ Linked(m) /\ Carried(m) /\ Waiting(m)
  BY DEF Sound
<1>2. /\ n \in Matches /\ n.flag = [m.flag EXCEPT ![f] = fl] /\ n.at = m.at
      /\ n.out = m.out /\ n.taker = m.taker /\ n.winner = m.winner
  BY <1>1 DEF Matches
<1>3. n.flag[f] = fl /\ \A g \in Flags : g # f => n.flag[g] = m.flag[g]
  BY <1>1, <1>2 DEF Matches
<1>4. Linked(n)
  BY <1>1, <1>2, <1>3 DEF Linked
<1>5. Carried(n)
  <2>1. ASSUME NEW g \in Flags
        PROVE  /\ n.flag[g].state = "carried" <=> n.flag[g].carrier # Nobody
               /\ n.flag[g].carrier # Nobody => n.flag[g].holder # TeamOf(n.flag[g].carrier)
               /\ n.flag[g].carrier # Nobody => n.flag[g].carrier = m.flag[g].carrier
    BY <1>1, <1>3 DEF Carried
  <2>2. QED
    BY <1>1, <2>1 DEF Carried
<1>6. Waiting(n)
  BY <1>1, <1>3 DEF Waiting
<1>7. QED
  BY <1>2, <1>3, <1>4, <1>5, <1>6 DEF Sound, Only

\* While players and flags move, banks and teams stay as they are.
Kept(m0) ==
    {n \in Sound : /\ n.out = m0.out
                   /\ \A f \in Flags : m0.flag[f].state = "banked"
                                          => n.flag[f] = m0.flag[f]}

LEMMA OnlyKept ==
    ASSUME NEW m0, NEW m \in Kept(m0), NEW n \in Sound, NEW f \in Flags,
           Only(m, n, f), m.flag[f].state # "banked"
    PROVE  n \in Kept(m0)
BY DEF Kept, Only

Statuses == [is : {"alive", "dead", "gone"}, place : Places]

LEMMA MoveFlagKept ==
    ASSUME NEW m0, NEW m \in Kept(m0), NEW f \in Flags, NEW r \in [Players -> Statuses]
    PROVE  MoveFlag(m, f, r) \in Kept(m0)
<1> DEFINE fl == m.flag[f]
           p == r[fl.carrier]
<1>1. /\ m \in Sound /\ m \in Matches /\ fl \in FlagRecords
      /\ Linked(m) /\ Carried(m) /\ Waiting(m)
  BY DEF Kept, Sound, Matches
<1>2. CASE fl.state = "carried"
  <2>1. /\ fl.carrier \in Players /\ p \in Statuses /\ p.place \in Places /\ fl.place \in Places
    BY <1>1, <1>2 DEF Carried, FlagRecords, Statuses
  <2> DEFINE followed == [fl EXCEPT !.place = p.place]
             fallen(place) == [fl EXCEPT !.state = "dropped", !.carrier = Nobody,
                                         !.ticks = ReturnTicks, !.place = place]
  <2>2. MoveFlag(m, f, r) \in {[m EXCEPT !.flag[f] = followed]}
                                 \union {[m EXCEPT !.flag[f] = fallen(q)] : q \in Places}
    <3>1. [m EXCEPT !.flag[f].place = p.place] = [m EXCEPT !.flag[f] = followed]
      BY <1>1 DEF Matches
    <3>2. \A q : DropFlag(m, f, q) = [m EXCEPT !.flag[f] = fallen(q)]
      BY <1>1 DEF Matches, DropFlag
    <3>3. MoveFlag(m, f, r) \in {[m EXCEPT !.flag[f].place = p.place]}
                                   \union {DropFlag(m, f, q) : q \in Places}
      BY <1>2, <2>1 DEF MoveFlag
    <3> HIDE DEF followed, fallen
    <3>4. QED
      BY <3>1, <3>2, <3>3
  <2> HIDE DEF fl
  <2>3. /\ followed \in FlagRecords /\ followed.state = "carried"
        /\ followed.carrier = fl.carrier /\ followed.holder = fl.holder
    BY <1>1, <1>2, <2>1 DEF FlagRecords
  <2>4. ASSUME NEW q \in Places
        PROVE  /\ fallen(q) \in FlagRecords /\ fallen(q).state = "dropped"
               /\ fallen(q).carrier = Nobody /\ fallen(q).ticks > 0
    <3>1. 0 .. ReturnTicks # {} /\ ReturnTicks \in 0 .. ReturnTicks /\ ReturnTicks > 0
      BY Sizes
    <3>2. fallen(q) \in FlagRecords
      BY <1>1, <3>1 DEF FlagRecords
    <3>3. QED
      BY <1>1, <3>1, <3>2 DEF FlagRecords
  <2> HIDE DEF followed, fallen
  <2>5. CASE MoveFlag(m, f, r) = [m EXCEPT !.flag[f] = followed]
    <3>1. MoveFlag(m, f, r) \in Sound /\ Only(m, MoveFlag(m, f, r), f)
      BY <1>1, <1>2, <2>3, <2>5, ChangeFlagSound DEF fl
    <3>2. QED
      BY <1>2, <3>1, OnlyKept DEF fl
  <2>6. ASSUME NEW q \in Places, MoveFlag(m, f, r) = [m EXCEPT !.flag[f] = fallen(q)]
        PROVE  MoveFlag(m, f, r) \in Kept(m0)
    <3>1. MoveFlag(m, f, r) \in Sound /\ Only(m, MoveFlag(m, f, r), f)
      BY <1>1, <1>2, <2>4, <2>6, ChangeFlagSound DEF fl
    <3>2. QED
      BY <1>2, <3>1, OnlyKept DEF fl
  <2>7. QED
    BY <2>2, <2>5, <2>6
<1>3. CASE fl.state = "dropped"
  <2> DEFINE waited == [m EXCEPT !.flag[f].ticks = @ - 1]
             later == [fl EXCEPT !.ticks = fl.ticks - 1]
  <2>1. /\ waited = [m EXCEPT !.flag[f] = later]
        /\ MoveFlag(m, f, r) = IF fl.ticks = 1 THEN SendHome(waited, f) ELSE waited
    BY <1>1, <1>3 DEF MoveFlag, Matches
  <2>2. fl.ticks > 0 /\ fl.ticks \in 0 .. ReturnTicks
    BY <1>1, <1>3 DEF Waiting, FlagRecords
  <2>3. /\ later \in FlagRecords /\ later.state = "dropped" /\ later.carrier = fl.carrier
        /\ later.ticks = fl.ticks - 1 /\ later.holder = fl.holder
    <3>1. fl.ticks - 1 \in 0 .. ReturnTicks
      BY <2>2, Sizes
    <3> HIDE DEF fl
    <3>2. QED
      BY <1>1, <1>3, <3>1 DEF FlagRecords
  <2>4. fl.carrier = Nobody
    BY <1>1, <1>3 DEF Carried
  <2> HIDE DEF waited, later
  <2>5. CASE fl.ticks # 1
    <3>1. waited \in Sound /\ Only(m, waited, f)
      BY <1>1, <1>3, <2>1, <2>2, <2>3, <2>4, <2>5, ChangeFlagSound
    <3>2. QED
      BY <1>3, <2>1, <2>5, <3>1, OnlyKept
  <2>6. CASE fl.ticks = 1
    <3>1. /\ waited \in Matches /\ waited.flag[f] = later /\ waited.at = m.at
          /\ Only(m, waited, f)
      BY <1>1, <2>1, <2>3 DEF Matches, Only
    <3>2. Linked(waited) /\ Carried(waited)
      BY <1>1, <1>3, <2>3, <2>4, <3>1 DEF Linked, Carried, Only
    <3>3. \A g \in Flags : g # f /\ waited.flag[g].state = "dropped" => waited.flag[g].ticks > 0
      BY <1>1, <3>1 DEF Only, Waiting
    <3>4. SendHome(waited, f) \in Sound /\ Only(waited, SendHome(waited, f), f)
      BY <2>3, <3>1, <3>2, <3>3, SendHomeSound
    <3>5. Only(m, SendHome(waited, f), f)
      BY <3>1, <3>4 DEF Only
    <3>6. QED
      BY <1>3, <2>1, <2>6, <3>4, <3>5, OnlyKept
  <2>7. QED
    BY <2>5, <2>6
<1>4. CASE fl.state \notin {"carried", "dropped"}
  BY <1>4 DEF MoveFlag
<1>5. QED
  BY <1>2, <1>3, <1>4

\* The loop over the flags of one team, and over all of them.
MoveFlagsOfTeam(m, t, r) ==
    InTurn(FlagsPerTeam, m, LAMBDA b, i : MoveFlag(b, <<t, i>>, r))

LEMMA MoveFlagsOfTeamKept ==
    ASSUME NEW m0, NEW m \in Kept(m0), NEW t \in Teams, NEW r \in [Players -> Statuses]
    PROVE  MoveFlagsOfTeam(m, t, r) \in Kept(m0)
<1> DEFINE X == Kept(m0)
           Do(b, i) == MoveFlag(b, <<t, i>>, r)
           g == [i \in 0 .. FlagsPerTeam - 1 |-> [b \in X |-> Do(b, i)]]
           Is(d) == d = [k \in 0 .. FlagsPerTeam |-> IF k = 0 THEN m ELSE Do(d[k - 1], k - 1)]
<1>1. FlagsPerTeam \in Nat /\ m \in X
  BY Sizes
<1>2. ASSUME NEW i \in 0 .. FlagsPerTeam - 1, NEW b \in X
      PROVE  Do(b, i) \in X
  <2>1. <<t, i>> \in Flags
    BY FlagParts
  <2>2. QED
    BY <2>1, MoveFlagKept
<1> HIDE DEF X, Do
<1>3. \E d : Is(d)
  <2>1. \A i \in 0 .. FlagsPerTeam - 1 : \A b \in X : g[i][b] = Do(b, i)
    OBVIOUS
  <2> HIDE DEF g
  <2>2. \A i \in 0 .. FlagsPerTeam - 1 : \A b \in X : g[i][b] \in X
    BY <1>2, <2>1
  <2>3. PICK d : IsLoop(d, FlagsPerTeam, m, g) /\ \A k \in 0 .. FlagsPerTeam : d[k] \in X
    BY <1>1, <2>2, LoopInside
  <2>4. \A k \in 0 .. FlagsPerTeam : k # 0 => g[k - 1][d[k - 1]] = Do(d[k - 1], k - 1)
    BY <1>1, <2>1, <2>3
  <2>5. Is(d)
    BY <2>3, <2>4 DEF IsLoop
  <2>6. QED
    BY <2>5
<1> DEFINE done == CHOOSE d : Is(d)
<1>4. Is(done)
  BY <1>3
<1>5. MoveFlagsOfTeam(m, t, r) = done[FlagsPerTeam]
  BY DEF MoveFlagsOfTeam, InTurn, Do
<1> HIDE DEF done
<1>6. done[FlagsPerTeam] \in X
  <2>1. done[0] = m /\ \A k \in 0 .. FlagsPerTeam - 1 : done[k + 1] = Do(done[k], k)
    BY <1>1, <1>4
  <2>2. \A k \in 0 .. FlagsPerTeam - 1 : done[k] \in X => done[k + 1] \in X
    BY <1>2, <2>1
  <2>3. QED
    BY <1>1, <2>1, <2>2, StaysInside
<1>7. QED
  BY <1>5, <1>6 DEF X

LEMMA MoveFlagsKept ==
    ASSUME NEW m \in Sound, NEW r \in [Players -> Statuses]
    PROVE  MoveFlags(m, r) \in Kept(m)
<1> DEFINE X == Kept(m)
           Do(a, t) == MoveFlagsOfTeam(a, t, r)
           g == [t \in 0 .. TeamCount - 1 |-> [a \in X |-> Do(a, t)]]
           Is(d) == d = [k \in 0 .. TeamCount |-> IF k = 0 THEN m ELSE Do(d[k - 1], k - 1)]
<1>1. TeamCount \in Nat /\ m \in X
  BY Sizes DEF Kept
<1>2. ASSUME NEW t \in 0 .. TeamCount - 1, NEW a \in X
      PROVE  Do(a, t) \in X
  BY MoveFlagsOfTeamKept DEF Teams
<1> HIDE DEF X, Do
<1>3. \E d : Is(d)
  <2>1. \A t \in 0 .. TeamCount - 1 : \A a \in X : g[t][a] = Do(a, t)
    OBVIOUS
  <2> HIDE DEF g
  <2>2. \A t \in 0 .. TeamCount - 1 : \A a \in X : g[t][a] \in X
    BY <1>2, <2>1
  <2>3. PICK d : IsLoop(d, TeamCount, m, g) /\ \A k \in 0 .. TeamCount : d[k] \in X
    BY <1>1, <2>2, LoopInside
  <2>4. \A k \in 0 .. TeamCount : k # 0 => g[k - 1][d[k - 1]] = Do(d[k - 1], k - 1)
    BY <1>1, <2>1, <2>3
  <2>5. Is(d)
    BY <2>3, <2>4 DEF IsLoop
  <2>6. QED
    BY <2>5
<1> DEFINE done == CHOOSE d : Is(d)
<1>4. Is(done)
  BY <1>3
<1>5. MoveFlags(m, r) = done[TeamCount]
  BY DEF MoveFlags, MoveFlagsOfTeam, FlagsInTurn, InTurn, Do
<1> HIDE DEF done
<1>6. done[TeamCount] \in X
  <2>1. done[0] = m /\ \A k \in 0 .. TeamCount - 1 : done[k + 1] = Do(done[k], k)
    BY <1>1, <1>4
  <2>2. \A k \in 0 .. TeamCount - 1 : done[k] \in X => done[k + 1] \in X
    BY <1>2, <2>1
  <2>3. QED
    BY <1>1, <2>1, <2>2, StaysInside
<1>7. QED
  BY <1>5, <1>6 DEF X

-----------------------------------------------------------------------------
(* The turns of the players.                                                *)

\* Until it took a flag, the player carries none.
Grabbing(m0, p) ==
    {a \in [m : Kept(m0), taken : BOOLEAN] : ~a.taken => CarriedBy(a.m, p) = {}}

LEMMA GrabNextKept ==
    ASSUME NEW m0, NEW p \in Players, NEW a \in Grabbing(m0, p), NEW f \in Flags, NEW place
    PROVE  GrabNext(a, f, p, place) \in Grabbing(m0, p)
<1> DEFINE n == GrabNext(a, f, p, place)
<1>1. /\ a.m \in Kept(m0) /\ a.m \in Sound /\ a.m \in Matches
      /\ a = [m |-> a.m, taken |-> a.taken] /\ a.taken \in BOOLEAN
  BY DEF Grabbing, Kept, Sound
<1>2. CASE a.taken \/ ~InReach(a.m, f, place)
  BY <1>2 DEF GrabNext
<1>3. CASE ~a.taken /\ InReach(a.m, f, place) /\ a.m.flag[f].holder # TeamOf(p)
  <2>1. n = [m |-> TakeFlag(a.m, f, p), taken |-> TRUE]
    BY <1>3 DEF GrabNext
  <2>2. a.m.flag[f].state \in {"standing", "dropped"} /\ CarriedBy(a.m, p) = {}
    BY <1>3 DEF InReach, Grabbing
  <2>3. TakeFlag(a.m, f, p) \in Sound /\ Only(a.m, TakeFlag(a.m, f, p), f)
    BY <1>1, <1>3, <2>2, TakeFlagSound
  <2>4. TakeFlag(a.m, f, p) \in Kept(m0)
    BY <1>1, <2>2, <2>3, OnlyKept
  <2>5. QED
    BY <2>1, <2>4 DEF Grabbing
<1>4. CASE ~a.taken /\ InReach(a.m, f, place) /\ a.m.flag[f].holder = TeamOf(p)
           /\ a.m.flag[f].state = "dropped"
  <2> DEFINE h == SendHome(a.m, f)
  <2>1. n = [m |-> h, taken |-> FALSE]
    <3>1. n = [a EXCEPT !.m = h] /\ a.taken = FALSE
      BY <1>1, <1>4 DEF GrabNext
    <3> HIDE DEF n, h
    <3>2. QED
      BY <1>1, <3>1
  <2>2. /\ Linked(a.m) /\ Carried(a.m)
        /\ \A g \in Flags : g # f /\ a.m.flag[g].state = "dropped" => a.m.flag[g].ticks > 0
    BY <1>1 DEF Sound, Waiting
  <2>3. h \in Sound /\ Only(a.m, h, f) /\ h.flag[f].carrier = Nobody
    BY <1>1, <1>4, <2>2, SendHomeSound
  <2> HIDE DEF h
  <2>4. h \in Kept(m0)
    BY <1>1, <1>4, <2>3, OnlyKept
  <2>5. CarriedBy(h, p) = {}
    <3>1. \A g \in Flags : a.m.flag[g].carrier # p
      BY <1>4 DEF Grabbing, CarriedBy
    <3>2. QED
      BY <2>3, <3>1, Sizes DEF CarriedBy, Only
  <2>6. QED
    BY <2>1, <2>4, <2>5 DEF Grabbing
<1>5. CASE ~a.taken /\ InReach(a.m, f, place) /\ a.m.flag[f].holder = TeamOf(p)
           /\ a.m.flag[f].state # "dropped"
  BY <1>5 DEF GrabNext
<1>6. QED
  BY <1>1, <1>2, <1>3, <1>4, <1>5

GrabOfTeam(a0, t, p, place) ==
    InTurn(FlagsPerTeam, a0, LAMBDA b, i : GrabNext(b, <<t, i>>, p, place))

LEMMA GrabOfTeamKept ==
    ASSUME NEW m0, NEW p \in Players, NEW a0 \in Grabbing(m0, p), NEW t \in Teams, NEW place
    PROVE  GrabOfTeam(a0, t, p, place) \in Grabbing(m0, p)
<1> DEFINE X == Grabbing(m0, p)
           Do(b, i) == GrabNext(b, <<t, i>>, p, place)
           g == [i \in 0 .. FlagsPerTeam - 1 |-> [b \in X |-> Do(b, i)]]
           Is(d) == d = [k \in 0 .. FlagsPerTeam |-> IF k = 0 THEN a0 ELSE Do(d[k - 1], k - 1)]
<1>1. FlagsPerTeam \in Nat /\ a0 \in X
  BY Sizes
<1>2. ASSUME NEW i \in 0 .. FlagsPerTeam - 1, NEW b \in X
      PROVE  Do(b, i) \in X
  <2>1. <<t, i>> \in Flags
    BY FlagParts
  <2>2. QED
    BY <2>1, GrabNextKept
<1> HIDE DEF X, Do
<1>3. \E d : Is(d)
  <2>1. \A i \in 0 .. FlagsPerTeam - 1 : \A b \in X : g[i][b] = Do(b, i)
    OBVIOUS
  <2> HIDE DEF g
  <2>2. \A i \in 0 .. FlagsPerTeam - 1 : \A b \in X : g[i][b] \in X
    BY <1>2, <2>1
  <2>3. PICK d : IsLoop(d, FlagsPerTeam, a0, g) /\ \A k \in 0 .. FlagsPerTeam : d[k] \in X
    BY <1>1, <2>2, LoopInside
  <2>4. \A k \in 0 .. FlagsPerTeam : k # 0 => g[k - 1][d[k - 1]] = Do(d[k - 1], k - 1)
    BY <1>1, <2>1, <2>3
  <2>5. Is(d)
    BY <2>3, <2>4 DEF IsLoop
  <2>6. QED
    BY <2>5
<1> DEFINE done == CHOOSE d : Is(d)
<1>4. Is(done)
  BY <1>3
<1>5. GrabOfTeam(a0, t, p, place) = done[FlagsPerTeam]
  BY DEF GrabOfTeam, InTurn, Do
<1> HIDE DEF done
<1>6. done[FlagsPerTeam] \in X
  <2>1. done[0] = a0 /\ \A k \in 0 .. FlagsPerTeam - 1 : done[k + 1] = Do(done[k], k)
    BY <1>1, <1>4
  <2>2. \A k \in 0 .. FlagsPerTeam - 1 : done[k] \in X => done[k + 1] \in X
    BY <1>2, <2>1
  <2>3. QED
    BY <1>1, <2>1, <2>2, StaysInside
<1>7. QED
  BY <1>5, <1>6 DEF X

LEMMA GrabKept ==
    ASSUME NEW m0, NEW p \in Players, NEW m \in Kept(m0), NEW place, CarriedBy(m, p) = {}
    PROVE  Grab(m, p, place) \in Kept(m0)
<1> DEFINE a0 == [m |-> m, taken |-> FALSE]
           all == FlagsInTurn(a0, LAMBDA a, f : GrabNext(a, f, p, place))
<1> SUFFICES all \in Grabbing(m0, p)
  BY DEF Grab, Grabbing
<1> DEFINE X == Grabbing(m0, p)
           Do(a, t) == GrabOfTeam(a, t, p, place)
           g == [t \in 0 .. TeamCount - 1 |-> [a \in X |-> Do(a, t)]]
           Is(d) == d = [k \in 0 .. TeamCount |-> IF k = 0 THEN a0 ELSE Do(d[k - 1], k - 1)]
<1>1. TeamCount \in Nat /\ a0 \in X
  BY Sizes DEF Grabbing
<1>2. ASSUME NEW t \in 0 .. TeamCount - 1, NEW a \in X
      PROVE  Do(a, t) \in X
  <2>1. t \in Teams /\ a \in Grabbing(m0, p)
    BY DEF Teams
  <2>2. QED
    BY <2>1, GrabOfTeamKept
<1> HIDE DEF X, Do, a0
<1>3. \E d : Is(d)
  <2>1. \A t \in 0 .. TeamCount - 1 : \A a \in X : g[t][a] = Do(a, t)
    OBVIOUS
  <2> HIDE DEF g
  <2>2. \A t \in 0 .. TeamCount - 1 : \A a \in X : g[t][a] \in X
    BY <1>2, <2>1
  <2>3. PICK d : IsLoop(d, TeamCount, a0, g) /\ \A k \in 0 .. TeamCount : d[k] \in X
    BY <1>1, <2>2, LoopInside
  <2>4. \A k \in 0 .. TeamCount : k # 0 => g[k - 1][d[k - 1]] = Do(d[k - 1], k - 1)
    BY <1>1, <2>1, <2>3
  <2>5. Is(d)
    BY <2>3, <2>4 DEF IsLoop
  <2>6. QED
    BY <2>5
<1> DEFINE done == CHOOSE d : Is(d)
<1>4. Is(done)
  BY <1>3
<1>5. all = done[TeamCount]
  BY DEF FlagsInTurn, InTurn, GrabOfTeam, Do, a0
<1> HIDE DEF done
<1>6. done[TeamCount] \in X
  <2>1. done[0] = a0 /\ \A k \in 0 .. TeamCount - 1 : done[k + 1] = Do(done[k], k)
    BY <1>1, <1>4
  <2>2. \A k \in 0 .. TeamCount - 1 : done[k] \in X => done[k + 1] \in X
    BY <1>2, <2>1
  <2>3. QED
    BY <1>1, <2>1, <2>2, StaysInside
<1>7. QED
  BY <1>5, <1>6 DEF X

LEMMA BankKept ==
    ASSUME NEW m0, NEW m \in Kept(m0), NEW p \in Players, NEW place, CarriedBy(m, p) # {}
    PROVE  Bank(m, p, place) \in Kept(m0)
<1> DEFINE f == FirstOf(CarriedBy(m, p))
           t == TeamOf(p)
           h == m.flag[f].holder
           n == BankFlag(m, f, t)
           b == [n EXCEPT !.taker[h] = t]
<1>1. /\ m \in Sound /\ m \in Matches /\ Linked(m) /\ Carried(m) /\ Waiting(m) /\ t \in Teams
  BY TeamOfPlayer DEF Kept, Sound
<1>2. f \in Flags /\ m.flag[f].carrier = p
  <2>1. CarriedBy(m, p) \in SUBSET Flags
    BY DEF CarriedBy
  <2>2. f \in CarriedBy(m, p)
    BY <2>1, FirstOfIsOne
  <2>3. QED
    BY <2>2 DEF CarriedBy
<1>3. Bank(m, p, place) \in {m, b}
  BY DEF Bank
<1> HIDE DEF f, t
<1>4. m.flag[f].state = "carried" /\ h \in Teams
  BY <1>1, <1>2, Sizes DEF Carried, Matches, FlagRecords
<1>5. n \in Sound /\ Only(m, n, f)
  BY <1>1, <1>2, <1>4, BankFlagSound DEF Waiting
<1>6. n \in Kept(m0)
  BY <1>2, <1>4, <1>5, OnlyKept
<1> HIDE DEF n
<1>7. b \in Matches /\ b.flag = n.flag /\ b.at = n.at /\ b.out = n.out
  BY <1>1, <1>4, <1>5 DEF Sound, Matches
<1> HIDE DEF b
<1>8. b \in Kept(m0)
  BY <1>6, <1>7 DEF Kept, Sound, Linked, Carried, Waiting
<1>9. QED
  BY <1>3, <1>8

\* The matches and the points with somebody on them, while the players have their turns.
Turns(m0) == [m : Kept(m0), present : SUBSET FlagPoints]

LEMMA PlayerTurnKept ==
    ASSUME NEW m0, NEW a \in Turns(m0), NEW p \in Players, NEW r
    PROVE  PlayerTurn(a, p, r) \in Turns(m0)
<1> DEFINE t == TeamOf(p)
           m == IF CarriedBy(a.m, p) # {} THEN Bank(a.m, p, r[p].place)
                ELSE Grab(a.m, p, r[p].place)
           here == IF BankedFlags(m, t) = {} THEN {}
                   ELSE {pt \in {<<t, i>> : i \in EmptyPoints(m, t)} : pt = r[p].place}
<1>1. a.m \in Kept(m0) /\ a.present \in SUBSET FlagPoints
  BY DEF Turns
<1>2. m \in Kept(m0)
  <2>1. CASE CarriedBy(a.m, p) # {}
    BY <1>1, <2>1, BankKept
  <2>2. CASE CarriedBy(a.m, p) = {}
    BY <1>1, <2>2, GrabKept
  <2>3. QED
    BY <2>1, <2>2
<1>3. PlayerTurn(a, p, r) = IF r[p].is # "alive" \/ a.m.out[t] THEN a
                            ELSE [m |-> m, present |-> a.present \union here]
  BY DEF PlayerTurn
<1> HIDE DEF m
<1>4. here \in SUBSET FlagPoints
  <2>1. \A i \in EmptyPoints(m, t) : <<t, i>> \in FlagPoints
    BY TeamOfPlayer, FlagParts DEF EmptyPoints
  <2>2. QED
    BY <2>1
<1> HIDE DEF here
<1>5. QED
  BY <1>1, <1>2, <1>3, <1>4 DEF Turns

LEMMA PlayerTurnsKept ==
    ASSUME NEW m0, NEW m \in Kept(m0), NEW r
    PROVE  PlayerTurns(m, r) \in Turns(m0)
<1> DEFINE a0 == [m |-> m, present |-> {}]
<1> DEFINE X == Turns(m0)
           Do(a, p) == PlayerTurn(a, p, r)
           g == [p \in 0 .. PlayerCount - 1 |-> [a \in X |-> Do(a, p)]]
           Is(d) == d = [k \in 0 .. PlayerCount |-> IF k = 0 THEN a0 ELSE Do(d[k - 1], k - 1)]
<1>1. PlayerCount \in Nat /\ a0 \in X
  BY Sizes DEF Turns
<1>2. ASSUME NEW p \in 0 .. PlayerCount - 1, NEW a \in X
      PROVE  Do(a, p) \in X
  BY PlayerTurnKept DEF Players
<1> HIDE DEF X, Do, a0
<1>3. \E d : Is(d)
  <2>1. \A p \in 0 .. PlayerCount - 1 : \A a \in X : g[p][a] = Do(a, p)
    OBVIOUS
  <2> HIDE DEF g
  <2>2. \A p \in 0 .. PlayerCount - 1 : \A a \in X : g[p][a] \in X
    BY <1>2, <2>1
  <2>3. PICK d : IsLoop(d, PlayerCount, a0, g) /\ \A k \in 0 .. PlayerCount : d[k] \in X
    BY <1>1, <2>2, LoopInside
  <2>4. \A k \in 0 .. PlayerCount : k # 0 => g[k - 1][d[k - 1]] = Do(d[k - 1], k - 1)
    BY <1>1, <2>1, <2>3
  <2>5. Is(d)
    BY <2>3, <2>4 DEF IsLoop
  <2>6. QED
    BY <2>5
<1> DEFINE done == CHOOSE d : Is(d)
<1>4. Is(done)
  BY <1>3
<1>5. PlayerTurns(m, r) = done[PlayerCount]
  BY DEF PlayerTurns, InTurn, Do, a0
<1> HIDE DEF done
<1>6. done[PlayerCount] \in X
  <2>1. done[0] = a0 /\ \A k \in 0 .. PlayerCount - 1 : done[k + 1] = Do(done[k], k)
    BY <1>1, <1>4
  <2>2. \A k \in 0 .. PlayerCount - 1 : done[k] \in X => done[k + 1] \in X
    BY <1>2, <2>1
  <2>3. QED
    BY <1>1, <2>1, <2>2, StaysInside
<1>7. QED
  BY <1>5, <1>6 DEF X

-----------------------------------------------------------------------------
(* Flags are set up.                                                        *)

\* What is banked may stand now, for the same team.
SetUp(m0) ==
    {n \in Sound : /\ n.out = m0.out
                   /\ \A f \in Flags : m0.flag[f].state = "banked" =>
                         /\ n.flag[f].holder = m0.flag[f].holder
                         /\ n.flag[f].state \in {"banked", "standing"}}

LEMMA SetUpPointSound ==
    ASSUME NEW m0, NEW m \in SetUp(m0), NEW pt \in FlagPoints, NEW present
    PROVE  SetUpPoint(m, pt, present) \in SetUp(m0)
<1> DEFINE banked == BankedFlags(m, pt[1])
           f == FirstOf(banked)
           stood == m.setup[pt] + 1
           less == IF m.setup[pt] > 0 THEN m.setup[pt] - 1 ELSE 0
           At(x) == [m EXCEPT !.setup[pt] = x]
           stands == StandOnPoint(m, f, pt[1], pt[2])
<1>1. /\ m \in Sound /\ m \in Matches /\ m.setup[pt] \in 0 .. SetupTicks
      /\ Linked(m) /\ Carried(m) /\ Waiting(m)
  BY DEF SetUp, Sound, Matches
<1>2. \/ SetUpPoint(m, pt, present) = m
      \/ SetUpPoint(m, pt, present) = At(0)
      \/ SetUpPoint(m, pt, present) = At(less)
      \/ stood < SetupTicks /\ SetUpPoint(m, pt, present) = At(stood)
      \/ /\ m.at[pt] = NoFlag /\ banked # {}
         /\ SetUpPoint(m, pt, present) = stands
  <2>1. CASE m.out[pt[1]]
    BY <2>1 DEF SetUpPoint
  <2>2. CASE ~m.out[pt[1]] /\ (m.at[pt] # NoFlag \/ banked = {})
    BY <2>2 DEF SetUpPoint
  <2>3. CASE ~m.out[pt[1]] /\ m.at[pt] = NoFlag /\ banked # {}
    <3>1. SetUpPoint(m, pt, present) =
             IF pt \notin present
             THEN [m EXCEPT !.setup[pt] = IF @ > 0 THEN @ - 1 ELSE 0]
             ELSE IF stood < SetupTicks THEN At(stood) ELSE stands
      BY <2>3 DEF SetUpPoint
    <3>2. [m EXCEPT !.setup[pt] = IF @ > 0 THEN @ - 1 ELSE 0] = At(less)
      OBVIOUS
    <3> HIDE DEF less, At, stands, stood
    <3>3. QED
      BY <2>3, <3>1, <3>2
  <2>4. QED
    BY <2>1, <2>2, <2>3
<1>3. ASSUME NEW x \in 0 .. SetupTicks
      PROVE  At(x) \in SetUp(m0)
  <2>1. /\ At(x) \in Matches /\ At(x).flag = m.flag /\ At(x).at = m.at
        /\ At(x).out = m.out
    BY <1>1 DEF Matches
  <2> HIDE DEF At
  <2>2. At(x) \in Sound
    BY <1>1, <2>1 DEF Sound, Linked, Carried, Waiting
  <2>3. QED
    BY <2>1, <2>2 DEF SetUp
<1>4. ASSUME m.at[pt] = NoFlag, banked # {}
      PROVE  stands \in SetUp(m0)
  <2>1. f \in Flags /\ m.flag[f].holder = pt[1] /\ m.flag[f].state = "banked"
    <3>1. banked \in SUBSET Flags
      BY DEF BankedFlags, Held
    <3>2. f \in banked
      BY <1>4, <3>1, FirstOfIsOne
    <3>3. QED
      BY <3>2 DEF BankedFlags, Held
  <2>2. pt = <<pt[1], pt[2]>> /\ pt[1] \in Teams /\ pt[2] \in 0 .. FlagsPerTeam - 1
    BY FlagParts
  <2> HIDE DEF f
  <2>3. /\ stands \in Sound /\ Only(m, stands, f)
        /\ stands.flag[f] = Standing(pt[1], pt[2])
    BY <1>1, <1>4, <2>1, <2>2, StandOnPointSound DEF Waiting
  <2> HIDE DEF stands
  <2>4. stands.flag[f].state = "standing" /\ stands.flag[f].holder = pt[1]
    BY <2>3 DEF Standing
  <2>5. stands.out = m0.out
    BY <2>3 DEF Only, SetUp
  <2>6. ASSUME NEW h \in Flags, m0.flag[h].state = "banked"
        PROVE  /\ stands.flag[h].holder = m0.flag[h].holder
               /\ stands.flag[h].state \in {"banked", "standing"}
    <3>1. m.flag[h].holder = m0.flag[h].holder /\ m.flag[h].state \in {"banked", "standing"}
      BY <2>6 DEF SetUp
    <3>2. QED
      BY <2>1, <2>3, <2>4, <3>1 DEF Only
  <2>7. QED
    BY <2>3, <2>5, <2>6 DEF SetUp
<1>5. /\ 0 \in 0 .. SetupTicks /\ less \in 0 .. SetupTicks
      /\ stood < SetupTicks => stood \in 0 .. SetupTicks
  BY <1>1, Sizes
<1> HIDE DEF At, stands, less, stood
<1>6. QED
  BY <1>2, <1>3, <1>4, <1>5

\* The loop over the points of one team, and over all of them.
SetUpPointsOfTeam(m, t, present) ==
    InTurn(FlagsPerTeam, m, LAMBDA b, i : SetUpPoint(b, <<t, i>>, present))

LEMMA SetUpPointsOfTeamSound ==
    ASSUME NEW m0, NEW m \in SetUp(m0), NEW t \in Teams, NEW present
    PROVE  SetUpPointsOfTeam(m, t, present) \in SetUp(m0)
<1> DEFINE X == SetUp(m0)
           Do(b, i) == SetUpPoint(b, <<t, i>>, present)
           g == [i \in 0 .. FlagsPerTeam - 1 |-> [b \in X |-> Do(b, i)]]
           Is(d) == d = [k \in 0 .. FlagsPerTeam |-> IF k = 0 THEN m ELSE Do(d[k - 1], k - 1)]
<1>1. FlagsPerTeam \in Nat /\ m \in X
  BY Sizes
<1>2. ASSUME NEW i \in 0 .. FlagsPerTeam - 1, NEW b \in X
      PROVE  Do(b, i) \in X
  <2>1. <<t, i>> \in FlagPoints
    BY FlagParts
  <2>2. QED
    BY <2>1, SetUpPointSound
<1> HIDE DEF X, Do
<1>3. \E d : Is(d)
  <2>1. \A i \in 0 .. FlagsPerTeam - 1 : \A b \in X : g[i][b] = Do(b, i)
    OBVIOUS
  <2> HIDE DEF g
  <2>2. \A i \in 0 .. FlagsPerTeam - 1 : \A b \in X : g[i][b] \in X
    BY <1>2, <2>1
  <2>3. PICK d : IsLoop(d, FlagsPerTeam, m, g) /\ \A k \in 0 .. FlagsPerTeam : d[k] \in X
    BY <1>1, <2>2, LoopInside
  <2>4. \A k \in 0 .. FlagsPerTeam : k # 0 => g[k - 1][d[k - 1]] = Do(d[k - 1], k - 1)
    BY <1>1, <2>1, <2>3
  <2>5. Is(d)
    BY <2>3, <2>4 DEF IsLoop
  <2>6. QED
    BY <2>5
<1> DEFINE done == CHOOSE d : Is(d)
<1>4. Is(done)
  BY <1>3
<1>5. SetUpPointsOfTeam(m, t, present) = done[FlagsPerTeam]
  BY DEF SetUpPointsOfTeam, InTurn, Do
<1> HIDE DEF done
<1>6. done[FlagsPerTeam] \in X
  <2>1. done[0] = m /\ \A k \in 0 .. FlagsPerTeam - 1 : done[k + 1] = Do(done[k], k)
    BY <1>1, <1>4
  <2>2. \A k \in 0 .. FlagsPerTeam - 1 : done[k] \in X => done[k + 1] \in X
    BY <1>2, <2>1
  <2>3. QED
    BY <1>1, <2>1, <2>2, StaysInside
<1>7. QED
  BY <1>5, <1>6 DEF X

LEMMA SetUpPointsSound ==
    ASSUME NEW a, a.m \in Sound
    PROVE  SetUpPoints(a) \in SetUp(a.m)
<1> DEFINE X == SetUp(a.m)
           Do(b, t) == SetUpPointsOfTeam(b, t, a.present)
           g == [t \in 0 .. TeamCount - 1 |-> [b \in X |-> Do(b, t)]]
           Is(d) == d = [k \in 0 .. TeamCount |-> IF k = 0 THEN a.m ELSE Do(d[k - 1], k - 1)]
<1>1. TeamCount \in Nat /\ a.m \in X
  BY Sizes DEF SetUp
<1>2. ASSUME NEW t \in 0 .. TeamCount - 1, NEW b \in X
      PROVE  Do(b, t) \in X
  <2>1. t \in Teams /\ b \in SetUp(a.m)
    BY DEF Teams
  <2>2. QED
    BY <2>1, SetUpPointsOfTeamSound
<1> HIDE DEF X, Do
<1>3. \E d : Is(d)
  <2>1. \A t \in 0 .. TeamCount - 1 : \A b \in X : g[t][b] = Do(b, t)
    OBVIOUS
  <2> HIDE DEF g
  <2>2. \A t \in 0 .. TeamCount - 1 : \A b \in X : g[t][b] \in X
    BY <1>2, <2>1
  <2>3. PICK d : IsLoop(d, TeamCount, a.m, g) /\ \A k \in 0 .. TeamCount : d[k] \in X
    BY <1>1, <2>2, LoopInside
  <2>4. \A k \in 0 .. TeamCount : k # 0 => g[k - 1][d[k - 1]] = Do(d[k - 1], k - 1)
    BY <1>1, <2>1, <2>3
  <2>5. Is(d)
    BY <2>3, <2>4 DEF IsLoop
  <2>6. QED
    BY <2>5
<1> DEFINE done == CHOOSE d : Is(d)
<1>4. Is(done)
  BY <1>3
<1>5. SetUpPoints(a) = done[TeamCount]
  BY DEF SetUpPoints, FlagsInTurn, InTurn, SetUpPointsOfTeam, Do
<1> HIDE DEF done
<1>6. done[TeamCount] \in X
  <2>1. done[0] = a.m /\ \A k \in 0 .. TeamCount - 1 : done[k + 1] = Do(done[k], k)
    BY <1>1, <1>4
  <2>2. \A k \in 0 .. TeamCount - 1 : done[k] \in X => done[k + 1] \in X
    BY <1>2, <2>1
  <2>3. QED
    BY <1>1, <2>1, <2>2, StaysInside
<1>7. QED
  BY <1>5, <1>6 DEF X

-----------------------------------------------------------------------------
(* Teams are judged.                                                        *)

\* The flags stay as they are; a team without any may be out, and one of S is.
Judged(m0, S) ==
    {n \in Sound : /\ \A f \in Flags : n.flag[f] = m0.flag[f]
                   /\ \A t \in Teams : /\ m0.out[t] => n.out[t]
                                       /\ n.out[t] => m0.out[t] \/ Held(m0, t) = {}
                                       /\ t \in S => n.out[t] \/ Held(m0, t) # {}}

LEMMA JudgeTeamSound ==
    ASSUME NEW m0, NEW S, NEW m \in Judged(m0, S), NEW t \in Teams
    PROVE  JudgeTeam(m, t) \in Judged(m0, S \union {t})
<1> DEFINE n == Eliminate(m, t, m.taker[t])
<1>1. m \in Sound /\ Held(m, t) = Held(m0, t)
  BY DEF Judged, Held
<1>2. CASE Held(m, t) = {}
  <2>1. /\ n \in Sound /\ n.out = [m.out EXCEPT ![t] = TRUE]
        /\ \A f \in Flags :
              IF ~m.out[t] /\ m.flag[f].state = "banked" /\ m.flag[f].holder = t
              THEN n.flag[f] = Banked(Spoils(m, t, m.taker[t]))
              ELSE n.flag[f] = m.flag[f]
    BY <1>1, EliminateSound
  <2>2. \A f \in Flags : m.flag[f].holder # t
    BY <1>2 DEF Held
  <2>3. JudgeTeam(m, t) = n
    BY <1>2 DEF JudgeTeam
  <2> HIDE DEF n
  <2>4. \A u \in Teams : n.out[u] <=> m.out[u] \/ u = t
    BY <1>1, <2>1 DEF Sound, Matches
  <2>5. \A f \in Flags : n.flag[f] = m0.flag[f]
    BY <2>1, <2>2 DEF Judged
  <2>6. QED
    BY <1>1, <1>2, <2>1, <2>3, <2>4, <2>5 DEF Judged
<1>3. CASE Held(m, t) # {}
  BY <1>1, <1>3 DEF JudgeTeam, Judged
<1>4. QED
  BY <1>2, <1>3

\* One round over the teams is enough.
LEMMA JudgeTeamsOnce ==
    ASSUME NEW m0, NEW m \in Judged(m0, {})
    PROVE  InTurn(TeamCount, m, JudgeTeam) \in Judged(m0, Teams)
<1>0. 0 .. -1 = {} /\ Teams = 0 .. TeamCount - 1
      /\ \A t \in 0 .. TeamCount - 1 : 0 .. (t + 1) - 1 = (0 .. t - 1) \union {t}
  BY DEF Teams
<1> DEFINE I == [k \in 0 .. TeamCount |-> Judged(m0, 0 .. k - 1)]
           Do(a, t) == JudgeTeam(a, t)
           g == [t \in 0 .. TeamCount - 1 |-> [a \in I[t] |-> Do(a, t)]]
           Is(d) == d = [k \in 0 .. TeamCount |-> IF k = 0 THEN m ELSE Do(d[k - 1], k - 1)]
<1>1. TeamCount \in Nat /\ m \in I[0]
  BY <1>0, Sizes
<1>2. ASSUME NEW t \in 0 .. TeamCount - 1, NEW a \in I[t]
      PROVE  Do(a, t) \in I[t + 1]
  <2>1. t \in Teams /\ a \in Judged(m0, 0 .. t - 1)
    <3>1. t \in Teams /\ t \in 0 .. TeamCount
      BY <1>0, <1>1
    <3>2. I[t] = Judged(m0, 0 .. t - 1)
      BY <3>1
    <3> HIDE DEF I
    <3>3. QED
      BY <3>1, <3>2
  <2>2. JudgeTeam(a, t) \in Judged(m0, 0 .. (t + 1) - 1)
    BY <1>0, <2>1, JudgeTeamSound
  <2>3. QED
    BY <1>1, <2>2
<1> HIDE DEF I, Do
<1>3. \E d : Is(d)
  <2>1. \A t \in 0 .. TeamCount - 1 : \A a \in I[t] : g[t][a] = Do(a, t)
    OBVIOUS
  <2> HIDE DEF g
  <2>2. \A t \in 0 .. TeamCount - 1 : \A a \in I[t] : g[t][a] \in I[t + 1]
    BY <1>2, <2>1
  <2>3. PICK d : IsLoop(d, TeamCount, m, g) /\ \A k \in 0 .. TeamCount : d[k] \in I[k]
    BY <1>1, <2>2, LoopExists
  <2>4. \A k \in 0 .. TeamCount : k # 0 => g[k - 1][d[k - 1]] = Do(d[k - 1], k - 1)
    BY <1>1, <2>1, <2>3
  <2>5. Is(d)
    BY <2>3, <2>4 DEF IsLoop
  <2>6. QED
    BY <2>5
<1> DEFINE done == CHOOSE d : Is(d)
<1>4. Is(done)
  BY <1>3
<1>5. InTurn(TeamCount, m, JudgeTeam) = done[TeamCount]
  BY DEF InTurn, Do
<1> HIDE DEF done
<1>6. done[TeamCount] \in I[TeamCount]
  <2>1. done[0] = m /\ \A k \in 0 .. TeamCount - 1 : done[k + 1] = Do(done[k], k)
    BY <1>1, <1>4
  <2>2. \A k \in 0 .. TeamCount - 1 : done[k] \in I[k] => done[k + 1] \in I[k + 1]
    BY <1>2, <2>1
  <2>3. \A k \in 0 .. TeamCount : done[k] \in I[k]
    BY <1>1, <2>1, <2>2, Stays
  <2>4. QED
    BY <1>1, <2>3
<1>7. QED
  BY <1>0, <1>1, <1>5, <1>6 DEF I

LEMMA JudgeTeamsSound ==
    ASSUME NEW m \in Sound
    PROVE  JudgeTeams(m) \in Judged(m, Teams)
<1>0. m \in Judged(m, {}) /\ Judged(m, Teams) \subseteq Judged(m, {})
  BY DEF Judged
<1> DEFINE I == [k \in 0 .. TeamCount |-> IF k = 0 THEN Judged(m, {}) ELSE Judged(m, Teams)]
           Do(a, round) == InTurn(TeamCount, a, JudgeTeam)
           g == [round \in 0 .. TeamCount - 1 |-> [a \in I[round] |-> Do(a, round)]]
           Is(d) == d = [k \in 0 .. TeamCount |-> IF k = 0 THEN m ELSE Do(d[k - 1], k - 1)]
<1>1. TeamCount \in Nat /\ m \in I[0]
  BY <1>0, Sizes
<1>2. ASSUME NEW round \in 0 .. TeamCount - 1, NEW a \in I[round]
      PROVE  Do(a, round) \in I[round + 1]
  <2>1. a \in Judged(m, {})
    BY <1>0, <1>1
  <2>2. InTurn(TeamCount, a, JudgeTeam) \in Judged(m, Teams)
    BY <2>1, JudgeTeamsOnce
  <2>3. I[round + 1] = Judged(m, Teams)
    BY <1>1
  <2>4. QED
    BY <2>2, <2>3
<1> HIDE DEF I, Do
<1>3. \E d : Is(d)
  <2>1. \A round \in 0 .. TeamCount - 1 : \A a \in I[round] : g[round][a] = Do(a, round)
    OBVIOUS
  <2> HIDE DEF g
  <2>2. \A round \in 0 .. TeamCount - 1 : \A a \in I[round] : g[round][a] \in I[round + 1]
    BY <1>2, <2>1
  <2>3. PICK d : IsLoop(d, TeamCount, m, g) /\ \A k \in 0 .. TeamCount : d[k] \in I[k]
    BY <1>1, <2>2, LoopExists
  <2>4. \A k \in 0 .. TeamCount : k # 0 => g[k - 1][d[k - 1]] = Do(d[k - 1], k - 1)
    BY <1>1, <2>1, <2>3
  <2>5. Is(d)
    BY <2>3, <2>4 DEF IsLoop
  <2>6. QED
    BY <2>5
<1> DEFINE done == CHOOSE d : Is(d)
<1>4. Is(done)
  BY <1>3
<1>5. JudgeTeams(m) = done[TeamCount]
  BY DEF JudgeTeams, InTurn, Do
<1> HIDE DEF done
<1>6. done[TeamCount] \in I[TeamCount]
  <2>1. done[0] = m /\ \A k \in 0 .. TeamCount - 1 : done[k + 1] = Do(done[k], k)
    BY <1>1, <1>4
  <2>2. \A k \in 0 .. TeamCount - 1 : done[k] \in I[k] => done[k + 1] \in I[k + 1]
    BY <1>2, <2>1
  <2>3. \A k \in 0 .. TeamCount : done[k] \in I[k]
    BY <1>1, <2>1, <2>2, Stays
  <2>4. QED
    BY <1>1, <2>3
<1>7. QED
  BY <1>1, <1>5, <1>6, Sizes DEF I

-----------------------------------------------------------------------------
(* A tick.                                                                  *)

LEMMA FindWinnerSound ==
    ASSUME NEW m \in Sound
    PROVE  FindWinner(m) \in Sound /\ FindWinner(m).flag = m.flag /\ FindWinner(m).out = m.out
<1> DEFINE won == {t \in Teams : ~m.out[t] /\ Cardinality(HeldForeign(m, t)) =
                                  FlagsPerTeam * (TeamCount - 1)}
           w == IF won = {} THEN NoTeam ELSE Min(won)
           n == FindWinner(m)
<1>1. w \in Teams \union {NoTeam}
  <2>1. won \in SUBSET Teams /\ Teams \subseteq Nat
    BY DEF Teams
  <2> HIDE DEF won
  <2>2. won # {} => Min(won) \in won
    BY <2>1, MinIsOne
  <2>3. QED
    BY <2>1, <2>2
<1>2. n = [m EXCEPT !.winner = w] /\ m \in Matches
  BY DEF FindWinner, Sound
<1> HIDE DEF n, w
<1>3. n \in Matches /\ n.flag = m.flag /\ n.at = m.at /\ n.out = m.out
  BY <1>1, <1>2 DEF Matches
<1>4. QED
  BY <1>3 DEF Sound, Linked, Carried, Waiting, n

\* What a tick does to a match: teams go out and stay out, one that is in holds a
\* flag, what is banked is handed on before it may be set up.
Ticked(m0, left) ==
    {n \in Sound :
        /\ \A t \in Teams : m0.out[t] => n.out[t]
        /\ \A t \in Teams : n.out[t] \/ Held(n, t) # {}
        /\ \E m \in Handed(m0, left) :
              /\ \A t \in Teams : m.out[t] => n.out[t]
              /\ \A t \in Teams : n.out[t] => m.out[t] \/ Held(n, t) = {}
              /\ \A f \in Flags : m.flag[f].state = "banked" =>
                    /\ n.flag[f].holder = m.flag[f].holder
                    /\ n.flag[f].state \in {"banked", "standing"}}

LEMMA StepTicks ==
    ASSUME NEW m0 \in Sound, NEW left \in SUBSET Teams, NEW r \in [Players -> Statuses]
    PROVE  Step(EmptySquadsOut(m0, left), r) \in Ticked(m0, left)
<1> DEFINE m == EmptySquadsOut(m0, left)
           moved == MoveFlags(m, r)
           a == PlayerTurns(moved, r)
           set == SetUpPoints(a)
           judged == JudgeTeams(set)
           n == FindWinner(judged)
<1>1. m \in Handed(m0, left) /\ m \in Sound
  BY EmptySquadsOutSound DEF Handed
<1> HIDE DEF m
<1>2. moved \in Kept(m)
  BY <1>1, MoveFlagsKept
<1> HIDE DEF moved
<1>3. a.m \in Kept(m) /\ a.m \in Sound
  BY <1>2, PlayerTurnsKept DEF Turns, Kept
<1> HIDE DEF a
<1>4. set \in SetUp(a.m) /\ set \in Sound
  BY <1>3, SetUpPointsSound DEF SetUp
<1> HIDE DEF set
<1>5. judged \in Judged(set, Teams) /\ judged \in Sound
  BY <1>4, JudgeTeamsSound DEF Judged
<1> HIDE DEF judged
<1>6. n \in Sound /\ n.flag = judged.flag /\ n.out = judged.out
  BY <1>5, FindWinnerSound
<1> HIDE DEF n
<1>7. Step(EmptySquadsOut(m0, left), r) = n
  BY DEF Step, m, moved, a, set, judged, n
<1>8. \A f \in Flags : n.flag[f] = set.flag[f]
  BY <1>5, <1>6 DEF Judged
<1>9. set.out = m.out
  BY <1>3, <1>4 DEF Kept, SetUp
<1>10. \A t \in Teams : Held(n, t) = Held(set, t)
  BY <1>8 DEF Held
<1>11. \A t \in Teams : /\ m.out[t] => n.out[t]
                        /\ n.out[t] => m.out[t] \/ Held(n, t) = {}
                        /\ n.out[t] \/ Held(n, t) # {}
  BY <1>5, <1>6, <1>9, <1>10 DEF Judged
<1>12. ASSUME NEW f \in Flags, m.flag[f].state = "banked"
       PROVE  /\ n.flag[f].holder = m.flag[f].holder
              /\ n.flag[f].state \in {"banked", "standing"}
  BY <1>3, <1>4, <1>8, <1>12 DEF Kept, SetUp
<1>13. \A t \in Teams : m0.out[t] => n.out[t]
  BY <1>1, <1>11 DEF Handed
<1>14. QED
  BY <1>1, <1>6, <1>7, <1>11, <1>12, <1>13 DEF Ticked

\* The inductive invariant.
RulesIInv == match \in Sound /\ InTeamsHoldFlags

\* Everything the run checks follows from it.
LEMMA IInvConsistent == RulesIInv => FlagsConsistent
<1> SUFFICES ASSUME RulesIInv PROVE FlagsConsistent
  OBVIOUS
<1>1. match \in Matches /\ Linked(match) /\ Carried(match)
  BY DEF RulesIInv, Sound
<1>2. RulesTypeOK
  BY <1>1 DEF RulesTypeOK, Matches, FlagRecords
<1>3. PointsMatchFlags
  BY <1>1 DEF PointsMatchFlags, Linked, Point
<1>4. \A p \in Players : Cardinality(CarriedBy(match, p)) <= 1
  <2>1. ASSUME NEW p \in Players
        PROVE  Cardinality(CarriedBy(match, p)) <= 1
    <3>1. CASE CarriedBy(match, p) = {}
      BY <3>1, FS_EmptySet
    <3>2. CASE CarriedBy(match, p) # {}
      <4>1. PICK f : f \in CarriedBy(match, p)
        BY <3>2
      <4>2. CarriedBy(match, p) = {f}
        BY <1>1, <4>1, Sizes DEF CarriedBy, Carried
      <4>3. Cardinality(CarriedBy(match, p)) = 1
        BY <4>2, FS_Singleton
      <4>4. QED
        BY <4>3
    <3>3. QED
      BY <3>1, <3>2
  <2>2. QED
    BY <2>1
<1>5. OneFlagEach
  BY <1>1, <1>4 DEF OneFlagEach, Carried
<1>6. QED
  BY <1>2, <1>3, <1>5 DEF FlagsConsistent, RulesIInv

\* The flags are created on their points.
LEMMA InitRulesIInv == RulesInit => RulesIInv
<1> SUFFICES ASSUME RulesInit PROVE RulesIInv
  OBVIOUS
<1>1. /\ match.flag = [f \in Flags |-> Standing(f[1], f[2])]
      /\ match.at = [pt \in FlagPoints |-> pt]
      /\ match.out = [t \in Teams |-> FALSE]
      /\ match = [flag |-> match.flag, at |-> match.at,
                  setup |-> [pt \in FlagPoints |-> 0], out |-> match.out,
                  taker |-> [t \in Teams |-> NoTeam], winner |-> NoTeam]
  BY DEF RulesInit, CreateFlags
<1>2. \A f \in Flags :
         /\ match.flag[f] \in FlagRecords
         /\ match.flag[f].state = "standing" /\ match.flag[f].holder = f[1]
         /\ Point(match.flag[f]) = f /\ match.flag[f].carrier = Nobody
  BY <1>1, FlagParts, Sizes DEF Standing, FlagRecords, Point, Places
<1>3. match \in Matches
  <2>1. /\ match.flag \in [Flags -> FlagRecords]
        /\ match.at \in [FlagPoints -> Flags \union {NoFlag}]
        /\ [pt \in FlagPoints |-> 0] \in [FlagPoints -> 0 .. SetupTicks]
        /\ match.out \in [Teams -> BOOLEAN]
        /\ [t \in Teams |-> NoTeam] \in [Teams -> Teams \union {NoTeam}]
    BY <1>1, <1>2, FlagParts, Sizes
  <2> DEFINE flag == match.flag
             at == match.at
             setup == [pt \in FlagPoints |-> 0]
             out == match.out
             taker == [t \in Teams |-> NoTeam]
  <2>2. match = [flag |-> flag, at |-> at, setup |-> setup, out |-> out,
                 taker |-> taker, winner |-> NoTeam]
    BY <1>1
  <2> HIDE DEF flag, at, setup, out, taker
  <2>3. [flag |-> flag, at |-> at, setup |-> setup, out |-> out,
         taker |-> taker, winner |-> NoTeam] \in Matches
    BY <2>1 DEF Matches, flag, at, setup, out, taker
  <2>4. QED
    BY <2>2, <2>3
<1>4. Linked(match)
  BY <1>1, <1>2, FlagParts DEF Linked
<1>5. Carried(match) /\ Waiting(match)
  BY <1>2 DEF Carried, Waiting
<1>6. InTeamsHoldFlags
  <2>1. ASSUME NEW t \in Teams
        PROVE  Held(match, t) # {}
    <3>1. <<t, 0>> \in Flags
      BY FlagParts, Sizes
    <3>2. match.flag[<<t, 0>>].holder = t
      BY <1>2, <3>1
    <3>3. QED
      BY <3>1, <3>2 DEF Held
  <2>2. QED
    BY <2>1 DEF InTeamsHoldFlags
<1>7. QED
  BY <1>3, <1>4, <1>5, <1>6 DEF RulesIInv, Sound

\* A step is a tick of the rules.
LEMMA NextTicks ==
    ASSUME RulesIInv, RulesNext
    PROVE  \E left \in SUBSET Teams : match' \in Ticked(match, left)
<1>1. PICK left \in {{}} \union {{t} : t \in {u \in Teams : ~match.out[u]}} :
         \E r \in Reports(match, left) : RulesTick(left, r)
  BY DEF RulesNext
<1>2. PICK r \in Reports(match, left) : RulesTick(left, r)
  BY <1>1
<1>3. left \in SUBSET Teams /\ r \in [Players -> Statuses]
  <2>1. {Away} \union [is : {"alive", "dead"}, place : Places] \subseteq Statuses
    BY DEF Away, Statuses, Places
  <2>2. QED
    BY <2>1 DEF Reports
<1>4. QED
  BY <1>2, <1>3, StepTicks DEF RulesTick, RulesIInv

LEMMA NextRulesIInv == RulesIInv /\ [RulesNext]_rulesVars => RulesIInv'
<1> SUFFICES ASSUME RulesIInv, [RulesNext]_rulesVars PROVE RulesIInv'
  OBVIOUS
<1>1. CASE RulesNext
  <2>1. PICK left \in SUBSET Teams : match' \in Ticked(match, left)
    BY <1>1, NextTicks
  <2>2. QED
    BY <2>1 DEF Ticked, RulesIInv, InTeamsHoldFlags, Held
<1>2. CASE UNCHANGED rulesVars
  BY <1>2 DEF rulesVars, RulesIInv, InTeamsHoldFlags
<1>3. QED
  BY <1>1, <1>2

LEMMA RulesAlwaysIInv == RulesSpec => []RulesIInv
BY InitRulesIInv, NextRulesIInv, PTL DEF RulesSpec

\* Flags, points, carriers and teams agree with one another after every tick.
THEOREM RulesFlagsConsistent == RulesSpec => []FlagsConsistent
BY RulesAlwaysIInv, IInvConsistent, PTL

\* What is banked stays with its team until it is set up or the team is out.
THEOREM RulesBankIsSafe == RulesSpec => BankIsSafe
<1>1. ASSUME RulesIInv, RulesNext
      PROVE  \A f \in Flags : LET fl == match.flag[f] IN
                fl.state = "banked" /\ ~match'.out[fl.holder] =>
                   /\ match'.flag[f].holder = fl.holder
                   /\ match'.flag[f].state \in {"banked", "standing"}
  <2>1. PICK left \in SUBSET Teams : match' \in Ticked(match, left)
    BY <1>1, NextTicks
  <2>2. PICK m \in Handed(match, left) :
           /\ \A t \in Teams : m.out[t] => match'.out[t]
           /\ \A f \in Flags : m.flag[f].state = "banked" =>
                 /\ match'.flag[f].holder = m.flag[f].holder
                 /\ match'.flag[f].state \in {"banked", "standing"}
    BY <2>1 DEF Ticked
  <2>3. ASSUME NEW f \in Flags, match.flag[f].state = "banked",
               ~match'.out[match.flag[f].holder]
        PROVE  /\ match'.flag[f].holder = match.flag[f].holder
               /\ match'.flag[f].state \in {"banked", "standing"}
    <3>1. match.flag[f].holder \in Teams
      BY <1>1 DEF RulesIInv, Sound, Matches, FlagRecords
    <3>2. m.flag[f].state = "banked" /\ m.flag[f] = match.flag[f]
      BY <2>2, <2>3, <3>1 DEF Handed
    <3>3. QED
      BY <2>2, <3>2
  <2>4. QED
    BY <2>3
<1>2. QED
  BY <1>1, RulesAlwaysIInv, PTL DEF RulesSpec, BankIsSafe

\* The bank of a team that goes out ends with a team that is in, if any is.
THEOREM RulesSpoilsStayInPlay == RulesSpec => SpoilsStayInPlay
<1>1. ASSUME RulesIInv, RulesNext
      PROVE  \A f \in Flags : LET fl == match.flag[f] IN
                /\ fl.state = "banked" /\ ~match.out[fl.holder] /\ match'.out[fl.holder]
                /\ \E t \in Teams : ~match'.out[t]
                => ~match'.out[match'.flag[f].holder]
  <2>1. PICK left \in SUBSET Teams : match' \in Ticked(match, left)
    BY <1>1, NextTicks
  <2>2. PICK m \in Handed(match, left) :
           /\ \A t \in Teams : m.out[t] => match'.out[t]
           /\ \A t \in Teams : match'.out[t] => m.out[t] \/ Held(match', t) = {}
           /\ \A f \in Flags : m.flag[f].state = "banked" =>
                 /\ match'.flag[f].holder = m.flag[f].holder
                 /\ match'.flag[f].state \in {"banked", "standing"}
    BY <2>1 DEF Ticked
  <2>3. ASSUME NEW f \in Flags, match.flag[f].state = "banked",
               ~match.out[match.flag[f].holder], match'.out[match.flag[f].holder],
               \E t \in Teams : ~match'.out[t]
        PROVE  ~match'.out[match'.flag[f].holder]
    <3>1. m.flag[f].state = "banked" /\ \E t \in Teams : ~m.out[t]
      BY <2>2, <2>3 DEF Handed
    <3>2. ~m.out[m.flag[f].holder]
      BY <2>3, <3>1 DEF Handed
    <3>3. match'.flag[f].holder = m.flag[f].holder /\ m.flag[f].holder \in Teams
      BY <2>2, <3>1 DEF Handed, Sound, Matches, FlagRecords
    <3>4. f \in Held(match', m.flag[f].holder)
      BY <3>3 DEF Held
    <3>5. QED
      BY <2>2, <3>2, <3>3, <3>4
  <2>4. QED
    BY <2>3
<1>2. QED
  BY <1>1, RulesAlwaysIInv, PTL DEF RulesSpec, SpoilsStayInPlay
=============================================================================
