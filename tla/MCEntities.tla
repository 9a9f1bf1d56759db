----------------------------- MODULE MCEntities -----------------------------
(***************************************************************************)
(* Entities for TLC: two slots, four ids, two accounts that are alike.     *)
(***************************************************************************)
EXTENDS Entities, TLC

Symmetry == Permutations(Accounts)

Client(c) == world.client[c]
Leaving(c) == Client(c).kick \/ Client(c).status = "gone"
Uses(S) == {c \in Slots : Client(c).account \in S}
TwoAccounts == \A a \in Accounts : Uses({a}) # {}

\* Bound: with four ids, either a player has a flower and a petal, a mob or a drop
\* and leaves an id free, or two players have a flower each.  Beside another
\* account, nobody has a petal or is leaving.
OneFlower ==
    /\ world.entity[MaxEntities] = Nothing
    /\ Cardinality(OfKind(world, "mob") \cup OfKind(world, "drop")) <= 1
    /\ TwoAccounts => OfKind(world, "petal") = {} /\ \A c \in Slots : ~Leaving(c)
TwoFlowers ==
    /\ \A i \in Ids : world.entity[i].kind \in {"nothing", "player", "flower"}
    /\ \A c \in Slots : ~Leaving(c)
    /\ \A a \in Accounts : Cardinality(Uses({a})) <= 1
FewEntities == OneFlower \/ TwoFlowers

\* Bounds: one connection at a time is leaving, one has sent a message of the
\* squads, and a quick join is over before its client plays.
OneLeaves == Cardinality({c \in Slots : Leaving(c)}) <= 1
OneMessage == Cardinality({c \in Slots : Client(c).wait \/ Client(c).quick}) <= 1
QuickFirst == \A c \in Slots : ~(Client(c).quick /\ Client(c).playing)

\* Bounds: who joins quickly, who is out of the squad but not of the game, and who
\* is to be closed while in the squad, has the server without mobs for themself.
Lone ==
    /\ Cardinality(Uses(Accounts)) = 1
    /\ \A i \in Tracked(world) \ world.pending :
            world.entity[i].kind \in {"player", "flower"}
RareOnesAlone ==
    \/ Lone
    \/ /\ \A p \in OfKind(world, "player") \ world.pending : ~world.entity[p].strayed
       /\ \A c \in Slots : ~Client(c).quick /\ ~(Client(c).kick /\ Client(c).inSquad)
=============================================================================
