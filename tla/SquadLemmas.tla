---------------------------- MODULE SquadLemmas ----------------------------
(***************************************************************************)
(* What the operators of Squads do to one squad and to the lobby, for any  *)
(* number of clients, squads and places.  SquadsProof builds on it.        *)
(***************************************************************************)
EXTENDS Squads, FiniteSetTheorems, WellFoundedInduction, TLAPS

(***************************************************************************)
(* Positions and their subsets.                                            *)
(***************************************************************************)
\* Sets of positions are finite and no larger than a squad.
LEMMA PositionSets ==
    ASSUME NEW S \in SUBSET Positions
    PROVE  /\ IsFiniteSet(S)
           /\ Cardinality(S) \in 0..SquadSize
           /\ Cardinality(S) = SquadSize => S = Positions
<1>1. IsFiniteSet(Positions) /\ Cardinality(Positions) = SquadSize
  BY FS_Interval, SizesAssumption DEF Positions
<1>2. IsFiniteSet(S) /\ Cardinality(S) <= Cardinality(Positions)
      /\ (Cardinality(Positions) = Cardinality(S) => Positions = S)
  BY <1>1, FS_Subset
<1>3. Cardinality(S) \in Nat
  BY <1>2, FS_CardinalityType
<1>4. QED
  BY <1>1, <1>2, <1>3, SizesAssumption

\* A nonempty set of naturals has a smallest element.
LEMMA Smallest ==
    ASSUME NEW S \in SUBSET Nat, S # {}
    PROVE  \E p \in S : \A q \in S : p <= q
<1> DEFINE R == OpToRel(<, Nat)
<1>1. S \subseteq Nat
  OBVIOUS
<1>2. PICK p \in S : \A q \in S : <<q, p>> \notin R
  BY <1>1, NatLessThanWellFounded, WFMin
<1>3. ASSUME NEW q \in S PROVE p <= q
  <2>1. q < p => <<q, p>> \in R
    BY <1>1 DEF OpToRel
  <2> HIDE DEF R
  <2>2. p \in Nat /\ q \in Nat
    BY <1>1
  <2>3. QED
    BY <1>2, <2>1, <2>2
<1>4. QED
  BY <1>3

\* The squad every index starts with is consistent.
LEMMA EmptySquadOK ==
    /\ EmptySquad \in SquadRecords
    /\ SquadOK(EmptySquad)
    /\ Used(EmptySquad) = {}
<1>1. EmptyMember \in Members
  BY ClientsAssumption, SizesAssumption DEF EmptyMember, Members, Positions
<1>2. EmptySquad \in SquadRecords
  BY <1>1, SizesAssumption DEF EmptySquad, SquadRecords, Positions
<1>3. Used(EmptySquad) = {}
  BY DEF Used, EmptySquad, EmptyMember
<1>4. SquadOK(EmptySquad)
  BY <1>3, FS_EmptySet DEF SquadOK, CountsOK, SettingsOK, EmptySquad
<1>5. QED
  BY <1>2, <1>3, <1>4

\* Taking one from a tally, in eight bits.
LEMMA Less8Values ==
    ASSUME NEW n \in 0..255
    PROVE  Less8(n) \in 0..255 /\ (n > 0 => Less8(n) = n - 1)
BY DEF Less8

\* The fields of a slot and of a squad.
LEMMA Fields ==
    /\ \A m \in Members : /\ m.client \in Clients \cup {NoClient}
                          /\ m.vote \in {NoVote} \cup Positions
                          /\ m.votes \in 0..255
                          /\ m.playing \in BOOLEAN
    /\ \A sq \in SquadRecords : /\ sq.members \in [Positions -> Members]
                                /\ sq.count \in 0..255
                                /\ sq.owner \in Positions
                                /\ sq.private \in BOOLEAN
                                /\ sq.expose \in BOOLEAN
BY DEF Members, SquadRecords

\* A slot whose ballot is withdrawn.
LEMMA WithoutVote ==
    ASSUME NEW m \in Members
    PROVE  LET n == [m EXCEPT !.vote = NoVote]
           IN  /\ n \in Members
               /\ n.client = m.client /\ n.playing = m.playing
               /\ n.votes = m.votes /\ n.vote = NoVote
BY DEF Members

\* Withdrawing the ballot of p lowers the tally of the member it names.
LEMMA UncountMembers ==
    ASSUME NEW m \in [Positions -> Members], NEW p \in Positions
    PROVE  /\ Uncount(m, p) \in [Positions -> Members]
           /\ \A q \in Positions :
                 /\ Uncount(m, p)[q].client = m[q].client
                 /\ Uncount(m, p)[q].vote = m[q].vote
                 /\ Uncount(m, p)[q].playing = m[q].playing
                 /\ Uncount(m, p)[q].votes = IF q = m[p].vote THEN Less8(m[q].votes)
                                             ELSE m[q].votes
<1>1. CASE m[p].vote = NoVote
  <2>1. \A q \in Positions : q # m[p].vote
    BY <1>1 DEF NoVote, Positions
  <2>2. QED
    BY <1>1, <2>1 DEF Uncount
<1>2. CASE m[p].vote # NoVote
  <2> DEFINE v == m[p].vote
             x == Less8(m[v].votes)
  <2>1. v \in Positions
    BY <1>2, Fields
  <2>2. x \in 0..255
    BY <2>1, Fields, Less8Values
  <2>3. Uncount(m, p) = [m EXCEPT ![v].votes = x]
    BY <1>2 DEF Uncount
  <2> HIDE DEF v, x
  <2>4. /\ [m EXCEPT ![v].votes = x] \in [Positions -> Members]
        /\ \A q \in Positions :
              LET n == [m EXCEPT ![v].votes = x][q]
              IN  /\ n.client = m[q].client /\ n.vote = m[q].vote
                  /\ n.playing = m[q].playing
                  /\ n.votes = IF q = v THEN x ELSE m[q].votes
    BY <2>1, <2>2 DEF Members
  <2>5. QED
    BY <2>3, <2>4 DEF v, x
<1>3. QED
  BY <1>1, <1>2

\* Counts depend on the members alone.
LEMMA SameMembers ==
    ASSUME NEW sq, NEW r, r.members = sq.members, r.count = sq.count
    PROVE  Used(r) = Used(sq) /\ (CountsOK(sq) => CountsOK(r))
<1>1. Used(r) = Used(sq)
  BY DEF Used
<1>2. \A p : Voters(r, p) = Voters(sq, p)
  BY <1>1 DEF Voters
<1>3. QED
  BY <1>1, <1>2 DEF CountsOK

\* A member that goes takes its ballot with it, and the ballots against it; the
\* others keep their places.
LEMMA RemoveMemberOK ==
    ASSUME NEW sq \in SquadRecords, SquadOK(sq),
           NEW p \in Used(sq), NEW r \in RemoveMember(sq, p)
    PROVE  /\ r \in SquadRecords
           /\ SquadOK(r)
           /\ Used(r) = Used(sq) \ {p}
           /\ \A q \in Used(r) :
                 /\ r.members[q].client = sq.members[q].client
                 /\ r.members[q].playing = sq.members[q].playing
                 /\ r.members[q].vote \in {NoVote, sq.members[q].vote}
<1> DEFINE v == sq.members[p].vote
           counted == Uncount(sq.members, p)
           others == [q \in Positions |->
                       IF q = p THEN EmptyMember
                       ELSE IF counted[q].client # NoClient /\ counted[q].vote = p
                            THEN [counted[q] EXCEPT !.vote = NoVote]
                            ELSE counted[q]]
           rest == [sq EXCEPT !.members = others, !.count = Less8(@)]
<1>1. p \in Positions /\ Used(sq) \subseteq Positions
  BY DEF Used
<1>2. sq.members \in [Positions -> Members]
  BY DEF SquadRecords
<1>3. v \in {NoVote} \cup (Used(sq) \ {p})
  BY DEF SquadOK, CountsOK, SettingsOK
<1>4. /\ counted \in [Positions -> Members]
      /\ \A q \in Positions :
            /\ counted[q].client = sq.members[q].client
            /\ counted[q].vote = sq.members[q].vote
            /\ counted[q].playing = sq.members[q].playing
            /\ counted[q].votes = IF q = v THEN Less8(sq.members[q].votes)
                                  ELSE sq.members[q].votes
  BY <1>1, <1>2, UncountMembers
<1> HIDE DEF counted
<1>5. /\ others \in [Positions -> Members]
      /\ others[p] = EmptyMember
      /\ \A q \in Positions \ {p} :
            /\ others[q].client = sq.members[q].client
            /\ others[q].playing = sq.members[q].playing
            /\ others[q].votes = counted[q].votes
            /\ others[q].vote = IF sq.members[q].client # NoClient /\ sq.members[q].vote = p
                                THEN NoVote ELSE sq.members[q].vote
  <2>1. EmptyMember \in Members
    BY SizesAssumption DEF EmptyMember, Members, Positions
  <2>2. ASSUME NEW q \in Positions \ {p}
        PROVE  /\ others[q] \in Members
               /\ others[q].client = sq.members[q].client
               /\ others[q].playing = sq.members[q].playing
               /\ others[q].votes = counted[q].votes
               /\ others[q].vote = IF sq.members[q].client # NoClient
                                      /\ sq.members[q].vote = p
                                   THEN NoVote ELSE sq.members[q].vote
    <3>1. counted[q] \in Members
      BY <1>4
    <3>2. others[q] = IF counted[q].client # NoClient /\ counted[q].vote = p
                      THEN [counted[q] EXCEPT !.vote = NoVote] ELSE counted[q]
      OBVIOUS
    <3>3. QED
      BY <1>4, <3>1, <3>2, WithoutVote
  <2>3. others[p] = EmptyMember
    BY <1>1
  <2>4. others \in [Positions -> Members]
    <3>1. \A q \in Positions : others[q] \in Members
      BY <2>1, <2>2, <2>3
    <3>2. QED
      BY <3>1
  <2>5. QED
    BY <2>2, <2>3, <2>4
<1>6. /\ rest \in SquadRecords
      /\ rest.members = others
      /\ rest.count = Less8(sq.count)
      /\ rest.owner = sq.owner /\ rest.private = sq.private /\ rest.expose = sq.expose
  <2>1. Less8(sq.count) \in 0..255
    BY Fields, Less8Values
  <2> HIDE DEF others
  <2>2. QED
    BY <1>5, <2>1 DEF SquadRecords
<1> HIDE DEF others, rest
<1>7. Used(rest) = Used(sq) \ {p}
  BY <1>1, <1>5, <1>6 DEF Used, EmptyMember
<1>8. /\ rest.count = Cardinality(Used(rest))
      /\ rest.count = sq.count - 1
  <2>1. IsFiniteSet(Used(sq)) /\ Cardinality(Used(sq)) \in 0..SquadSize
    BY <1>1, PositionSets
  <2>2. Cardinality(Used(rest)) = Cardinality(Used(sq)) - 1
    BY <1>7, <2>1, FS_RemoveElement
  <2>3. Cardinality(Used(rest)) \in 0..SquadSize
    BY <1>1, <1>7, PositionSets
  <2>4. sq.count = Cardinality(Used(sq))
    BY DEF SquadOK, CountsOK, SettingsOK
  <2>5. sq.count > 0
    BY <2>1, <2>2, <2>3, <2>4, SizesAssumption
  <2>6. rest.count = sq.count - 1
    BY <1>6, <2>5, Fields, Less8Values
  <2>7. QED
    BY <2>2, <2>4, <2>6
<1>9. ASSUME NEW q \in Used(rest)
      PROVE  /\ rest.members[q].vote \in {NoVote} \cup (Used(rest) \ {q})
             /\ rest.members[q].votes = Cardinality(Voters(rest, q))
  <2>1. q \in Used(sq) /\ q # p /\ q \in Positions
    BY <1>1, <1>7, <1>9
  <2>2. sq.members[q].vote \in {NoVote} \cup (Used(sq) \ {q})
    BY <2>1 DEF SquadOK, CountsOK, SettingsOK
  <2>3. rest.members[q].vote \in {NoVote} \cup (Used(rest) \ {q})
    BY <1>5, <1>6, <1>7, <2>1, <2>2 DEF Used
  <2>4. Voters(rest, q) = Voters(sq, q) \ {p}
    BY <1>5, <1>6, <1>7, <2>1 DEF Voters, Used, NoVote, Positions
  <2>5. sq.members[q].votes = Cardinality(Voters(sq, q))
    BY <2>1 DEF SquadOK, CountsOK, SettingsOK
  <2>6. /\ IsFiniteSet(Voters(sq, q))
        /\ Cardinality(Voters(sq, q)) \in 0..SquadSize
        /\ Cardinality(Voters(rest, q)) \in 0..SquadSize
    BY <1>1, <1>7, PositionSets DEF Voters, Used
  <2>7. p \in Voters(sq, q) <=> v = q
    BY DEF Voters
  <2>8. Cardinality(Voters(rest, q)) =
          IF v = q THEN Cardinality(Voters(sq, q)) - 1 ELSE Cardinality(Voters(sq, q))
    BY <2>4, <2>6, <2>7, FS_RemoveElement
  <2>9. rest.members[q].votes = IF v = q THEN Less8(sq.members[q].votes)
                                ELSE sq.members[q].votes
    BY <1>4, <1>5, <1>6, <2>1
  <2>10. v = q => rest.members[q].votes = sq.members[q].votes - 1
    <3>1. sq.members[q].votes \in 0..255
      BY <1>2, <2>1, Fields
    <3>2. v = q => sq.members[q].votes > 0
      BY <2>5, <2>6, <2>8, SizesAssumption
    <3>3. QED
      BY <2>9, <3>1, <3>2, Less8Values
  <2>11. QED
    BY <2>3, <2>5, <2>8, <2>9, <2>10
<1>10. \A q \in Used(rest) :
          /\ rest.members[q].client = sq.members[q].client
          /\ rest.members[q].playing = sq.members[q].playing
          /\ rest.members[q].vote \in {NoVote, sq.members[q].vote}
  BY <1>1, <1>5, <1>6, <1>7
<1>11. r \in IF rest.count = 0 THEN {EmptySquad}
             ELSE IF sq.private /\ sq.owner = p
                  THEN {[rest EXCEPT !.owner = o] : o \in Used(rest)}
                  ELSE {rest}
  BY DEF RemoveMember, rest, others, counted
<1>12. CASE rest.count = 0
  <2>1. r = EmptySquad
    BY <1>11, <1>12
  <2>2. Used(rest) = {}
    <3>1. IsFiniteSet(Used(rest))
      BY <1>1, <1>7, PositionSets
    <3>2. QED
      BY <1>8, <1>12, <3>1, FS_EmptySet
  <2>3. QED
    BY <1>7, <2>1, <2>2, EmptySquadOK
<1>13. CASE rest.count # 0 /\ sq.private /\ sq.owner = p
  <2>1. PICK o \in Used(rest) : r = [rest EXCEPT !.owner = o]
    BY <1>11, <1>13
  <2>2. o \in Positions
    BY <1>1, <1>7, <2>1
  <2>3. /\ r \in SquadRecords
        /\ r.members = rest.members /\ r.count = rest.count /\ r.owner = o
        /\ r.private = rest.private /\ r.expose = rest.expose
    BY <1>6, <2>1, <2>2 DEF SquadRecords
  <2>4. CountsOK(r) /\ Used(r) = Used(rest)
    <3>1. CountsOK(rest)
      BY <1>8, <1>9 DEF CountsOK
    <3>2. QED
      BY <2>3, <3>1, SameMembers
  <2>5. SquadOK(r)
    <3>1. r.private /\ r.owner \in Used(r)
      BY <1>6, <1>13, <2>3, <2>4
    <3>2. QED
      BY <2>4, <3>1 DEF SquadOK, SettingsOK
  <2>6. QED
    BY <1>7, <1>10, <2>3, <2>4, <2>5
<1>14. CASE rest.count # 0 /\ ~(sq.private /\ sq.owner = p)
  <2>1. r = rest
    BY <1>11, <1>14
  <2>2. SquadOK(rest)
    <3>1. sq.private => sq.owner \in Used(rest)
      BY <1>7, <1>14 DEF SquadOK, CountsOK, SettingsOK
    <3>2. ~sq.private => sq.expose
      BY DEF SquadOK, CountsOK, SettingsOK
    <3>3. QED
      BY <1>6, <1>8, <1>9, <3>1, <3>2 DEF SquadOK, CountsOK, SettingsOK
  <2>3. QED
    BY <1>6, <1>7, <1>10, <2>1, <2>2
<1>15. QED
  BY <1>12, <1>13, <1>14

\* The first free place of a squad that has space.
LEMMA FirstFreeOK ==
    ASSUME NEW sq \in SquadRecords, CountsOK(sq), HasSpace(sq)
    PROVE  /\ FirstFree(sq) \in Positions \ Used(sq)
           /\ \A q \in Positions \ Used(sq) : FirstFree(sq) <= q
<1> DEFINE F == Positions \ Used(sq)
<1>1. Used(sq) \in SUBSET Positions
  BY DEF Used
<1>2. F # {}
  <2>1. Cardinality(Positions) = SquadSize
    BY FS_Interval, SizesAssumption DEF Positions
  <2>2. Cardinality(Used(sq)) # SquadSize
    BY SizesAssumption, Fields DEF CountsOK, HasSpace
  <2>3. QED
    BY <1>1, <2>1, <2>2
<1>3. F \subseteq Nat
  BY SizesAssumption DEF Positions
<1>4. \E p \in F : \A q \in F : p <= q
  BY <1>2, <1>3, Smallest
<1>5. QED
  BY <1>4 DEF FirstFree

\* A client that joins takes the first free place, with no ballot cast or counted.
LEMMA AddClientOK ==
    ASSUME NEW sq \in SquadRecords, CountsOK(sq), HasSpace(sq), NEW c \in Clients
    PROVE  LET r == AddClient(sq, c)
               f == FirstFree(sq)
           IN  /\ r \in SquadRecords
               /\ CountsOK(r)
               /\ f \in Positions \ Used(sq)
               /\ Used(r) = Used(sq) \cup {f}
               /\ r.members[f] = [client |-> c, vote |-> NoVote, votes |-> 0, playing |-> FALSE]
               /\ \A q \in Positions \ {f} : r.members[q] = sq.members[q]
               /\ r.count = sq.count + 1
               /\ r.owner = sq.owner /\ r.private = sq.private /\ r.expose = sq.expose
<1> DEFINE r == AddClient(sq, c)
           f == FirstFree(sq)
           new == [client |-> c, vote |-> NoVote, votes |-> 0, playing |-> FALSE]
<1>1. f \in Positions \ Used(sq) /\ Used(sq) \subseteq Positions
  BY FirstFreeOK DEF Used
<1>2. new \in Members /\ new.client # NoClient
  BY ClientsAssumption DEF Members
<1>3. sq.count + 1 \in 0..255
  BY Fields, SizesAssumption DEF HasSpace
<1>4. /\ r \in SquadRecords
      /\ r.members = [sq.members EXCEPT ![f] = new]
      /\ r.count = sq.count + 1
      /\ r.owner = sq.owner /\ r.private = sq.private /\ r.expose = sq.expose
  <2> HIDE DEF f, new
  <2>1. r = [sq EXCEPT !.members[f] = new, !.count = sq.count + 1]
    BY DEF AddClient, f, new
  <2> HIDE DEF r
  <2>2. [sq.members EXCEPT ![f] = new] \in [Positions -> Members]
    BY <1>1, <1>2, Fields
  <2>3. QED
    BY <1>3, <2>1, <2>2 DEF SquadRecords
<1> HIDE DEF r, f, new
<1>5. r.members[f] = new /\ \A q \in Positions \ {f} : r.members[q] = sq.members[q]
  BY <1>1, <1>4, Fields
<1>6. Used(r) = Used(sq) \cup {f}
  BY <1>1, <1>2, <1>5 DEF Used
<1>7. r.count = Cardinality(Used(r))
  <2>1. IsFiniteSet(Used(sq)) /\ sq.count = Cardinality(Used(sq))
    BY <1>1, PositionSets DEF CountsOK
  <2>2. QED
    BY <1>1, <1>4, <1>6, <2>1, FS_AddElement
<1>8. ASSUME NEW q \in Used(sq)
      PROVE  /\ r.members[q].vote \in {NoVote} \cup (Used(r) \ {q})
             /\ r.members[q].votes = Cardinality(Voters(r, q))
  <2>1. r.members[q] = sq.members[q]
    BY <1>1, <1>5
  <2>2. Voters(r, q) = Voters(sq, q)
    <3>1. r.members[f].vote # q
      BY <1>1, <1>5 DEF new, NoVote, Positions
    <3>2. QED
      BY <1>1, <1>5, <1>6, <3>1 DEF Voters
  <2>3. QED
    BY <1>6, <2>1, <2>2 DEF CountsOK
<1>9. /\ r.members[f].vote \in {NoVote} \cup (Used(r) \ {f})
      /\ r.members[f].votes = Cardinality(Voters(r, f))
  <2>1. \A q \in Used(sq) : r.members[q].vote # f
    BY <1>1, <1>5 DEF CountsOK, NoVote, Positions
  <2>2. r.members[f].vote = NoVote /\ r.members[f].votes = 0 /\ f # NoVote
    BY <1>1, <1>5 DEF new, NoVote, Positions
  <2>3. Voters(r, f) = {}
    BY <1>6, <2>1, <2>2 DEF Voters
  <2>4. QED
    BY <2>2, <2>3, FS_EmptySet
<1>10. CountsOK(r)
  BY <1>6, <1>7, <1>8, <1>9 DEF CountsOK
<1>11. QED
  BY <1>1, <1>4, <1>5, <1>6, <1>10 DEF r, f, new

\* Who sits where, and the ballots, decide the counts: nothing else does.
LEMMA SameBallots ==
    ASSUME NEW sq, NEW r, r.count = sq.count,
           \A q \in Positions :
              /\ (r.members[q].client = NoClient) <=> (sq.members[q].client = NoClient)
              /\ r.members[q].vote = sq.members[q].vote
              /\ r.members[q].votes = sq.members[q].votes
    PROVE  Used(r) = Used(sq) /\ (CountsOK(sq) => CountsOK(r))
<1>1. Used(r) = Used(sq)
  BY DEF Used
<1>2. \A p : Voters(r, p) = Voters(sq, p)
  BY <1>1 DEF Voters, Used
<1>3. QED
  BY <1>1, <1>2 DEF CountsOK, Used

\* A member of a squad enters or leaves the game.
LEMMA SetPlayingOK ==
    ASSUME NEW sq \in SquadRecords, SquadOK(sq), NEW p \in Positions, NEW b \in BOOLEAN
    PROVE  LET r == [sq EXCEPT !.members[p].playing = b]
           IN  /\ r \in SquadRecords
               /\ SquadOK(r)
               /\ Used(r) = Used(sq)
               /\ \A q \in Positions :
                     /\ r.members[q].client = sq.members[q].client
                     /\ r.members[q].vote = sq.members[q].vote
                     /\ r.members[q].playing = IF q = p THEN b ELSE sq.members[q].playing
<1> DEFINE r == [sq EXCEPT !.members[p].playing = b]
           m == [sq.members EXCEPT ![p].playing = b]
<1>1. /\ m \in [Positions -> Members]
      /\ \A q \in Positions :
            /\ m[q].client = sq.members[q].client
            /\ m[q].vote = sq.members[q].vote
            /\ m[q].votes = sq.members[q].votes
            /\ m[q].playing = IF q = p THEN b ELSE sq.members[q].playing
  BY Fields DEF Members
<1> HIDE DEF m
<1>2. /\ r \in SquadRecords
      /\ r.members = m /\ r.count = sq.count
      /\ r.owner = sq.owner /\ r.private = sq.private /\ r.expose = sq.expose
  <2>1. r = [sq EXCEPT !.members = m]
    BY DEF m
  <2>2. QED
    BY <1>1, <2>1 DEF SquadRecords
<1> HIDE DEF r
<1>3. Used(r) = Used(sq) /\ CountsOK(r)
  BY <1>1, <1>2, SameBallots DEF SquadOK
<1>4. SquadOK(r)
  BY <1>2, <1>3 DEF SquadOK, SettingsOK
<1>5. QED
  BY <1>1, <1>2, <1>3, <1>4 DEF r

\* A place of a squad passes from one client to another.
LEMMA SetClientOK ==
    ASSUME NEW sq \in SquadRecords, SquadOK(sq), NEW p \in Used(sq), NEW c \in Clients
    PROVE  LET r == [sq EXCEPT !.members[p].client = c]
           IN  /\ r \in SquadRecords
               /\ SquadOK(r)
               /\ Used(r) = Used(sq)
               /\ \A q \in Positions :
                     /\ r.members[q].client = IF q = p THEN c ELSE sq.members[q].client
                     /\ r.members[q].vote = sq.members[q].vote
                     /\ r.members[q].playing = sq.members[q].playing
<1> DEFINE r == [sq EXCEPT !.members[p].client = c]
           m == [sq.members EXCEPT ![p].client = c]
<1>1. p \in Positions /\ sq.members[p].client # NoClient /\ c # NoClient
  BY ClientsAssumption DEF Used
<1>2. /\ m \in [Positions -> Members]
      /\ \A q \in Positions :
            /\ m[q].client = IF q = p THEN c ELSE sq.members[q].client
            /\ m[q].vote = sq.members[q].vote
            /\ m[q].votes = sq.members[q].votes
            /\ m[q].playing = sq.members[q].playing
  BY <1>1, Fields DEF Members
<1> HIDE DEF m
<1>3. /\ r \in SquadRecords
      /\ r.members = m /\ r.count = sq.count
      /\ r.owner = sq.owner /\ r.private = sq.private /\ r.expose = sq.expose
  <2>1. r = [sq EXCEPT !.members = m]
    BY DEF m
  <2>2. QED
    BY <1>2, <2>1 DEF SquadRecords
<1> HIDE DEF r
<1>4. Used(r) = Used(sq) /\ CountsOK(r)
  BY <1>1, <1>2, <1>3, SameBallots DEF SquadOK
<1>5. SquadOK(r)
  BY <1>3, <1>4 DEF SquadOK, SettingsOK
<1>6. QED
  BY <1>2, <1>3, <1>4, <1>5 DEF r

\* A member without a ballot votes for another one.
LEMMA VoteOK ==
    ASSUME NEW sq \in SquadRecords, SquadOK(sq),
           NEW x \in Used(sq), NEW p \in Used(sq), x # p,
           sq.members[x].vote = NoVote
    PROVE  LET r == Ballot(sq, x, p)
           IN  /\ r \in SquadRecords
               /\ SquadOK(r)
               /\ Used(r) = Used(sq)
               /\ \A q \in Positions :
                     /\ r.members[q].client = sq.members[q].client
                     /\ r.members[q].vote = IF q = x THEN p ELSE sq.members[q].vote
                     /\ r.members[q].playing = sq.members[q].playing
<1> DEFINE n == (sq.members[p].votes + 1) % 256
           r == Ballot(sq, x, p)
           m == [sq.members EXCEPT ![x].vote = p, ![p].votes = n]
<1>1. x \in Positions /\ p \in Positions /\ Used(sq) \subseteq Positions
  BY DEF Used
<1>2. /\ IsFiniteSet(Voters(sq, p))
      /\ Cardinality(Voters(sq, p)) \in 0..SquadSize
      /\ sq.members[p].votes = Cardinality(Voters(sq, p))
  BY <1>1, PositionSets DEF Voters, SquadOK, CountsOK
<1>3. n = sq.members[p].votes + 1 /\ n \in 0..255
  BY <1>2, SizesAssumption
<1> HIDE DEF n
<1>4. /\ m \in [Positions -> Members]
      /\ \A q \in Positions :
            /\ m[q].client = sq.members[q].client
            /\ m[q].vote = IF q = x THEN p ELSE sq.members[q].vote
            /\ m[q].votes = IF q = p THEN n ELSE sq.members[q].votes
            /\ m[q].playing = sq.members[q].playing
  BY <1>1, <1>3, Fields DEF Members
<1>5. r = [sq EXCEPT !.members = m]
  <2>1. [sq.members EXCEPT ![x].vote = p][p].votes = sq.members[p].votes
    BY <1>1, Fields DEF Members
  <2>2. QED
    BY <2>1 DEF n, Ballot
<1> HIDE DEF m, r
<1>6. /\ r \in SquadRecords
      /\ r.members = m /\ r.count = sq.count
      /\ r.owner = sq.owner /\ r.private = sq.private /\ r.expose = sq.expose
  BY <1>4, <1>5 DEF SquadRecords
<1>7. Used(r) = Used(sq)
  BY <1>4, <1>6 DEF Used
<1>8. ASSUME NEW q \in Used(sq)
      PROVE  /\ r.members[q].vote \in {NoVote} \cup (Used(r) \ {q})
             /\ r.members[q].votes = Cardinality(Voters(r, q))
  <2>1. q \in Positions /\ q # NoVote
    BY <1>1 DEF NoVote, Positions
  <2>2. r.members[q].vote \in {NoVote} \cup (Used(r) \ {q})
    BY <1>4, <1>6, <1>7, <2>1 DEF SquadOK, CountsOK
  <2>3. CASE q = p
    <3>1. Voters(r, p) = Voters(sq, p) \cup {x} /\ x \notin Voters(sq, p)
      BY <1>1, <1>4, <1>6, <1>7, <2>1, <2>3 DEF Voters
    <3>2. Cardinality(Voters(r, p)) = Cardinality(Voters(sq, p)) + 1
      BY <1>2, <3>1, FS_AddElement
    <3>3. QED
      BY <1>2, <1>3, <1>4, <1>6, <2>1, <2>2, <2>3, <3>2
  <2>4. CASE q # p
    <3>1. Voters(r, q) = Voters(sq, q)
      BY <1>1, <1>4, <1>6, <1>7, <2>1, <2>4 DEF Voters
    <3>2. QED
      BY <1>4, <1>6, <2>1, <2>2, <2>4, <3>1 DEF SquadOK, CountsOK
  <2>5. QED
    BY <2>3, <2>4
<1>9. SquadOK(r)
  <2>1. CountsOK(r)
    BY <1>6, <1>7, <1>8 DEF SquadOK, CountsOK
  <2>2. QED
    BY <1>6, <1>7, <2>1 DEF SquadOK, SettingsOK
<1>10. QED
  BY <1>4, <1>6, <1>7, <1>9 DEF r

\* The ballot of a member is taken back.
LEMMA RetractOK ==
    ASSUME NEW sq \in SquadRecords, SquadOK(sq),
           NEW x \in Used(sq), sq.members[x].vote # NoVote
    PROVE  LET r == [sq EXCEPT !.members = [Uncount(@, x) EXCEPT ![x].vote = NoVote]]
           IN  /\ r \in SquadRecords
               /\ SquadOK(r)
               /\ Used(r) = Used(sq)
               /\ \A q \in Positions :
                     /\ r.members[q].client = sq.members[q].client
                     /\ r.members[q].vote = IF q = x THEN NoVote ELSE sq.members[q].vote
                     /\ r.members[q].playing = sq.members[q].playing
<1> DEFINE v == sq.members[x].vote
           counted == Uncount(sq.members, x)
           m == [counted EXCEPT ![x].vote = NoVote]
           r == [sq EXCEPT !.members = m]
<1>1. /\ x \in Positions /\ Used(sq) \subseteq Positions
      /\ v \in Used(sq) \ {x} /\ v \in Positions
  BY DEF Used, SquadOK, CountsOK
<1>2. /\ counted \in [Positions -> Members]
      /\ \A q \in Positions :
            /\ counted[q].client = sq.members[q].client
            /\ counted[q].vote = sq.members[q].vote
            /\ counted[q].playing = sq.members[q].playing
            /\ counted[q].votes = IF q = v THEN Less8(sq.members[q].votes)
                                  ELSE sq.members[q].votes
  BY <1>1, Fields, UncountMembers
<1> HIDE DEF counted, v
<1>3. /\ m \in [Positions -> Members]
      /\ \A q \in Positions :
            /\ m[q].client = counted[q].client
            /\ m[q].vote = IF q = x THEN NoVote ELSE counted[q].vote
            /\ m[q].votes = counted[q].votes
            /\ m[q].playing = counted[q].playing
  BY <1>1, <1>2 DEF Members
<1> HIDE DEF m
<1>4. /\ r \in SquadRecords
      /\ r.members = m /\ r.count = sq.count
      /\ r.owner = sq.owner /\ r.private = sq.private /\ r.expose = sq.expose
  BY <1>3 DEF SquadRecords
<1> HIDE DEF r
<1>5. Used(r) = Used(sq)
  BY <1>2, <1>3, <1>4 DEF Used
<1>6. ASSUME NEW q \in Used(sq)
      PROVE  /\ r.members[q].vote \in {NoVote} \cup (Used(r) \ {q})
             /\ r.members[q].votes = Cardinality(Voters(r, q))
  <2>1. q \in Positions /\ q # NoVote
    BY <1>1 DEF NoVote, Positions
  <2>2. r.members[q].vote \in {NoVote} \cup (Used(r) \ {q})
    BY <1>2, <1>3, <1>4, <1>5, <2>1 DEF SquadOK, CountsOK
  <2>3. /\ sq.members[q].votes = Cardinality(Voters(sq, q))
        /\ IsFiniteSet(Voters(sq, q))
        /\ Cardinality(Voters(sq, q)) \in 0..SquadSize
    BY <1>1, PositionSets DEF Voters, SquadOK, CountsOK
  <2>4. CASE q = v
    <3>1. Voters(r, q) = Voters(sq, q) \ {x} /\ x \in Voters(sq, q)
      BY <1>1, <1>2, <1>3, <1>4, <1>5, <2>1, <2>4 DEF Voters, v
    <3>2. /\ Cardinality(Voters(r, q)) = Cardinality(Voters(sq, q)) - 1
          /\ Cardinality(Voters(r, q)) \in 0..SquadSize
      <4>1. Voters(r, q) \in SUBSET Positions
        BY <1>1, <1>5 DEF Voters
      <4>2. QED
        BY <2>3, <3>1, <4>1, FS_RemoveElement, PositionSets
    <3>3. r.members[q].votes = sq.members[q].votes - 1
      <4>1. r.members[q].votes = Less8(sq.members[q].votes)
        BY <1>2, <1>3, <1>4, <2>1, <2>4
      <4>2. sq.members[q].votes \in 0..255 /\ sq.members[q].votes > 0
        BY <2>3, <3>2, SizesAssumption
      <4>3. QED
        BY <4>1, <4>2, Less8Values
    <3>4. QED
      BY <2>2, <2>3, <3>2, <3>3
  <2>5. CASE q # v
    <3>1. Voters(r, q) = Voters(sq, q)
      BY <1>1, <1>2, <1>3, <1>4, <1>5, <2>1, <2>5 DEF Voters, v
    <3>2. QED
      BY <1>2, <1>3, <1>4, <2>1, <2>2, <2>3, <2>5, <3>1
  <2>6. QED
    BY <2>4, <2>5
<1>7. SquadOK(r)
  <2>1. CountsOK(r)
    BY <1>4, <1>5, <1>6 DEF SquadOK, CountsOK
  <2>2. QED
    BY <1>4, <1>5, <2>1 DEF SquadOK, SettingsOK
<1>8. QED
  BY <1>2, <1>3, <1>4, <1>5, <1>7 DEF r, m, counted

(***************************************************************************)
(* The lobby.                                                              *)
(***************************************************************************)
LobbyOK(w) ==
    /\ w \in Lobbies
    /\ SeatsMatch(w)
    /\ \A s \in SquadIds : SquadOK(w.squads[s])

\* Whoever has a ballot out, or is shown as playing, in x was already in w.
Calm(w, x) ==
    \A j \in Clients :
       Seated(x, j) =>
          /\ MemberOf(x, j).vote # NoVote
             => Seated(w, j) /\ MemberOf(w, j).vote # NoVote
          /\ MemberOf(x, j).playing
             => Seated(w, j) /\ MemberOf(w, j).playing

LEMMA CalmTransitive ==
    ASSUME NEW w, NEW x, NEW y, Calm(w, x), Calm(x, y)
    PROVE  Calm(w, y)
BY DEF Calm

\* The parts of a lobby.
LEMMA LobbyParts ==
    ASSUME NEW w \in Lobbies
    PROVE  /\ w.squads \in [SquadIds -> SquadRecords]
           /\ w.seat \in [Clients -> Seats \cup {NoSeat}]
           /\ w.joined \in [Clients -> SUBSET SquadIds]
           /\ w = [squads |-> w.squads, seat |-> w.seat, joined |-> w.joined]
BY DEF Lobbies

\* A lobby is consistent by its squads and seats; the history has only a type.
LEMMA HistoryIsFree ==
    ASSUME NEW w, LobbyOK(w), NEW x, x.squads = w.squads, x.seat = w.seat,
           x \in Lobbies
    PROVE  LobbyOK(x) /\ Calm(w, x)
BY DEF LobbyOK, SeatsMatch, Seated, MemberOf, SquadOf, Calm

\* The place of a seated client is an occupied slot that names it.
LEMMA SeatOf ==
    ASSUME NEW w, LobbyOK(w), NEW c \in Clients, Seated(w, c)
    PROVE  /\ w.seat[c].squad \in SquadIds
           /\ w.squads[w.seat[c].squad] \in SquadRecords
           /\ w.seat[c].pos \in Positions
           /\ w.seat[c] = [squad |-> w.seat[c].squad, pos |-> w.seat[c].pos]
           /\ w.seat[c].pos \in Used(w.squads[w.seat[c].squad])
           /\ w.squads[w.seat[c].squad].members[w.seat[c].pos].client = c
<1>1. w.seat[c] \in Seats /\ w.squads \in [SquadIds -> SquadRecords]
  BY LobbyParts DEF LobbyOK, Seated
<1>2. /\ w.seat[c].squad \in SquadIds /\ w.seat[c].pos \in Positions
      /\ w.seat[c] = [squad |-> w.seat[c].squad, pos |-> w.seat[c].pos]
  BY <1>1 DEF Seats
<1>3. w.squads[w.seat[c].squad].members[w.seat[c].pos].client = c
  BY DEF LobbyOK, SeatsMatch, MemberOf, SquadOf
<1>4. QED
  BY <1>1, <1>2, <1>3, ClientsAssumption DEF Used

\* One squad changes, its places keep their clients.
LEMMA SquadChanged ==
    ASSUME NEW w, LobbyOK(w), NEW s \in SquadIds,
           NEW r \in SquadRecords, SquadOK(r), Used(r) = Used(w.squads[s]),
           \A q \in Positions : r.members[q].client = w.squads[s].members[q].client
    PROVE  LET x == [w EXCEPT !.squads[s] = r]
           IN  /\ LobbyOK(x)
               /\ x.squads = [w.squads EXCEPT ![s] = r]
               /\ x.seat = w.seat /\ x.joined = w.joined
               /\ \A j \in Clients :
                     Seated(x, j) =>
                        MemberOf(x, j) = IF w.seat[j].squad = s
                                         THEN r.members[w.seat[j].pos] ELSE MemberOf(w, j)
<1> DEFINE x == [w EXCEPT !.squads[s] = r]
<1>1. w \in Lobbies
  BY DEF LobbyOK
<1>2. /\ x \in Lobbies
      /\ x.squads = [w.squads EXCEPT ![s] = r]
      /\ x.seat = w.seat /\ x.joined = w.joined
  BY <1>1, LobbyParts DEF Lobbies
<1> HIDE DEF x
<1>3. x.squads[s] = r /\ \A t \in SquadIds : t # s => x.squads[t] = w.squads[t]
  BY <1>1, <1>2, LobbyParts
<1>4. \A j \in Clients : Seated(x, j) <=> Seated(w, j)
  BY <1>2 DEF Seated
<1>5. ASSUME NEW j \in Clients, Seated(w, j)
      PROVE  /\ MemberOf(x, j) = IF w.seat[j].squad = s
                                 THEN r.members[w.seat[j].pos] ELSE MemberOf(w, j)
             /\ MemberOf(x, j).client = j
  <2> DEFINE t == w.seat[j].squad
             p == w.seat[j].pos
  <2>1. t \in SquadIds /\ p \in Positions /\ w.squads[t].members[p].client = j
    BY <1>5, SeatOf
  <2>2. MemberOf(x, j) = x.squads[t].members[p] /\ MemberOf(w, j) = w.squads[t].members[p]
    BY <1>2 DEF MemberOf, SquadOf
  <2> HIDE DEF t, p
  <2>3. MemberOf(x, j) = IF t = s THEN r.members[p] ELSE MemberOf(w, j)
    BY <1>3, <2>1, <2>2
  <2>4. MemberOf(x, j).client = j
    BY <1>3, <2>1, <2>2
  <2>5. QED
    BY <2>3, <2>4 DEF t, p
<1>6. \A t \in SquadIds : \A p \in Used(x.squads[t]) :
          x.seat[x.squads[t].members[p].client] = [squad |-> t, pos |-> p]
  <2>1. \A t \in SquadIds : \A p \in Used(w.squads[t]) :
           w.seat[w.squads[t].members[p].client] = [squad |-> t, pos |-> p]
    BY DEF LobbyOK, SeatsMatch
  <2>2. ASSUME NEW t \in SquadIds, NEW p \in Used(x.squads[t])
        PROVE  x.seat[x.squads[t].members[p].client] = [squad |-> t, pos |-> p]
    <3>1. p \in Positions
      BY DEF Used
    <3>2. /\ p \in Used(w.squads[t])
          /\ x.squads[t].members[p].client = w.squads[t].members[p].client
      BY <1>3, <2>2, <3>1
    <3>3. w.seat[w.squads[t].members[p].client] = [squad |-> t, pos |-> p]
      BY <2>1, <3>2
    <3>4. QED
      BY <1>2, <3>2, <3>3
  <2>3. QED
    BY <2>2
<1>7. SeatsMatch(x)
  BY <1>4, <1>5, <1>6 DEF SeatsMatch
<1>8. LobbyOK(x)
  BY <1>2, <1>3, <1>7 DEF LobbyOK
<1>9. QED
  BY <1>2, <1>4, <1>5, <1>8 DEF x

\* Leaving: the client has no seat any more, nobody else is moved.
LEMMA LeaveSquadOK ==
    ASSUME NEW w, LobbyOK(w), NEW c \in Clients, NEW x \in LeaveSquad(w, c)
    PROVE  /\ LobbyOK(x)
           /\ Calm(w, x)
           /\ x.seat = [w.seat EXCEPT ![c] = NoSeat]
           /\ ~Seated(x, c)
           /\ \A t \in SquadIds :
                 t # w.seat[c].squad \/ ~Seated(w, c) => x.squads[t] = w.squads[t]
<1>1. w \in Lobbies
  BY DEF LobbyOK
<1>2. CASE ~Seated(w, c)
  <2>1. x = w
    BY <1>2 DEF LeaveSquad
  <2>2. w.seat = [w.seat EXCEPT ![c] = NoSeat]
    BY <1>1, <1>2, LobbyParts DEF Seated
  <2>3. QED
    BY <1>2, <2>1, <2>2 DEF Calm
<1>3. CASE Seated(w, c)
  <2> DEFINE s == w.seat[c].squad
             p == w.seat[c].pos
             old == w.squads[s]
  <2>1. /\ s \in SquadIds /\ p \in Positions /\ p \in Used(old)
        /\ old \in SquadRecords
        /\ w.seat[c] = [squad |-> s, pos |-> p]
        /\ old.members[p].client = c
    BY <1>3, SeatOf
  <2>2. PICK r \in RemoveMember(old, p) :
          x = [squads |-> [w.squads EXCEPT ![s] = r],
               seat |-> [w.seat EXCEPT ![c] = NoSeat],
               joined |-> IF r.count = 0 THEN Forget(w.joined, s) ELSE w.joined]
    BY <1>3 DEF LeaveSquad
  <2> HIDE DEF s, p, old
  <2>3. /\ r \in SquadRecords
        /\ SquadOK(r)
        /\ Used(r) = Used(old) \ {p}
        /\ \A q \in Used(r) :
              /\ r.members[q].client = old.members[q].client
              /\ r.members[q].playing = old.members[q].playing
              /\ r.members[q].vote \in {NoVote, old.members[q].vote}
    <3>1. SquadOK(old)
      BY <2>1 DEF LobbyOK, old
    <3>2. QED
      BY <2>1, <3>1, RemoveMemberOK
  <2>4. /\ x.squads = [w.squads EXCEPT ![s] = r]
        /\ x.seat = [w.seat EXCEPT ![c] = NoSeat]
        /\ x.joined \in [Clients -> SUBSET SquadIds]
        /\ x = [squads |-> x.squads, seat |-> x.seat, joined |-> x.joined]
    BY <1>1, <2>2, LobbyParts DEF Forget
  <2>5. x \in Lobbies
    BY <1>1, <2>1, <2>3, <2>4, LobbyParts DEF Lobbies
  <2>6. /\ x.squads[s] = r
        /\ \A t \in SquadIds : t # s => x.squads[t] = w.squads[t]
        /\ x.seat[c] = NoSeat
        /\ \A j \in Clients : j # c => x.seat[j] = w.seat[j]
    BY <1>1, <2>1, <2>4, LobbyParts
  <2>7. ASSUME NEW j \in Clients, Seated(x, j)
        PROVE  /\ Seated(w, j)
               /\ MemberOf(x, j).client = j
               /\ MemberOf(x, j).vote \in {NoVote, MemberOf(w, j).vote}
               /\ MemberOf(x, j).playing = MemberOf(w, j).playing
    <3> DEFINE t == w.seat[j].squad
               q == w.seat[j].pos
    <3>1. j # c /\ x.seat[j] = w.seat[j] /\ Seated(w, j)
      BY <2>6, <2>7 DEF Seated
    <3>2. /\ t \in SquadIds /\ q \in Used(w.squads[t])
          /\ w.squads[t].members[q].client = j
      BY <3>1, SeatOf
    <3>3. MemberOf(x, j) = x.squads[t].members[q] /\ MemberOf(w, j) = w.squads[t].members[q]
      BY <3>1 DEF MemberOf, SquadOf
    <3> HIDE DEF t, q
    <3>4. CASE t = s
      <4>1. q \in Used(r)
        BY <2>1, <2>3, <3>1, <3>2, <3>4 DEF old
      <4>2. x.squads[t] = r /\ w.squads[t] = old
        BY <2>6, <3>4 DEF old
      <4>3. QED
        BY <2>3, <3>1, <3>2, <3>3, <4>1, <4>2
    <3>5. CASE t # s
      BY <2>6, <3>1, <3>2, <3>3, <3>5
    <3>6. QED
      BY <3>4, <3>5
  <2>8. ASSUME NEW t \in SquadIds, NEW q \in Used(x.squads[t])
        PROVE  x.seat[x.squads[t].members[q].client] = [squad |-> t, pos |-> q]
    <3> DEFINE j == w.squads[t].members[q].client
    <3>1. /\ q \in Used(w.squads[t])
          /\ x.squads[t].members[q].client = j
          /\ t = s => q # p
      BY <2>3, <2>6, <2>8 DEF old
    <3>2. w.seat[j] = [squad |-> t, pos |-> q]
      BY <3>1 DEF LobbyOK, SeatsMatch
    <3>3. j \in Clients
      <4>1. w.squads[t] \in SquadRecords /\ q \in Positions /\ j # NoClient
        BY <1>1, <3>1, LobbyParts DEF Used
      <4>2. QED
        BY <4>1, Fields
    <3> HIDE DEF j
    <3>4. j # c
      BY <2>1, <3>1, <3>2
    <3>5. QED
      BY <2>6, <3>1, <3>2, <3>3, <3>4
  <2>9. SeatsMatch(x)
    BY <2>7, <2>8 DEF SeatsMatch
  <2>10. \A t \in SquadIds : SquadOK(x.squads[t])
    BY <2>3, <2>6 DEF LobbyOK
  <2>11. LobbyOK(x)
    BY <2>5, <2>9, <2>10 DEF LobbyOK
  <2>12. Calm(w, x)
    BY <2>7 DEF Calm
  <2>13. QED
    BY <1>3, <2>4, <2>6, <2>11, <2>12 DEF Seated, s
<1>4. QED
  BY <1>2, <1>3

\* A squad that may be joined: consistent once its first free place is taken.
Joinable(sq) ==
    /\ CountsOK(sq)
    /\ sq.private => \/ sq.owner \in Used(sq)
                     \/ HasSpace(sq) /\ sq.owner = FirstFree(sq)
    /\ ~sq.private => sq.expose

\* Joining: the client gets the first free place, nobody else is moved.  The squad
\* joined may be one whose owner is about to arrive.
LEMMA JoinSquadOK ==
    ASSUME NEW w, w \in Lobbies, SeatsMatch(w),
           NEW s \in SquadIds, HasSpace(w.squads[s]), Joinable(w.squads[s]),
           \A t \in SquadIds \ {s} : SquadOK(w.squads[t]),
           NEW c \in Clients, ~Seated(w, c)
    PROVE  LET x == JoinSquad(w, c, s)
           IN  /\ LobbyOK(x)
               /\ Calm(w, x)
               /\ Seated(x, c)
               /\ \A j \in Clients : j # c => x.seat[j] = w.seat[j]
<1> DEFINE x == JoinSquad(w, c, s)
           old == w.squads[s]
           r == AddClient(old, c)
           f == FirstFree(old)
<1>1. old \in SquadRecords
  BY LobbyParts
<1>2. x = [squads |-> [w.squads EXCEPT ![s] = r],
           seat |-> [w.seat EXCEPT ![c] = [squad |-> s, pos |-> f]],
           joined |-> IF w.squads[s].private THEN w.joined
                      ELSE [w.joined EXCEPT ![c] = @ \cup {s}]]
  BY DEF JoinSquad
<1>3. /\ r \in SquadRecords
      /\ CountsOK(r)
      /\ f \in Positions \ Used(old)
      /\ Used(r) = Used(old) \cup {f}
      /\ r.members[f] = [client |-> c, vote |-> NoVote, votes |-> 0, playing |-> FALSE]
      /\ \A q \in Positions \ {f} : r.members[q] = old.members[q]
      /\ r.owner = old.owner /\ r.private = old.private /\ r.expose = old.expose
  <2>1. CountsOK(old) /\ HasSpace(old)
    BY DEF Joinable
  <2> HIDE DEF old
  <2>2. QED
    BY <1>1, <2>1, AddClientOK DEF r, f
<1>4. SquadOK(r)
  <2>1. SettingsOK(r)
    BY <1>3 DEF Joinable, SettingsOK
  <2>2. QED
    BY <1>3, <2>1 DEF SquadOK
<1> HIDE DEF x, r, f
<1>5. /\ x.squads = [w.squads EXCEPT ![s] = r]
      /\ x.seat = [w.seat EXCEPT ![c] = [squad |-> s, pos |-> f]]
      /\ x.joined \in [Clients -> SUBSET SquadIds]
      /\ x = [squads |-> x.squads, seat |-> x.seat, joined |-> x.joined]
  BY <1>2, LobbyParts
<1>6. x \in Lobbies
  <2>1. [squad |-> s, pos |-> f] \in Seats
    BY <1>3 DEF Seats
  <2>2. x.squads \in [SquadIds -> SquadRecords] /\ x.seat \in [Clients -> Seats \cup {NoSeat}]
    BY <1>3, <1>5, <2>1, LobbyParts
  <2>3. QED
    BY <1>5, <2>2 DEF Lobbies
<1>7. /\ x.squads[s] = r
      /\ \A t \in SquadIds : t # s => x.squads[t] = w.squads[t]
      /\ x.seat[c] = [squad |-> s, pos |-> f]
      /\ \A j \in Clients : j # c => x.seat[j] = w.seat[j]
  BY <1>5, LobbyParts
<1>8. Seated(x, c)
  BY <1>3, <1>7 DEF Seated, NoSeat, Positions
<1>9. ASSUME NEW j \in Clients, j # c, Seated(x, j)
      PROVE  Seated(w, j) /\ MemberOf(x, j) = MemberOf(w, j) /\ MemberOf(w, j).client = j
  <2> DEFINE t == w.seat[j].squad
             q == w.seat[j].pos
  <2>1. x.seat[j] = w.seat[j] /\ Seated(w, j)
    BY <1>7, <1>9 DEF Seated
  <2>2. w.seat[j] \in Seats
    BY <2>1, LobbyParts DEF Seated
  <2>3. t \in SquadIds /\ q \in Positions /\ w.squads[t].members[q].client = j
    BY <2>1, <2>2 DEF Seats, SeatsMatch, MemberOf, SquadOf
  <2>4. MemberOf(x, j) = x.squads[t].members[q] /\ MemberOf(w, j) = w.squads[t].members[q]
    BY <2>1 DEF MemberOf, SquadOf
  <2> HIDE DEF t, q
  <2>5. q \in Used(w.squads[t])
    BY <2>3, ClientsAssumption DEF Used
  <2>6. CASE t = s
    BY <1>3, <1>7, <2>1, <2>3, <2>4, <2>5, <2>6
  <2>7. CASE t # s
    BY <1>7, <2>1, <2>3, <2>4, <2>7
  <2>8. QED
    BY <2>6, <2>7
<1>10. MemberOf(x, c) = [client |-> c, vote |-> NoVote, votes |-> 0, playing |-> FALSE]
  BY <1>3, <1>7 DEF MemberOf, SquadOf
<1>11. ASSUME NEW t \in SquadIds, NEW q \in Used(x.squads[t])
       PROVE  x.seat[x.squads[t].members[q].client] = [squad |-> t, pos |-> q]
  <2>1. CASE t = s /\ q = f
    BY <1>3, <1>7, <2>1
  <2>2. CASE ~(t = s /\ q = f)
    <3>1. q \in Used(w.squads[t]) /\ x.squads[t].members[q] = w.squads[t].members[q]
      BY <1>3, <1>7, <1>11, <2>2 DEF Used
    <3>2. w.seat[w.squads[t].members[q].client] = [squad |-> t, pos |-> q]
      BY <3>1 DEF SeatsMatch
    <3>3. w.squads[t].members[q].client \in Clients
      <4>1. w.squads[t] \in SquadRecords /\ q \in Positions
        BY <3>1, LobbyParts DEF Used
      <4>2. w.squads[t].members[q].client # NoClient
        BY <3>1 DEF Used
      <4>3. QED
        BY <4>1, <4>2, Fields
    <3>4. w.seat[c] # [squad |-> t, pos |-> q]
      <4>1. q # -1
        BY <3>1 DEF Used, Positions
      <4>2. QED
        BY <4>1 DEF Seated, NoSeat
    <3>5. QED
      BY <1>7, <3>1, <3>2, <3>3, <3>4
  <2>3. QED
    BY <2>1, <2>2
<1>12. SeatsMatch(x)
  BY <1>9, <1>10, <1>11 DEF SeatsMatch
<1>13. LobbyOK(x)
  BY <1>4, <1>6, <1>7, <1>12 DEF LobbyOK
<1>14. Calm(w, x)
  BY <1>9, <1>10 DEF Calm
<1>15. QED
  BY <1>7, <1>8, <1>13, <1>14 DEF x

\* A consistent squad with space may be joined.
LEMMA ConsistentJoinable ==
    ASSUME NEW w, LobbyOK(w), NEW s \in SquadIds, HasSpace(w.squads[s]),
           NEW c \in Clients, ~Seated(w, c)
    PROVE  LET x == JoinSquad(w, c, s)
           IN  /\ LobbyOK(x)
               /\ Calm(w, x)
               /\ Seated(x, c)
               /\ \A j \in Clients : j # c => x.seat[j] = w.seat[j]
<1>1. w \in Lobbies /\ SeatsMatch(w) /\ \A t \in SquadIds : SquadOK(w.squads[t])
  BY DEF LobbyOK
<1>2. Joinable(w.squads[s])
  BY <1>1 DEF Joinable, SquadOK, SettingsOK
<1>3. QED
  BY <1>1, <1>2, JoinSquadOK

\* The first squad of a set of squads.
LEMMA FirstOK ==
    ASSUME NEW S \in SUBSET SquadIds, S # {}
    PROVE  First(S) \in S
<1>1. S \in SUBSET Nat
  BY SizesAssumption DEF SquadIds
<1>2. \E s \in S : \A t \in S : s <= t
  BY <1>1, Smallest
<1>3. QED
  BY <1>2 DEF First

\* The quick find.
LEMMA FindSquadOK ==
    ASSUME NEW w, LobbyOK(w), NEW c \in Clients, ~Seated(w, c)
    PROVE  LET x == FindSquad(w, c)
           IN  /\ LobbyOK(x)
               /\ Calm(w, x)
               /\ \A j \in Clients : j # c => x.seat[j] = w.seat[j]
<1>1. CASE Open(w, c) = {}
  BY <1>1 DEF FindSquad, Calm
<1>2. CASE Open(w, c) # {}
  <2> DEFINE s == First(Open(w, c))
             v == CanRejoinSquads(w, c, s)
  <2>1. s \in SquadIds /\ HasSpace(w.squads[s])
    <3>1. Open(w, c) \in SUBSET SquadIds
      BY DEF Open
    <3>2. s \in Open(w, c)
      BY <1>2, <3>1, FirstOK
    <3>3. QED
      BY <3>2 DEF Open
  <2>2. FindSquad(w, c) = JoinSquad(v, c, s)
    BY <1>2 DEF FindSquad
  <2> HIDE DEF s
  <2>3. v \in Lobbies /\ v.squads = w.squads /\ v.seat = w.seat
    <3>1. w \in Lobbies
      BY DEF LobbyOK
    <3> DEFINE kept == {t \in w.joined[c] : w.squads[t].private}
    <3>2. kept \in SUBSET SquadIds
      BY <3>1, LobbyParts
    <3>3. v = w \/ v = [w EXCEPT !.joined[c] = kept]
      BY DEF CanRejoinSquads
    <3> HIDE DEF kept, v
    <3>4. [w.joined EXCEPT ![c] = kept] \in [Clients -> SUBSET SquadIds]
      BY <3>1, <3>2, LobbyParts
    <3>5. v = w \/ v = [w EXCEPT !.joined = [w.joined EXCEPT ![c] = kept]]
      BY <3>3
    <3>6. QED
      BY <3>1, <3>4, <3>5 DEF Lobbies
  <2> HIDE DEF v
  <2>4. LobbyOK(v) /\ Calm(w, v) /\ ~Seated(v, c) /\ HasSpace(v.squads[s])
    BY <2>1, <2>3, HistoryIsFree DEF Seated
  <2>5. QED
    BY <2>1, <2>2, <2>3, <2>4, ConsistentJoinable, CalmTransitive
<1>3. QED
  BY <1>1, <1>2

\* Joining by code.
LEMMA JoinWithCodeOK ==
    ASSUME NEW w, LobbyOK(w), NEW c \in Clients, ~Seated(w, c), NEW s \in SquadIds, NEW dev
    PROVE  LET x == JoinWithCode(w, c, s, dev)
           IN  /\ LobbyOK(x)
               /\ Calm(w, x)
               /\ \A j \in Clients : j # c => x.seat[j] = w.seat[j]
<1>1. CASE JoinWithCode(w, c, s, dev) = w
  BY <1>1 DEF Calm
<1>2. CASE JoinWithCode(w, c, s, dev) # w
  <2>1. JoinWithCode(w, c, s, dev) = JoinSquad(w, c, s) /\ HasSpace(w.squads[s])
    BY <1>2 DEF JoinWithCode, JoinSquad
  <2>2. QED
    BY <2>1, ConsistentJoinable
<1>3. QED
  BY <1>1, <1>2

\* A private squad made out of an empty one: its first place is the owner's.
LEMMA CreateSquadOK ==
    ASSUME NEW w, LobbyOK(w), NEW c \in Clients, ~Seated(w, c)
    PROVE  LET x == CreateSquad(w, c)
           IN  /\ LobbyOK(x)
               /\ Calm(w, x)
               /\ \A j \in Clients : j # c => x.seat[j] = w.seat[j]
<1> DEFINE empty == {s \in SquadIds : w.squads[s].count = 0}
           s == First(empty)
           new == [w.squads[s] EXCEPT !.private = TRUE, !.expose = FALSE, !.owner = 0]
           v == [Configure(w, s, TRUE, FALSE, 0) EXCEPT !.joined = Forget(@, s)]
<1>1. CASE empty = {}
  BY <1>1 DEF CreateSquad, Calm
<1>2. CASE empty # {}
  <2>1. s \in SquadIds /\ w.squads[s].count = 0
    <3>1. s \in empty
      BY <1>2, FirstOK
    <3>2. QED
      BY <3>1
  <2>2. CreateSquad(w, c) = JoinSquad(v, c, s)
    BY <1>2 DEF CreateSquad
  <2> HIDE DEF s
  <2>3. w \in Lobbies /\ w.squads[s] \in SquadRecords
    BY <2>1, LobbyParts DEF LobbyOK
  <2>4. Used(w.squads[s]) = {}
    <3>1. Cardinality(Used(w.squads[s])) = 0
      BY <2>1 DEF LobbyOK, SquadOK, CountsOK
    <3>2. Used(w.squads[s]) \in SUBSET Positions
      BY DEF Used
    <3>3. QED
      BY <3>1, <3>2, PositionSets, FS_EmptySet
  <2>5. /\ new \in SquadRecords
        /\ new.members = w.squads[s].members /\ new.count = 0
        /\ new.owner = 0 /\ new.private = TRUE
    <3>1. 0 \in Positions
      BY SizesAssumption DEF Positions
    <3> DEFINE old == w.squads[s]
    <3>2. old \in SquadRecords /\ old.count = 0
      BY <2>1, <2>3
    <3>3. new = [old EXCEPT !.private = TRUE, !.expose = FALSE, !.owner = 0]
      OBVIOUS
    <3> HIDE DEF old, new, v
    <3>4. new = [members |-> old.members, count |-> old.count, owner |-> 0,
                 private |-> TRUE, expose |-> FALSE]
      BY <3>2, <3>3 DEF SquadRecords
    <3>5. /\ new \in SquadRecords
          /\ new.members = old.members /\ new.count = 0
          /\ new.owner = 0 /\ new.private = TRUE
      BY <3>1, <3>2, <3>4, Fields DEF SquadRecords
    <3>6. QED
      BY <3>5 DEF old
  <2>6. v = [w EXCEPT !.squads[s] = new, !.joined = Forget(@, s)]
    BY <2>1, <2>3, LobbyParts DEF Configure
  <2> HIDE DEF new, v
  <2>7. /\ v \in Lobbies
        /\ v.squads = [w.squads EXCEPT ![s] = new] /\ v.seat = w.seat
    <3>1. Forget(w.joined, s) \in [Clients -> SUBSET SquadIds]
      BY <2>3, LobbyParts DEF Forget
    <3>2. QED
      BY <2>1, <2>3, <2>5, <2>6, <3>1, LobbyParts DEF Lobbies
  <2>8. v.squads[s] = new /\ \A t \in SquadIds : t # s => v.squads[t] = w.squads[t]
    BY <2>1, <2>3, <2>7, LobbyParts
  <2>9. Used(new) = {} /\ CountsOK(new)
    <3>1. CountsOK(w.squads[s])
      BY <2>1 DEF LobbyOK, SquadOK
    <3>2. QED
      BY <2>1, <2>4, <2>5, <3>1, SameMembers
  <2>10. HasSpace(new) /\ Joinable(new)
    <3>1. HasSpace(new)
      BY <2>5, SizesAssumption DEF HasSpace
    <3>2. /\ FirstFree(new) \in Positions
          /\ \A q \in Positions : FirstFree(new) <= q
      BY <2>5, <2>9, <3>1, FirstFreeOK
    <3>3. FirstFree(new) = 0
      BY <3>2, SizesAssumption DEF Positions
    <3>4. QED
      BY <2>5, <2>9, <3>1, <3>3 DEF Joinable
  <2>11. \A t \in SquadIds : Used(v.squads[t]) = Used(w.squads[t])
    BY <2>4, <2>8, <2>9
  <2>12. ASSUME NEW j \in Clients, Seated(v, j)
         PROVE  Seated(w, j) /\ MemberOf(v, j) = MemberOf(w, j)
    <3>1. Seated(w, j) /\ v.seat[j] = w.seat[j]
      BY <2>7, <2>12 DEF Seated
    <3>2. w.seat[j].squad \in SquadIds /\ w.seat[j].squad # s
      BY <2>4, <3>1, SeatOf
    <3>3. QED
      BY <2>8, <3>1, <3>2 DEF MemberOf, SquadOf
  <2>13. SeatsMatch(v)
    <3>1. ASSUME NEW t \in SquadIds, NEW p \in Used(v.squads[t])
          PROVE  v.seat[v.squads[t].members[p].client] = [squad |-> t, pos |-> p]
      <4>1. t # s /\ p \in Used(w.squads[t])
        BY <2>4, <2>11, <3>1
      <4>2. QED
        BY <2>7, <2>8, <4>1 DEF LobbyOK, SeatsMatch
    <3>2. \A j \in Clients : Seated(v, j) => MemberOf(v, j).client = j
      BY <2>12 DEF LobbyOK, SeatsMatch
    <3>3. QED
      BY <3>1, <3>2 DEF SeatsMatch
  <2>14. \A t \in SquadIds \ {s} : SquadOK(v.squads[t])
    BY <2>8 DEF LobbyOK
  <2>15. ~Seated(v, c) /\ Calm(w, v)
    BY <2>7, <2>12 DEF Seated, Calm
  <2> DEFINE x == JoinSquad(v, c, s)
  <2>16. /\ LobbyOK(x) /\ Calm(v, x)
         /\ \A j \in Clients : j # c => x.seat[j] = v.seat[j]
    <3>1. HasSpace(v.squads[s]) /\ Joinable(v.squads[s])
      BY <2>8, <2>10
    <3>2. v \in Lobbies /\ ~Seated(v, c)
      BY <2>7, <2>15
    <3>3. QED
      BY <2>1, <2>13, <2>14, <3>1, <3>2, JoinSquadOK
  <2> HIDE DEF x
  <2>17. Calm(w, x)
    BY <2>15, <2>16, CalmTransitive
  <2>18. QED
    BY <2>2, <2>7, <2>16, <2>17 DEF x
<1>3. QED
  BY <1>1, <1>2

\* Any owner, privacy and exposure that fit together.
LEMMA NewSettings ==
    ASSUME NEW w, LobbyOK(w), NEW s \in SquadIds,
           NEW o \in Positions, NEW priv \in BOOLEAN, NEW exp \in BOOLEAN,
           priv => o \in Used(w.squads[s]), ~priv => exp
    PROVE  LET x == Configure(w, s, priv, exp, o)
           IN  LobbyOK(x) /\ Calm(w, x) /\ x.seat = w.seat /\ x.joined = w.joined
<1> DEFINE old == w.squads[s]
           x == Configure(w, s, priv, exp, o)
           r == [old EXCEPT !.private = priv, !.expose = exp, !.owner = o]
<1>1. w \in Lobbies /\ old \in SquadRecords /\ SquadOK(old)
  BY LobbyParts DEF LobbyOK
<1>2. /\ r \in SquadRecords
      /\ r.members = old.members /\ r.count = old.count
      /\ r.owner = o /\ r.private = priv /\ r.expose = exp
  <2> HIDE DEF old, x
  <2>1. QED
    BY <1>1 DEF SquadRecords
<1>3. x = [w EXCEPT !.squads[s] = r]
  BY DEF Configure
<1> HIDE DEF r, x
<1>4. Used(r) = Used(old) /\ SquadOK(r)
  BY <1>1, <1>2, SameMembers DEF SquadOK, SettingsOK
<1>5. /\ LobbyOK(x)
      /\ x.seat = w.seat /\ x.joined = w.joined
      /\ \A j \in Clients :
            Seated(x, j) => MemberOf(x, j) = IF w.seat[j].squad = s
                                             THEN r.members[w.seat[j].pos] ELSE MemberOf(w, j)
  <2>1. /\ \A q \in Positions : r.members[q].client = w.squads[s].members[q].client
        /\ Used(r) = Used(w.squads[s]) /\ SquadOK(r) /\ r \in SquadRecords
    BY <1>2, <1>4
  <2> HIDE DEF old
  <2>2. QED
    BY <1>3, <2>1, SquadChanged
<1>6. \A j \in Clients : Seated(x, j) => Seated(w, j) /\ MemberOf(x, j) = MemberOf(w, j)
  BY <1>2, <1>5 DEF Seated, MemberOf, SquadOf
<1>7. QED
  BY <1>5, <1>6 DEF Calm, x

\* The member of a client in a lobby where its squad has become r.
LEMMA MyMember ==
    ASSUME NEW w, LobbyOK(w), NEW c \in Clients, Seated(w, c),
           NEW r \in SquadRecords, SquadOK(r),
           Used(r) = Used(SquadOf(w, c)),
           \A q \in Positions : r.members[q].client = SquadOf(w, c).members[q].client
    PROVE  LET x == [w EXCEPT !.squads[w.seat[c].squad] = r]
           IN  /\ LobbyOK(x)
               /\ x.seat = w.seat
               /\ MemberOf(x, c) = r.members[w.seat[c].pos]
               /\ \A j \in Clients :
                     Seated(x, j) =>
                        \/ MemberOf(x, j) = MemberOf(w, j)
                        \/ /\ w.seat[j].pos \in Positions
                           /\ (w.seat[j].pos = w.seat[c].pos) => j = c
                           /\ MemberOf(x, j) = r.members[w.seat[j].pos]
                           /\ MemberOf(w, j) = SquadOf(w, c).members[w.seat[j].pos]
<1> DEFINE s == w.seat[c].squad
           x == [w EXCEPT !.squads[s] = r]
<1>1. s \in SquadIds /\ SquadOf(w, c) = w.squads[s]
  BY SeatOf DEF SquadOf
<1>2. /\ LobbyOK(x)
      /\ x.seat = w.seat
      /\ \A j \in Clients :
            Seated(x, j) => MemberOf(x, j) = IF w.seat[j].squad = s
                                             THEN r.members[w.seat[j].pos] ELSE MemberOf(w, j)
  BY <1>1, SquadChanged
<1> HIDE DEF x
<1>3. MemberOf(x, c) = r.members[w.seat[c].pos]
  BY <1>2 DEF Seated
<1>4. ASSUME NEW j \in Clients, Seated(x, j), w.seat[j].squad = s
      PROVE  /\ w.seat[j].pos \in Positions
             /\ (w.seat[j].pos = w.seat[c].pos) => j = c
             /\ MemberOf(x, j) = r.members[w.seat[j].pos]
             /\ MemberOf(w, j) = SquadOf(w, c).members[w.seat[j].pos]
  <2>1. Seated(w, j)
    BY <1>2, <1>4 DEF Seated
  <2>2. /\ w.seat[j].pos \in Positions
        /\ w.squads[w.seat[j].squad].members[w.seat[j].pos].client = j
    BY <2>1, SeatOf
  <2>3. w.squads[s].members[w.seat[c].pos].client = c
    BY SeatOf
  <2> HIDE DEF s
  <2>4. w.squads[s].members[w.seat[j].pos].client = j
    BY <1>4, <2>2
  <2>5. /\ (w.seat[j].pos = w.seat[c].pos) => j = c
        /\ MemberOf(x, j) = r.members[w.seat[j].pos]
    BY <1>2, <1>4, <2>3, <2>4
  <2>6. MemberOf(w, j) = SquadOf(w, c).members[w.seat[j].pos]
    BY <1>1, <1>4 DEF MemberOf, SquadOf
  <2>7. QED
    BY <2>2, <2>5, <2>6
<1>5. QED
  BY <1>2, <1>3, <1>4 DEF x

\* The member of a client enters or leaves the game.
LEMMA PlayingChanged ==
    ASSUME NEW w, LobbyOK(w), NEW c \in Clients, Seated(w, c), NEW b \in BOOLEAN
    PROVE  LET x == SetPlaying(w, c, b)
           IN  /\ LobbyOK(x)
               /\ x.seat = w.seat
               /\ \A j \in Clients :
                     Seated(x, j) => /\ MemberOf(x, j).vote = MemberOf(w, j).vote
                                     /\ MemberOf(x, j).playing =
                                          IF j = c THEN b ELSE MemberOf(w, j).playing
<1> DEFINE s == w.seat[c].squad
           p == w.seat[c].pos
           r == [SquadOf(w, c) EXCEPT !.members[p].playing = b]
           x == [w EXCEPT !.squads[s] = r]
<1>1. SquadOf(w, c) \in SquadRecords /\ SquadOK(SquadOf(w, c)) /\ p \in Positions
  BY SeatOf DEF LobbyOK, SquadOf
<1>2. SetPlaying(w, c, b) = x
  BY DEF SetPlaying, SquadOf
<1>3. /\ r \in SquadRecords
      /\ SquadOK(r)
      /\ Used(r) = Used(SquadOf(w, c))
      /\ \A q \in Positions :
            /\ r.members[q].client = SquadOf(w, c).members[q].client
            /\ r.members[q].vote = SquadOf(w, c).members[q].vote
            /\ r.members[q].playing = IF q = p THEN b ELSE SquadOf(w, c).members[q].playing
  <2> HIDE DEF p
  <2>1. QED
    BY <1>1, SetPlayingOK
<1> HIDE DEF r
<1>4. /\ LobbyOK(x)
      /\ x.seat = w.seat
      /\ MemberOf(x, c) = r.members[p]
      /\ \A j \in Clients :
            Seated(x, j) =>
               \/ MemberOf(x, j) = MemberOf(w, j)
               \/ /\ w.seat[j].pos \in Positions
                  /\ (w.seat[j].pos = p) => j = c
                  /\ MemberOf(x, j) = r.members[w.seat[j].pos]
                  /\ MemberOf(w, j) = SquadOf(w, c).members[w.seat[j].pos]
  BY <1>3, MyMember
<1> HIDE DEF x
<1>5. MemberOf(w, c) = SquadOf(w, c).members[p]
  BY DEF MemberOf
<1> HIDE DEF p
<1>6. ASSUME NEW j \in Clients, Seated(x, j)
      PROVE  /\ MemberOf(x, j).vote = MemberOf(w, j).vote
             /\ MemberOf(x, j).playing = IF j = c THEN b ELSE MemberOf(w, j).playing
  <2>1. CASE j = c
    BY <1>1, <1>3, <1>4, <1>5, <2>1
  <2>2. CASE j # c
    BY <1>3, <1>4, <1>6, <2>2
  <2>3. QED
    BY <2>1, <2>2
<1>7. QED
  BY <1>2, <1>4, <1>6

\* The ballot of a client is taken back, where it has one.
LEMMA RetractLobby ==
    ASSUME NEW w, LobbyOK(w), NEW c \in Clients
    PROVE  LET x == Retract(w, c)
           IN  /\ LobbyOK(x)
               /\ x.seat = w.seat
               /\ Calm(w, x)
               /\ Seated(x, c) => MemberOf(x, c).vote = NoVote
<1>1. CASE ~Seated(w, c) \/ MemberOf(w, c).vote = NoVote
  BY <1>1 DEF Retract, Calm
<1>2. CASE Seated(w, c) /\ MemberOf(w, c).vote # NoVote
  <2> DEFINE s == w.seat[c].squad
             p == w.seat[c].pos
             r == [SquadOf(w, c) EXCEPT !.members = [Uncount(@, p) EXCEPT ![p].vote = NoVote]]
             x == [w EXCEPT !.squads[s] = r]
  <2>1. /\ SquadOf(w, c) \in SquadRecords /\ SquadOK(SquadOf(w, c))
        /\ p \in Positions /\ p \in Used(SquadOf(w, c))
        /\ SquadOf(w, c).members[p].vote # NoVote
    BY <1>2, SeatOf DEF LobbyOK, SquadOf, MemberOf
  <2>2. Retract(w, c) = x
    BY <1>2 DEF Retract, SquadOf
  <2>3. /\ r \in SquadRecords
        /\ SquadOK(r)
        /\ Used(r) = Used(SquadOf(w, c))
        /\ \A q \in Positions :
              /\ r.members[q].client = SquadOf(w, c).members[q].client
              /\ r.members[q].vote = IF q = p THEN NoVote ELSE SquadOf(w, c).members[q].vote
              /\ r.members[q].playing = SquadOf(w, c).members[q].playing
    <3> HIDE DEF p
    <3>1. QED
      BY <2>1, RetractOK
  <2> HIDE DEF r
  <2>4. /\ LobbyOK(x)
        /\ x.seat = w.seat
        /\ MemberOf(x, c) = r.members[p]
        /\ \A j \in Clients :
              Seated(x, j) =>
                 \/ MemberOf(x, j) = MemberOf(w, j)
                 \/ /\ w.seat[j].pos \in Positions
                    /\ (w.seat[j].pos = p) => j = c
                    /\ MemberOf(x, j) = r.members[w.seat[j].pos]
                    /\ MemberOf(w, j) = SquadOf(w, c).members[w.seat[j].pos]
    BY <1>2, <2>3, MyMember
  <2> HIDE DEF x, p
  <2>5. MemberOf(x, c).vote = NoVote
    BY <2>1, <2>3, <2>4
  <2>6. ASSUME NEW j \in Clients, Seated(x, j)
        PROVE  /\ Seated(w, j)
               /\ MemberOf(x, j).vote \in {NoVote, MemberOf(w, j).vote}
               /\ MemberOf(x, j).playing = MemberOf(w, j).playing
    <3>1. Seated(w, j)
      BY <2>4, <2>6 DEF Seated
    <3>2. QED
      BY <2>3, <2>4, <2>6, <3>1
  <2>7. Calm(w, x)
    BY <2>6 DEF Calm
  <2>8. QED
    BY <2>2, <2>4, <2>5, <2>7
<1>3. QED
  BY <1>1, <1>2

\* A client votes for another member of its squad.
LEMMA VoteLobby ==
    ASSUME NEW w, LobbyOK(w), NEW c \in Clients, Seated(w, c),
           MemberOf(w, c).vote = NoVote,
           NEW v \in Used(SquadOf(w, c)), v # w.seat[c].pos
    PROVE  LET x == Vote(w, c, v)
           IN  /\ LobbyOK(x)
               /\ x.seat = w.seat
               /\ v \in Used(x.squads[w.seat[c].squad])
               /\ \A j \in Clients :
                     Seated(x, j) => /\ MemberOf(x, j).playing = MemberOf(w, j).playing
                                     /\ j # c => MemberOf(x, j).vote = MemberOf(w, j).vote
<1> DEFINE s == w.seat[c].squad
           p == w.seat[c].pos
           sq == SquadOf(w, c)
           r == Ballot(sq, p, v)
           x == [w EXCEPT !.squads[s] = r]
<1>1. /\ sq \in SquadRecords /\ SquadOK(sq)
      /\ s \in SquadIds /\ sq = w.squads[s]
      /\ p \in Positions /\ p \in Used(sq)
      /\ v \in Used(sq) /\ v # p
      /\ sq.members[p].vote = NoVote
  BY SeatOf DEF LobbyOK, SquadOf, MemberOf
<1>2. w.squads \in [SquadIds -> SquadRecords] /\ w \in Lobbies
  BY LobbyParts DEF LobbyOK
<1>3. Vote(w, c, v) = x
  BY DEF Vote, SquadOf
<1>4. /\ r \in SquadRecords
      /\ SquadOK(r)
      /\ Used(r) = Used(sq)
      /\ \A q \in Positions :
            /\ r.members[q].client = sq.members[q].client
            /\ r.members[q].vote = IF q = p THEN v ELSE sq.members[q].vote
            /\ r.members[q].playing = sq.members[q].playing
  BY <1>1, VoteOK
<1> HIDE DEF r
<1>5. /\ LobbyOK(x)
      /\ x.seat = w.seat
      /\ \A j \in Clients :
            Seated(x, j) =>
               \/ MemberOf(x, j) = MemberOf(w, j)
               \/ /\ w.seat[j].pos \in Positions
                  /\ (w.seat[j].pos = p) => j = c
                  /\ MemberOf(x, j) = r.members[w.seat[j].pos]
                  /\ MemberOf(w, j) = sq.members[w.seat[j].pos]
  BY <1>4, MyMember
<1>6. v \in Used(x.squads[s])
  <2>1. x.squads[s] = r
    BY <1>1, <1>2
  <2>2. QED
    BY <1>1, <1>4, <2>1
<1> HIDE DEF x, p, sq
<1>7. ASSUME NEW j \in Clients, Seated(x, j)
      PROVE  /\ MemberOf(x, j).playing = MemberOf(w, j).playing
             /\ j # c => MemberOf(x, j).vote = MemberOf(w, j).vote
  BY <1>4, <1>5, <1>7
<1>8. QED
  BY <1>3, <1>5, <1>6, <1>7

\* A client takes over the seat of another session.
LEMMA TakeOverOK ==
    ASSUME NEW w, LobbyOK(w), NEW c \in Clients, ~Seated(w, c),
           NEW o \in Clients, o # c
    PROVE  LET x == TakeOver(w, c, o)
           IN  /\ LobbyOK(x)
               /\ x.seat[c] = w.seat[o]
               /\ ~Seated(x, o)
               /\ \A j \in Clients \ {c, o} : x.seat[j] = w.seat[j]
               /\ \A j \in Clients :
                     Seated(x, j) =>
                        LET i == IF j = c THEN o ELSE j
                        IN  /\ Seated(w, i)
                            /\ MemberOf(x, j).vote = MemberOf(w, i).vote
                            /\ MemberOf(x, j).playing = MemberOf(w, i).playing
<1> DEFINE x == TakeOver(w, c, o)
           s == w.seat[o].squad
           p == w.seat[o].pos
           old == w.squads[s]
           r == [old EXCEPT !.members[p].client = c]
           seat == [w.seat EXCEPT ![c] = w.seat[o], ![o] = NoSeat]
           joined == [w.joined EXCEPT ![c] = w.joined[o]]
<1>1. w \in Lobbies
  BY DEF LobbyOK
<1>2. seat \in [Clients -> Seats \cup {NoSeat}] /\ joined \in [Clients -> SUBSET SquadIds]
  BY <1>1, LobbyParts
<1>3. /\ seat[c] = w.seat[o] /\ seat[o] = NoSeat
      /\ \A j \in Clients \ {c, o} : seat[j] = w.seat[j]
  BY <1>1, LobbyParts
<1> HIDE DEF seat, joined
<1>4. CASE ~Seated(w, o)
  <2>1. x = [w EXCEPT !.seat = seat, !.joined = joined]
    BY <1>1, <1>4, LobbyParts DEF TakeOver, seat, joined
  <2> HIDE DEF x
  <2>2. x \in Lobbies /\ x.squads = w.squads /\ x.seat = seat
    BY <1>1, <1>2, <2>1 DEF Lobbies
  <2>3. \A j \in Clients : x.seat[j] = w.seat[j]
    BY <1>3, <1>4, <2>2 DEF Seated
  <2>4. x.seat = w.seat
    BY <1>1, <1>2, <2>2, <2>3, LobbyParts
  <2>5. LobbyOK(x) /\ \A j \in Clients : MemberOf(x, j) = MemberOf(w, j)
    BY <2>2, <2>4, HistoryIsFree DEF MemberOf, SquadOf
  <2>6. QED
    BY <1>3, <1>4, <2>2, <2>4, <2>5 DEF Seated, x
<1>5. CASE Seated(w, o)
  <2>1. /\ s \in SquadIds /\ p \in Positions /\ p \in Used(old)
        /\ old \in SquadRecords /\ SquadOK(old)
        /\ w.seat[o] = [squad |-> s, pos |-> p]
        /\ old.members[p].client = o
    BY <1>5, SeatOf DEF LobbyOK
  <2>2. /\ r \in SquadRecords
        /\ SquadOK(r)
        /\ Used(r) = Used(old)
        /\ \A q \in Positions :
              /\ r.members[q].client = IF q = p THEN c ELSE old.members[q].client
              /\ r.members[q].vote = old.members[q].vote
              /\ r.members[q].playing = old.members[q].playing
    <3> HIDE DEF old, p
    <3>1. QED
      BY <2>1, SetClientOK
  <2>3. x = [w EXCEPT !.seat = seat, !.joined = joined, !.squads[s] = r]
    BY <1>1, <1>5, LobbyParts DEF TakeOver, seat, joined
  <2> HIDE DEF x, s, p, old, r
  <2>4. /\ x \in Lobbies /\ x.seat = seat
        /\ x.squads = [w.squads EXCEPT ![s] = r]
    <3>1. [w.squads EXCEPT ![s] = r] \in [SquadIds -> SquadRecords]
      BY <1>1, <2>1, <2>2, LobbyParts
    <3>2. QED
      BY <1>1, <1>2, <2>3, <3>1 DEF Lobbies
  <2>5. x.squads[s] = r /\ \A t \in SquadIds : t # s => x.squads[t] = w.squads[t]
    BY <1>1, <2>1, <2>4, LobbyParts
  <2>6. /\ w.squads[s] = old
        /\ x.seat[c] = [squad |-> s, pos |-> p] /\ x.seat[o] = NoSeat
        /\ \A j \in Clients \ {c, o} : x.seat[j] = w.seat[j]
    BY <1>3, <2>1, <2>4 DEF old
  <2>7. ASSUME NEW j \in Clients, Seated(x, j)
        PROVE  LET i == IF j = c THEN o ELSE j
               IN  /\ Seated(w, i)
                   /\ MemberOf(x, j).vote = MemberOf(w, i).vote
                   /\ MemberOf(x, j).playing = MemberOf(w, i).playing
                   /\ MemberOf(x, j).client = j
    <3>1. CASE j = c
      <4>1. MemberOf(x, c) = r.members[p] /\ MemberOf(w, o) = old.members[p]
        BY <2>1, <2>5, <2>6 DEF MemberOf, SquadOf
      <4>2. QED
        BY <1>5, <2>1, <2>2, <3>1, <4>1
    <3>2. CASE j # c
      <4> DEFINE t == w.seat[j].squad
                 q == w.seat[j].pos
      <4>1. j # o /\ x.seat[j] = w.seat[j] /\ Seated(w, j)
        BY <2>6, <2>7, <3>2 DEF Seated
      <4>2. t \in SquadIds /\ q \in Positions /\ w.squads[t].members[q].client = j
        BY <4>1, SeatOf
      <4>3. MemberOf(x, j) = x.squads[t].members[q] /\ MemberOf(w, j) = w.squads[t].members[q]
        BY <4>1 DEF MemberOf, SquadOf
      <4> HIDE DEF t, q
      <4>4. CASE t = s
        <5>1. q # p
          BY <2>1, <2>6, <4>1, <4>2, <4>4
        <5>2. QED
          BY <2>2, <2>5, <2>6, <3>2, <4>1, <4>2, <4>3, <4>4, <5>1
      <4>5. CASE t # s
        BY <2>5, <3>2, <4>1, <4>2, <4>3, <4>5
      <4>6. QED
        BY <4>4, <4>5
    <3>3. QED
      BY <3>1, <3>2
  <2>8. ASSUME NEW t \in SquadIds, NEW q \in Used(x.squads[t])
        PROVE  x.seat[x.squads[t].members[q].client] = [squad |-> t, pos |-> q]
    <3>1. q \in Used(w.squads[t]) /\ q \in Positions
      BY <2>2, <2>5, <2>6, <2>8 DEF Used
    <3>2. CASE t = s /\ q = p
      BY <2>1, <2>2, <2>5, <2>6, <3>2
    <3>3. CASE ~(t = s /\ q = p)
      <4> DEFINE j == w.squads[t].members[q].client
      <4>1. x.squads[t].members[q].client = j
        BY <2>2, <2>5, <2>6, <3>1, <3>3
      <4>2. w.seat[j] = [squad |-> t, pos |-> q]
        BY <3>1 DEF LobbyOK, SeatsMatch
      <4>3. j \in Clients
        <5>1. w.squads[t] \in SquadRecords /\ j # NoClient
          BY <1>1, <3>1, LobbyParts DEF Used
        <5>2. QED
          BY <3>1, <5>1, Fields
      <4> HIDE DEF j
      <4>4. j # o
        BY <2>1, <3>3, <4>2
      <4>5. j # c
        <5>1. q # -1
          BY <3>1 DEF Positions
        <5>2. w.seat[c] = NoSeat
          BY DEF Seated
        <5>3. QED
          BY <4>2, <5>1, <5>2 DEF NoSeat
      <4>6. QED
        BY <2>6, <4>1, <4>2, <4>3, <4>4, <4>5
    <3>4. QED
      BY <3>2, <3>3
  <2>9. SeatsMatch(x)
    BY <2>7, <2>8 DEF SeatsMatch
  <2>10. LobbyOK(x)
    BY <2>2, <2>4, <2>5, <2>9 DEF LobbyOK
  <2>11. QED
    BY <2>1, <2>6, <2>7, <2>10 DEF Seated, x
<1>6. QED
  BY <1>4, <1>5
=============================================================================
