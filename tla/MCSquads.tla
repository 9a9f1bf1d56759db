------------------------------ MODULE MCSquads ------------------------------
(***************************************************************************)
(* Squads for TLC.  Clients, accounts and the sentinels are model values   *)
(* given by the configurations.                                            *)
(***************************************************************************)
EXTENDS Squads, TLC

\* Connections are alike, and so are accounts that are neither dev nor anonymous.
Symmetry ==
    {p @@ q : p \in Permutations(Clients),
              q \in Permutations(Accounts \ (DevAccounts \cup Anonymous))}

\* Bounds: how many connections at a time are marked to be closed, lost, or
\* waiting for the master.
Few(kicked, lost, waiting) ==
    /\ Cardinality({c \in Clients : InUse(c) /\ pendingKick[c]}) <= kicked
    /\ Cardinality({c \in Clients : status[c] = "disconnected"}) <= lost
    /\ Cardinality({c \in Clients : status[c] = "connected"}) <= waiting
FewAtOnce == Few(1, 1, 1)
NoneKicked == Few(0, 1, 1)

\* Bound of the run about votes: nobody is in the game.
NobodyPlays == ~\E c \in Clients : quickJoin[c] \/ player[c]

\* Bound of the run about private squads: one connection at a time is in the game.
OnePlays == Cardinality({c \in Clients : quickJoin[c] \/ player[c]}) <= 1
=============================================================================
