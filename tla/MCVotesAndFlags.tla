--------------------------- MODULE MCVotesAndFlags ---------------------------
(***************************************************************************)
(* Two systems that share no state, in one run: "votes" is the voting in   *)
(* the squads of a game server, "flags" a match of capture the flag.  The  *)
(* one that does not run stays as it starts.                               *)
(***************************************************************************)
EXTENDS MCSquads, CtfRules

VARIABLE system

BothInit == system \in {"votes", "flags"} /\ Init /\ RulesInit
BothNext ==
    /\ UNCHANGED system
    /\ \/ system = "votes" /\ Next /\ UNCHANGED rulesVars
       \/ system = "flags" /\ RulesNext /\ UNCHANGED vars
BothSpec == BothInit /\ [][BothNext]_<<system, vars, rulesVars>>
=============================================================================
