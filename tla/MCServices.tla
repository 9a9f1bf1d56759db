----------------------------- MODULE MCServices -----------------------------
(***************************************************************************)
(* Two systems that share no state, in one run with liveness: "http" is    *)
(* the HTTP service of the master, "squads" the connections of a game      *)
(* server.  The one that does not run stays as it starts, and only the one *)
(* that runs is fair.                                                      *)
(***************************************************************************)
EXTENDS HttpServer

MCJobs == 1 .. 2

CONSTANTS k1, k2, a1, NoClient, NoAccount
VARIABLES system, status, pendingKick, uuid, player, quickJoin, actionWait, voteWait,
          goneTicks, lobby

squadVars == <<status, pendingKick, uuid, player, quickJoin, actionWait, voteWait,
               goneTicks, lobby>>
Squad == INSTANCE Squads WITH
    Clients <- {k1, k2}, Accounts <- {a1}, DevAccounts <- {}, Anonymous <- {},
    NumSquads <- 1, SquadSize <- 1, ActionTicks <- 0, VoteTicks <- 1, ReconnectTicks <- 1

ServicesInit == system \in {"http", "squads"} /\ Init /\ Squad!Init
ServicesNext ==
    /\ UNCHANGED system
    /\ \/ system = "http" /\ Next /\ UNCHANGED squadVars
       \/ system = "squads" /\ Squad!Next /\ UNCHANGED vars

\* HttpServer!Fairness, of the service that runs, and that of Squads
HttpFairness ==
    /\ \A w \in Workers : WF_vars(system = "http" /\ Worker(w))
    /\ WF_vars(system = "http" /\ Loop)
    /\ \A c \in Conns : WF_vars(system = "http" /\ HttpWriteEnd(c))
ServicesSpec ==
    /\ ServicesInit /\ [][ServicesNext]_<<system, vars, squadVars>>
    /\ HttpFairness /\ Squad!Fairness

\* A place held for a lost connection is given up or taken over (see Squads).
LostConnectionsEnd == Squad!LostConnectionsEnd
\* A connection the server wants closed gives its slot back (see Squads).
KickedConnectionsEnd == Squad!KickedConnectionsEnd
=============================================================================
