----------------------- MODULE MCMasterSessionsSafety -----------------------
(***************************************************************************)
(* Two small systems checked in one run: "saves" has two game servers, two *)
(* workers and one account, and a database that fails; "slots" has two     *)
(* accounts, one of which may be deleted, that share the one slot of one   *)
(* game server, and a master that may be stopped.                          *)
(***************************************************************************)
EXTENDS MasterSessions, TLC
VARIABLE instance

Failing == INSTANCE MasterSessions WITH DbMayFail <- TRUE, Deletable <- {}

\* What the clients and the workers of each system keep to.
OneAccount ==
    \A l \in Links, i \in Slots : slot[l][i].acct \in OldAccounts \cup {NoAccount}
OneServer == \A l, k \in Links : process[l] # "new" /\ process[k] # "new" => l = k
OneSlot == \A l \in Links, i \in Slots : slot[l][i].status # "free" => i = 0
OneWorker == \A i \in DOMAIN master.jobs : master.jobs[i].ran => i = 1
\* Progress up to 1 for an account without a row; up to 3 for one with a row (progress 1),
\* so that a second save may come while the first is being written.
FewSaves ==
    \A l \in Links, i \in Slots :
        slot[l][i].data <= IF slot[l][i].acct \in OldAccounts THEN 3 ELSE 1

MCInit == instance \in {"saves", "slots"} /\ Init
MCNext ==
    /\ UNCHANGED instance
    /\ \/ instance = "saves" /\ Failing!Next /\ OneAccount' /\ requests' = 0
                             /\ stage' = "running"
       \/ instance = "slots" /\ Next /\ OneServer' /\ OneSlot' /\ OneWorker' /\ FewSaves'
MCSpec == MCInit /\ [][MCNext]_<<instance, vars>>

\* The game servers are interchangeable.
Symmetry == Permutations(Links)

ShortQueues ==
    /\ Len(done) <= 2 /\ Len(master.jobs) <= 2
    /\ \A l \in DOMAIN toMaster : Len(toMaster[l]) <= 2 /\ Len(master.out[l]) <= 2
=============================================================================
