------------------------------- MODULE JobPool -------------------------------
(***************************************************************************)
(* MasterServer/c/jobs.c: the worker threads of the master. The event loop *)
(* submits jobs, workers run them, and the event loop takes what they have *)
(* run off the done list. The two lists, the counter of pending jobs, the  *)
(* stopping flag and the pointer to the event loop's context are behind    *)
(* one mutex: one action is one critical section. What a worker does       *)
(* outside of it (running the job, waking the event loop) is an action of  *)
(* its own, and a worker that waits for the condition variable is in a     *)
(* state of its own, so that a wake-up can be lost.                        *)
(***************************************************************************)
EXTENDS Integers, Sequences, FiniteSets

CONSTANTS Jobs,      \* every job that is ever allocated
          Workers,   \* the threads of the pool
          NoJob

ASSUME NoJobIsNoJob == NoJob \notin Jobs

(* ms_jobs_init starts at least one thread. *)
ASSUME WorkersAreFinite == IsFiniteSet(Workers) /\ Workers # {}

VARIABLES
    todo,       \* todo_head ... todo_tail
    done,       \* done_head ... done_tail
    pending,    \* submitted and not yet through drain_done
    stopping,
    context,    \* is the pool attached to the event loop's context
    wpc,        \* where each worker is in worker_main
    wjob        \* the job it has popped

poolVars == <<todo, done, pending, stopping, context, wpc, wjob>>

WorkerStates ==
    {"top",    \* about to lock the mutex and look at the list
     "wait",   \* in pthread_cond_wait
     "run",    \* running its job, or waiting for the mutex with it
     "wake",   \* has the context in a local variable, about to wake it
     "gone"}   \* returned

PoolInit ==
    /\ todo = <<>>
    /\ done = <<>>
    /\ pending = 0
    /\ stopping = FALSE
    /\ context = TRUE
    /\ wpc = [w \in Workers |-> "top"]
    /\ wjob = [w \in Workers |-> NoJob]

(* The lock is held at the top of the loop: wait, take a job, or (stopping  *)
(* and nothing left) return.                                                *)
WorkerWaits(w) ==
    /\ wpc[w] = "top"
    /\ todo = <<>>
    /\ ~stopping
    /\ wpc' = [wpc EXCEPT ![w] = "wait"]
    /\ UNCHANGED <<todo, done, pending, stopping, context, wjob>>

WorkerTakes(w) ==
    /\ wpc[w] = "top"
    /\ todo # <<>>
    /\ wjob' = [wjob EXCEPT ![w] = Head(todo)]
    /\ todo' = Tail(todo)
    /\ wpc' = [wpc EXCEPT ![w] = "run"]
    /\ UNCHANGED <<done, pending, stopping, context>>

WorkerReturns(w) ==
    /\ wpc[w] = "top"
    /\ todo = <<>>
    /\ stopping
    /\ wpc' = [wpc EXCEPT ![w] = "gone"]
    /\ UNCHANGED <<todo, done, pending, stopping, context, wjob>>

(* run() has returned: the job goes to the done list and the context to     *)
(* wake is copied, both under the lock.                                     *)
WorkerFinishes(w) ==
    /\ wpc[w] = "run"
    /\ done' = Append(done, wjob[w])
    /\ wjob' = [wjob EXCEPT ![w] = NoJob]
    /\ wpc' = [wpc EXCEPT ![w] = IF context THEN "wake" ELSE "top"]
    /\ UNCHANGED <<todo, pending, stopping, context>>

(* lws_cancel_service on the copy, outside of the lock. *)
WorkerWakesLoop(w) ==
    /\ wpc[w] = "wake"
    /\ wpc' = [wpc EXCEPT ![w] = "top"]
    /\ UNCHANGED <<todo, done, pending, stopping, context, wjob>>

WorkerStep(w) ==
    \/ WorkerWaits(w)
    \/ WorkerTakes(w)
    \/ WorkerReturns(w)
    \/ WorkerFinishes(w)
    \/ WorkerWakesLoop(w)

\* mutant: nobody is woken
Signal_Nobody == wpc' = wpc

(* pthread_cond_signal: one of the waiting workers, if any, is woken. *)
Signal ==
    IF \E w \in Workers : wpc[w] = "wait"
    THEN \E w \in Workers :
            /\ wpc[w] = "wait"
            /\ wpc' = [wpc EXCEPT ![w] = "top"]
    ELSE wpc' = wpc

\* mutant: the stop wakes one worker only
Broadcast_One == Signal

(* pthread_cond_broadcast *)
Broadcast ==
    wpc' = [w \in Workers |-> IF wpc[w] = "wait" THEN "top" ELSE wpc[w]]

(* ms_jobs_submit *)
SubmitJob(j) ==
    /\ pending' = pending + 1
    /\ todo' = Append(todo, j)
    /\ Signal
    /\ UNCHANGED <<done, stopping, context, wjob>>

\* mutant: the job of the other list is counted down as well
DrainJob_Twice ==
    /\ done # <<>>
    /\ done' = Tail(done)
    /\ pending' = pending - 2
    /\ UNCHANGED <<todo, stopping, context, wpc, wjob>>

(* One turn of the loop of ms_jobs_drain_done: the caller runs done() on    *)
(* the job between the two critical sections. Only the event loop's thread  *)
(* takes from the list or counts down, so they are one step.                *)
DrainJob ==
    /\ done # <<>>
    /\ done' = Tail(done)
    /\ pending' = pending - 1
    /\ UNCHANGED <<todo, stopping, context, wpc, wjob>>

(* ms_jobs_set_context(NULL) *)
DetachContext ==
    /\ context' = FALSE
    /\ UNCHANGED <<todo, done, pending, stopping, wpc, wjob>>

(* the first half of ms_jobs_shutdown, up to the joins *)
StopWorkers ==
    /\ stopping' = TRUE
    /\ Broadcast
    /\ UNCHANGED <<todo, done, pending, context, wjob>>

AllReturned == \A w \in Workers : wpc[w] = "gone"

-----------------------------------------------------------------------------

Elements(s) == {s[i] : i \in DOMAIN s}

Running == {wjob[w] : w \in {v \in Workers : wpc[v] = "run"}}

(* the pool has a pointer to the job *)
Pooled == Elements(todo) \cup Running \cup Elements(done)

PoolTypeOK ==
    /\ todo \in Seq(Jobs)
    /\ done \in Seq(Jobs)
    /\ pending \in Nat
    /\ stopping \in BOOLEAN
    /\ context \in BOOLEAN
    /\ wpc \in [Workers -> WorkerStates]
    /\ wjob \in [Workers -> Jobs \cup {NoJob}]

(* Every submitted job is in one place of the pool, and pending counts them *)
(* all: todo, then one worker, then done.                                   *)
PendingIsEverySubmittedJob ==
    pending = Len(todo) + Cardinality({w \in Workers : wpc[w] = "run"})
              + Len(done)

(* No wake-up is lost: while a worker sleeps on the condition variable,     *)
(* every job that is still to do has a worker of its own on its way to the  *)
(* list (the signal of each submit, the broadcast of the stop, and the      *)
(* check of the list before each wait: jobs.c:71, :118, :155).              *)
NoLostWakeUp ==
    \A w \in Workers :
        wpc[w] = "wait" =>
            /\ Len(todo) <= Cardinality({v \in Workers : wpc[v] = "top"})
            /\ ~stopping

=============================================================================
