----------------------------- MODULE HttpServer -----------------------------
(***************************************************************************)
(* MasterServer/c/server.c: an HTTP request from its arrival to its        *)
(* answer, on the event loop and the workers of JobPool. A request is one  *)
(* struct http_job. Until it is dispatched it belongs to its connection;   *)
(* then a worker has it as well, and whichever of the two is last gives    *)
(* the storage back. The event loop is one thread: a callback is one       *)
(* action. ms_server_run is the variable mpc.                              *)
(*                                                                         *)
(* The content of requests and answers is left out, except that a body may *)
(* be too large and an answer may be empty. libwebsockets calls back for   *)
(* the body of whatever request has one, and no callback here looks at the *)
(* method: which methods the clients send a body with is a parameter. The  *)
(* clients of the repository do so with POST only (ApiClients), and the    *)
(* claims about the service are claims about such clients. Once a client   *)
(* has sent a body with another method, storage may be used after it was   *)
(* freed, and nothing more is meant by the steps that follow.              *)
(***************************************************************************)
EXTENDS JobPool

CONSTANTS Conns, NoConn,
          BodyMethods   \* the methods of the requests that come with a body

ASSUME NoConnIsNoConn == NoConn \notin Conns

(* OPTIONS is treated as GET is, "?" is every method that is not served.    *)
ASSUME BodyMethodsAreMethods == BodyMethods \subseteq {"GET", "POST", "?"}

(* Clients send a body with a POST and with nothing else, as the pages do   *)
(* (login.html:261, account.html:194, Auth.c:78, index.html:104).           *)
ApiClients == BodyMethods \subseteq {"POST"}

VARIABLES
    mpc,        \* where the event loop's thread is
    quit,       \* the signal handler has run
    conn,       \* what libwebsockets is doing with each connection
    writable,   \* connections with a writeable callback asked for
    pss,        \* pss->job of each connection
    storage,    \* each http_job: unborn, live (calloc) or freed
    wsi,        \* job->wsi
    queued, finished, ready, rejected,
    body        \* job->stage = 1: the headers are written, the body is not

jobVars == <<storage, wsi, queued, finished, ready, rejected, body>>
connVars == <<conn, writable, pss>>
loopVars == <<mpc, quit>>
vars == <<poolVars, jobVars, connVars, loopVars>>

LoopStates ==
    {"poll",       \* in lws_service, between two callbacks
     "drain",      \* in ms_jobs_drain_done
     "detached",   \* the pool has no context any more
     "destroyed",  \* lws_context_destroy has returned
     "joining",    \* in the pthread_joins of ms_jobs_shutdown
     "lastdrain",  \* in its ms_jobs_drain_done
     "ended"}

Init ==
    /\ PoolInit
    /\ mpc = "poll"
    /\ quit = FALSE
    /\ conn = [c \in Conns |-> "closed"]
    /\ writable = [c \in Conns |-> FALSE]
    /\ pss = [c \in Conns |-> NoJob]
    /\ storage = [j \in Jobs |-> "unborn"]
    /\ wsi = [j \in Jobs |-> NoConn]
    /\ queued = [j \in Jobs |-> FALSE]
    /\ finished = [j \in Jobs |-> FALSE]
    /\ ready = [j \in Jobs |-> FALSE]
    /\ rejected = [j \in Jobs |-> FALSE]
    /\ body = [j \in Jobs |-> FALSE]

-----------------------------------------------------------------------------
(* Pieces the callbacks are made of. *)

WantWritable(c) == writable' = [writable EXCEPT ![c] = TRUE]

(* A response that needs no worker: ready at once. *)
AnswerWithoutRoute(j) ==
    /\ ready' = [ready EXCEPT ![j] = TRUE]
    /\ finished' = [finished EXCEPT ![j] = TRUE]

\* mutant: a request that was submitted counts as finished
Dispatch_Early(j, c) ==
    IF rejected[j]
    THEN /\ AnswerWithoutRoute(j)
         /\ WantWritable(c)
         /\ UNCHANGED <<poolVars, queued>>
    ELSE /\ queued' = [queued EXCEPT ![j] = TRUE]
         /\ finished' = [finished EXCEPT ![j] = TRUE]
         /\ SubmitJob(j)
         /\ UNCHANGED <<ready, writable>>

(* dispatch *)
Dispatch(j, c) ==
    IF rejected[j]
    THEN /\ AnswerWithoutRoute(j)
         /\ WantWritable(c)
         /\ UNCHANGED <<poolVars, queued>>
    ELSE /\ queued' = [queued EXCEPT ![j] = TRUE]
         /\ SubmitJob(j)
         /\ UNCHANGED <<ready, finished, writable>>

\* mutant: the job is freed whoever has it
Close_FreesAll(S) ==
    LET orphans == {j \in Jobs : \E c \in S : pss[c] = j}
    IN  /\ conn' = [c \in Conns |-> IF c \in S THEN "closed" ELSE conn[c]]
        /\ writable' = [c \in Conns |-> c \notin S /\ writable[c]]
        /\ pss' = [c \in Conns |-> IF c \in S THEN NoJob ELSE pss[c]]
        /\ wsi' = [j \in Jobs |-> IF j \in orphans THEN NoConn ELSE wsi[j]]
        /\ storage' = [j \in Jobs |-> IF j \in orphans THEN "freed" ELSE storage[j]]

\* mutant: the job keeps its way to a client that is gone
Close_KeepsWsi(S) ==
    LET orphans == {j \in Jobs : \E c \in S : pss[c] = j}
    IN  /\ conn' = [c \in Conns |-> IF c \in S THEN "closed" ELSE conn[c]]
        /\ writable' = [c \in Conns |-> c \notin S /\ writable[c]]
        /\ pss' = [c \in Conns |-> IF c \in S THEN NoJob ELSE pss[c]]
        /\ storage' = [j \in Jobs |->
                          IF j \in orphans /\ (~queued[j] \/ finished[j])
                          THEN "freed" ELSE storage[j]]
        /\ UNCHANGED wsi

(* LWS_CALLBACK_CLOSED_HTTP for the connections in S: a job that no worker  *)
(* has is freed here, the others lose their way back to the client.         *)
Close(S) ==
    LET orphans == {j \in Jobs : \E c \in S : pss[c] = j}
    IN  /\ conn' = [c \in Conns |-> IF c \in S THEN "closed" ELSE conn[c]]
        /\ writable' = [c \in Conns |-> c \notin S /\ writable[c]]
        /\ pss' = [c \in Conns |-> IF c \in S THEN NoJob ELSE pss[c]]
        /\ wsi' = [j \in Jobs |-> IF j \in orphans THEN NoConn ELSE wsi[j]]
        /\ storage' = [j \in Jobs |->
                          IF j \in orphans /\ (~queued[j] \/ finished[j])
                          THEN "freed" ELSE storage[j]]

-----------------------------------------------------------------------------
(* The callbacks of the event loop. *)

Connect(c) ==
    /\ mpc = "poll"
    /\ conn[c] = "closed"
    /\ \E j \in Jobs : storage[j] = "unborn"   \* bound: Jobs
    /\ conn' = [conn EXCEPT ![c] = "idle"]
    /\ UNCHANGED <<poolVars, jobVars, loopVars, writable, pss>>

(* LWS_CALLBACK_HTTP, up to what depends on the method *)
NewJob(c, j) ==
    /\ mpc = "poll"
    /\ conn[c] = "idle"
    /\ storage[j] = "unborn"
    /\ j = CHOOSE k \in Jobs : storage[k] = "unborn"   \* any will do
    /\ storage' = [storage EXCEPT ![j] = "live"]
    /\ wsi' = [wsi EXCEPT ![j] = c]
    /\ pss' = [pss EXCEPT ![c] = j]

(* ... and what libwebsockets does with the connection after it: there is a *)
(* body to come, or none.                                                   *)
AfterHeaders(c, method) ==
    \/ method \in BodyMethods /\ conn' = [conn EXCEPT ![c] = "body"]
    \/ conn' = [conn EXCEPT ![c] = "answer"]

HttpUnknownMethod(c, j) ==
    /\ NewJob(c, j)
    /\ AnswerWithoutRoute(j)
    /\ WantWritable(c)
    /\ AfterHeaders(c, "?")
    /\ UNCHANGED <<poolVars, loopVars, queued, rejected, body>>

HttpPost(c, j) ==
    /\ NewJob(c, j)
    /\ \E tooLarge \in BOOLEAN :
          rejected' = [rejected EXCEPT ![j] = tooLarge]
    /\ conn' = [conn EXCEPT ![c] = "body"]
    /\ UNCHANGED <<poolVars, loopVars, queued, finished, ready,
                   body, writable>>

HttpGet(c, j) ==
    /\ NewJob(c, j)
    /\ Dispatch(j, c)
    /\ AfterHeaders(c, "GET")
    /\ UNCHANGED <<loopVars, rejected, body>>

(* LWS_CALLBACK_HTTP_BODY, when the body grows too large: of whatever job   *)
(* the connection has, in a worker's hands or not. (A part that fits only   *)
(* makes it longer, in storage that is allocated again for it.)             *)
HttpBodyTooLarge(c) ==
    /\ mpc = "poll"
    /\ conn[c] = "body"
    /\ pss[c] # NoJob
    /\ ~rejected[pss[c]]
    /\ rejected' = [rejected EXCEPT ![pss[c]] = TRUE]
    /\ UNCHANGED <<poolVars, connVars, loopVars, storage, wsi,
                   queued, finished, ready, body>>

(* LWS_CALLBACK_HTTP_BODY_COMPLETION: the connection's job is dispatched,   *)
(* though it may have been before.                                          *)
HttpBodyCompletion(c) ==
    /\ mpc = "poll"
    /\ conn[c] = "body"
    /\ pss[c] # NoJob
    /\ Dispatch(pss[c], c)
    /\ conn' = [conn EXCEPT ![c] = "answer"]
    /\ UNCHANGED <<loopVars, storage, wsi, rejected, body, pss>>

\* mutant: an answer is written before it is there
CanWrite_Unready(c) ==
    /\ mpc = "poll"
    /\ writable[c] \/ conn[c] = "answer"
    /\ pss[c] # NoJob

(* LWS_CALLBACK_HTTP_WRITEABLE. Nothing happens before the answer is ready  *)
(* ...                                                                      *)
CanWrite(c) ==
    /\ mpc = "poll"
    /\ writable[c]
    /\ pss[c] # NoJob
    /\ ready[pss[c]]

(* ... the headers of an answer that has a body ... *)
HttpWriteHeaders(c) ==
    /\ CanWrite(c)
    /\ ~body[pss[c]]
    /\ body' = [body EXCEPT ![pss[c]] = TRUE]
    /\ UNCHANGED <<poolVars, connVars, loopVars, storage, wsi,
                   queued, finished, ready, rejected>>

(* ... the end of the answer: the headers when there is no body, else the   *)
(* body. The connection may carry another request.                          *)
HttpWriteEnd(c) ==
    /\ CanWrite(c)
    /\ storage' = [storage EXCEPT ![pss[c]] = "freed"]
    /\ pss' = [pss EXCEPT ![c] = NoJob]
    /\ writable' = [writable EXCEPT ![c] = FALSE]
    /\ conn' = [conn EXCEPT ![c] = "idle"]
    /\ UNCHANGED <<poolVars, loopVars, wsi, queued, finished, ready, rejected,
                   body>>

(* The client goes away, or a write fails and the callback returns -1. *)
HttpClosed(c) ==
    /\ mpc = "poll"
    /\ conn[c] # "closed"
    /\ Close({c})
    /\ UNCHANGED <<poolVars, loopVars, queued, finished, ready,
                   rejected, body>>

(* LWS_CALLBACK_EVENT_WAIT_CANCELLED and the timer of 250 ms *)
DrainBegins ==
    /\ mpc = "poll"
    /\ done # <<>>
    /\ mpc' = "drain"
    /\ UNCHANGED <<poolVars, jobVars, connVars, quit>>

\* mutant: nobody frees what nobody waits for
RouteDone_NeverFrees(j) ==
    /\ finished' = [finished EXCEPT ![j] = TRUE]
    /\ ready' = [ready EXCEPT ![j] = TRUE]
    /\ writable' = [c \in Conns |-> c = wsi[j] \/ writable[c]]
    /\ UNCHANGED storage

\* mutant: the writeable callback is not asked for
RouteDone_NotWritable(j) ==
    /\ finished' = [finished EXCEPT ![j] = TRUE]
    /\ IF wsi[j] = NoConn
       THEN /\ storage' = [storage EXCEPT ![j] = "freed"]
            /\ UNCHANGED <<ready, writable>>
       ELSE /\ ready' = [ready EXCEPT ![j] = TRUE]
            /\ UNCHANGED <<storage, writable>>

(* route_done *)
RouteDone(j) ==
    /\ finished' = [finished EXCEPT ![j] = TRUE]
    /\ IF wsi[j] = NoConn
       THEN /\ storage' = [storage EXCEPT ![j] = "freed"]
            /\ UNCHANGED <<ready, writable>>
       ELSE /\ ready' = [ready EXCEPT ![j] = TRUE]
            /\ WantWritable(wsi[j])
            /\ UNCHANGED storage

Drain ==
    /\ mpc \in {"drain", "lastdrain"}
    /\ DrainJob
    /\ RouteDone(Head(done))
    /\ UNCHANGED <<loopVars, conn, pss, wsi, queued, rejected, body>>

DrainEnds ==
    /\ mpc \in {"drain", "lastdrain"}
    /\ done = <<>>
    /\ mpc' = IF mpc = "drain" THEN "poll" ELSE "ended"
    /\ UNCHANGED <<poolVars, jobVars, connVars, quit>>

-----------------------------------------------------------------------------
(* Stopping: ms_server_stop and the end of ms_server_run. *)

OnSignal ==
    /\ ~quit
    /\ mpc \in {"poll", "drain"}
    /\ quit' = TRUE
    /\ UNCHANGED <<poolVars, jobVars, connVars, mpc>>

(* The loop is left, and the pool detached from its context ... *)
LeaveLoop ==
    /\ mpc = "poll"
    /\ mpc' = "detached"
    /\ DetachContext
    /\ UNCHANGED <<jobVars, connVars, quit>>

(* ... because of the signal, or because lws_service failed. *)
StopDetaches == quit /\ LeaveLoop
ServiceFails == LeaveLoop

(* lws_context_destroy closes every connection, with its callback. *)
StopDestroysContext ==
    /\ mpc = "detached"
    /\ mpc' = "destroyed"
    /\ Close({c \in Conns : conn[c] # "closed"})
    /\ UNCHANGED <<poolVars, quit, queued, finished, ready, rejected,
                   body>>

StopStopsWorkers ==
    /\ mpc = "destroyed"
    /\ mpc' = "joining"
    /\ StopWorkers
    /\ UNCHANGED <<jobVars, connVars, quit>>

\* mutant: the last completions are not drained
StopJoined_NoDrain ==
    /\ mpc = "joining"
    /\ AllReturned
    /\ mpc' = "ended"
    /\ UNCHANGED <<poolVars, jobVars, connVars, quit>>

StopJoined ==
    /\ mpc = "joining"
    /\ AllReturned
    /\ mpc' = "lastdrain"
    /\ UNCHANGED <<poolVars, jobVars, connVars, quit>>

-----------------------------------------------------------------------------

Worker(w) == WorkerStep(w) /\ UNCHANGED <<jobVars, connVars, loopVars>>

Loop ==
    \/ DrainBegins
    \/ Drain
    \/ DrainEnds
    \/ StopDetaches
    \/ StopDestroysContext
    \/ StopStopsWorkers
    \/ StopJoined

Writeable(c) == HttpWriteHeaders(c) \/ HttpWriteEnd(c)

Client(c) ==
    \/ Connect(c)
    \/ \E j \in Jobs : HttpUnknownMethod(c, j) \/ HttpPost(c, j) \/ HttpGet(c, j)
    \/ HttpBodyTooLarge(c)
    \/ HttpBodyCompletion(c)
    \/ HttpClosed(c)

Next ==
    \/ \E w \in Workers : Worker(w)
    \/ Loop
    \/ OnSignal
    \/ ServiceFails
    \/ \E c \in Conns : Client(c) \/ Writeable(c)

Spec == Init /\ [][Next]_vars

(* The threads are scheduled, the event loop calls back what asked to be    *)
(* writeable and runs its timer. Clients and signals owe nothing, and       *)
(* lws_service need not fail.                                               *)
Fairness ==
    /\ \A w \in Workers : WF_vars(Worker(w))
    /\ WF_vars(Loop)
    /\ \A c \in Conns : WF_vars(HttpWriteEnd(c))

FairSpec == Spec /\ Fairness

-----------------------------------------------------------------------------
(* Properties. *)

TypeOK ==
    /\ PoolTypeOK
    /\ mpc \in LoopStates
    /\ quit \in BOOLEAN
    /\ conn \in [Conns -> {"closed", "idle", "body", "answer"}]
    /\ writable \in [Conns -> BOOLEAN]
    /\ pss \in [Conns -> Jobs \cup {NoJob}]
    /\ storage \in [Jobs -> {"unborn", "live", "freed"}]
    /\ wsi \in [Jobs -> Conns \cup {NoConn}]
    /\ queued \in [Jobs -> BOOLEAN]
    /\ finished \in [Jobs -> BOOLEAN]
    /\ ready \in [Jobs -> BOOLEAN]
    /\ rejected \in [Jobs -> BOOLEAN]
    /\ body \in [Jobs -> BOOLEAN]

(* Nobody holds a pointer to storage that was given back: what a connection *)
(* or any part of the pool points to is live (server.c:76, :315, :328).     *)
NoUseAfterFree ==
    /\ \A c \in Conns : pss[c] # NoJob => storage[pss[c]] = "live"
    /\ \A j \in Pooled : storage[j] = "live"

(* ... and nothing that is live was forgotten: a connection or the pool     *)
(* still points to it, so that somebody will give it back.                  *)
NothingLeaks ==
    \A j \in Jobs :
        storage[j] = "live" => \/ \E c \in Conns : pss[c] = j
                              \/ j \in Pooled

(* The event loop leaves alone what a worker may be reading or filling in:  *)
(* finished and ready are not set before the pool is through with the job   *)
(* ("a worker is no longer touching it", server.c:44), so it is not written *)
(* or freed, and no more of its body is to come, which would be allocated   *)
(* again under the worker (server.c:277).                                   *)
WorkersAreUndisturbed ==
    \A j \in Pooled :
        /\ queued[j] /\ ~finished[j] /\ ~ready[j]
        /\ \A c \in Conns : conn[c] = "body" => pss[c] # j

(* A connection and its job point to each other, so an answer goes to the   *)
(* client that asked, however connections come and go meanwhile.            *)
AnswersGoToTheAsker ==
    \A j \in Jobs, c \in Conns :
        storage[j] = "live" => (pss[c] = j <=> wsi[j] = c)

(* When the master has stopped, nothing is queued, pending or allocated.    *)
StoppedClean ==
    mpc = "ended" =>
        /\ todo = <<>> /\ done = <<>> /\ pending = 0
        /\ \A j \in Jobs : storage[j] # "live"

(* "detach workers from the context before it goes away" (server.c:399): no *)
(* worker wakes the event loop of a context that was destroyed.             *)
DetachedBeforeDestroyed ==
    \A w \in Workers :
        wpc[w] = "wake" => mpc \in {"poll", "drain", "detached"}

(* What is given to a route is over at some time: answered, or given back   *)
(* because its client left.                                                 *)
EveryRequestEnds ==
    \A j \in Jobs : queued[j] ~> storage[j] = "freed"

(* A signal to stop ends the process: no worker sleeps through it, and the  *)
(* joins return (jobs.c:151).                                               *)
StopEnds == quit ~> mpc = "ended"

(* The service does what Requests promises.                                 *)
StatusOf(j) ==
    IF storage[j] = "unborn" THEN "unborn"
    ELSE IF storage[j] = "freed" THEN "over"
    ELSE IF ready[j] THEN "answerable"
    ELSE IF ~queued[j] THEN "reading"
    ELSE IF j \in Elements(todo) THEN "submitted" ELSE "routed"

ClientOf(j) == IF storage[j] = "freed" THEN NoConn ELSE wsi[j]

R == INSTANCE Requests WITH
        Requests <- Jobs,
        status <- [j \in Jobs |-> StatusOf(j)],
        client <- [j \in Jobs |-> ClientOf(j)]

RequestsSpec == R!Spec

=============================================================================
