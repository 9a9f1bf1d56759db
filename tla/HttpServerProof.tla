--------------------------- MODULE HttpServerProof ---------------------------
(***************************************************************************)
(* Proofs about HttpServer, for every set of jobs, workers and             *)
(* connections.                                                            *)
(*                                                                         *)
(* The inductive invariant says where a job can be. A job is in one place  *)
(* of the pool at most (Places), and it is in the pool exactly while it is *)
(* queued and not finished (InPool). A connection and its job point to     *)
(* each other (Linked), a job without a connection is in the pool (Kept),  *)
(* and what libwebsockets will call back for a connection agrees with how  *)
(* far its job is (Stages). From these follow the ownership properties the *)
(* runs check, and that every step is one of Requests.                     *)
(***************************************************************************)
EXTENDS HttpServer, FiniteSetTheorems, TLAPS

Injective(s) == \A i, k \in DOMAIN s : s[i] = s[k] => i = k

Places ==
    /\ Injective(todo)
    /\ Injective(done)
    /\ \A j \in Elements(todo) : j \notin Elements(done)
    /\ \A w \in Workers : wpc[w] = "run" =>
          /\ wjob[w] \in Jobs
          /\ wjob[w] \notin Elements(todo)
          /\ wjob[w] \notin Elements(done)
          /\ \A v \in Workers : wpc[v] = "run" /\ wjob[v] = wjob[w] => v = w

InPool ==
    \A j \in Jobs :
        j \in Pooled <=> storage[j] = "live" /\ queued[j] /\ ~finished[j]

Linked ==
    /\ \A c \in Conns : pss[c] # NoJob =>
          storage[pss[c]] = "live" /\ wsi[pss[c]] = c
    /\ \A j \in Jobs : storage[j] = "live" /\ wsi[j] # NoConn =>
          pss[wsi[j]] = j

Kept == \A j \in Jobs : storage[j] = "live" /\ wsi[j] = NoConn => j \in Pooled

Stages ==
    /\ \A c \in Conns :
          /\ conn[c] \in {"closed", "idle"} => pss[c] = NoJob
          /\ conn[c] = "body" => pss[c] # NoJob /\ ~queued[pss[c]]
                                  /\ ~ready[pss[c]] /\ ~finished[pss[c]]
          /\ conn[c] = "answer" => pss[c] # NoJob
                                    /\ (queued[pss[c]] \/ ready[pss[c]])
    /\ \A j \in Jobs : storage[j] = "live" =>
          /\ ready[j] => finished[j]
          /\ finished[j] /\ wsi[j] # NoConn => ready[j]
    /\ \A j \in Jobs : storage[j] = "unborn" =>
          /\ wsi[j] = NoConn
          /\ ~queued[j] /\ ~finished[j] /\ ~ready[j] /\ ~rejected[j]

Stopping ==
    /\ stopping <=> mpc \in {"joining", "lastdrain", "ended"}
    /\ mpc \notin {"poll", "drain", "detached"} =>
          \A c \in Conns : conn[c] = "closed"
    /\ \A w \in Workers : wpc[w] = "gone" => stopping /\ todo = <<>>
    /\ mpc \in {"lastdrain", "ended"} => AllReturned
    /\ mpc = "ended" => done = <<>>

Counted == PendingIsEverySubmittedJob /\ NoLostWakeUp

IInv ==
    /\ TypeOK
    /\ Counted
    /\ Places
    /\ InPool
    /\ Linked
    /\ Kept
    /\ Stages
    /\ Stopping

-----------------------------------------------------------------------------
(* The lists. *)

(* Appending to a list adds one element ... *)
LEMMA ElementsOfAppend ==
    ASSUME NEW S, NEW s \in Seq(S), NEW e \in S
    PROVE  /\ Append(s, e) \in Seq(S)
           /\ Elements(Append(s, e)) = Elements(s) \cup {e}
           /\ Injective(s) /\ e \notin Elements(s) => Injective(Append(s, e))
<1> DEFINE t == Append(s, e)
<1>1. /\ t \in Seq(S)
      /\ Len(t) = Len(s) + 1
      /\ \A i \in 1..Len(s) : t[i] = s[i]
      /\ t[Len(s) + 1] = e
  OBVIOUS
<1>2. DOMAIN t = 1..Len(s) + 1 /\ DOMAIN s = 1..Len(s) /\ Len(s) \in Nat
  BY <1>1
<1> HIDE DEF t
<1>3. Elements(t) = Elements(s) \cup {e}
  <2>1. ASSUME NEW x \in Elements(t) PROVE x \in Elements(s) \cup {e}
    <3>1. PICK i \in DOMAIN t : x = t[i]
      BY <2>1 DEF Elements
    <3>2. CASE i = Len(s) + 1
      BY <3>1, <3>2, <1>1
    <3>3. CASE i # Len(s) + 1
      BY <3>1, <3>3, <1>1, <1>2 DEF Elements
    <3> QED BY <3>2, <3>3
  <2>2. ASSUME NEW x \in Elements(s) PROVE x \in Elements(t)
    <3>1. PICK i \in DOMAIN s : x = s[i]
      BY <2>2 DEF Elements
    <3> QED BY <3>1, <1>1, <1>2 DEF Elements
  <2>3. e \in Elements(t)
    BY <1>1, <1>2 DEF Elements
  <2> QED BY <2>1, <2>2, <2>3
<1>4. ASSUME Injective(s), e \notin Elements(s) PROVE Injective(t)
  <2> SUFFICES ASSUME NEW i \in DOMAIN t, NEW k \in DOMAIN t, t[i] = t[k]
               PROVE  i = k
    BY DEF Injective
  <2>1. \A n \in DOMAIN s : s[n] # e
    BY <1>4 DEF Elements
  <2>2. CASE i \in DOMAIN s /\ k \in DOMAIN s
    BY <2>2, <1>1, <1>2, <1>4 DEF Injective
  <2>3. CASE i = Len(s) + 1 \/ k = Len(s) + 1
    BY <2>3, <2>1, <1>1, <1>2
  <2> QED BY <2>2, <2>3, <1>2
<1> QED BY <1>1, <1>3, <1>4 DEF t

(* ... and taking the head of a list without repetition removes one. *)
LEMMA ElementsOfTail ==
    ASSUME NEW S, NEW s \in Seq(S), s # <<>>, Injective(s)
    PROVE  /\ Tail(s) \in Seq(S)
           /\ Head(s) \in S
           /\ Head(s) \in Elements(s)
           /\ Elements(Tail(s)) = Elements(s) \ {Head(s)}
           /\ Injective(Tail(s))
           /\ Len(Tail(s)) = Len(s) - 1
<1> DEFINE t == Tail(s)  h == Head(s)
<1>1. /\ t \in Seq(S)
      /\ Len(t) = Len(s) - 1
      /\ \A i \in 1..Len(t) : t[i] = s[i + 1]
      /\ h = s[1]
      /\ Len(s) \in Nat
      /\ Len(s) >= 1
  OBVIOUS
<1>2. DOMAIN t = 1..Len(t) /\ DOMAIN s = 1..Len(s)
  BY <1>1
<1> HIDE DEF t, h
<1>3. h \in S /\ h \in Elements(s)
  BY <1>1, <1>2 DEF Elements
<1>4. Elements(t) = Elements(s) \ {h}
  <2>1. ASSUME NEW x \in Elements(t) PROVE x \in Elements(s) \ {h}
    <3>1. PICK i \in DOMAIN t : x = t[i]
      BY <2>1 DEF Elements
    <3>2. i + 1 \in DOMAIN s /\ 1 \in DOMAIN s /\ i + 1 # 1 /\ x = s[i + 1]
      BY <3>1, <1>1, <1>2
    <3>3. x # s[1]
      BY <3>2 DEF Injective
    <3> QED BY <3>2, <3>3, <1>1 DEF Elements
  <2>2. ASSUME NEW x \in Elements(s) \ {h} PROVE x \in Elements(t)
    <3>1. PICK i \in DOMAIN s : x = s[i]
      BY <2>2 DEF Elements
    <3>2. i # 1
      BY <3>1, <2>2, <1>1
    <3>3. i - 1 \in DOMAIN t /\ t[i - 1] = s[(i - 1) + 1] /\ (i - 1) + 1 = i
      BY <3>1, <3>2, <1>1, <1>2
    <3> QED BY <3>1, <3>3 DEF Elements
  <2> QED BY <2>1, <2>2
<1>5. Injective(t)
  <2> SUFFICES ASSUME NEW i \in DOMAIN t, NEW k \in DOMAIN t, t[i] = t[k]
               PROVE  i = k
    BY DEF Injective
  <2>1. i + 1 \in DOMAIN s /\ k + 1 \in DOMAIN s /\ s[i + 1] = s[k + 1]
    BY <1>1, <1>2
  <2>2. i + 1 = k + 1
    BY <2>1 DEF Injective
  <2> QED BY <2>2, <1>2
<1> QED BY <1>1, <1>3, <1>4, <1>5 DEF t, h

LEMMA ElementsOfEmpty == Elements(<<>>) = {} /\ Injective(<<>>)
BY DEF Elements, Injective

-----------------------------------------------------------------------------
(* The pool: what each of its operations does to the places of the jobs. *)

PoolInv == PoolTypeOK /\ Places

(* A step that leaves the lists and the running workers alone moves no job. *)
LEMMA NoJobMoves ==
    ASSUME PoolInv,
           todo' = todo, done' = done, wjob' = wjob,
           wpc' \in [Workers -> WorkerStates],
           \A w \in Workers : wpc'[w] = "run" <=> wpc[w] = "run"
    PROVE  Places' /\ Pooled' = Pooled
<1>1. Elements(todo)' = Elements(todo) /\ Elements(done)' = Elements(done)
  BY DEF Elements
<1>2. Running' = Running
  BY DEF Running
<1>3. Injective(todo)' = Injective(todo) /\ Injective(done)' = Injective(done)
  BY DEF Injective
<1>4. Places'
  BY <1>1, <1>3 DEF PoolInv, Places
<1> QED BY <1>1, <1>2, <1>4 DEF Pooled

(* A job that is popped is with its worker instead of on the list. *)
LEMMA TakingMovesOneJob ==
    ASSUME PoolInv, NEW w \in Workers, WorkerTakes(w)
    PROVE  Places' /\ Pooled' = Pooled /\ PoolTypeOK'
<1> DEFINE j == Head(todo)  T == Elements(todo)  D == Elements(done)
           T1 == Elements(todo')
<1>1. /\ wpc[w] = "top" /\ todo # <<>>
      /\ wjob' = [wjob EXCEPT ![w] = j]
      /\ wpc' = [wpc EXCEPT ![w] = "run"]
      /\ todo' = Tail(todo)
      /\ UNCHANGED <<done, pending, stopping, context>>
  BY DEF WorkerTakes
<1>2. /\ todo \in Seq(Jobs)
      /\ wpc \in [Workers -> WorkerStates]
      /\ wjob \in [Workers -> Jobs \cup {NoJob}]
      /\ Injective(todo)
  BY DEF PoolInv, PoolTypeOK, Places
<1>3. /\ todo' \in Seq(Jobs)
      /\ j \in Jobs /\ j \in T
      /\ T1 = T \ {j}
      /\ Injective(todo')
  BY <1>1, <1>2, ElementsOfTail
<1>4. Elements(done') = D /\ Injective(done') = Injective(done)
  BY <1>1
<1> HIDE DEF j, T, D, T1
<1>5. /\ wpc'[w] = "run" /\ wjob'[w] = j
      /\ \A v \in Workers : v # w => wpc'[v] = wpc[v] /\ wjob'[v] = wjob[v]
  BY <1>1, <1>2
<1>6. /\ Injective(done)
      /\ \A k \in T : k \notin D
      /\ \A v \in Workers : wpc[v] = "run" =>
            /\ wjob[v] \in Jobs /\ wjob[v] \notin T /\ wjob[v] \notin D
            /\ \A u \in Workers : wpc[u] = "run" /\ wjob[u] = wjob[v] => u = v
  BY DEF PoolInv, Places, T, D
<1>7. Places'
  <2>1. \A v \in Workers : wpc'[v] = "run" =>
           /\ wjob'[v] \in Jobs /\ wjob'[v] \notin T1 /\ wjob'[v] \notin D
           /\ \A u \in Workers : wpc'[u] = "run" /\ wjob'[u] = wjob'[v] => u = v
    BY <1>3, <1>5, <1>6
  <2> QED BY <2>1, <1>3, <1>4, <1>6 DEF Places, T1, D
<1>8. Running' = Running \cup {j}
  BY <1>1, <1>5 DEF Running
<1>9. Pooled' = Pooled
  <2>1. Pooled' = T1 \cup Running' \cup D
    BY <1>4 DEF Pooled, T1
  <2>2. Pooled = T \cup Running \cup D
    BY DEF Pooled, T, D
  <2> QED BY <2>1, <2>2, <1>8, <1>3
<1>10. PoolTypeOK'
  BY <1>1, <1>3 DEF PoolInv, PoolTypeOK, WorkerStates
<1> QED BY <1>7, <1>9, <1>10

(* A job that has run is on the done list instead of with its worker. *)
LEMMA FinishingMovesOneJob ==
    ASSUME PoolInv, NEW w \in Workers, WorkerFinishes(w)
    PROVE  Places' /\ Pooled' = Pooled /\ PoolTypeOK'
<1> DEFINE j == wjob[w]  T == Elements(todo)  D == Elements(done)
           D1 == Elements(done')
<1>1. /\ wpc[w] = "run"
      /\ done' = Append(done, j)
      /\ wjob' = [wjob EXCEPT ![w] = NoJob]
      /\ wpc' = [wpc EXCEPT ![w] = IF context THEN "wake" ELSE "top"]
      /\ UNCHANGED <<todo, pending, stopping, context>>
  BY DEF WorkerFinishes
<1>2. /\ done \in Seq(Jobs)
      /\ wpc \in [Workers -> WorkerStates]
      /\ wjob \in [Workers -> Jobs \cup {NoJob}]
  BY DEF PoolInv, PoolTypeOK
<1>3. /\ Injective(todo) /\ Injective(done)
      /\ \A k \in T : k \notin D
      /\ \A v \in Workers : wpc[v] = "run" =>
            /\ wjob[v] \in Jobs /\ wjob[v] \notin T /\ wjob[v] \notin D
            /\ \A u \in Workers : wpc[u] = "run" /\ wjob[u] = wjob[v] => u = v
  BY DEF PoolInv, Places
<1>4. j \in Jobs /\ j \notin D /\ j \notin T
  BY <1>1, <1>3
<1>5. done' \in Seq(Jobs) /\ D1 = D \cup {j} /\ Injective(done')
  BY <1>1, <1>2, <1>3, <1>4, ElementsOfAppend
<1>6. Elements(todo') = T /\ Injective(todo') = Injective(todo)
  BY <1>1
<1>7. /\ wpc'[w] # "run"
      /\ \A v \in Workers : v # w => wpc'[v] = wpc[v] /\ wjob'[v] = wjob[v]
  BY <1>1, <1>2
<1> HIDE DEF T, D, D1
<1>8. Places'
  <2>1. \A v \in Workers : wpc'[v] = "run" =>
           /\ wjob'[v] \in Jobs /\ wjob'[v] \notin T /\ wjob'[v] \notin D1
           /\ \A u \in Workers : wpc'[u] = "run" /\ wjob'[u] = wjob'[v] => u = v
    BY <1>1, <1>3, <1>5, <1>7
  <2>2. \A k \in T : k \notin D1
    BY <1>3, <1>4, <1>5
  <2> QED BY <2>1, <2>2, <1>3, <1>5, <1>6 DEF Places, T, D1
<1>9. Running \subseteq Running' \cup {j} /\ Running' \subseteq Running
  BY <1>1, <1>7 DEF Running
<1>10. j \in Running
  BY <1>1 DEF Running
<1>11. Pooled' = Pooled
  <2>1. Pooled' = T \cup Running' \cup D1
    BY <1>6 DEF Pooled, D1
  <2>2. Pooled = T \cup Running \cup D
    BY DEF Pooled, T, D
  <2> HIDE DEF j
  <2> QED BY <2>1, <2>2, <1>5, <1>9, <1>10
<1>12. PoolTypeOK'
  BY <1>1, <1>5 DEF PoolInv, PoolTypeOK, WorkerStates
<1> QED BY <1>8, <1>11, <1>12

(* No step of a worker changes what the pool holds. *)
LEMMA WorkersKeepThePool ==
    ASSUME PoolInv, NEW w \in Workers, WorkerStep(w)
    PROVE  Places' /\ Pooled' = Pooled /\ PoolTypeOK'
<1>1. CASE WorkerWaits(w) \/ WorkerReturns(w) \/ WorkerWakesLoop(w)
  <2>1. /\ UNCHANGED <<todo, done, pending, stopping, context, wjob>>
        /\ \/ wpc[w] = "top" /\ wpc' = [wpc EXCEPT ![w] = "wait"]
           \/ wpc[w] = "top" /\ wpc' = [wpc EXCEPT ![w] = "gone"]
           \/ wpc[w] = "wake" /\ wpc' = [wpc EXCEPT ![w] = "top"]
    BY <1>1 DEF WorkerWaits, WorkerReturns, WorkerWakesLoop
  <2>2. wpc \in [Workers -> WorkerStates]
    BY DEF PoolInv, PoolTypeOK
  <2>3. wpc' \in [Workers -> WorkerStates]
    BY <2>1, <2>2 DEF WorkerStates
  <2>4. \A v \in Workers : wpc'[v] = "run" <=> wpc[v] = "run"
    BY <2>1, <2>2
  <2>5. PoolTypeOK'
    BY <2>1, <2>3 DEF PoolInv, PoolTypeOK
  <2> QED BY <2>1, <2>3, <2>4, <2>5, NoJobMoves
<1>2. CASE WorkerTakes(w)
  BY <1>2, TakingMovesOneJob
<1>3. CASE WorkerFinishes(w)
  BY <1>3, FinishingMovesOneJob
<1> QED BY <1>1, <1>2, <1>3 DEF WorkerStep

(* What the signal of a submit, and the broadcast of the stop, do. *)
WakesOnlySleepers ==
    /\ wpc' \in [Workers -> WorkerStates]
    /\ \A w \in Workers : wpc'[w] = wpc[w] \/ (wpc[w] = "wait" /\ wpc'[w] = "top")

LEMMA SignalWakesSleepers ==
    ASSUME PoolTypeOK, Signal \/ Broadcast
    PROVE  WakesOnlySleepers
<1>1. wpc \in [Workers -> WorkerStates]
  BY DEF PoolTypeOK
<1>2. CASE Broadcast
  BY <1>1, <1>2 DEF Broadcast, WakesOnlySleepers, WorkerStates
<1>3. CASE Signal
  <2>1. CASE wpc' = wpc
    BY <2>1, <1>1 DEF WakesOnlySleepers
  <2>2. CASE \E w \in Workers :
                wpc[w] = "wait" /\ wpc' = [wpc EXCEPT ![w] = "top"]
    BY <2>2, <1>1 DEF WakesOnlySleepers, WorkerStates
  <2> QED BY <1>3, <2>1, <2>2 DEF Signal
<1> QED BY <1>2, <1>3

(* A job that is submitted was nowhere in the pool and is on its list. *)
LEMMA SubmittingAddsOneJob ==
    ASSUME PoolInv, NEW j \in Jobs, j \notin Pooled, SubmitJob(j)
    PROVE  /\ Places' /\ Pooled' = Pooled \cup {j} /\ PoolTypeOK'
           /\ WakesOnlySleepers
<1> DEFINE T == Elements(todo)  D == Elements(done)
<1>1. /\ pending' = pending + 1
      /\ todo' = Append(todo, j)
      /\ UNCHANGED <<done, stopping, context, wjob>>
  BY DEF SubmitJob
<1>2. WakesOnlySleepers
  BY SignalWakesSleepers DEF SubmitJob, PoolInv
<1>3. /\ wpc' \in [Workers -> WorkerStates]
      /\ \A w \in Workers : wpc'[w] = "run" <=> wpc[w] = "run"
  BY <1>2 DEF WakesOnlySleepers
<1>4. j \notin T /\ j \notin D /\ j \notin Running
  BY DEF Pooled
<1>5. todo \in Seq(Jobs) /\ Injective(todo) /\ Injective(done)
  BY DEF PoolInv, PoolTypeOK, Places
<1>6. /\ todo' \in Seq(Jobs)
      /\ Elements(todo') = T \cup {j}
      /\ Injective(todo')
  BY <1>1, <1>4, <1>5, ElementsOfAppend
<1>7. Elements(done') = D /\ Injective(done')
  BY <1>1, <1>5
<1>8. Running' = Running
  BY <1>1, <1>3 DEF Running
<1>9. /\ \A k \in T : k \notin D
      /\ \A v \in Workers : wpc[v] = "run" =>
            /\ wjob[v] \in Jobs /\ wjob[v] \notin T /\ wjob[v] \notin D
            /\ wjob[v] # j
            /\ \A u \in Workers : wpc[u] = "run" /\ wjob[u] = wjob[v] => u = v
  BY <1>4 DEF PoolInv, Places, Running
<1>10. Places'
  <2> DEFINE T1 == Elements(todo')
  <2>1. T1 = T \cup {j}
    BY <1>6
  <2> HIDE DEF T, D, T1
  <2>2. \A v \in Workers : wpc'[v] = "run" =>
           /\ wjob'[v] \in Jobs /\ wjob'[v] \notin T1 /\ wjob'[v] \notin D
           /\ \A u \in Workers : wpc'[u] = "run" /\ wjob'[u] = wjob'[v] => u = v
    BY <1>1, <1>3, <1>9, <2>1
  <2>3. \A k \in T1 : k \notin D
    BY <1>4, <1>9, <2>1
  <2> QED BY <2>2, <2>3, <1>6, <1>7 DEF Places, T1, D
<1>11. Pooled' = Pooled \cup {j}
  BY <1>6, <1>7, <1>8 DEF Pooled
<1>12. PoolTypeOK'
  BY <1>1, <1>3, <1>6 DEF PoolInv, PoolTypeOK
<1> QED BY <1>2, <1>10, <1>11, <1>12

(* A job that is drained was on the done list and is in the pool no more. *)
LEMMA DrainingRemovesOneJob ==
    ASSUME PoolInv, DrainJob
    PROVE  /\ Head(done) \in Jobs /\ Head(done) \in Pooled
           /\ Places' /\ Pooled' = Pooled \ {Head(done)}
           /\ done' \in Seq(Jobs) /\ Len(done') = Len(done) - 1
<1> DEFINE j == Head(done)  T == Elements(todo)  D == Elements(done)
           D1 == Elements(done')
<1>1. /\ done # <<>> /\ done' = Tail(done)
      /\ UNCHANGED <<todo, wpc, wjob>>
  BY DEF DrainJob
<1>2. done \in Seq(Jobs) /\ Injective(todo) /\ Injective(done)
  BY DEF PoolInv, PoolTypeOK, Places
<1>3. /\ done' \in Seq(Jobs) /\ Len(done') = Len(done) - 1
      /\ j \in Jobs /\ j \in D
      /\ D1 = D \ {j} /\ Injective(done')
  BY <1>1, <1>2, ElementsOfTail
<1>4. Elements(todo') = T /\ Injective(todo') /\ Running' = Running
  BY <1>1, <1>2 DEF Running
<1>5. /\ \A k \in T : k \notin D
      /\ \A v \in Workers : wpc[v] = "run" =>
            /\ wjob[v] \in Jobs /\ wjob[v] \notin T /\ wjob[v] \notin D
            /\ \A u \in Workers : wpc[u] = "run" /\ wjob[u] = wjob[v] => u = v
  BY DEF PoolInv, Places
<1> HIDE DEF j, T, D, D1
<1>6. j \notin T /\ j \notin Running
  BY <1>3, <1>5 DEF Running
<1>7. Places'
  <2>1. \A v \in Workers : wpc'[v] = "run" =>
           /\ wjob'[v] \in Jobs /\ wjob'[v] \notin T /\ wjob'[v] \notin D1
           /\ \A u \in Workers : wpc'[u] = "run" /\ wjob'[u] = wjob'[v] => u = v
    BY <1>1, <1>3, <1>5
  <2>2. \A k \in T : k \notin D1
    BY <1>3, <1>5
  <2> QED BY <2>1, <2>2, <1>3, <1>4 DEF Places, T, D1
<1>8. Pooled' = Pooled \ {j} /\ j \in Pooled
  <2>1. Pooled' = T \cup Running \cup D1
    BY <1>4 DEF Pooled, D1
  <2>2. Pooled = T \cup Running \cup D
    BY DEF Pooled, T, D
  <2> QED BY <2>1, <2>2, <1>3, <1>6
<1> QED BY <1>3, <1>7, <1>8 DEF j

-----------------------------------------------------------------------------
(* The pool: how many workers are where. *)

At(f, s) == {w \in Workers : f[w] = s}

Count(f, s) == Cardinality(At(f, s))

LEMMA CountsAreNatural ==
    ASSUME NEW f, NEW s
    PROVE  Count(f, s) \in Nat /\ IsFiniteSet(At(f, s))
<1>1. IsFiniteSet(Workers)
  BY WorkersAreFinite
<1>2. IsFiniteSet(At(f, s))
  BY <1>1, FS_Subset DEF At
<1> QED BY <1>2, FS_CardinalityType DEF Count

(* One worker that goes from one state to another changes two counts. *)
Moves(f, g, w, y, x) ==
    /\ f \in [Workers -> WorkerStates] /\ w \in Workers /\ x \in WorkerStates
    /\ f[w] = y /\ y # x
    /\ g = [f EXCEPT ![w] = x]

LEMMA OneWorkerMoves ==
    ASSUME NEW f, NEW g, NEW w, NEW y, NEW x, Moves(f, g, w, y, x)
    PROVE  /\ Count(g, x) = Count(f, x) + 1
           /\ Count(g, y) = Count(f, y) - 1
           /\ \A s : s # x /\ s # y => Count(g, s) = Count(f, s)
<1>2. /\ w \in Workers /\ f[w] = y /\ y # x
      /\ g[w] = x /\ \A v \in Workers : v # w => g[v] = f[v]
  BY DEF Moves
<1>3. Count(g, x) = Count(f, x) + 1
  <2>1. At(g, x) = At(f, x) \cup {w} /\ w \notin At(f, x)
    BY <1>2 DEF At
  <2>2. IsFiniteSet(At(f, x))
    BY CountsAreNatural
  <2>3. Cardinality(At(f, x) \cup {w}) = Cardinality(At(f, x)) + 1
    BY <2>1, <2>2, FS_AddElement
  <2> QED BY <2>1, <2>3 DEF Count
<1>4. Count(g, y) = Count(f, y) - 1
  <2>1. At(g, y) = At(f, y) \ {w} /\ w \in At(f, y)
    BY <1>2 DEF At
  <2>2. IsFiniteSet(At(f, y))
    BY CountsAreNatural
  <2>3. Cardinality(At(f, y) \ {w}) = Cardinality(At(f, y)) - 1
    BY <2>1, <2>2, FS_RemoveElement
  <2> QED BY <2>1, <2>3 DEF Count
<1>5. ASSUME NEW s, s # x, s # y PROVE Count(g, s) = Count(f, s)
  <2>1. At(g, s) = At(f, s)
    BY <1>2, <1>5 DEF At
  <2> QED BY <2>1 DEF Count
<1> QED BY <1>3, <1>4, <1>5

(* The two properties of the counts, together. *)
CountedBody ==
    /\ pending = Len(todo) + Count(wpc, "run") + Len(done)
    /\ (\E w \in Workers : wpc[w] = "wait") =>
          Len(todo) <= Count(wpc, "top") /\ ~stopping

LEMMA CountedIsItsBody == Counted <=> CountedBody
BY DEF Counted, CountedBody, Count, At, PendingIsEverySubmittedJob, NoLostWakeUp

LEMMA CountedIsItsBodyNext == Counted' <=> CountedBody'
BY DEF Counted, CountedBody, Count, At, PendingIsEverySubmittedJob, NoLostWakeUp

LEMMA WorkersKeepTheCounts ==
    ASSUME PoolTypeOK, Counted, NEW w \in Workers, WorkerStep(w)
    PROVE  Counted'
<1>1. /\ todo \in Seq(Jobs) /\ done \in Seq(Jobs) /\ pending \in Nat
      /\ wpc \in [Workers -> WorkerStates]
      /\ Len(todo) \in Nat /\ Len(done) \in Nat
      /\ Count(wpc, "run") \in Nat /\ Count(wpc, "top") \in Nat
  BY CountsAreNatural DEF PoolTypeOK
<1>2. CountedBody
  BY CountedIsItsBody
<1>3. CASE WorkerWaits(w)
  <2>1. /\ wpc[w] = "top" /\ todo = <<>> /\ ~stopping
        /\ wpc' = [wpc EXCEPT ![w] = "wait"]
        /\ UNCHANGED <<todo, done, pending, stopping>>
    BY <1>3 DEF WorkerWaits
  <2>0. Moves(wpc, wpc', w, "top", "wait")
    BY <2>1, <1>1 DEF Moves, WorkerStates
  <2>2. Count(wpc', "run") = Count(wpc, "run")
    BY <2>0, OneWorkerMoves
  <2>3. Count(wpc', "top") \in Nat /\ Len(todo') = 0
    <3>1. Count(wpc', "top") = Count(wpc, "top") - 1 /\ Count(wpc, "wait") \in Nat
      BY <2>0, OneWorkerMoves, CountsAreNatural
    <3>2. At(wpc, "top") # {}
      BY <2>1 DEF At
    <3>3. Count(wpc, "top") # 0
      BY <3>2, CountsAreNatural, FS_EmptySet DEF Count
    <3> QED BY <3>1, <3>3, <1>1, <2>1
  <2>4. CountedBody'
    BY <2>1, <2>2, <2>3, <1>1, <1>2 DEF CountedBody
  <2> QED BY <2>4, CountedIsItsBodyNext
<1>4. CASE WorkerTakes(w)
  <2>1. /\ wpc[w] = "top" /\ todo # <<>>
        /\ todo' = Tail(todo)
        /\ wpc' = [wpc EXCEPT ![w] = "run"]
        /\ UNCHANGED <<done, pending, stopping>>
    BY <1>4 DEF WorkerTakes
  <2>0. Moves(wpc, wpc', w, "top", "run")
    BY <2>1, <1>1 DEF Moves, WorkerStates
  <2>2. Count(wpc', "run") = Count(wpc, "run") + 1 /\ Count(wpc', "top") = Count(wpc, "top") - 1
    BY <2>0, OneWorkerMoves
  <2>3. Len(todo') = Len(todo) - 1
    BY <2>1, <1>1
  <2>4. \A v \in Workers : wpc'[v] = "wait" => wpc[v] = "wait"
    BY <2>1, <1>1
  <2>5. /\ pending' = pending /\ stopping' = stopping
        /\ Len(done') = Len(done)
    BY <2>1
  <2>6. CountedBody'
    BY <2>2, <2>3, <2>4, <2>5, <1>1, <1>2 DEF CountedBody
  <2> QED BY <2>6, CountedIsItsBodyNext
<1>5. CASE WorkerReturns(w)
  <2>1. /\ wpc[w] = "top" /\ stopping
        /\ wpc' = [wpc EXCEPT ![w] = "gone"]
        /\ UNCHANGED <<todo, done, pending, stopping>>
    BY <1>5 DEF WorkerReturns
  <2>0. Moves(wpc, wpc', w, "top", "gone")
    BY <2>1, <1>1 DEF Moves, WorkerStates
  <2>2. Count(wpc', "run") = Count(wpc, "run")
    BY <2>0, OneWorkerMoves
  <2>3. \A v \in Workers : wpc'[v] = "wait" => wpc[v] = "wait"
    BY <2>1, <1>1
  <2>4. CountedBody'
    BY <2>1, <2>2, <2>3, <1>1, <1>2 DEF CountedBody
  <2> QED BY <2>4, CountedIsItsBodyNext
<1>6. CASE WorkerFinishes(w)
  <2>1. /\ wpc[w] = "run"
        /\ done' = Append(done, wjob[w])
        /\ wpc' = [wpc EXCEPT ![w] = IF context THEN "wake" ELSE "top"]
        /\ UNCHANGED <<todo, pending, stopping>>
    BY <1>6 DEF WorkerFinishes
  <2>0. Moves(wpc, wpc', w, "run", IF context THEN "wake" ELSE "top")
    BY <2>1, <1>1 DEF Moves, WorkerStates
  <2>2. Count(wpc', "run") = Count(wpc, "run") - 1
    BY <2>0, OneWorkerMoves
  <2>3. Count(wpc', "top") \in Nat /\ Count(wpc', "top") >= Count(wpc, "top")
    <3>1. CASE context
      <4>1. Count(wpc', "top") = Count(wpc, "top")
        BY <3>1, <2>0, OneWorkerMoves
      <4> QED BY <4>1, <1>1
    <3>2. CASE ~context
      <4>1. Count(wpc', "top") = Count(wpc, "top") + 1
        BY <3>2, <2>0, OneWorkerMoves
      <4> QED BY <4>1, <1>1
    <3> QED BY <3>1, <3>2
  <2>4. Len(done') = Len(done) + 1
    BY <2>1, <1>1
  <2>5. \A v \in Workers : wpc'[v] = "wait" => wpc[v] = "wait"
    BY <2>1, <1>1
  <2>6. CountedBody'
    BY <2>1, <2>2, <2>3, <2>4, <2>5, <1>1, <1>2 DEF CountedBody
  <2> QED BY <2>6, CountedIsItsBodyNext
<1>7. CASE WorkerWakesLoop(w)
  <2>1. /\ wpc[w] = "wake"
        /\ wpc' = [wpc EXCEPT ![w] = "top"]
        /\ UNCHANGED <<todo, done, pending, stopping>>
    BY <1>7 DEF WorkerWakesLoop
  <2>0. Moves(wpc, wpc', w, "wake", "top")
    BY <2>1, <1>1 DEF Moves, WorkerStates
  <2>2. Count(wpc', "run") = Count(wpc, "run") /\ Count(wpc', "top") = Count(wpc, "top") + 1
    BY <2>0, OneWorkerMoves
  <2>3. \A v \in Workers : wpc'[v] = "wait" => wpc[v] = "wait"
    BY <2>1, <1>1
  <2>4. CountedBody'
    BY <2>1, <2>2, <2>3, <1>1, <1>2 DEF CountedBody
  <2> QED BY <2>4, CountedIsItsBodyNext
<1> QED BY <1>3, <1>4, <1>5, <1>6, <1>7 DEF WorkerStep

LEMMA SubmittingKeepsTheCounts ==
    ASSUME PoolTypeOK, Counted, NEW j \in Jobs, SubmitJob(j)
    PROVE  Counted'
<1>1. /\ todo \in Seq(Jobs) /\ done \in Seq(Jobs) /\ pending \in Nat
      /\ wpc \in [Workers -> WorkerStates]
      /\ Len(todo) \in Nat /\ Len(done) \in Nat
      /\ Count(wpc, "run") \in Nat /\ Count(wpc, "top") \in Nat
  BY CountsAreNatural DEF PoolTypeOK
<1>2. CountedBody
  BY CountedIsItsBody
<1>3. /\ pending' = pending + 1
      /\ todo' = Append(todo, j)
      /\ Len(todo') = Len(todo) + 1
      /\ UNCHANGED <<done, stopping>>
  BY <1>1 DEF SubmitJob
<1>4. CASE \E w \in Workers : wpc[w] = "wait" /\ wpc' = [wpc EXCEPT ![w] = "top"]
  <2>1. PICK w \in Workers : wpc[w] = "wait" /\ wpc' = [wpc EXCEPT ![w] = "top"]
    BY <1>4
  <2>2. Count(wpc', "run") = Count(wpc, "run") /\ Count(wpc', "top") = Count(wpc, "top") + 1
    <3>1. Moves(wpc, wpc', w, "wait", "top")
      BY <2>1, <1>1 DEF Moves, WorkerStates
    <3> QED BY <3>1, OneWorkerMoves
  <2>3. CountedBody'
    BY <2>1, <2>2, <1>1, <1>2, <1>3 DEF CountedBody
  <2> QED BY <2>3, CountedIsItsBodyNext
<1>5. CASE wpc' = wpc /\ ~\E w \in Workers : wpc[w] = "wait"
  <2>1. Count(wpc', "run") = Count(wpc, "run")
    BY <1>5 DEF Count
  <2>2. CountedBody'
    BY <2>1, <1>1, <1>2, <1>3, <1>5 DEF CountedBody
  <2> QED BY <2>2, CountedIsItsBodyNext
<1> QED BY <1>4, <1>5 DEF SubmitJob, Signal

LEMMA DrainingKeepsTheCounts ==
    ASSUME PoolTypeOK, Counted, DrainJob
    PROVE  Counted' /\ pending' \in Nat
<1>1. /\ done \in Seq(Jobs) /\ pending \in Nat /\ todo \in Seq(Jobs)
      /\ Count(wpc, "run") \in Nat
  BY CountsAreNatural DEF PoolTypeOK
<1>2. /\ done # <<>> /\ done' = Tail(done)
      /\ pending' = pending - 1
      /\ UNCHANGED <<todo, stopping, wpc>>
  BY DEF DrainJob
<1>3. Len(done') = Len(done) - 1 /\ Len(done) \in Nat /\ Len(todo) \in Nat
      /\ Len(done) >= 1
  BY <1>1, <1>2
<1>4. Count(wpc', "run") = Count(wpc, "run") /\ Count(wpc', "top") = Count(wpc, "top")
  BY <1>2 DEF Count
<1>5. CountedBody
  BY CountedIsItsBody
<1>6. CountedBody' /\ pending' \in Nat
  BY <1>1, <1>2, <1>3, <1>4, <1>5 DEF CountedBody
<1> QED BY <1>6, CountedIsItsBodyNext

LEMMA StoppingKeepsTheCounts ==
    ASSUME PoolTypeOK, Counted, StopWorkers
    PROVE  Counted'
<1>1. wpc \in [Workers -> WorkerStates]
  BY DEF PoolTypeOK
<1>2. /\ UNCHANGED <<todo, done, pending>>
      /\ wpc' = [w \in Workers |-> IF wpc[w] = "wait" THEN "top" ELSE wpc[w]]
  BY DEF StopWorkers, Broadcast
<1>3. At(wpc', "run") = At(wpc, "run")
  BY <1>1, <1>2 DEF At
<1>4. Count(wpc', "run") = Count(wpc, "run")
  BY <1>3 DEF Count
<1>5. ~\E w \in Workers : wpc'[w] = "wait"
  BY <1>1, <1>2
<1>6. CountedBody
  BY CountedIsItsBody
<1>7. CountedBody'
  BY <1>2, <1>4, <1>5, <1>6 DEF CountedBody
<1> QED BY <1>7, CountedIsItsBodyNext

-----------------------------------------------------------------------------
(* The steps of the workers and of the event loop keep the invariant. *)

ServerTypeOK ==
    /\ mpc \in LoopStates
    /\ quit \in BOOLEAN
    /\ conn \in [Conns -> {"closed", "idle", "body", "answer"}]
    /\ writable \in [Conns -> BOOLEAN]
    /\ pss \in [Conns -> Jobs \cup {NoJob}]
    /\ storage \in [Jobs -> {"unborn", "live", "freed"}]
    /\ wsi \in [Jobs -> Conns \cup {NoConn}]
    /\ queued \in [Jobs -> BOOLEAN]
    /\ finished \in [Jobs -> BOOLEAN]
    /\ ready \in [Jobs -> BOOLEAN]
    /\ rejected \in [Jobs -> BOOLEAN]
    /\ body \in [Jobs -> BOOLEAN]

LEMMA TypeOKInParts ==
    /\ TypeOK <=> PoolTypeOK /\ ServerTypeOK
    /\ TypeOK' <=> PoolTypeOK' /\ ServerTypeOK'
BY DEF TypeOK, ServerTypeOK

LEMMA PoolUntouched ==
    ASSUME UNCHANGED poolVars
    PROVE  /\ Pooled' = Pooled
           /\ Places' = Places
           /\ Counted' = Counted
           /\ PoolTypeOK' = PoolTypeOK
           /\ AllReturned' = AllReturned
<1>1. /\ todo' = todo /\ done' = done /\ pending' = pending
      /\ stopping' = stopping /\ context' = context
      /\ wpc' = wpc /\ wjob' = wjob
  BY DEF poolVars
<1>2. Pooled' = Pooled
  BY <1>1 DEF Pooled, Elements, Running
<1>3. Places' = Places
  BY <1>1 DEF Places, Elements, Injective
<1>4. Counted' = Counted
  BY <1>1 DEF Counted, PendingIsEverySubmittedJob, NoLostWakeUp
<1> QED BY <1>1, <1>2, <1>3, <1>4 DEF PoolTypeOK, AllReturned

LEMMA InitInv == Init => IInv
<1> SUFFICES ASSUME Init PROVE IInv
  OBVIOUS
<1>1. /\ todo = <<>> /\ done = <<>> /\ pending = 0
      /\ stopping = FALSE /\ context = TRUE
      /\ wpc = [w \in Workers |-> "top"]
      /\ wjob = [w \in Workers |-> NoJob]
  BY DEF Init, PoolInit
<1>2. PoolTypeOK
  <2>1. todo \in Seq(Jobs) /\ done \in Seq(Jobs)
    BY <1>1
  <2>2. wpc \in [Workers -> WorkerStates]
    BY <1>1 DEF WorkerStates
  <2>3. wjob \in [Workers -> Jobs \cup {NoJob}]
    BY <1>1
  <2> QED BY <1>1, <2>1, <2>2, <2>3 DEF PoolTypeOK
<1>3. ServerTypeOK
  BY DEF Init, ServerTypeOK, LoopStates
<1>4. Elements(todo) = {} /\ Elements(done) = {} /\ Running = {}
  BY <1>1, ElementsOfEmpty DEF Running
<1>5. Places
  BY <1>1, <1>4, ElementsOfEmpty DEF Places
<1>6. Pooled = {}
  BY <1>4 DEF Pooled
<1>7. InPool /\ Linked /\ Kept
  BY <1>6 DEF Init, InPool, Linked, Kept
<1>8. Stages
  BY DEF Init, Stages
<1>9. Stopping
  BY <1>1 DEF Init, Stopping
<1>10. Counted
  <2>1. At(wpc, "run") = {}
    BY <1>1 DEF At
  <2>2. Count(wpc, "run") = 0
    BY <2>1, FS_EmptySet DEF Count
  <2>3. ~\E w \in Workers : wpc[w] = "wait"
    BY <1>1
  <2>4. CountedBody
    BY <1>1, <2>2, <2>3 DEF CountedBody
  <2> QED BY <2>4, CountedIsItsBody
<1> QED BY <1>2, <1>3, <1>5, <1>7, <1>8, <1>9, <1>10, TypeOKInParts DEF IInv

(* A worker moves jobs inside of the pool only. *)
LEMMA WorkerInv ==
    ASSUME IInv, NEW w \in Workers, Worker(w)
    PROVE  IInv'
<1>1. PoolInv /\ Counted /\ PoolTypeOK /\ ServerTypeOK
  BY TypeOKInParts DEF IInv, PoolInv
<1>2. WorkerStep(w) /\ UNCHANGED <<jobVars, connVars, loopVars>>
  BY DEF Worker
<1>3. Places' /\ Pooled' = Pooled /\ PoolTypeOK'
  BY <1>1, <1>2, WorkersKeepThePool
<1>4. Counted'
  BY <1>1, <1>2, WorkersKeepTheCounts
<1>5. /\ storage' = storage /\ wsi' = wsi /\ queued' = queued
      /\ finished' = finished /\ ready' = ready /\ rejected' = rejected
      /\ body' = body /\ conn' = conn /\ writable' = writable /\ pss' = pss
      /\ mpc' = mpc /\ quit' = quit
  BY <1>2 DEF jobVars, connVars, loopVars
<1>6. ServerTypeOK'
  BY <1>1, <1>5 DEF ServerTypeOK
<1>7. InPool' /\ Linked' /\ Kept' /\ Stages'
  BY <1>3, <1>5 DEF IInv, InPool, Linked, Kept, Stages
<1>8. Stopping'
  <2>1. stopping' = stopping
    BY <1>2 DEF WorkerStep, WorkerWaits, WorkerTakes, WorkerReturns,
                WorkerFinishes, WorkerWakesLoop
  <2>2. Stopping /\ wpc \in [Workers -> WorkerStates]
    BY <1>1 DEF IInv, PoolTypeOK
  <2>3. \A v \in Workers : wpc'[v] = "gone" => stopping' /\ todo' = <<>>
    <3>1. CASE WorkerReturns(w)
      BY <3>1, <2>2 DEF WorkerReturns, Stopping
    <3>2. CASE WorkerTakes(w)
      <4>1. todo # <<>> /\ wpc' = [wpc EXCEPT ![w] = "run"]
        BY <3>2 DEF WorkerTakes
      <4>2. \A v \in Workers : wpc'[v] # "gone"
        BY <4>1, <2>2 DEF Stopping
      <4> QED BY <4>2
    <3>3. CASE WorkerWaits(w) \/ WorkerFinishes(w) \/ WorkerWakesLoop(w)
      BY <3>3, <2>2 DEF WorkerWaits, WorkerFinishes, WorkerWakesLoop, Stopping
    <3> QED BY <3>1, <3>2, <3>3, <1>2 DEF WorkerStep
  <2>4. ~AllReturned
    BY <1>2 DEF WorkerStep, WorkerWaits, WorkerTakes, WorkerReturns,
                WorkerFinishes, WorkerWakesLoop, AllReturned
  <2> QED BY <2>1, <2>2, <2>3, <2>4, <1>5 DEF Stopping
<1> QED BY <1>3, <1>4, <1>6, <1>7, <1>8, TypeOKInParts DEF IInv

(* Steps that change no job, no connection and no list. *)
LEMMA QuietLoopInv ==
    ASSUME IInv, DrainBegins \/ DrainEnds \/ OnSignal \/ StopJoined
    PROVE  IInv'
<1>1. UNCHANGED poolVars /\ UNCHANGED <<jobVars, connVars>>
  BY DEF DrainBegins, DrainEnds, OnSignal, StopJoined
<1>2. /\ Pooled' = Pooled /\ Places' /\ Counted' /\ PoolTypeOK'
      /\ AllReturned' = AllReturned
  BY <1>1, PoolUntouched, TypeOKInParts DEF IInv
<1>3. /\ storage' = storage /\ wsi' = wsi /\ queued' = queued
      /\ finished' = finished /\ ready' = ready /\ rejected' = rejected
      /\ body' = body /\ conn' = conn /\ writable' = writable /\ pss' = pss
      /\ stopping' = stopping /\ todo' = todo /\ done' = done /\ wpc' = wpc
  BY <1>1 DEF jobVars, connVars, poolVars
<1>4. InPool' /\ Linked' /\ Kept' /\ Stages'
  BY <1>2, <1>3 DEF IInv, InPool, Linked, Kept, Stages
<1>5. mpc' \in LoopStates /\ quit' \in BOOLEAN
  BY DEF IInv, TypeOK, LoopStates, DrainBegins, DrainEnds, OnSignal, StopJoined
<1>6. ServerTypeOK'
  BY <1>3, <1>5, TypeOKInParts DEF IInv, ServerTypeOK
<1>7. Stopping'
  BY <1>2, <1>3 DEF IInv, Stopping, DrainBegins, DrainEnds, OnSignal, StopJoined
<1> QED BY <1>2, <1>4, <1>6, <1>7, TypeOKInParts DEF IInv

LEMMA StoppingPoolInv ==
    ASSUME IInv, LeaveLoop \/ StopStopsWorkers
    PROVE  IInv'
<1>1. PoolInv /\ Counted /\ PoolTypeOK /\ ServerTypeOK /\ Stopping
  BY TypeOKInParts DEF IInv, PoolInv
<1>2. /\ UNCHANGED <<jobVars, connVars>>
      /\ quit' = quit
      /\ todo' = todo /\ done' = done /\ pending' = pending /\ wjob' = wjob
      /\ WakesOnlySleepers
  <2>1. CASE LeaveLoop
    BY <2>1, <1>1 DEF LeaveLoop, DetachContext, WakesOnlySleepers, PoolTypeOK
  <2>2. CASE StopStopsWorkers
    BY <2>2, <1>1, SignalWakesSleepers DEF StopStopsWorkers, StopWorkers
  <2> QED BY <2>1, <2>2
<1>3. Places' /\ Pooled' = Pooled
  BY <1>1, <1>2, NoJobMoves DEF WakesOnlySleepers
<1>4. /\ stopping' \in BOOLEAN /\ context' \in BOOLEAN
  BY <1>1 DEF LeaveLoop, DetachContext, StopStopsWorkers, StopWorkers, PoolTypeOK
<1>5. PoolTypeOK'
  BY <1>1, <1>2, <1>4 DEF PoolTypeOK, WakesOnlySleepers
<1>6. Counted'
  <2>1. CASE LeaveLoop
    BY <2>1, <1>1 DEF LeaveLoop, DetachContext, Counted,
                      PendingIsEverySubmittedJob, NoLostWakeUp
  <2>2. CASE StopStopsWorkers
    BY <2>2, <1>1, StoppingKeepsTheCounts DEF StopStopsWorkers
  <2> QED BY <2>1, <2>2
<1>7. /\ storage' = storage /\ wsi' = wsi /\ queued' = queued
      /\ finished' = finished /\ ready' = ready /\ rejected' = rejected
      /\ body' = body /\ conn' = conn /\ writable' = writable /\ pss' = pss
  BY <1>2 DEF jobVars, connVars
<1>8. ServerTypeOK'
  BY <1>1, <1>2, <1>7 DEF ServerTypeOK, LeaveLoop, StopStopsWorkers, LoopStates
<1>9. InPool' /\ Linked' /\ Kept' /\ Stages'
  BY <1>3, <1>7 DEF IInv, InPool, Linked, Kept, Stages
<1>10. Stopping'
  <2>1. CASE LeaveLoop
    BY <2>1, <1>1, <1>7 DEF LeaveLoop, DetachContext, Stopping
  <2>2. CASE StopStopsWorkers
    <3>1. mpc = "destroyed" /\ mpc' = "joining" /\ stopping' = TRUE
      BY <2>2 DEF StopStopsWorkers, StopWorkers
    <3>2. \A v \in Workers : wpc'[v] # "gone"
      BY <3>1, <1>1, <1>2 DEF Stopping, WakesOnlySleepers
    <3> QED BY <3>1, <3>2, <1>1, <1>7 DEF Stopping
  <2> QED BY <2>1, <2>2
<1> QED BY <1>3, <1>5, <1>6, <1>8, <1>9, <1>10, TypeOKInParts DEF IInv

-----------------------------------------------------------------------------
(* The callbacks keep the invariant. *)

(* What the callbacks are about: the connections, the jobs, who has them.   *)
Links == InPool /\ Linked /\ Kept /\ Stages

(* A callback that leaves the pool alone has the links to keep only. *)
LEMMA CallbackInv ==
    ASSUME IInv, UNCHANGED poolVars, ServerTypeOK', Links', Stopping'
    PROVE  IInv'
BY PoolUntouched, TypeOKInParts DEF IInv, Links

LEMMA ConnectInv ==
    ASSUME IInv, NEW c \in Conns, Connect(c)
    PROVE  IInv'
<1>1. /\ UNCHANGED poolVars
      /\ storage' = storage /\ wsi' = wsi /\ queued' = queued
      /\ finished' = finished /\ ready' = ready /\ rejected' = rejected
      /\ body' = body /\ writable' = writable /\ pss' = pss
      /\ mpc' = mpc /\ quit' = quit /\ mpc = "poll"
      /\ conn[c] = "closed" /\ conn' = [conn EXCEPT ![c] = "idle"]
  BY DEF Connect, jobVars, loopVars
<1>2. ServerTypeOK /\ Links /\ Stopping
  BY TypeOKInParts DEF IInv, Links
<1>3. ServerTypeOK'
  BY <1>1, <1>2 DEF ServerTypeOK
<1>4. Links'
  BY <1>1, <1>2, PoolUntouched
     DEF ServerTypeOK, Links, InPool, Linked, Kept, Stages
<1>5. Stopping'
  BY <1>1, <1>2, PoolUntouched DEF Stopping, poolVars
<1> QED BY <1>1, <1>3, <1>4, <1>5, CallbackInv

LEMMA BodyTooLargeInv ==
    ASSUME IInv, NEW c \in Conns, HttpBodyTooLarge(c)
    PROVE  IInv'
<1>1. /\ UNCHANGED poolVars
      /\ storage' = storage /\ wsi' = wsi /\ queued' = queued
      /\ finished' = finished /\ ready' = ready /\ conn' = conn
      /\ body' = body /\ writable' = writable /\ pss' = pss
      /\ mpc' = mpc /\ quit' = quit /\ mpc = "poll"
      /\ pss[c] # NoJob /\ rejected' = [rejected EXCEPT ![pss[c]] = TRUE]
  BY DEF HttpBodyTooLarge, connVars, loopVars
<1>2. ServerTypeOK /\ Links /\ Stopping
  BY TypeOKInParts DEF IInv, Links
<1>3. ServerTypeOK'
  BY <1>1, <1>2 DEF ServerTypeOK
<1>4. Links'
  BY <1>1, <1>2, PoolUntouched
     DEF ServerTypeOK, Links, InPool, Linked, Kept, Stages
<1>5. Stopping'
  BY <1>1, <1>2, PoolUntouched DEF Stopping, poolVars
<1> QED BY <1>1, <1>3, <1>4, <1>5, CallbackInv

LEMMA WriteHeadersInv ==
    ASSUME IInv, NEW c \in Conns, HttpWriteHeaders(c)
    PROVE  IInv'
<1>1. /\ UNCHANGED poolVars
      /\ storage' = storage /\ wsi' = wsi /\ queued' = queued
      /\ finished' = finished /\ ready' = ready /\ conn' = conn
      /\ rejected' = rejected /\ writable' = writable /\ pss' = pss
      /\ mpc' = mpc /\ quit' = quit /\ mpc = "poll"
      /\ pss[c] # NoJob /\ body' = [body EXCEPT ![pss[c]] = TRUE]
  BY DEF HttpWriteHeaders, CanWrite, connVars, loopVars
<1>2. ServerTypeOK /\ Links /\ Stopping
  BY TypeOKInParts DEF IInv, Links
<1>3. ServerTypeOK'
  BY <1>1, <1>2 DEF ServerTypeOK
<1>4. Links'
  BY <1>1, <1>2, PoolUntouched
     DEF ServerTypeOK, Links, InPool, Linked, Kept, Stages
<1>5. Stopping'
  BY <1>1, <1>2, PoolUntouched DEF Stopping, poolVars
<1> QED BY <1>1, <1>3, <1>4, <1>5, CallbackInv

(* The answer is out: the connection and its job let go of each other. *)
LEMMA WriteEndInv ==
    ASSUME IInv, NEW c \in Conns, HttpWriteEnd(c)
    PROVE  IInv'
<1> DEFINE j == pss[c]
<1>1. /\ UNCHANGED poolVars
      /\ wsi' = wsi /\ queued' = queued
      /\ finished' = finished /\ ready' = ready
      /\ rejected' = rejected /\ body' = body
      /\ mpc' = mpc /\ quit' = quit /\ mpc = "poll"
      /\ j # NoJob /\ ready[j]
      /\ storage' = [storage EXCEPT ![j] = "freed"]
      /\ pss' = [pss EXCEPT ![c] = NoJob]
      /\ writable' = [writable EXCEPT ![c] = FALSE]
      /\ conn' = [conn EXCEPT ![c] = "idle"]
  BY DEF HttpWriteEnd, CanWrite, loopVars
<1>2. ServerTypeOK /\ Links /\ Stopping
  BY TypeOKInParts DEF IInv, Links
<1>3. ServerTypeOK'
  BY <1>1, <1>2 DEF ServerTypeOK
<1>4. /\ j \in Jobs /\ storage[j] = "live" /\ wsi[j] = c /\ finished[j]
      /\ j \notin Pooled
  BY <1>1, <1>2 DEF ServerTypeOK, Links, InPool, Linked, Stages
<1>5. Pooled' = Pooled
  BY <1>1, PoolUntouched
<1> HIDE DEF j
<1>6. InPool' /\ Linked' /\ Kept'
  BY <1>1, <1>2, <1>4, <1>5
     DEF ServerTypeOK, Links, InPool, Linked, Kept, j
<1>7. Stages'
  BY <1>1, <1>2, <1>4 DEF ServerTypeOK, Links, Linked, Stages, j
<1>8. Stopping'
  BY <1>1, <1>2, PoolUntouched DEF Stopping, poolVars
<1> QED BY <1>1, <1>3, <1>6, <1>7, <1>8, CallbackInv DEF Links

(* A new job and its connection point to each other. *)
LEMMA NewJobLinks ==
    ASSUME ServerTypeOK, Links, NEW c \in Conns, NEW j \in Jobs, NewJob(c, j)
    PROVE  /\ Linked'
           /\ pss[c] = NoJob /\ wsi[j] = NoConn
           /\ ~queued[j] /\ ~finished[j] /\ ~ready[j] /\ ~rejected[j]
           /\ j \notin Pooled /\ j # NoJob /\ c # NoConn
           /\ \A k \in Jobs : k # j => storage'[k] = storage[k] /\ wsi'[k] = wsi[k]
           /\ \A d \in Conns : d # c => pss'[d] = pss[d] /\ pss'[d] # j
           /\ storage'[j] = "live" /\ wsi'[j] = c /\ pss'[c] = j
<1>1. /\ conn[c] = "idle" /\ storage[j] = "unborn"
      /\ storage' = [storage EXCEPT ![j] = "live"]
      /\ wsi' = [wsi EXCEPT ![j] = c]
      /\ pss' = [pss EXCEPT ![c] = j]
  BY DEF NewJob
<1>2. /\ pss[c] = NoJob /\ wsi[j] = NoConn
      /\ ~queued[j] /\ ~finished[j] /\ ~ready[j] /\ ~rejected[j]
      /\ j \notin Pooled /\ j # NoJob /\ c # NoConn
  BY <1>1, NoJobIsNoJob, NoConnIsNoConn DEF Links, InPool, Stages
<1>3. /\ \A k \in Jobs : k # j => storage'[k] = storage[k] /\ wsi'[k] = wsi[k]
      /\ \A d \in Conns : d # c => pss'[d] = pss[d]
      /\ storage'[j] = "live" /\ wsi'[j] = c /\ pss'[c] = j
  BY <1>1 DEF ServerTypeOK
<1>4. \A d \in Conns : d # c => pss[d] # j
  BY <1>1, <1>2 DEF Links, Linked
<1>5. \A d \in Conns : pss[d] \in Jobs \cup {NoJob}
  BY DEF ServerTypeOK
<1>6. \A k \in Jobs : wsi[k] \in Conns \cup {NoConn}
  BY DEF ServerTypeOK
<1>7. \A d \in Conns : pss'[d] # NoJob =>
         storage'[pss'[d]] = "live" /\ wsi'[pss'[d]] = d
  BY <1>3, <1>4, <1>5 DEF Links, Linked
<1>8. ASSUME NEW k \in Jobs, storage'[k] = "live", wsi'[k] # NoConn
      PROVE  pss'[wsi'[k]] = k
  <2>1. CASE k = j
    BY <2>1, <1>3
  <2>2. CASE k # j
    <3>1. pss[wsi[k]] = k /\ wsi[k] \in Conns /\ wsi'[k] = wsi[k]
      BY <2>2, <1>3, <1>6, <1>8 DEF Links, Linked
    <3>2. wsi[k] # c
      BY <3>1, <1>2, NoJobIsNoJob
    <3> QED BY <3>1, <3>2, <1>3
  <2> QED BY <2>1, <2>2
<1> QED BY <1>2, <1>3, <1>4, <1>7, <1>8 DEF Linked

(* A request that is not given to a route yet. *)
LEMMA UnknownMethodInv ==
    ASSUME ApiClients, IInv, NEW c \in Conns, NEW j \in Jobs, HttpUnknownMethod(c, j)
    PROVE  IInv'
<1>1. /\ UNCHANGED poolVars
      /\ queued' = queued /\ rejected' = rejected /\ body' = body
      /\ mpc' = mpc /\ quit' = quit /\ mpc = "poll"
      /\ conn[c] = "idle" /\ storage[j] = "unborn"
      /\ storage' = [storage EXCEPT ![j] = "live"]
      /\ wsi' = [wsi EXCEPT ![j] = c]
      /\ pss' = [pss EXCEPT ![c] = j]
      /\ ready' = [ready EXCEPT ![j] = TRUE]
      /\ finished' = [finished EXCEPT ![j] = TRUE]
      /\ writable' = [writable EXCEPT ![c] = TRUE]
      /\ conn' = [conn EXCEPT ![c] = "answer"]
  BY DEF HttpUnknownMethod, NewJob, AnswerWithoutRoute, WantWritable, loopVars,
         AfterHeaders, ApiClients
<1>2. ServerTypeOK /\ Links /\ Stopping
  BY TypeOKInParts DEF IInv, Links
<1>3. ServerTypeOK'
  BY <1>1, <1>2 DEF ServerTypeOK
<1>4. Pooled' = Pooled
  BY <1>1, PoolUntouched
<1>5. NewJob(c, j)
  BY DEF HttpUnknownMethod
<1>6. Linked'
  BY <1>2, <1>5, NewJobLinks
<1>8. InPool' /\ Kept'
  BY <1>1, <1>2, <1>4, <1>5, NewJobLinks DEF ServerTypeOK, Links, InPool, Kept
<1>9. Stages'
  <2>1. /\ ready'[j] /\ finished'[j]
        /\ conn'[c] = "answer"
        /\ \A k \in Jobs : k # j => ready'[k] = ready[k] /\ finished'[k] = finished[k]
        /\ \A d \in Conns : d # c => conn'[d] = conn[d]
        /\ \A d \in Conns : pss[d] \in Jobs \cup {NoJob}
    BY <1>1, <1>2 DEF ServerTypeOK
  <2> QED BY <2>1, <1>1, <1>2, <1>5, NewJobLinks DEF Links, Stages
<1>7. Stopping'
  BY <1>1, <1>2, PoolUntouched DEF Stopping, poolVars
<1> QED BY <1>1, <1>3, <1>6, <1>7, <1>8, <1>9, CallbackInv DEF Links

LEMMA PostInv ==
    ASSUME IInv, NEW c \in Conns, NEW j \in Jobs, HttpPost(c, j)
    PROVE  IInv'
<1>1. /\ UNCHANGED poolVars
      /\ queued' = queued /\ ready' = ready /\ finished' = finished
      /\ body' = body /\ writable' = writable
      /\ mpc' = mpc /\ quit' = quit /\ mpc = "poll"
      /\ conn[c] = "idle" /\ storage[j] = "unborn"
      /\ storage' = [storage EXCEPT ![j] = "live"]
      /\ wsi' = [wsi EXCEPT ![j] = c]
      /\ pss' = [pss EXCEPT ![c] = j]
      /\ \E tooLarge \in BOOLEAN : rejected' = [rejected EXCEPT ![j] = tooLarge]
      /\ conn' = [conn EXCEPT ![c] = "body"]
  BY DEF HttpPost, NewJob, loopVars
<1>2. ServerTypeOK /\ Links /\ Stopping
  BY TypeOKInParts DEF IInv, Links
<1>3. ServerTypeOK'
  BY <1>1, <1>2 DEF ServerTypeOK
<1>4. Pooled' = Pooled
  BY <1>1, PoolUntouched
<1>5. NewJob(c, j)
  BY DEF HttpPost
<1>6. Linked'
  BY <1>2, <1>5, NewJobLinks
<1>8. InPool' /\ Kept'
  BY <1>1, <1>2, <1>4, <1>5, NewJobLinks DEF ServerTypeOK, Links, InPool, Kept
<1>9. Stages'
  <2>1. /\ conn'[c] = "body"
        /\ \A k \in Jobs : k # j => rejected'[k] = rejected[k]
        /\ \A d \in Conns : d # c => conn'[d] = conn[d]
        /\ \A d \in Conns : pss[d] \in Jobs \cup {NoJob}
    BY <1>1, <1>2 DEF ServerTypeOK
  <2> QED BY <2>1, <1>1, <1>2, <1>5, NewJobLinks DEF Links, Stages
<1>7. Stopping'
  BY <1>1, <1>2, PoolUntouched DEF Stopping, poolVars
<1> QED BY <1>1, <1>3, <1>6, <1>7, <1>8, <1>9, CallbackInv DEF Links

(* A request that is submitted: a step of the pool as well. *)
LEMMA SubmitInv ==
    ASSUME IInv, NEW j \in Jobs, j \notin Pooled, SubmitJob(j), mpc = "poll",
           mpc' = mpc, conn' \in [Conns -> {"closed", "idle", "body", "answer"}],
           ServerTypeOK', Links'
    PROVE  IInv'
<1>1. PoolInv /\ Counted /\ PoolTypeOK /\ Stopping
  BY TypeOKInParts DEF IInv, PoolInv
<1>2. Places' /\ PoolTypeOK' /\ WakesOnlySleepers
  BY <1>1, SubmittingAddsOneJob
<1>3. Counted'
  BY <1>1, SubmittingKeepsTheCounts
<1>4. Stopping'
  BY <1>1, <1>2 DEF Stopping, SubmitJob, WakesOnlySleepers
<1> QED BY <1>2, <1>3, <1>4, TypeOKInParts DEF IInv, Links

LEMMA GetInv ==
    ASSUME ApiClients, IInv, NEW c \in Conns, NEW j \in Jobs, HttpGet(c, j)
    PROVE  IInv'
<1>1. ServerTypeOK /\ Links /\ PoolInv
  BY TypeOKInParts DEF IInv, Links, PoolInv
<1>2. NewJob(c, j) /\ Dispatch(j, c)
  BY DEF HttpGet
<1>3. ~rejected[j] /\ j \notin Pooled
  BY <1>1, <1>2, NewJobLinks
<1>4. /\ SubmitJob(j)
      /\ queued' = [queued EXCEPT ![j] = TRUE]
      /\ ready' = ready /\ finished' = finished /\ writable' = writable
      /\ rejected' = rejected /\ body' = body
      /\ mpc' = mpc /\ quit' = quit /\ mpc = "poll"
      /\ conn[c] = "idle" /\ storage[j] = "unborn"
      /\ storage' = [storage EXCEPT ![j] = "live"]
      /\ wsi' = [wsi EXCEPT ![j] = c]
      /\ pss' = [pss EXCEPT ![c] = j]
      /\ conn' = [conn EXCEPT ![c] = "answer"]
  BY <1>3 DEF HttpGet, NewJob, Dispatch, loopVars, AfterHeaders, ApiClients
<1>5. ServerTypeOK'
  BY <1>1, <1>4 DEF ServerTypeOK
<1>6. Pooled' = Pooled \cup {j}
  BY <1>1, <1>3, <1>4, SubmittingAddsOneJob
<1>7. Linked'
  BY <1>1, <1>2, NewJobLinks
<1>8. /\ queued'[j]
      /\ \A k \in Jobs : k # j => queued'[k] = queued[k]
      /\ conn'[c] = "answer"
      /\ \A d \in Conns : d # c => conn'[d] = conn[d]
      /\ \A d \in Conns : pss[d] \in Jobs \cup {NoJob}
  BY <1>1, <1>4 DEF ServerTypeOK
<1>9. InPool' /\ Kept'
  BY <1>1, <1>2, <1>4, <1>6, <1>8, NewJobLinks DEF Links, InPool, Kept
<1>10. Stages'
  BY <1>1, <1>2, <1>4, <1>8, NewJobLinks DEF Links, Stages
<1> QED BY <1>3, <1>4, <1>5, <1>7, <1>9, <1>10, SubmitInv
           DEF Links, ServerTypeOK

LEMMA BodyCompletionInv ==
    ASSUME IInv, NEW c \in Conns, HttpBodyCompletion(c)
    PROVE  IInv'
<1> DEFINE j == pss[c]
<1>1. ServerTypeOK /\ Links /\ PoolInv /\ Stopping
  BY TypeOKInParts DEF IInv, Links, PoolInv
<1>2. /\ mpc = "poll" /\ conn[c] = "body" /\ j # NoJob /\ Dispatch(j, c)
      /\ conn' = [conn EXCEPT ![c] = "answer"]
      /\ mpc' = mpc /\ quit' = quit /\ storage' = storage /\ wsi' = wsi
      /\ rejected' = rejected /\ body' = body /\ pss' = pss
  BY DEF HttpBodyCompletion, loopVars
<1>3. /\ j \in Jobs /\ storage[j] = "live" /\ wsi[j] = c
      /\ ~queued[j] /\ ~finished[j] /\ ~ready[j] /\ j \notin Pooled
  BY <1>1, <1>2 DEF Links, Linked, Stages, InPool, ServerTypeOK
<1>4. conn'[c] = "answer" /\ \A d \in Conns : d # c => conn'[d] = conn[d] /\ pss[d] # j
  BY <1>1, <1>2, <1>3 DEF ServerTypeOK, Links, Linked
<1>5. CASE rejected[j]
  <2>1. /\ UNCHANGED poolVars /\ queued' = queued
        /\ ready' = [ready EXCEPT ![j] = TRUE]
        /\ finished' = [finished EXCEPT ![j] = TRUE]
        /\ writable' = [writable EXCEPT ![c] = TRUE]
    BY <1>2, <1>5 DEF Dispatch, AnswerWithoutRoute, WantWritable
  <2>2. /\ ready'[j] /\ finished'[j]
        /\ \A k \in Jobs : k # j => ready'[k] = ready[k] /\ finished'[k] = finished[k]
    BY <2>1, <1>1, <1>3 DEF ServerTypeOK
  <2>3. ServerTypeOK'
    BY <1>1, <1>2, <2>1 DEF ServerTypeOK
  <2>4. Pooled' = Pooled
    BY <2>1, PoolUntouched
  <2> HIDE DEF j
  <2>5. InPool' /\ Linked' /\ Kept'
    BY <1>1, <1>2, <1>3, <2>1, <2>2, <2>4 DEF Links, InPool, Linked, Kept
  <2>6. Stages'
    <3>1. \A d \in Conns : pss[d] \in Jobs \cup {NoJob}
      BY <1>1 DEF ServerTypeOK
    <3> QED BY <3>1, <1>1, <1>2, <1>3, <1>4, <2>1, <2>2 DEF Links, Stages, j
  <2>7. Stopping'
    BY <1>1, <1>2, <2>1, PoolUntouched DEF Stopping, poolVars
  <2> QED BY <2>1, <2>3, <2>5, <2>6, <2>7, CallbackInv DEF Links
<1>6. CASE ~rejected[j]
  <2>1. /\ SubmitJob(j)
        /\ queued' = [queued EXCEPT ![j] = TRUE]
        /\ ready' = ready /\ finished' = finished /\ writable' = writable
    BY <1>2, <1>6 DEF Dispatch
  <2>2. queued'[j] /\ \A k \in Jobs : k # j => queued'[k] = queued[k]
    BY <2>1, <1>1, <1>3 DEF ServerTypeOK
  <2>3. ServerTypeOK'
    BY <1>1, <1>2, <2>1 DEF ServerTypeOK
  <2>4. Pooled' = Pooled \cup {j}
    BY <1>1, <1>3, <2>1, SubmittingAddsOneJob
  <2> HIDE DEF j
  <2>5. InPool' /\ Linked' /\ Kept'
    BY <1>1, <1>2, <1>3, <2>1, <2>2, <2>4 DEF Links, InPool, Linked, Kept
  <2>6. Stages'
    <3>1. \A d \in Conns : pss[d] \in Jobs \cup {NoJob}
      BY <1>1 DEF ServerTypeOK
    <3> QED BY <3>1, <1>1, <1>2, <1>3, <1>4, <2>1, <2>2 DEF Links, Stages, j
  <2> QED BY <1>2, <1>3, <2>1, <2>3, <2>5, <2>6, SubmitInv DEF Links, ServerTypeOK
<1> QED BY <1>5, <1>6

(* Connections close: what no worker has is freed, the rest is let go of. *)
LEMMA CloseKeepsLinks ==
    ASSUME ServerTypeOK, Links, NEW S \in SUBSET Conns, Close(S),
           UNCHANGED <<poolVars, queued, finished, ready, rejected, body>>
    PROVE  /\ Links'
           /\ \A c \in Conns : conn'[c] = IF c \in S THEN "closed" ELSE conn[c]
           /\ conn' \in [Conns -> {"closed", "idle", "body", "answer"}]
           /\ writable' \in [Conns -> BOOLEAN]
           /\ pss' \in [Conns -> Jobs \cup {NoJob}]
           /\ storage' \in [Jobs -> {"unborn", "live", "freed"}]
           /\ wsi' \in [Jobs -> Conns \cup {NoConn}]
<1> DEFINE orphans == {j \in Jobs : \E c \in S : pss[c] = j}
<1>1. /\ conn' = [c \in Conns |-> IF c \in S THEN "closed" ELSE conn[c]]
      /\ writable' = [c \in Conns |-> c \notin S /\ writable[c]]
      /\ pss' = [c \in Conns |-> IF c \in S THEN NoJob ELSE pss[c]]
      /\ wsi' = [j \in Jobs |-> IF j \in orphans THEN NoConn ELSE wsi[j]]
      /\ storage' = [j \in Jobs |-> IF j \in orphans /\ (~queued[j] \/ finished[j])
                                    THEN "freed" ELSE storage[j]]
  BY DEF Close
<1>2. Pooled' = Pooled
  BY PoolUntouched
<1>3. \A j \in orphans : /\ j \in Jobs /\ storage[j] = "live"
                         /\ wsi[j] \in S /\ pss[wsi[j]] = j
  BY NoJobIsNoJob DEF Links, Linked, ServerTypeOK
<1>4. \A j \in Jobs : storage[j] = "live" /\ wsi[j] \in S => j \in orphans
  BY NoConnIsNoConn DEF Links, Linked
<1> HIDE DEF orphans
<1>5. /\ \A c \in Conns : conn[c] \in {"closed", "idle", "body", "answer"}
                          /\ pss[c] \in Jobs \cup {NoJob}
      /\ \A j \in Jobs : wsi[j] \in Conns \cup {NoConn}
                        /\ storage[j] \in {"unborn", "live", "freed"}
  BY DEF ServerTypeOK
<1>6. /\ conn' \in [Conns -> {"closed", "idle", "body", "answer"}]
      /\ writable' \in [Conns -> BOOLEAN]
      /\ pss' \in [Conns -> Jobs \cup {NoJob}]
      /\ storage' \in [Jobs -> {"unborn", "live", "freed"}]
      /\ wsi' \in [Jobs -> Conns \cup {NoConn}]
  BY <1>1, <1>5 DEF ServerTypeOK
<1>7. /\ \A c \in Conns : /\ conn'[c] = IF c \in S THEN "closed" ELSE conn[c]
                          /\ pss'[c] = IF c \in S THEN NoJob ELSE pss[c]
      /\ \A j \in Jobs :
            /\ wsi'[j] = IF j \in orphans THEN NoConn ELSE wsi[j]
            /\ storage'[j] = IF j \in orphans /\ (~queued[j] \/ finished[j])
                             THEN "freed" ELSE storage[j]
  BY <1>1
<1>8. queued' = queued /\ finished' = finished /\ ready' = ready /\ rejected' = rejected
  OBVIOUS
<1>9. InPool'
  BY <1>2, <1>3, <1>7, <1>8 DEF Links, InPool
<1>10. Linked'
  <2>1. ASSUME NEW c \in Conns, pss'[c] # NoJob
        PROVE  storage'[pss'[c]] = "live" /\ wsi'[pss'[c]] = c
    <3>1. c \notin S /\ pss'[c] = pss[c] /\ pss[c] \in Jobs
      BY <2>1, <1>5, <1>7
    <3>2. storage[pss[c]] = "live" /\ wsi[pss[c]] = c
      BY <3>1, <2>1 DEF Links, Linked
    <3>3. pss[c] \notin orphans
      BY <3>1, <3>2, <1>3
    <3> QED BY <3>1, <3>2, <3>3, <1>7
  <2>2. ASSUME NEW j \in Jobs, storage'[j] = "live", wsi'[j] # NoConn
        PROVE  pss'[wsi'[j]] = j
    <3>1. j \notin orphans /\ wsi'[j] = wsi[j] /\ storage[j] = "live"
      BY <2>2, <1>7
    <3>2. wsi[j] \in Conns /\ wsi[j] \notin S
      BY <3>1, <2>2, <1>4, <1>5
    <3> QED BY <3>1, <3>2, <2>2, <1>7 DEF Links, Linked
  <2> QED BY <2>1, <2>2 DEF Linked
<1>11. Kept'
  BY <1>2, <1>3, <1>7, <1>8 DEF Links, Kept, InPool
<1>12. Stages'
  BY <1>3, <1>5, <1>7, <1>8 DEF Links, Stages
<1> QED BY <1>6, <1>7, <1>9, <1>10, <1>11, <1>12 DEF Links

LEMMA ClosedInv ==
    ASSUME IInv, (\E c \in Conns : HttpClosed(c)) \/ StopDestroysContext
    PROVE  IInv'
<1>1. ServerTypeOK /\ Links /\ Stopping
  BY TypeOKInParts DEF IInv, Links
<1>2. PICK S \in SUBSET Conns :
         /\ Close(S)
         /\ UNCHANGED <<poolVars, queued, finished, ready, rejected, body>>
         /\ quit' = quit
         /\ \/ mpc = "poll" /\ mpc' = mpc
            \/ /\ mpc = "detached" /\ mpc' = "destroyed"
               /\ S = {c \in Conns : conn[c] # "closed"}
  <2>1. CASE \E c \in Conns : HttpClosed(c)
    <3>1. PICK c \in Conns : HttpClosed(c)
      BY <2>1
    <3> QED BY <3>1 DEF HttpClosed, loopVars
  <2>2. CASE StopDestroysContext
    BY <2>2 DEF StopDestroysContext
  <2> QED BY <2>1, <2>2
<1>3. /\ Links'
      /\ \A c \in Conns : conn'[c] = IF c \in S THEN "closed" ELSE conn[c]
      /\ conn' \in [Conns -> {"closed", "idle", "body", "answer"}]
      /\ writable' \in [Conns -> BOOLEAN]
      /\ pss' \in [Conns -> Jobs \cup {NoJob}]
      /\ storage' \in [Jobs -> {"unborn", "live", "freed"}]
      /\ wsi' \in [Jobs -> Conns \cup {NoConn}]
  BY <1>1, <1>2, CloseKeepsLinks
<1>4. ServerTypeOK'
  BY <1>1, <1>2, <1>3 DEF ServerTypeOK, LoopStates
<1>5. UNCHANGED poolVars /\ AllReturned' = AllReturned
  BY <1>2, PoolUntouched
<1>6. Stopping'
  <2>1. /\ todo' = todo /\ done' = done /\ stopping' = stopping /\ wpc' = wpc
    BY <1>5 DEF poolVars
  <2>2. CASE mpc' = mpc
    BY <2>1, <2>2, <1>1, <1>2, <1>5 DEF Stopping
  <2>3. CASE /\ mpc = "detached" /\ mpc' = "destroyed"
             /\ S = {c \in Conns : conn[c] # "closed"}
    <3>1. \A c \in Conns : conn'[c] = "closed"
      BY <2>3, <1>3
    <3> QED BY <3>1, <2>1, <2>3, <1>1 DEF Stopping
  <2> QED BY <2>2, <2>3, <1>2
<1> QED BY <1>3, <1>4, <1>5, <1>6, CallbackInv

(* The event loop takes over what a worker has done. *)
LEMMA DrainInv ==
    ASSUME IInv, Drain
    PROVE  IInv'
<1> DEFINE j == Head(done)
<1>1. PoolInv /\ Counted /\ PoolTypeOK /\ ServerTypeOK /\ Links /\ Stopping
  BY TypeOKInParts DEF IInv, PoolInv, Links
<1>2. /\ mpc \in {"drain", "lastdrain"} /\ DrainJob /\ RouteDone(j)
      /\ mpc' = mpc /\ quit' = quit /\ conn' = conn /\ pss' = pss /\ wsi' = wsi
      /\ queued' = queued /\ rejected' = rejected /\ body' = body
  BY DEF Drain, loopVars
<1>3. /\ j \in Jobs /\ j \in Pooled
      /\ Places' /\ Pooled' = Pooled \ {j}
      /\ done' \in Seq(Jobs)
  BY <1>1, <1>2, DrainingRemovesOneJob
<1>4. Counted' /\ pending' \in Nat
  BY <1>1, <1>2, DrainingKeepsTheCounts
<1>5. /\ todo' = todo /\ stopping' = stopping /\ context' = context
      /\ wpc' = wpc /\ wjob' = wjob
  BY <1>2 DEF DrainJob
<1>6. PoolTypeOK'
  BY <1>1, <1>3, <1>4, <1>5 DEF PoolTypeOK
<1>7. finished' = [finished EXCEPT ![j] = TRUE]
  BY <1>2 DEF RouteDone
<1>8. storage[j] = "live" /\ queued[j] /\ ~finished[j]
  BY <1>1, <1>3 DEF Links, InPool
<1>9. /\ finished'[j] /\ \A k \in Jobs : k # j => finished'[k] = finished[k]
      /\ \A c \in Conns : pss[c] \in Jobs \cup {NoJob}
      /\ wsi[j] \in Conns \cup {NoConn}
  BY <1>1, <1>3, <1>7 DEF ServerTypeOK
<1> HIDE DEF j
<1>10. ServerTypeOK' /\ Links'
  <2>1. CASE wsi[j] = NoConn
    <3>1. /\ storage' = [storage EXCEPT ![j] = "freed"]
          /\ ready' = ready /\ writable' = writable
      BY <2>1, <1>2 DEF RouteDone
    <3>2. storage'[j] = "freed" /\ \A k \in Jobs : k # j => storage'[k] = storage[k]
      BY <3>1, <1>1, <1>3 DEF ServerTypeOK
    <3>3. ServerTypeOK'
      BY <1>1, <1>2, <1>3, <1>7, <3>1 DEF ServerTypeOK
    <3>4. \A c \in Conns : pss[c] # j
      BY <2>1, <1>1, <1>3, NoConnIsNoConn, NoJobIsNoJob DEF Links, Linked
    <3>5. InPool' /\ Kept'
      BY <1>1, <1>2, <1>3, <1>9, <3>2 DEF Links, InPool, Kept
    <3>6. Linked'
      BY <1>1, <1>2, <1>9, <3>2, <3>4, <2>1 DEF Links, Linked
    <3>7. Stages'
      BY <1>1, <1>2, <1>9, <3>1, <3>2, <3>4, <1>8 DEF Links, Stages
    <3> QED BY <3>3, <3>5, <3>6, <3>7 DEF Links
  <2>2. CASE wsi[j] # NoConn
    <3>1. /\ storage' = storage
          /\ ready' = [ready EXCEPT ![j] = TRUE]
          /\ writable' = [writable EXCEPT ![wsi[j]] = TRUE]
      BY <2>2, <1>2 DEF RouteDone, WantWritable
    <3>2. ready'[j] /\ \A k \in Jobs : k # j => ready'[k] = ready[k]
      BY <3>1, <1>1, <1>3 DEF ServerTypeOK
    <3>3. ServerTypeOK'
      BY <1>1, <1>2, <1>3, <1>7, <3>1 DEF ServerTypeOK
    <3>4. InPool' /\ Linked' /\ Kept'
      BY <1>1, <1>2, <1>3, <1>8, <1>9, <2>2, <3>1 DEF Links, InPool, Linked, Kept
    <3>5. Stages'
      BY <1>1, <1>2, <1>8, <1>9, <3>1, <3>2 DEF Links, Stages
    <3> QED BY <3>3, <3>4, <3>5 DEF Links
  <2> QED BY <2>1, <2>2
<1>11. Stopping'
  BY <1>1, <1>2, <1>5 DEF Stopping, AllReturned
<1> QED BY <1>3, <1>4, <1>6, <1>10, <1>11, TypeOKInParts DEF IInv, Links

-----------------------------------------------------------------------------
(* The theorems. *)

LEMMA StutterInv ==
    ASSUME IInv, UNCHANGED vars
    PROVE  IInv'
<1>1. /\ UNCHANGED poolVars
      /\ storage' = storage /\ wsi' = wsi /\ queued' = queued
      /\ finished' = finished /\ ready' = ready /\ rejected' = rejected
      /\ body' = body /\ conn' = conn /\ writable' = writable /\ pss' = pss
      /\ mpc' = mpc /\ quit' = quit
  BY DEF vars, jobVars, connVars, loopVars
<1>2. ServerTypeOK /\ Links /\ Stopping
  BY TypeOKInParts DEF IInv, Links
<1>3. ServerTypeOK'
  BY <1>1, <1>2 DEF ServerTypeOK
<1>4. Links'
  BY <1>1, <1>2, PoolUntouched DEF Links, InPool, Linked, Kept, Stages
<1>5. Stopping'
  BY <1>1, <1>2, PoolUntouched DEF Stopping, poolVars
<1> QED BY <1>1, <1>3, <1>4, <1>5, CallbackInv

LEMMA NextInv ==
    ASSUME ApiClients, IInv, [Next]_vars
    PROVE  IInv'
<1>1. CASE \E w \in Workers : Worker(w)
  BY <1>1, WorkerInv
<1>2. CASE Loop
  BY <1>2, QuietLoopInv, DrainInv, StoppingPoolInv, ClosedInv DEF Loop, StopDetaches
<1>3. CASE OnSignal \/ ServiceFails
  BY <1>3, QuietLoopInv, StoppingPoolInv DEF ServiceFails
<1>4. ASSUME NEW c \in Conns, Client(c) \/ Writeable(c) PROVE IInv'
  <2>1. CASE \E j \in Jobs : HttpUnknownMethod(c, j) \/ HttpPost(c, j) \/ HttpGet(c, j)
    BY <2>1, UnknownMethodInv, PostInv, GetInv
  <2>2. CASE Connect(c) \/ HttpBodyTooLarge(c) \/ HttpBodyCompletion(c) \/ HttpClosed(c)
    BY <2>2, ConnectInv, BodyTooLargeInv, BodyCompletionInv, ClosedInv
  <2>3. CASE Writeable(c)
    BY <2>3, WriteHeadersInv, WriteEndInv DEF Writeable
  <2> QED BY <1>4, <2>1, <2>2, <2>3 DEF Client
<1>5. CASE UNCHANGED vars
  BY <1>5, StutterInv
<1> QED BY <1>1, <1>2, <1>3, <1>4, <1>5 DEF Next

(* The inductive invariant holds in every reachable state. *)
THEOREM InvariantHolds ==
    ASSUME ApiClients
    PROVE  Spec => []IInv
<1>1. Init => IInv
  BY InitInv
<1>2. IInv /\ [Next]_vars => IInv'
  BY NextInv
<1> QED BY <1>1, <1>2, PTL DEF Spec

(* Every variable of the server and of its pool has its type; that pending  *)
(* never goes below zero is part of it.                                     *)
THEOREM TypeCorrect ==
    ASSUME ApiClients
    PROVE  Spec => []TypeOK
<1>1. IInv => TypeOK
  BY DEF IInv
<1> QED BY <1>1, InvariantHolds, PTL

(* The counter of the pool counts what is on its lists and with its workers *)
(* (jobs.c: pending).                                                       *)
THEOREM PendingCorrect ==
    ASSUME ApiClients
    PROVE  Spec => []PendingIsEverySubmittedJob
<1>1. IInv => PendingIsEverySubmittedJob
  BY DEF IInv, Counted
<1> QED BY <1>1, InvariantHolds, PTL

(* No worker sleeps while there is a job nobody is on the way to.           *)
THEOREM NoWakeUpIsLost ==
    ASSUME ApiClients
    PROVE  Spec => []NoLostWakeUp
<1>1. IInv => NoLostWakeUp
  BY DEF IInv, Counted
<1> QED BY <1>1, InvariantHolds, PTL

LEMMA PooledIsJobs ==
    ASSUME IInv
    PROVE  Pooled \subseteq Jobs
<1>1. todo \in Seq(Jobs) /\ done \in Seq(Jobs)
  BY TypeOKInParts DEF IInv, PoolTypeOK
<1>2. Elements(todo) \subseteq Jobs /\ Elements(done) \subseteq Jobs
  BY <1>1 DEF Elements
<1>3. Running \subseteq Jobs
  BY DEF IInv, Places, Running
<1> QED BY <1>2, <1>3 DEF Pooled

(* Neither the event loop nor a worker touches a job that was freed: of the *)
(* two that can free it (server.c:315, :328) only the last one does.        *)
THEOREM NothingIsUsedAfterFree ==
    ASSUME ApiClients
    PROVE  Spec => []NoUseAfterFree
<1>1. IInv => NoUseAfterFree
  BY PooledIsJobs DEF IInv, NoUseAfterFree, Linked, InPool
<1> QED BY <1>1, InvariantHolds, PTL

(* ... and one of them does.                                                *)
THEOREM NothingIsForgotten ==
    ASSUME ApiClients
    PROVE  Spec => []NothingLeaks
<1>1. ASSUME IInv PROVE NothingLeaks
  <2>1. ASSUME NEW j \in Jobs, storage[j] = "live"
        PROVE  (\E c \in Conns : pss[c] = j) \/ j \in Pooled
    <3>1. wsi[j] \in Conns \cup {NoConn}
      BY <1>1, TypeOKInParts DEF IInv, ServerTypeOK
    <3> QED BY <3>1, <2>1, <1>1 DEF IInv, Linked, Kept
  <2> QED BY <2>1 DEF NothingLeaks
<1> QED BY <1>1, InvariantHolds, PTL

(* What a worker is filling in is not sent, and not freed, by the event     *)
(* loop.                                                                    *)
THEOREM NoAnswerIsReadEarly ==
    ASSUME ApiClients
    PROVE  Spec => []WorkersAreUndisturbed
<1>1. ASSUME IInv PROVE WorkersAreUndisturbed
  <2>1. ASSUME NEW j \in Pooled
        PROVE  /\ queued[j] /\ ~finished[j] /\ ~ready[j]
               /\ \A c \in Conns : conn[c] = "body" => pss[c] # j
    <3>1. j \in Jobs /\ storage[j] = "live" /\ queued[j] /\ ~finished[j]
      BY <1>1, PooledIsJobs DEF IInv, InPool
    <3>2. ready[j] \in BOOLEAN
      BY <3>1, <1>1, TypeOKInParts DEF IInv, ServerTypeOK
    <3> QED BY <3>1, <3>2, <1>1 DEF IInv, Stages
  <2> QED BY <2>1 DEF WorkersAreUndisturbed
<1> QED BY <1>1, InvariantHolds, PTL

(* An answer reaches the client that asked for it, or nobody.               *)
THEOREM NoAnswerGoesAstray ==
    ASSUME ApiClients
    PROVE  Spec => []AnswersGoToTheAsker
<1>1. ASSUME IInv PROVE AnswersGoToTheAsker
  <2>1. ASSUME NEW j \in Jobs, NEW c \in Conns, storage[j] = "live"
        PROVE  pss[c] = j <=> wsi[j] = c
    BY <2>1, <1>1, NoJobIsNoJob, NoConnIsNoConn DEF IInv, Linked
  <2> QED BY <2>1 DEF AnswersGoToTheAsker
<1> QED BY <1>1, InvariantHolds, PTL

(* The process ends with no job queued, pending or allocated: every client  *)
(* was let go of, every worker came back, every job was drained.            *)
THEOREM TheEndIsClean ==
    ASSUME ApiClients
    PROVE  Spec => []StoppedClean
<1>1. ASSUME IInv, mpc = "ended"
      PROVE  /\ todo = <<>> /\ done = <<>> /\ pending = 0
             /\ \A j \in Jobs : storage[j] # "live"
  <2>1. AllReturned /\ done = <<>>
    BY <1>1 DEF IInv, Stopping
  <2>2. todo = <<>>
    BY <1>1, <2>1, WorkersAreFinite DEF IInv, Stopping, AllReturned
  <2>3. At(wpc, "run") = {} /\ Running = {}
    BY <2>1 DEF At, AllReturned, Running
  <2>4. Count(wpc, "run") = 0
    BY <2>3, FS_EmptySet DEF Count
  <2>5. CountedBody
    BY <1>1, CountedIsItsBody DEF IInv
  <2>6. pending = 0
    BY <2>1, <2>2, <2>4, <2>5 DEF CountedBody
  <2>7. Pooled = {}
    BY <2>1, <2>2, <2>3, ElementsOfEmpty DEF Pooled
  <2>8. \A c \in Conns : conn[c] = "closed" /\ pss[c] = NoJob
    BY <1>1 DEF IInv, Stopping, Stages
  <2>9. ASSUME NEW j \in Jobs, storage[j] = "live" PROVE FALSE
    <3>1. wsi[j] \in Conns \cup {NoConn}
      BY <1>1, TypeOKInParts DEF IInv, ServerTypeOK
    <3> QED BY <3>1, <2>7, <2>8, <2>9, <1>1, NoJobIsNoJob DEF IInv, Linked, Kept
  <2> QED BY <2>1, <2>2, <2>6, <2>9
<1>2. IInv => StoppedClean
  BY <1>1 DEF StoppedClean
<1> QED BY <1>2, InvariantHolds, PTL

-----------------------------------------------------------------------------
(* The service implements Requests. *)

(* A step in which one request moves on, and one in which none does. *)
SameStatus(S) == \A k \in Jobs \ S : StatusOf(k)' = StatusOf(k)
SameClient(S) == \A k \in Jobs \ S : ClientOf(k)' = ClientOf(k)

LEMMA OneMoves ==
    ASSUME NEW j \in Jobs, NEW from, NEW to, SameStatus({j}),
           StatusOf(j) \in from, StatusOf(j)' = to
    PROVE  R!Move(j, from, to)
BY DEF SameStatus, R!Move

LEMMA ClientsStay ==
    ASSUME SameClient({})
    PROVE  [j \in Jobs |-> ClientOf(j)]' = [j \in Jobs |-> ClientOf(j)]
BY DEF SameClient

LEMMA ClientChanges ==
    ASSUME NEW j \in Jobs, SameClient({j})
    PROVE  [k \in Jobs |-> ClientOf(k)]' =
           [[k \in Jobs |-> ClientOf(k)] EXCEPT ![j] = ClientOf(j)']
BY DEF SameClient

LEMMA NoneMoves ==
    ASSUME storage' = storage, wsi' = wsi, queued' = queued, ready' = ready,
           Elements(todo') = Elements(todo)
    PROVE  UNCHANGED R!rvars
<1>1. SameStatus({}) /\ SameClient({})
  BY DEF SameStatus, SameClient, StatusOf, ClientOf
<1> QED BY <1>1 DEF R!rvars, SameStatus, SameClient

(* A worker starts a route when it takes a job. *)
LEMMA WorkerImplements ==
    ASSUME IInv, NEW w \in Workers, Worker(w)
    PROVE  [R!Next]_R!rvars
<1>1. /\ storage' = storage /\ wsi' = wsi /\ queued' = queued /\ ready' = ready
      /\ WorkerStep(w)
  BY DEF Worker, jobVars
<1>2. CASE WorkerTakes(w)
  <2> PICK j : j = Head(todo)
    OBVIOUS
  <2>1. todo # <<>> /\ todo' = Tail(todo) /\ todo \in Seq(Jobs) /\ Injective(todo)
    BY <1>2, TypeOKInParts DEF WorkerTakes, IInv, PoolTypeOK, Places
  <2>2. j \in Jobs /\ j \in Elements(todo) /\ Elements(todo') = Elements(todo) \ {j}
    BY <2>1, ElementsOfTail
  <2>3. storage[j] = "live" /\ queued[j] /\ ~ready[j]
    <3>1. j \in Pooled
      BY <2>2 DEF Pooled
    <3>2. storage[j] = "live" /\ queued[j] /\ ~finished[j] /\ ready[j] \in BOOLEAN
      BY <3>1, <2>2, TypeOKInParts DEF IInv, InPool, ServerTypeOK
    <3> QED BY <3>2, <2>2 DEF IInv, Stages
  <2>4. SameStatus({j}) /\ SameClient({})
    BY <1>1, <2>2 DEF SameStatus, SameClient, StatusOf, ClientOf
  <2>5. StatusOf(j) = "submitted" /\ StatusOf(j)' = "routed"
    BY <1>1, <2>2, <2>3 DEF StatusOf
  <2>6. R!Start(j)
    BY <2>2, <2>4, <2>5, OneMoves, ClientsStay DEF R!Start
  <2> QED BY <2>2, <2>6 DEF R!Next
<1>3. CASE ~WorkerTakes(w)
  <2>1. todo' = todo
    BY <1>1, <1>3 DEF WorkerStep, WorkerWaits, WorkerReturns, WorkerFinishes,
                      WorkerWakesLoop
  <2> QED BY <1>1, <2>1, NoneMoves
<1> QED BY <1>2, <1>3

(* A request arrives. *)
LEMMA ArrivalImplements ==
    ASSUME IInv, NEW c \in Conns, NEW j \in Jobs,
           HttpUnknownMethod(c, j) \/ HttpPost(c, j) \/ HttpGet(c, j)
    PROVE  [R!Next]_R!rvars
<1>1. ServerTypeOK /\ Links /\ PoolInv
  BY TypeOKInParts DEF IInv, Links, PoolInv
<1>2. NewJob(c, j) /\ storage[j] = "unborn"
  BY DEF HttpUnknownMethod, HttpPost, HttpGet, NewJob
<1>3. /\ ~queued[j] /\ ~ready[j] /\ ~rejected[j] /\ j \notin Pooled
      /\ \A k \in Jobs : k # j => storage'[k] = storage[k] /\ wsi'[k] = wsi[k]
      /\ storage'[j] = "live" /\ wsi'[j] = c
  BY <1>1, <1>2, NewJobLinks
<1>4. SameClient({j}) /\ ClientOf(j)' = c
  BY <1>3 DEF SameClient, ClientOf
<1>5. StatusOf(j) = "unborn" /\ j \notin Elements(todo)
  BY <1>2, <1>3 DEF StatusOf, Pooled
<1>6. CASE HttpUnknownMethod(c, j)
  <2>1. ready' = [ready EXCEPT ![j] = TRUE] /\ queued' = queued /\ todo' = todo
    BY <1>6 DEF HttpUnknownMethod, AnswerWithoutRoute, poolVars
  <2>2. ready'[j] /\ \A k \in Jobs : k # j => ready'[k] = ready[k]
    BY <1>1, <2>1 DEF ServerTypeOK
  <2>3. SameStatus({j}) /\ StatusOf(j)' = "answerable"
    BY <1>3, <2>1, <2>2 DEF SameStatus, StatusOf
  <2>4. R!AcceptRefused(j, c)
    BY <1>4, <1>5, <2>3, OneMoves, ClientChanges DEF R!AcceptRefused
  <2> QED BY <2>4 DEF R!Next
<1>7. CASE HttpPost(c, j)
  <2>1. ready' = ready /\ queued' = queued /\ todo' = todo
    BY <1>7 DEF HttpPost, poolVars
  <2>2. SameStatus({j}) /\ StatusOf(j)' = "reading"
    BY <1>3, <2>1 DEF SameStatus, StatusOf
  <2>3. R!Accept(j, c)
    BY <1>4, <1>5, <2>2, OneMoves, ClientChanges DEF R!Accept
  <2> QED BY <2>3 DEF R!Next
<1>8. CASE HttpGet(c, j)
  <2>1. /\ ready' = ready /\ queued' = [queued EXCEPT ![j] = TRUE]
        /\ todo' = Append(todo, j)
    BY <1>3, <1>8 DEF HttpGet, Dispatch, SubmitJob
  <2>2. queued'[j] /\ \A k \in Jobs : k # j => queued'[k] = queued[k]
    BY <1>1, <2>1 DEF ServerTypeOK
  <2>3. Elements(todo') = Elements(todo) \cup {j}
    BY <1>1, <2>1, ElementsOfAppend DEF PoolInv, PoolTypeOK
  <2>4. SameStatus({j}) /\ StatusOf(j)' = "submitted"
    BY <1>3, <2>1, <2>2, <2>3 DEF SameStatus, StatusOf
  <2>5. R!AcceptSubmitted(j, c)
    BY <1>4, <1>5, <2>4, OneMoves, ClientChanges DEF R!AcceptSubmitted
  <2> QED BY <2>5 DEF R!Next
<1> QED BY <1>6, <1>7, <1>8

(* The body is complete. *)
LEMMA CompletionImplements ==
    ASSUME IInv, NEW c \in Conns, HttpBodyCompletion(c)
    PROVE  [R!Next]_R!rvars
<1> PICK j : j = pss[c]
  OBVIOUS
<1>1. ServerTypeOK /\ Links /\ PoolInv
  BY TypeOKInParts DEF IInv, Links, PoolInv
<1>2. /\ conn[c] = "body" /\ j # NoJob /\ Dispatch(j, c)
      /\ storage' = storage /\ wsi' = wsi
  BY DEF HttpBodyCompletion
<1>3. /\ j \in Jobs /\ storage[j] = "live" /\ ~queued[j] /\ ~ready[j]
  BY <1>1, <1>2 DEF Links, Linked, Stages, ServerTypeOK
<1>4. SameClient({}) /\ StatusOf(j) = "reading"
  BY <1>2, <1>3 DEF SameClient, ClientOf, StatusOf
<1>5. CASE rejected[j]
  <2>1. ready' = [ready EXCEPT ![j] = TRUE] /\ queued' = queued /\ todo' = todo
    BY <1>2, <1>5 DEF Dispatch, AnswerWithoutRoute, poolVars
  <2>2. ready'[j] /\ \A k \in Jobs : k # j => ready'[k] = ready[k]
    BY <1>1, <1>3, <2>1 DEF ServerTypeOK
  <2>3. SameStatus({j}) /\ StatusOf(j)' = "answerable"
    BY <1>2, <1>3, <2>1, <2>2 DEF SameStatus, StatusOf
  <2>4. R!Refuse(j)
    BY <1>3, <1>4, <2>3, OneMoves, ClientsStay DEF R!Refuse
  <2> QED BY <1>3, <2>4 DEF R!Next
<1>6. CASE ~rejected[j]
  <2>1. /\ ready' = ready /\ queued' = [queued EXCEPT ![j] = TRUE]
        /\ todo' = Append(todo, j)
    BY <1>2, <1>6 DEF Dispatch, SubmitJob
  <2>2. queued'[j] /\ \A k \in Jobs : k # j => queued'[k] = queued[k]
    BY <1>1, <1>3, <2>1 DEF ServerTypeOK
  <2>3. Elements(todo') = Elements(todo) \cup {j}
    BY <1>1, <1>3, <2>1, ElementsOfAppend DEF PoolInv, PoolTypeOK
  <2>4. SameStatus({j}) /\ StatusOf(j)' = "submitted"
    BY <1>2, <1>3, <2>1, <2>2, <2>3 DEF SameStatus, StatusOf
  <2>5. R!Submit(j)
    BY <1>3, <1>4, <2>4, OneMoves, ClientsStay DEF R!Submit
  <2> QED BY <1>3, <2>5 DEF R!Next
<1> QED BY <1>5, <1>6

(* The answer is written. *)
LEMMA WriteImplements ==
    ASSUME IInv, NEW c \in Conns, HttpWriteEnd(c)
    PROVE  [R!Next]_R!rvars
<1> PICK j : j = pss[c]
  OBVIOUS
<1>1. ServerTypeOK /\ Links
  BY TypeOKInParts DEF IInv, Links
<1>2. /\ j # NoJob /\ ready[j] /\ storage' = [storage EXCEPT ![j] = "freed"]
      /\ wsi' = wsi /\ queued' = queued /\ ready' = ready /\ todo' = todo
  BY DEF HttpWriteEnd, CanWrite, poolVars
<1>3. j \in Jobs /\ storage[j] = "live" /\ wsi[j] = c
  BY <1>1, <1>2 DEF Links, Linked, ServerTypeOK
<1>4. storage'[j] = "freed" /\ \A k \in Jobs : k # j => storage'[k] = storage[k]
  BY <1>1, <1>2, <1>3 DEF ServerTypeOK
<1>5. /\ SameStatus({j}) /\ SameClient({j})
      /\ StatusOf(j) = "answerable" /\ StatusOf(j)' = "over"
      /\ ClientOf(j) = c /\ ClientOf(j)' = NoConn
  BY <1>2, <1>3, <1>4 DEF SameStatus, SameClient, StatusOf, ClientOf
<1>6. R!Answer(j)
  BY <1>3, <1>5, NoConnIsNoConn, OneMoves, ClientChanges DEF R!Answer
<1> QED BY <1>3, <1>6 DEF R!Next

(* What a route produced is taken over. *)
LEMMA DrainImplements ==
    ASSUME IInv, Drain
    PROVE  [R!Next]_R!rvars
<1> PICK j : j = Head(done)
  OBVIOUS
<1>1. ServerTypeOK /\ Links /\ PoolInv
  BY TypeOKInParts DEF IInv, Links, PoolInv
<1>2. /\ DrainJob /\ RouteDone(j) /\ todo' = todo /\ wsi' = wsi /\ queued' = queued
  BY DEF Drain, DrainJob
<1>3. /\ j \in Jobs /\ j \in Pooled /\ j \notin Pooled'
  BY <1>1, <1>2, DrainingRemovesOneJob
<1>4. storage[j] = "live" /\ queued[j] /\ ~finished[j]
  BY <1>1, <1>3 DEF Links, InPool
<1>5. j \notin Elements(todo) /\ ~ready[j]
  <2>1. Elements(todo) \subseteq Pooled'
    BY <1>2 DEF Pooled
  <2>2. ready[j] \in BOOLEAN
    BY <1>1, <1>3 DEF ServerTypeOK
  <2> QED BY <2>1, <2>2, <1>1, <1>3, <1>4 DEF Links, Stages
<1>6. StatusOf(j) = "routed" /\ ClientOf(j) = wsi[j]
  BY <1>4, <1>5 DEF StatusOf, ClientOf
<1>7. CASE wsi[j] = NoConn
  <2>1. storage' = [storage EXCEPT ![j] = "freed"] /\ ready' = ready
    BY <1>2, <1>7 DEF RouteDone
  <2>2. storage'[j] = "freed" /\ \A k \in Jobs : k # j => storage'[k] = storage[k]
    BY <1>1, <1>3, <2>1 DEF ServerTypeOK
  <2>3. SameStatus({j}) /\ SameClient({}) /\ StatusOf(j)' = "over"
    BY <1>2, <1>7, <2>1, <2>2 DEF SameStatus, SameClient, StatusOf, ClientOf
  <2>4. R!FinishUnwanted(j)
    BY <1>3, <1>6, <1>7, <2>3, OneMoves, ClientsStay DEF R!FinishUnwanted
  <2> QED BY <1>3, <2>4 DEF R!Next
<1>8. CASE wsi[j] # NoConn
  <2>1. storage' = storage /\ ready' = [ready EXCEPT ![j] = TRUE]
    BY <1>2, <1>8 DEF RouteDone
  <2>2. ready'[j] /\ \A k \in Jobs : k # j => ready'[k] = ready[k]
    BY <1>1, <1>3, <2>1 DEF ServerTypeOK
  <2>3. SameStatus({j}) /\ SameClient({}) /\ StatusOf(j)' = "answerable"
    BY <1>2, <1>4, <2>1, <2>2 DEF SameStatus, SameClient, StatusOf, ClientOf
  <2>4. R!Finish(j)
    BY <1>3, <1>6, <1>8, <2>3, OneMoves, ClientsStay DEF R!Finish
  <2> QED BY <1>3, <2>4 DEF R!Next
<1> QED BY <1>7, <1>8

(* Clients go away, one by one or all at once. *)
LEMMA CloseImplements ==
    ASSUME IInv, (\E c \in Conns : HttpClosed(c)) \/ StopDestroysContext
    PROVE  [R!Next]_R!rvars
<1>1. ServerTypeOK /\ Links
  BY TypeOKInParts DEF IInv, Links
<1>2. PICK S \in SUBSET Conns :
         Close(S) /\ UNCHANGED <<poolVars, queued, finished, ready>>
  <2>1. CASE \E c \in Conns : HttpClosed(c)
    <3>1. PICK c \in Conns : HttpClosed(c)
      BY <2>1
    <3> QED BY <3>1 DEF HttpClosed
  <2>2. CASE StopDestroysContext
    BY <2>2 DEF StopDestroysContext
  <2> QED BY <2>1, <2>2
<1> DEFINE orphans == {j \in Jobs : \E c \in S : pss[c] = j}
<1>3. /\ wsi' = [j \in Jobs |-> IF j \in orphans THEN NoConn ELSE wsi[j]]
      /\ storage' = [j \in Jobs |-> IF j \in orphans /\ (~queued[j] \/ finished[j])
                                    THEN "freed" ELSE storage[j]]
      /\ queued' = queued /\ ready' = ready /\ finished' = finished /\ todo' = todo
  BY <1>2 DEF Close, poolVars
<1>4. \A j \in orphans : j \in Jobs /\ storage[j] = "live" /\ wsi[j] \in Conns
  BY <1>1, NoJobIsNoJob DEF Links, Linked, ServerTypeOK
<1>5. orphans \in SUBSET Jobs
  OBVIOUS
<1> HIDE DEF orphans
<1>6. \A j \in Jobs :
         /\ wsi'[j] = IF j \in orphans THEN NoConn ELSE wsi[j]
         /\ storage'[j] = IF j \in orphans /\ (~queued[j] \/ finished[j])
                          THEN "freed" ELSE storage[j]
  BY <1>3
<1>7. \A j \in orphans : ClientOf(j) # NoConn
  BY <1>4, NoConnIsNoConn DEF ClientOf
<1>8. \A j \in Jobs : ClientOf(j)' = IF j \in orphans THEN NoConn ELSE ClientOf(j)
  BY <1>4, <1>6 DEF ClientOf
<1>9. ASSUME NEW j \in orphans
      PROVE  ~queued[j] \/ finished[j] <=> StatusOf(j) \in {"reading", "answerable"}
  <2>1. j \in Jobs /\ storage[j] = "live" /\ wsi[j] \in Conns
    BY <1>4, <1>9
  <2>2. ready[j] => finished[j]
    BY <2>1, <1>1 DEF Links, Stages
  <2>3. finished[j] => ready[j]
    BY <2>1, <1>1, NoConnIsNoConn DEF Links, Stages
  <2> QED BY <2>1, <2>2, <2>3 DEF StatusOf
<1>10. \A j \in Jobs : StatusOf(j)' =
          IF j \in orphans /\ (~queued[j] \/ finished[j]) THEN "over" ELSE StatusOf(j)
  BY <1>3, <1>4, <1>6 DEF StatusOf
<1>11. R!Vanish(orphans)
  BY <1>5, <1>7, <1>8, <1>9, <1>10 DEF R!Vanish
<1> QED BY <1>5, <1>11 DEF R!Next

LEMMA OthersImplement ==
    ASSUME DrainBegins \/ DrainEnds \/ LeaveLoop \/ StopStopsWorkers
           \/ StopJoined \/ OnSignal \/ UNCHANGED vars
           \/ (\E c \in Conns : Connect(c) \/ HttpBodyTooLarge(c) \/ HttpWriteHeaders(c))
    PROVE  [R!Next]_R!rvars
<1>1. /\ storage' = storage /\ wsi' = wsi /\ queued' = queued /\ ready' = ready
      /\ todo' = todo
  BY DEF DrainBegins, DrainEnds, LeaveLoop, DetachContext, StopStopsWorkers,
         StopWorkers, StopJoined, OnSignal, vars, Connect, HttpBodyTooLarge,
         HttpWriteHeaders, jobVars, poolVars
<1> QED BY <1>1, NoneMoves

(* Whatever the workers, the queue, the callbacks and the stop do, a        *)
(* request goes through the life Requests describes: one route at most, one *)
(* answer at most, to its own client, and its storage is given back after.  *)
THEOREM ServerImplementsRequests ==
    ASSUME ApiClients
    PROVE  Spec => RequestsSpec
<1>1. Init => R!Init
  <2> SUFFICES ASSUME Init PROVE R!Init
    OBVIOUS
  <2>1. \A j \in Jobs : StatusOf(j) = "unborn" /\ ClientOf(j) = NoConn
    BY DEF Init, StatusOf, ClientOf
  <2> QED BY <2>1 DEF R!Init
<1>2. IInv /\ [Next]_vars => [R!Next]_R!rvars
  <2> SUFFICES ASSUME IInv, [Next]_vars PROVE [R!Next]_R!rvars
    OBVIOUS
  <2>1. CASE \E w \in Workers : Worker(w)
    BY <2>1, WorkerImplements
  <2>2. CASE Loop
    BY <2>2, OthersImplement, DrainImplements, CloseImplements DEF Loop, StopDetaches
  <2>3. CASE OnSignal \/ ServiceFails \/ UNCHANGED vars
    BY <2>3, OthersImplement DEF ServiceFails
  <2>4. ASSUME NEW c \in Conns, Client(c) \/ Writeable(c)
        PROVE  [R!Next]_R!rvars
    <3>1. CASE \E j \in Jobs : HttpUnknownMethod(c, j) \/ HttpPost(c, j) \/ HttpGet(c, j)
      BY <3>1, ArrivalImplements
    <3>2. CASE HttpBodyCompletion(c)
      BY <3>2, CompletionImplements
    <3>3. CASE HttpClosed(c)
      BY <3>3, CloseImplements
    <3>4. CASE HttpWriteEnd(c)
      BY <3>4, WriteImplements
    <3>5. CASE Connect(c) \/ HttpBodyTooLarge(c) \/ HttpWriteHeaders(c)
      BY <3>5, OthersImplement
    <3> QED BY <2>4, <3>1, <3>2, <3>3, <3>4, <3>5 DEF Client, Writeable
  <2> QED BY <2>1, <2>2, <2>3, <2>4 DEF Next
<1> QED BY <1>1, <1>2, InvariantHolds, PTL DEF Spec, RequestsSpec, R!Spec

=============================================================================
