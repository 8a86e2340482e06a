-------------------------- MODULE GbDispatchProofs --------------------------
(***************************************************************************)
(* Theorems about the receive path, for any cports, threads and bounds.    *)
(* GbDispatch's TLC runs check the same invariants on small instances.     *)
(***************************************************************************)
EXTENDS GbDispatch, TLAPS

(* What appending to a queue does (sys_dlist_append).                      *)
LEMMA AppendFacts ==
  ASSUME NEW S, NEW s \in Seq(S), NEW e \in S
  PROVE  /\ Append(s, e) \in Seq(S)
         /\ Len(Append(s, e)) = Len(s) + 1
         /\ \A i \in 1..Len(s) : Append(s, e)[i] = s[i]
         /\ Append(s, e)[Len(s) + 1] = e
         /\ Append(s, e) # <<>>
  OBVIOUS

(* What taking the head of a queue leaves (sys_dlist_get).                 *)
LEMMA TailFacts ==
  ASSUME NEW S, NEW s \in Seq(S), s # <<>>
  PROVE  /\ Len(s) \in Nat \ {0}
         /\ Head(s) \in S
         /\ Head(s) = s[1]
         /\ Tail(s) \in Seq(S)
         /\ Len(Tail(s)) = Len(s) - 1
         /\ \A i \in 1..Len(s) - 1 : Tail(s)[i] = s[i + 1]
  OBVIOUS

(* The places of a transport thread, and what they carry.                  *)
LEMMA RxFacts ==
  /\ RxIdle \in RxStates
  /\ \A pc \in {"lookup", "fast", "create", "append"}, c \in CPorts, k \in Kinds :
       /\ RxAt(pc, c, k) \in RxStates
       /\ RxAt(pc, c, k) # RxIdle
       /\ RxAt(pc, c, k).pc = pc
       /\ RxAt(pc, c, k).cport = c
       /\ RxAt(pc, c, k).kind = k
  /\ RxIdle.pc = "idle"
  /\ \A r \in RxStates : r.pc # "idle" => r.cport \in CPorts /\ r.kind \in Kinds
  BY DEF RxStates, RxAt, RxIdle, Kinds

(* Spending from a bound keeps it a bound.                                 *)
LEMMA BudgetFacts ==
  ASSUME NEW b \in Budgets
  PROVE  /\ b.msgs > 0 => [b EXCEPT !.msgs = @ - 1] \in Budgets
         /\ b.reg > 0 => [b EXCEPT !.reg = @ - 1] \in Budgets
         /\ b.unreg > 0 => [b EXCEPT !.unreg = @ - 1] \in Budgets
         /\ [b EXCEPT !.unreg = 0] \in Budgets
  BY BoundsAssumption DEF Budgets, BoundsAssumption

(* A queue is empty when its length is zero (sys_dlist_is_empty).          *)
LEMMA EmptyFacts ==
  ASSUME NEW S, NEW s \in Seq(S)
  PROVE  Len(s) \in Nat /\ (Len(s) = 0 <=> s = <<>>)
  OBVIOUS

(* Every step keeps the types.                                             *)
LEMMA TypeStep ==
  ASSUME TypeOK, [Next]_vars
  PROVE  TypeOK'
<1> USE DEF TypeOK, lifeVars, workerVars, Crash
<1>1. ASSUME NEW t \in RxThreads, NEW c \in CPorts, NEW k \in Kinds, RxCheck(t, c, k)
      PROVE  TypeOK'
  BY <1>1, RxFacts, BudgetFacts DEF RxCheck, HasDriver
<1>2. ASSUME NEW t \in RxThreads, RxReject(t) PROVE TypeOK'
  BY <1>2, BudgetFacts DEF RxReject
<1>3. ASSUME NEW t \in RxThreads, RxCheckNoTable(t) PROVE TypeOK'
  BY <1>3 DEF RxCheckNoTable, NoTable
<1>4. ASSUME NEW t \in RxThreads, RxLookup(t) PROVE TypeOK'
  BY <1>4, RxFacts DEF RxLookup
<1>5. ASSUME NEW t \in RxThreads, RxLookupNull(t) PROVE TypeOK'
  BY <1>5 DEF RxLookupNull
<1>6. ASSUME NEW t \in RxThreads, RxFastHandler(t) PROVE TypeOK'
  BY <1>6, RxFacts DEF RxFastHandler
<1>7. ASSUME NEW t \in RxThreads, RxCreate(t) PROVE TypeOK'
  <2>1. rx[t] \in RxStates /\ rx[t].cport \in CPorts /\ rx[t].kind \in Kinds
    BY <1>7, RxFacts DEF RxCreate
  <2>2. RxAt("append", rx[t].cport, rx[t].kind) \in RxStates /\ RxIdle \in RxStates
    BY <2>1, RxFacts
  <2>3. rx' \in [RxThreads -> RxStates]
    BY <1>7, <2>2 DEF RxCreate
  <2> QED
    BY <1>7, <2>3 DEF RxCreate
<1>8. ASSUME NEW t \in RxThreads, RxAppend(t) PROVE TypeOK'
  <2> DEFINE c == rx[t].cport
             m == [seq |-> accepted[c] + 1, kind |-> rx[t].kind]
  <2>1. rx[t] \in RxStates /\ c \in CPorts /\ rx[t].kind \in Kinds
    BY <1>8, RxFacts DEF RxAppend, Enqueue, Post
  <2>2. m \in Messages
    BY <2>1 DEF Messages
  <2>3. rx_fifo' \in [CPorts -> Seq(Messages)]
    BY <1>8, <2>1, <2>2, AppendFacts DEF RxAppend, Enqueue, Post
  <2>4. rx' \in [RxThreads -> RxStates]
    BY <1>8, RxFacts DEF RxAppend, Enqueue, Post
  <2> QED
    <3>1. accepted' \in [CPorts -> Nat] /\ rx_sem' \in [CPorts -> Nat]
      BY <1>8, <2>1 DEF RxAppend, Enqueue, Post
    <3> QED
      BY <1>8, <2>3, <2>4, <3>1 DEF RxAppend, Enqueue, Post
<1>9. ASSUME NEW t \in RxThreads, RxFreedTable(t) PROVE TypeOK'
  BY <1>9 DEF RxFreedTable
<1>10. ASSUME NEW c \in CPorts, WorkerWait(c) PROVE TypeOK'
  BY <1>10 DEF WorkerWait, Token
<1>11. ASSUME NEW c \in CPorts, WorkerCheck(c) PROVE TypeOK'
  BY <1>11 DEF WorkerCheck, ExitNow
<1>12. ASSUME NEW c \in CPorts, WorkerGet(c) PROVE TypeOK'
  <2>1. CASE rx_fifo[c] = <<>>
    BY <1>12, <2>1 DEF WorkerGet
  <2>2. CASE rx_fifo[c] # <<>>
    <3>1. Head(rx_fifo[c]) \in Messages /\ Tail(rx_fifo[c]) \in Seq(Messages)
      BY <2>2, TailFacts
    <3>2. <<Head(rx_fifo[c])>> \in Seq(Messages)
      BY <3>1
    <3>3. current' \in [CPorts -> Seq(Messages)] /\ rx_fifo' \in [CPorts -> Seq(Messages)]
      <4>1. /\ current' = [current EXCEPT ![c] = <<Head(rx_fifo[c])>>]
            /\ rx_fifo' = [rx_fifo EXCEPT ![c] = Tail(rx_fifo[c])]
        BY <1>12, <2>2 DEF WorkerGet
      <4> QED
        BY <3>1, <3>2, <4>1
    <3>4. worker' \in [CPorts ->
                 {"none", "wait", "woken", "get", "dispatch", "handler", "exited"}]
      BY <1>12, <2>2 DEF WorkerGet
    <3> QED
      BY <1>12, <2>2, <3>3, <3>4 DEF WorkerGet
  <2> QED
    BY <2>1, <2>2
<1>13. ASSUME NEW c \in CPorts, WorkerPingOrResponse(c) PROVE TypeOK'
  BY <1>13 DEF WorkerPingOrResponse, Finish
<1>14. ASSUME NEW c \in CPorts, WorkerLookup(c) PROVE TypeOK'
  BY <1>14 DEF WorkerLookup
<1>29. ASSUME NEW c \in CPorts, WorkerNoHandler(c) PROVE TypeOK'
  BY <1>29 DEF WorkerNoHandler, Finish
<1>15. ASSUME NEW c \in CPorts, WorkerLookupNull(c) PROVE TypeOK'
  BY <1>15 DEF WorkerLookupNull
<1>16. ASSUME NEW c \in CPorts, WorkerHandler(c) PROVE TypeOK'
  BY <1>16 DEF WorkerHandler, Finish
<1> USE DEF Call, Calls
<1>17. ASSUME NEW c \in CPorts, RegisterInit(c) PROVE TypeOK'
  BY <1>17, BudgetFacts DEF RegisterInit
<1>18. ASSUME NEW c \in CPorts, UnregisterFlag(c) PROVE TypeOK'
  BY <1>18, BudgetFacts DEF UnregisterFlag
<1>19. CASE InitCount
  BY <1>19 DEF InitCount
<1>20. CASE InitAlloc
  BY <1>20 DEF InitAlloc
<1>21. ASSUME NEW c \in CPorts, RegisterStart(c) PROVE TypeOK'
  BY <1>21 DEF RegisterStart
<1>22. ASSUME NEW c \in CPorts, RegisterStartFails(c) PROVE TypeOK'
  BY <1>22 DEF RegisterStartFails
<1>23. ASSUME NEW c \in CPorts, RegisterPublish(c) PROVE TypeOK'
  BY <1>23 DEF RegisterPublish
<1>24. ASSUME NEW c \in CPorts, UnregisterPost(c) PROVE TypeOK'
  BY <1>24 DEF UnregisterPost, PostThen, Post
<1>25. ASSUME NEW c \in CPorts, UnregisterJoin(c) PROVE TypeOK'
  BY <1>25 DEF UnregisterJoin
<1>26. ASSUME NEW c \in CPorts, UnregisterExit(c) PROVE TypeOK'
  BY <1>26 DEF UnregisterExit
<1>27. ASSUME NEW c \in CPorts, UnregisterClear(c) PROVE TypeOK'
  BY <1>27 DEF UnregisterClear
<1>28. CASE Deinit
  BY <1>28, BudgetFacts DEF Deinit
<1>30. CASE UNCHANGED vars
  BY <1>30 DEF vars
<1> QED
  BY <1>29, <1>1, <1>2, <1>3, <1>4, <1>5, <1>6, <1>7, <1>8, <1>9, <1>10, <1>11, <1>12, <1>13, <1>14, <1>15, <1>16, <1>17, <1>18, <1>19, <1>20, <1>21, <1>22, <1>23, <1>24, <1>25, <1>26, <1>27, <1>28, <1>30
     DEF Next, RxThread, Worker, Register, Unregister

(* The initial state is well-typed.                                        *)
LEMMA InitType == Init => TypeOK
  BY BoundsAssumption DEF Init, TypeOK, RxIdle, RxStates, Calls, Budgets

(* Type correctness of the receive path, for any cports, threads, bounds.  *)
THEOREM TypeCorrect == Spec => []TypeOK
<1>1. TypeOK /\ [Next]_vars => TypeOK'
  BY TypeStep
<1> QED
  BY <1>1, InitType, PTL DEF Spec

-----------------------------------------------------------------------------
(* A transport thread changes nothing of the drivers, the workers or the   *)
(* controller, and only appending touches the queues.                      *)
LEMMA RxFrame ==
  ASSUME NEW t \in RxThreads, RxThread(t)
  PROVE  /\ UNCHANGED <<lifeVars, worker, current, handled, due>>
         /\ fault' \in {fault, "g_cport", "driver"}
         /\ RxAppend(t) \/ UNCHANGED <<rx_fifo, rx_sem, accepted>>
<1> USE DEF Crash, lifeVars, workerVars
<1>1. ASSUME NEW c \in CPorts, NEW k \in Kinds, RxCheck(t, c, k)
      PROVE  UNCHANGED <<lifeVars, workerVars, accepted, due, fault>>
  BY <1>1 DEF RxCheck, HasDriver
<1>2. CASE RxReject(t)
  BY <1>2 DEF RxReject
<1>3. CASE RxCheckNoTable(t)
  BY <1>3 DEF RxCheckNoTable
<1>4. CASE RxLookup(t)
  BY <1>4 DEF RxLookup
<1>5. CASE RxLookupNull(t)
  BY <1>5 DEF RxLookupNull
<1>6. CASE RxFastHandler(t)
  BY <1>6 DEF RxFastHandler
<1>7. CASE RxCreate(t)
  BY <1>7 DEF RxCreate
<1>8. CASE RxAppend(t)
  BY <1>8 DEF RxAppend, Enqueue, Post
<1>9. CASE RxFreedTable(t)
  BY <1>9 DEF RxFreedTable
<1> QED
  BY <1>1, <1>2, <1>3, <1>4, <1>5, <1>6, <1>7, <1>8, <1>9 DEF RxThread

(* A worker changes nothing of the drivers or the controller, and nothing  *)
(* of the other cports.                                                    *)
LEMMA WorkerFrame ==
  ASSUME TypeOK, NEW c \in CPorts, Worker(c)
  PROVE  /\ UNCHANGED <<lifeVars, rx, accepted, due, budget>>
         /\ worker[c] # "none" /\ worker'[c] # "none"
         /\ \A d \in CPorts \ {c} :
              UNCHANGED <<rx_fifo[d], rx_sem[d], worker[d], current[d], handled[d]>>
<1> USE DEF Crash, lifeVars, workerVars, Finish, TypeOK
<1>1. CASE WorkerWait(c)
  BY <1>1 DEF WorkerWait, Token
<1>2. CASE WorkerCheck(c)
  BY <1>2 DEF WorkerCheck, ExitNow
<1>3. CASE WorkerGet(c)
  BY <1>3 DEF WorkerGet
<1>4. CASE WorkerPingOrResponse(c)
  BY <1>4 DEF WorkerPingOrResponse
<1>5. CASE WorkerLookup(c)
  BY <1>5 DEF WorkerLookup
<1>6. CASE WorkerNoHandler(c)
  BY <1>6 DEF WorkerNoHandler
<1>7. CASE WorkerLookupNull(c)
  BY <1>7 DEF WorkerLookupNull
<1>8. CASE WorkerHandler(c)
  BY <1>8 DEF WorkerHandler
<1> QED
  BY <1>1, <1>2, <1>3, <1>4, <1>5, <1>6, <1>7, <1>8 DEF Worker

(* The controller's place in its calls keeps determining the worker, the   *)
(* driver and exit_worker.                                                 *)
LEMMA LifeStep ==
  ASSUME TypeOK, LifeInv, WorkerInv, [Next]_vars
  PROVE  LifeInv'
<1> USE DEF LifeInv, HasWorker
<1>1. ASSUME NEW t \in RxThreads, RxThread(t) PROVE LifeInv'
  BY <1>1, RxFrame DEF lifeVars
<1>2. ASSUME NEW c \in CPorts, Worker(c) PROVE LifeInv'
  BY <1>2, WorkerFrame DEF lifeVars
<1> USE DEF TypeOK, workerVars, Call, Calls
<1>3. ASSUME NEW c \in CPorts, RegisterInit(c) PROVE LifeInv'
  BY <1>3 DEF RegisterInit
<1>4. ASSUME NEW c \in CPorts, RegisterStart(c) PROVE LifeInv'
  BY <1>4 DEF RegisterStart
<1>5. ASSUME NEW c \in CPorts, RegisterStartFails(c) PROVE LifeInv'
  BY <1>5 DEF RegisterStartFails
<1>6. ASSUME NEW c \in CPorts, RegisterPublish(c) PROVE LifeInv'
  BY <1>6 DEF RegisterPublish
<1>7. ASSUME NEW c \in CPorts, UnregisterFlag(c) PROVE LifeInv'
  BY <1>7 DEF UnregisterFlag
<1>8. ASSUME NEW c \in CPorts, UnregisterPost(c) PROVE LifeInv'
  BY <1>8 DEF UnregisterPost, PostThen, Post
<1>9. ASSUME NEW c \in CPorts, UnregisterJoin(c) PROVE LifeInv'
  BY <1>9 DEF UnregisterJoin
<1>10. ASSUME NEW c \in CPorts, UnregisterExit(c) PROVE LifeInv'
  BY <1>10 DEF UnregisterExit
<1>11. ASSUME NEW c \in CPorts, UnregisterClear(c) PROVE LifeInv'
  BY <1>11 DEF UnregisterClear
<1>12. CASE InitCount
  BY <1>12 DEF InitCount
<1>13. CASE InitAlloc
  BY <1>13 DEF InitAlloc
<1>14. CASE Deinit
  BY <1>14 DEF Deinit
<1>15. CASE UNCHANGED vars
  BY <1>15 DEF vars
<1> QED
  BY <1>1, <1>2, <1>3, <1>4, <1>5, <1>6, <1>7, <1>8, <1>9, <1>10, <1>11, <1>12, <1>13, <1>14, <1>15
     DEF Next, Register, Unregister

(* Appending a message and posting its token keeps both in step.           *)
LEMMA AppendStep ==
  ASSUME TypeOK, WorkerInv, TokensMatchQueue, NEW t \in RxThreads, RxAppend(t)
  PROVE  (WorkerInv /\ TokensMatchQueue)'
<1> DEFINE c == rx[t].cport
           m == [seq |-> accepted[c] + 1, kind |-> rx[t].kind]
<1>1. c \in CPorts /\ m \in Messages
  BY RxFacts DEF RxAppend, Enqueue, Post, Messages, TypeOK
<1>2. /\ rx_fifo' = [rx_fifo EXCEPT ![c] = Append(@, m)]
      /\ rx_sem' = [rx_sem EXCEPT ![c] = @ + 1]
      /\ UNCHANGED <<worker, current, call>>
  BY DEF RxAppend, Enqueue, Post, lifeVars
<1>3. /\ rx_fifo \in [CPorts -> Seq(Messages)]
      /\ rx_sem \in [CPorts -> Nat]
  BY DEF TypeOK
<1> HIDE DEF c, m
<1>4. \A d \in CPorts : Len(rx_fifo[d]) \in Nat /\ rx_sem[d] \in Nat
  BY <1>3, EmptyFacts
<1>5. Len(rx_fifo'[c]) = Len(rx_fifo[c]) + 1 /\ rx_fifo'[c] # <<>>
  BY <1>1, <1>2, <1>3, AppendFacts
<1>6. \A d \in CPorts \ {c} : rx_fifo'[d] = rx_fifo[d] /\ rx_sem'[d] = rx_sem[d]
  BY <1>2, <1>3
<1>7. rx_sem'[c] = rx_sem[c] + 1
  BY <1>1, <1>2, <1>3
<1>8. WorkerInv'
  BY <1>2, <1>5, <1>6 DEF WorkerInv
<1>9. TokensMatchQueue'
  <2> SUFFICES ASSUME NEW d \in CPorts
               PROVE (rx_sem[d] + HeldToken(d) = Len(rx_fifo[d]) + ExitToken(d))'
    BY DEF TokensMatchQueue
  <2>1. /\ rx_sem[d] + HeldToken(d) = Len(rx_fifo[d]) + ExitToken(d)
        /\ HeldToken(d) \in {0, 1} /\ ExitToken(d) \in {0, 1}
    BY DEF TokensMatchQueue, HeldToken, ExitToken
  <2>2. CASE d = c
    <3>1. HeldToken(d)' = HeldToken(d) /\ ExitToken(d)' = ExitToken(d)
      BY <1>2 DEF HeldToken, ExitToken
    <3> QED
      BY <1>4, <1>5, <1>7, <2>1, <2>2, <3>1
  <2>3. CASE d # c
    BY <1>2, <1>6, <2>1, <2>3 DEF HeldToken, ExitToken
  <2> QED
    BY <2>2, <2>3
<1> QED
  BY <1>8, <1>9

(* Taking a message uses up the token the worker holds.                    *)
LEMMA GetStep ==
  ASSUME TypeOK, WorkerInv, TokensMatchQueue, NEW c \in CPorts, WorkerGet(c)
  PROVE  (WorkerInv /\ TokensMatchQueue)' /\ fault' = fault
<1>1. worker[c] = "get" /\ rx_fifo[c] # <<>>
  BY DEF WorkerGet, WorkerInv
<1>2. /\ rx_fifo' = [rx_fifo EXCEPT ![c] = Tail(@)]
      /\ current' = [current EXCEPT ![c] = <<Head(rx_fifo[c])>>]
      /\ worker' = [worker EXCEPT ![c] = "dispatch"]
      /\ UNCHANGED <<rx_sem, call, fault>>
  BY <1>1 DEF WorkerGet, lifeVars
<1>3. /\ rx_fifo \in [CPorts -> Seq(Messages)]
      /\ current \in [CPorts -> Seq(Messages)]
      /\ rx_sem \in [CPorts -> Nat]
      /\ DOMAIN worker = CPorts
  BY DEF TypeOK
<1>4. \A d \in CPorts : Len(rx_fifo[d]) \in Nat /\ rx_sem[d] \in Nat
  BY <1>3, EmptyFacts
<1>5. Len(rx_fifo'[c]) = Len(rx_fifo[c]) - 1
  BY <1>1, <1>2, <1>3, TailFacts
<1>6. Len(current'[c]) = 1
  BY <1>2, <1>3
<1>7. worker'[c] = "dispatch"
  BY <1>2, <1>3
<1>8. \A d \in CPorts \ {c} : UNCHANGED <<rx_fifo[d], current[d], worker[d]>>
  BY <1>2, <1>3
<1>9. WorkerInv'
  BY <1>2, <1>6, <1>7, <1>8 DEF WorkerInv
<1>10. TokensMatchQueue'
  <2> SUFFICES ASSUME NEW d \in CPorts
               PROVE (rx_sem[d] + HeldToken(d) = Len(rx_fifo[d]) + ExitToken(d))'
    BY DEF TokensMatchQueue
  <2>1. /\ rx_sem[d] + HeldToken(d) = Len(rx_fifo[d]) + ExitToken(d)
        /\ HeldToken(d) \in {0, 1} /\ ExitToken(d) \in {0, 1}
    BY DEF TokensMatchQueue, HeldToken, ExitToken
  <2>2. CASE d = c
    <3>1. HeldToken(d) = 1 /\ HeldToken(d)' = 0 /\ ExitToken(d)' = ExitToken(d)
      BY <1>1, <1>2, <1>7, <2>2 DEF HeldToken, ExitToken
    <3> QED
      BY <1>2, <1>4, <1>5, <2>1, <2>2, <3>1
  <2>3. CASE d # c
    BY <1>2, <1>8, <2>1, <2>3 DEF HeldToken, ExitToken
  <2> QED
    BY <2>2, <2>3
<1> QED
  BY <1>2, <1>9, <1>10

(* A worker that is done with a message holds none and has nothing to get. *)
LEMMA FinishFacts ==
  ASSUME TypeOK, WorkerInv, NEW c \in CPorts, Finish(c), rx_fifo' = rx_fifo, call' = call
  PROVE  WorkerInv'
<1>1. ASSUME NEW d \in CPorts
      PROVE  /\ rx_fifo'[d] = rx_fifo[d] /\ call'[d] = call[d]
             /\ d # c => current'[d] = current[d] /\ worker'[d] = worker[d]
             /\ d = c => current'[d] = <<>> /\ worker'[d] = "wait"
  BY DEF Finish, TypeOK
<1>2. Len(<<>>) = 0
  OBVIOUS
<1> QED
  BY <1>1, <1>2 DEF WorkerInv

(* The semaphore keeps counting the queue, and the worker's place what it  *)
(* holds.                                                                  *)
LEMMA QueueStep ==
  ASSUME TypeOK, LifeInv, WorkerInv, TokensMatchQueue, [Next]_vars
  PROVE  (WorkerInv /\ TokensMatchQueue)'
<1> USE DEF LifeInv, HasWorker, WorkerInv, TokensMatchQueue, HeldToken, ExitToken
<1>1. ASSUME NEW t \in RxThreads, RxThread(t), ~RxAppend(t) PROVE (WorkerInv /\ TokensMatchQueue)'
  BY <1>1, RxFrame DEF lifeVars
<1> USE DEF lifeVars, workerVars, TypeOK
<1>2. ASSUME NEW t \in RxThreads, RxAppend(t) PROVE (WorkerInv /\ TokensMatchQueue)'
  BY <1>2, AppendStep
<1>3. ASSUME NEW c \in CPorts, WorkerWait(c) PROVE (WorkerInv /\ TokensMatchQueue)'
  <2>1. WorkerInv'
    BY <1>3 DEF WorkerWait, Token
  <2>2. TokensMatchQueue'
    BY <1>3 DEF WorkerWait, Token
  <2> QED
    BY <2>1, <2>2, Zenon
<1>4. ASSUME NEW c \in CPorts, WorkerCheck(c) PROVE (WorkerInv /\ TokensMatchQueue)'
  <2>1. rx_sem[c] \in Nat /\ HasWorker(c) /\ worker[c] = "woken"
    BY <1>4 DEF WorkerCheck, ExitNow
  <2>2. rx_sem[c] + 1 = Len(rx_fifo[c]) + ExitToken(c)
    BY <2>1
  <2>3. CASE exit_worker[c] /\ rx_fifo[c] = <<>>
    <3>1. call[c] = "join"
      BY <2>1, <2>2, <2>3, EmptyFacts
    <3> QED
      BY <1>4, <2>3, <3>1 DEF WorkerCheck, ExitNow
  <2>4. CASE ~(exit_worker[c] /\ rx_fifo[c] = <<>>)
    <3>1. rx_fifo[c] # <<>>
      BY <2>1, <2>2, <2>4, EmptyFacts
    <3> QED
      BY <1>4, <2>4, <3>1 DEF WorkerCheck, ExitNow
  <2> QED
    BY <2>3, <2>4
<1>5. ASSUME NEW c \in CPorts, WorkerGet(c) PROVE (WorkerInv /\ TokensMatchQueue)'
  BY <1>5, GetStep
<1>6. ASSUME NEW c \in CPorts, WorkerPingOrResponse(c) PROVE (WorkerInv /\ TokensMatchQueue)'
  <2>1. WorkerInv'
    BY <1>6, FinishFacts DEF WorkerPingOrResponse
  <2>2. TokensMatchQueue'
    BY <1>6 DEF WorkerPingOrResponse, Finish
  <2> QED
    BY <2>1, <2>2, Zenon
<1>7. ASSUME NEW c \in CPorts, WorkerLookup(c) PROVE (WorkerInv /\ TokensMatchQueue)'
  <2>1. WorkerInv'
    BY <1>7 DEF WorkerLookup
  <2>2. TokensMatchQueue'
    BY <1>7 DEF WorkerLookup
  <2> QED
    BY <2>1, <2>2, Zenon
<1>8. ASSUME NEW c \in CPorts, WorkerNoHandler(c) PROVE (WorkerInv /\ TokensMatchQueue)'
  <2>1. WorkerInv'
    BY <1>8, FinishFacts DEF WorkerNoHandler
  <2>2. TokensMatchQueue'
    BY <1>8 DEF WorkerNoHandler, Finish
  <2> QED
    BY <2>1, <2>2, Zenon
<1>9. ASSUME NEW c \in CPorts, WorkerLookupNull(c) PROVE (WorkerInv /\ TokensMatchQueue)'
  BY <1>9 DEF WorkerLookupNull, Crash
<1>10. ASSUME NEW c \in CPorts, WorkerHandler(c) PROVE (WorkerInv /\ TokensMatchQueue)'
  <2>1. WorkerInv'
    BY <1>10, FinishFacts DEF WorkerHandler
  <2>2. TokensMatchQueue'
    BY <1>10 DEF WorkerHandler, Finish
  <2> QED
    BY <2>1, <2>2, Zenon
<1> USE DEF Call, Calls
<1>11. ASSUME NEW c \in CPorts, RegisterInit(c) PROVE (WorkerInv /\ TokensMatchQueue)'
  <2>1. WorkerInv'
    BY <1>11 DEF RegisterInit
  <2>2. TokensMatchQueue'
    BY <1>11 DEF RegisterInit
  <2> QED
    BY <2>1, <2>2, Zenon
<1>12. ASSUME NEW c \in CPorts, RegisterStart(c) PROVE (WorkerInv /\ TokensMatchQueue)'
  <2>1. WorkerInv'
    BY <1>12 DEF RegisterStart
  <2>2. TokensMatchQueue'
    BY <1>12 DEF RegisterStart
  <2> QED
    BY <2>1, <2>2, Zenon
<1>13. ASSUME NEW c \in CPorts, RegisterStartFails(c) PROVE (WorkerInv /\ TokensMatchQueue)'
  BY <1>13 DEF RegisterStartFails
<1>14. ASSUME NEW c \in CPorts, RegisterPublish(c) PROVE (WorkerInv /\ TokensMatchQueue)'
  BY <1>14 DEF RegisterPublish
<1>15. ASSUME NEW c \in CPorts, UnregisterFlag(c) PROVE (WorkerInv /\ TokensMatchQueue)'
  BY <1>15 DEF UnregisterFlag
<1>16. ASSUME NEW c \in CPorts, UnregisterPost(c) PROVE (WorkerInv /\ TokensMatchQueue)'
  <2>1. worker[c] # "exited"
    BY <1>16 DEF UnregisterPost, PostThen, Post
  <2>2. rx_sem[c] \in Nat /\ Len(rx_fifo[c]) \in Nat
    BY EmptyFacts
  <2>3. rx_sem'[c] = rx_sem[c] + 1 /\ ExitToken(c) = 0 /\ ExitToken(c)' = 1
    BY <1>16, <2>1 DEF UnregisterPost, PostThen, Post
  <2> QED
    BY <1>16, <2>1, <2>2, <2>3 DEF UnregisterPost, PostThen, Post
<1>17. ASSUME NEW c \in CPorts, UnregisterJoin(c) PROVE (WorkerInv /\ TokensMatchQueue)'
  BY <1>17 DEF UnregisterJoin
<1>18. ASSUME NEW c \in CPorts, UnregisterExit(c) PROVE (WorkerInv /\ TokensMatchQueue)'
  BY <1>18 DEF UnregisterExit
<1>19. ASSUME NEW c \in CPorts, UnregisterClear(c) PROVE (WorkerInv /\ TokensMatchQueue)'
  BY <1>19 DEF UnregisterClear
<1>20. CASE InitCount \/ InitAlloc \/ Deinit
  <2>1. WorkerInv'
    BY <1>20 DEF InitCount, InitAlloc, Deinit
  <2>2. TokensMatchQueue'
    BY <1>20 DEF InitCount, InitAlloc, Deinit
  <2> QED
    BY <2>1, <2>2, Zenon
<1>21. CASE UNCHANGED vars
  BY <1>21 DEF vars
<1> QED
  BY <1>1, <1>2, <1>3, <1>4, <1>5, <1>6, <1>7, <1>8, <1>9, <1>10, <1>11, <1>12, <1>13, <1>14, <1>15, <1>16, <1>17, <1>18, <1>19, <1>20, <1>21
     DEF Next, Worker, Register, Unregister

(* Appending the next message, and taking the first, keep a queue          *)
(* consecutive.                                                            *)
LEMMA ConsecutiveFacts ==
  ASSUME NEW s \in Seq(Messages), NEW n \in Nat, Consecutive(s, n)
  PROVE  /\ \A m \in Messages :
              m.seq = n + Len(s) + 1 => Consecutive(Append(s, m), n)
         /\ s # <<>> => /\ Consecutive(<<Head(s)>>, n)
                        /\ Consecutive(Tail(s), n + 1)
<1>1. Len(s) \in Nat
  BY EmptyFacts
<1>2. ASSUME NEW m \in Messages, m.seq = n + Len(s) + 1
      PROVE  Consecutive(Append(s, m), n)
  <2>1. /\ Len(Append(s, m)) = Len(s) + 1
        /\ \A i \in 1..Len(s) : Append(s, m)[i] = s[i]
        /\ Append(s, m)[Len(s) + 1] = m
    BY AppendFacts
  <2>2. ASSUME NEW i \in 1..Len(s) + 1 PROVE Append(s, m)[i].seq = n + i
    <3>1. CASE i = Len(s) + 1
      BY <1>1, <1>2, <2>1, <3>1
    <3>2. CASE i \in 1..Len(s)
      BY <2>1, <3>2 DEF Consecutive
    <3> QED
      BY <1>1, <3>1, <3>2
  <2> QED
    BY <2>1, <2>2 DEF Consecutive
<1>3. ASSUME s # <<>> PROVE Consecutive(<<Head(s)>>, n) /\ Consecutive(Tail(s), n + 1)
  <2>1. /\ Len(s) \in Nat \ {0}
        /\ Head(s) = s[1]
        /\ Len(Tail(s)) = Len(s) - 1
        /\ \A i \in 1..Len(s) - 1 : Tail(s)[i] = s[i + 1]
    BY <1>3, TailFacts
  <2>2. Consecutive(<<Head(s)>>, n)
    BY <2>1 DEF Consecutive
  <2>3. ASSUME NEW i \in 1..Len(s) - 1 PROVE Tail(s)[i].seq = n + 1 + i
    <3>1. i + 1 \in 1..Len(s) /\ n + (i + 1) = n + 1 + i
      BY <2>1
    <3> QED
      BY <2>1, <3>1 DEF Consecutive
  <2>4. Consecutive(Tail(s), n + 1)
    BY <2>1, <2>3 DEF Consecutive
  <2> QED
    BY <2>2, <2>4
<1> QED
  BY <1>2, <1>3

(* One message leaves the worker's hand: it is the next one to be finished. *)
LEMMA FinishStep ==
  ASSUME TypeOK, WorkerInv, InOrder, NEW c \in CPorts,
         worker[c] \in {"dispatch", "handler"}, Finish(c),
         UNCHANGED <<rx_fifo, accepted>>
  PROVE  InOrder'
<1>1. Len(current[c]) = 1
  BY DEF WorkerInv
<1>2. /\ current \in [CPorts -> Seq(Messages)]
      /\ handled \in [CPorts -> Nat]
      /\ rx_fifo \in [CPorts -> Seq(Messages)]
  BY DEF TypeOK
<1>3. /\ current'[c] = <<>> /\ handled'[c] = handled[c] + 1
      /\ \A d \in CPorts \ {c} : UNCHANGED <<current[d], handled[d]>>
  BY <1>2 DEF Finish
<1>4. Len(current'[c]) = 0 /\ Len(rx_fifo[c]) \in Nat /\ handled[c] \in Nat
  BY <1>2, <1>3, EmptyFacts
<1>5. ASSUME NEW d \in CPorts
      PROVE  /\ (accepted[d] = handled[d] + Len(current[d]) + Len(rx_fifo[d]))'
             /\ Consecutive(current[d], handled[d])'
             /\ Consecutive(rx_fifo[d], handled[d] + Len(current[d]))'
  <2>1. CASE d = c
    <3>1. Consecutive(current'[c], handled'[c])
      BY <1>4 DEF Consecutive
    <3>2. handled'[c] + Len(current'[c]) = handled[c] + Len(current[c])
      BY <1>1, <1>3, <1>4
    <3> QED
      BY <2>1, <3>1, <3>2 DEF InOrder
  <2>2. CASE d # c
    BY <1>3, <2>2 DEF InOrder
  <2> QED
    BY <2>1, <2>2
<1> QED
  BY <1>5 DEF InOrder

(* An appended message is the next one accepted.                           *)
LEMMA AppendOrder ==
  ASSUME TypeOK, InOrder, NEW t \in RxThreads, RxAppend(t)
  PROVE  InOrder'
<1> DEFINE c == rx[t].cport
           m == [seq |-> accepted[c] + 1, kind |-> rx[t].kind]
<1>1. c \in CPorts /\ m \in Messages /\ m.seq = accepted[c] + 1
  BY RxFacts DEF RxAppend, Enqueue, Post, Messages, TypeOK
<1>2. /\ rx_fifo' = [rx_fifo EXCEPT ![c] = Append(@, m)]
      /\ accepted' = [accepted EXCEPT ![c] = @ + 1]
      /\ UNCHANGED <<handled, current>>
  BY DEF RxAppend, Enqueue, Post
<1>3. /\ rx_fifo \in [CPorts -> Seq(Messages)]
      /\ current \in [CPorts -> Seq(Messages)]
      /\ accepted \in [CPorts -> Nat]
      /\ handled \in [CPorts -> Nat]
  BY DEF TypeOK
<1> HIDE DEF c, m
<1>4. /\ Len(rx_fifo[c]) \in Nat /\ Len(current[c]) \in Nat
      /\ handled[c] \in Nat /\ accepted[c] \in Nat
  BY <1>1, <1>3, EmptyFacts
<1>5. rx_fifo'[c] = Append(rx_fifo[c], m) /\ accepted'[c] = accepted[c] + 1
  BY <1>1, <1>2, <1>3
<1>6. Len(rx_fifo'[c]) = Len(rx_fifo[c]) + 1
  BY <1>1, <1>3, <1>5, AppendFacts
<1>7. /\ accepted[c] = handled[c] + Len(current[c]) + Len(rx_fifo[c])
      /\ Consecutive(rx_fifo[c], handled[c] + Len(current[c]))
  BY <1>1 DEF InOrder
<1>8. Consecutive(rx_fifo'[c], handled[c] + Len(current[c]))
  <2> DEFINE n == handled[c] + Len(current[c])
  <2>1. n \in Nat /\ m.seq = n + Len(rx_fifo[c]) + 1
    BY <1>1, <1>4, <1>7
  <2>2. Consecutive(rx_fifo[c], n) /\ rx_fifo[c] \in Seq(Messages)
    BY <1>1, <1>3, <1>7
  <2> HIDE DEF n
  <2>3. Consecutive(Append(rx_fifo[c], m), n)
    BY <1>1, <2>1, <2>2, ConsecutiveFacts
  <2> QED
    BY <1>5, <2>3 DEF n
<1>9. ASSUME NEW d \in CPorts
      PROVE  /\ (accepted[d] = handled[d] + Len(current[d]) + Len(rx_fifo[d]))'
             /\ Consecutive(current[d], handled[d])'
             /\ Consecutive(rx_fifo[d], handled[d] + Len(current[d]))'
  <2>1. CASE d = c
    <3>1. accepted'[c] = handled'[c] + Len(current'[c]) + Len(rx_fifo'[c])
      BY <1>2, <1>4, <1>5, <1>6, <1>7
    <3> QED
      BY <1>2, <1>8, <2>1, <3>1 DEF InOrder
  <2>2. CASE d # c
    <3>1. rx_fifo'[d] = rx_fifo[d] /\ accepted'[d] = accepted[d]
      BY <1>2, <1>3, <2>2
    <3> QED
      BY <1>2, <3>1 DEF InOrder
  <2> QED
    BY <2>1, <2>2
<1> QED
  BY <1>9 DEF InOrder

(* The message taken is the next one to be finished.                       *)
LEMMA GetOrder ==
  ASSUME TypeOK, WorkerInv, InOrder, NEW c \in CPorts, WorkerGet(c)
  PROVE  InOrder'
<1>1. rx_fifo[c] # <<>> /\ Len(current[c]) = 0
  BY DEF WorkerGet, WorkerInv
<1>2. /\ rx_fifo' = [rx_fifo EXCEPT ![c] = Tail(@)]
      /\ current' = [current EXCEPT ![c] = <<Head(rx_fifo[c])>>]
      /\ UNCHANGED <<accepted, handled>>
  BY <1>1 DEF WorkerGet
<1>3. /\ rx_fifo \in [CPorts -> Seq(Messages)]
      /\ current \in [CPorts -> Seq(Messages)]
      /\ handled[c] \in Nat
  BY DEF TypeOK
<1>4. /\ rx_fifo'[c] = Tail(rx_fifo[c])
      /\ current'[c] = <<Head(rx_fifo[c])>>
      /\ \A d \in CPorts \ {c} : UNCHANGED <<rx_fifo[d], current[d]>>
  BY <1>2, <1>3
<1>5. /\ Len(rx_fifo[c]) \in Nat \ {0}
      /\ Len(rx_fifo'[c]) = Len(rx_fifo[c]) - 1
  BY <1>1, <1>3, <1>4, TailFacts
<1>6. Len(current'[c]) = 1
  BY <1>4
<1>7. accepted[c] = handled[c] + Len(rx_fifo[c]) /\ Consecutive(rx_fifo[c], handled[c])
  <2>1. handled[c] + Len(current[c]) = handled[c]
    BY <1>1, <1>3
  <2> QED
    BY <2>1 DEF InOrder
<1>8. Consecutive(current'[c], handled[c]) /\ Consecutive(rx_fifo'[c], handled[c] + 1)
  BY <1>1, <1>3, <1>4, <1>7, ConsecutiveFacts
<1>9. ASSUME NEW d \in CPorts
      PROVE  /\ (accepted[d] = handled[d] + Len(current[d]) + Len(rx_fifo[d]))'
             /\ Consecutive(current[d], handled[d])'
             /\ Consecutive(rx_fifo[d], handled[d] + Len(current[d]))'
  <2>1. CASE d = c
    <3>1. accepted'[c] = handled'[c] + Len(current'[c]) + Len(rx_fifo'[c])
      BY <1>2, <1>3, <1>5, <1>6, <1>7
    <3> QED
      BY <1>2, <1>6, <1>8, <2>1, <3>1
  <2>2. CASE d # c
    BY <1>2, <1>4, <2>2 DEF InOrder
  <2> QED
    BY <2>1, <2>2
<1> QED
  BY <1>9 DEF InOrder

(* The order of acceptance is kept by every step.                          *)
LEMMA OrderStep ==
  ASSUME TypeOK, WorkerInv, InOrder, [Next]_vars
  PROVE  InOrder'
<1>1. CASE UNCHANGED <<rx_fifo, current, handled, accepted>>
  BY <1>1 DEF InOrder
<1>2. ASSUME NEW t \in RxThreads, RxThread(t) PROVE InOrder'
  BY <1>1, <1>2, RxFrame, AppendOrder
<1>3. ASSUME NEW c \in CPorts, Worker(c) PROVE InOrder'
  <2>1. CASE WorkerWait(c) \/ WorkerCheck(c) \/ WorkerLookup(c) \/ WorkerLookupNull(c)
    BY <1>1, <2>1 DEF WorkerWait, Token, WorkerCheck, ExitNow, WorkerLookup, WorkerLookupNull,
                      Crash, workerVars
  <2>2. CASE WorkerGet(c)
    BY <2>2, GetOrder
  <2>3. CASE WorkerPingOrResponse(c) \/ WorkerNoHandler(c) \/ WorkerHandler(c)
    BY <2>3, FinishStep DEF WorkerPingOrResponse, WorkerNoHandler, WorkerHandler
  <2> QED
    BY <1>3, <2>1, <2>2, <2>3 DEF Worker
<1>4. ASSUME NEW c \in CPorts, Register(c) \/ Unregister(c) PROVE InOrder'
  BY <1>1, <1>4 DEF Register, Unregister, workerVars, RegisterInit, RegisterStart,
     RegisterStartFails, RegisterPublish, UnregisterFlag, UnregisterPost, PostThen, Post,
     UnregisterJoin, UnregisterExit, UnregisterClear
<1>5. CASE InitCount \/ InitAlloc \/ Deinit \/ UNCHANGED vars
  BY <1>1, <1>5 DEF InitCount, InitAlloc, Deinit, vars, workerVars
<1> QED
  BY <1>2, <1>3, <1>4, <1>5 DEF Next

(* When the worker leaves, everything accepted so far is finished, and so  *)
(* everything accepted before the unregistration.                          *)
LEMMA DrainStep ==
  ASSUME TypeOK, WorkerInv, InOrder, DrainInv, [Next]_vars
  PROVE  DrainInv'
<1> USE DEF TypeOK, DrainInv
<1>1. ASSUME NEW t \in RxThreads, RxThread(t), ~RxAppend(t) PROVE DrainInv'
  BY <1>1, RxFrame DEF lifeVars
<1>2. ASSUME NEW t \in RxThreads, RxAppend(t) PROVE DrainInv'
  BY <1>2, RxFacts DEF RxAppend, Enqueue, Post, lifeVars
<1>3. ASSUME NEW c \in CPorts, WorkerCheck(c) PROVE DrainInv'
  <2>1. rx_fifo[c] = <<>> => accepted[c] = handled[c]
    <3>1. Len(current[c]) = 0 /\ (rx_fifo[c] = <<>> => Len(rx_fifo[c]) = 0)
      BY <1>3 DEF WorkerCheck, ExitNow, WorkerInv
    <3> QED
      BY <3>1 DEF InOrder
  <2> QED
    BY <1>3, <2>1 DEF WorkerCheck, ExitNow, lifeVars
<1>4. ASSUME NEW c \in CPorts, Worker(c), ~WorkerCheck(c) PROVE DrainInv'
  <2>1. UNCHANGED <<call, accepted, due>>
    BY <1>4, WorkerFrame DEF lifeVars
  <2>2. \A d \in CPorts :
          /\ handled[d] \in Nat /\ handled'[d] \in Nat /\ handled'[d] >= handled[d]
          /\ worker'[d] = "exited" => worker[d] = "exited"
    <3>1. CASE WorkerWait(c) \/ WorkerLookup(c) \/ WorkerLookupNull(c)
      BY <3>1 DEF WorkerWait, Token, WorkerLookup, WorkerLookupNull, Crash, workerVars
    <3>2. CASE WorkerGet(c)
      BY <3>2 DEF WorkerGet, Crash, workerVars
    <3>3. CASE WorkerPingOrResponse(c) \/ WorkerNoHandler(c) \/ WorkerHandler(c)
      <4>1. Finish(c)
        BY <3>3 DEF WorkerPingOrResponse, WorkerNoHandler, WorkerHandler
      <4> QED
        BY <4>1 DEF Finish
    <3> QED
      BY <1>4, <3>1, <3>2, <3>3 DEF Worker
  <2>3. \A d \in CPorts : due[d] \in Nat /\ accepted[d] \in Nat
    OBVIOUS
  <2> QED
    BY <2>1, <2>2, <2>3
<1> USE DEF Call, Calls, workerVars
<1>5. ASSUME NEW c \in CPorts, RegisterInit(c) PROVE DrainInv'
  BY <1>5 DEF RegisterInit
<1>6. ASSUME NEW c \in CPorts, RegisterStart(c) PROVE DrainInv'
  BY <1>6 DEF RegisterStart
<1>7. ASSUME NEW c \in CPorts, RegisterStartFails(c) PROVE DrainInv'
  BY <1>7 DEF RegisterStartFails
<1>8. ASSUME NEW c \in CPorts, RegisterPublish(c) PROVE DrainInv'
  BY <1>8 DEF RegisterPublish
<1>9. ASSUME NEW c \in CPorts, UnregisterFlag(c) PROVE DrainInv'
  BY <1>9 DEF UnregisterFlag, WorkerInv
<1>10. ASSUME NEW c \in CPorts, UnregisterPost(c) PROVE DrainInv'
  BY <1>10 DEF UnregisterPost, PostThen, Post
<1>11. ASSUME NEW c \in CPorts, UnregisterJoin(c) PROVE DrainInv'
  BY <1>11 DEF UnregisterJoin
<1>12. ASSUME NEW c \in CPorts, UnregisterExit(c) PROVE DrainInv'
  BY <1>12 DEF UnregisterExit
<1>13. ASSUME NEW c \in CPorts, UnregisterClear(c) PROVE DrainInv'
  BY <1>13 DEF UnregisterClear
<1>14. CASE InitCount \/ InitAlloc \/ Deinit \/ UNCHANGED vars
  BY <1>14 DEF InitCount, InitAlloc, Deinit, vars
<1> QED
  BY <1>1, <1>2, <1>3, <1>4, <1>5, <1>6, <1>7, <1>8, <1>9, <1>10, <1>11, <1>12, <1>13, <1>14
     DEF Next, Register, Unregister

(* No step of a worker reads the head of an empty queue.                   *)
LEMMA DequeueStep ==
  ASSUME TypeOK, WorkerInv, TokensMatchQueue, DequeueNeverEmpty, [Next]_vars
  PROVE  DequeueNeverEmpty'
<1> USE DEF DequeueNeverEmpty
<1>1. ASSUME NEW t \in RxThreads, RxThread(t) PROVE DequeueNeverEmpty'
  BY <1>1, RxFrame
<1>2. ASSUME NEW c \in CPorts, Worker(c) PROVE DequeueNeverEmpty'
  BY <1>2, GetStep DEF Worker, WorkerWait, Token, WorkerCheck, ExitNow, WorkerPingOrResponse,
     WorkerLookup, WorkerNoHandler, WorkerLookupNull, WorkerHandler, Crash
<1>3. ASSUME NEW c \in CPorts, Register(c) \/ Unregister(c) PROVE DequeueNeverEmpty'
  BY <1>3 DEF Register, Unregister, RegisterInit, RegisterStart,
     RegisterStartFails, RegisterPublish, UnregisterFlag, UnregisterPost, PostThen, Post,
     UnregisterJoin, UnregisterExit, UnregisterClear
<1>4. CASE InitCount \/ InitAlloc \/ Deinit \/ UNCHANGED vars
  BY <1>4 DEF InitCount, InitAlloc, Deinit, vars
<1> QED
  BY <1>1, <1>2, <1>3, <1>4 DEF Next

-----------------------------------------------------------------------------
(* Before the first unregistration a thread that is past the check of      *)
(* driver, and a message that was queued, have a driver.                   *)
NullInv ==
  budget.unreg = MaxUnregister =>
    /\ fault # "driver"
    /\ \A t \in RxThreads : rx[t].pc # "idle" => driver[rx[t].cport]
    /\ \A c \in CPorts :
         /\ ~driver[c] => rx_fifo[c] = <<>> /\ current[c] = <<>>
         /\ call[c] \notin {"post", "join", "exit", "clear"}

(* The bound on unregistrations is only used up.                           *)
LEMMA UnregFacts ==
  ASSUME TypeOK, [Next]_vars, budget'.unreg = MaxUnregister
  PROVE  /\ budget.unreg = MaxUnregister
         /\ \A c \in CPorts : ~UnregisterFlag(c)
         /\ ~Deinit
<1>1. budget \in Budgets /\ MaxUnregister \in Nat
  BY BoundsAssumption DEF TypeOK, BoundsAssumption
<1>2. budget.unreg \in 0..MaxUnregister
  BY <1>1 DEF Budgets
<1>3. ASSUME NEW c \in CPorts PROVE ~UnregisterFlag(c)
  BY <1>1, <1>2 DEF UnregisterFlag, Budgets
<1>4. ~Deinit
  BY <1>1, <1>2 DEF Deinit, Budgets
<1>5. ASSUME NEW t \in RxThreads, RxThread(t) PROVE budget'.unreg = budget.unreg
  BY <1>1, <1>5 DEF RxThread, RxCheck, RxReject, RxCheckNoTable, RxLookup, RxLookupNull,
     RxFastHandler, RxCreate, RxAppend, RxFreedTable, Crash, Budgets
<1>6. ASSUME NEW c \in CPorts, Worker(c) PROVE budget' = budget
  BY <1>6, WorkerFrame
<1>7. ASSUME NEW c \in CPorts, Register(c) PROVE budget'.unreg = budget.unreg
  BY <1>1, <1>7 DEF Register, RegisterInit, RegisterStart, RegisterStartFails,
     RegisterPublish, Budgets
<1>8. ASSUME NEW c \in CPorts, Unregister(c), ~UnregisterFlag(c) PROVE budget' = budget
  BY <1>8 DEF Unregister, UnregisterPost, PostThen, UnregisterJoin, UnregisterExit,
     UnregisterClear
<1>9. InitCount \/ InitAlloc \/ UNCHANGED vars => budget' = budget
  BY DEF InitCount, InitAlloc, vars
<1> QED
  BY <1>3, <1>4, <1>5, <1>6, <1>7, <1>8, <1>9 DEF Next

(* Without an unregistration no step reads a NULL driver.                  *)
LEMMA NullStep ==
  ASSUME TypeOK, LifeInv, WorkerInv, NullInv, [Next]_vars
  PROVE  NullInv'
<1> SUFFICES ASSUME budget'.unreg = MaxUnregister PROVE NullInv'
  BY DEF NullInv
<1>1. /\ budget.unreg = MaxUnregister
      /\ \A c \in CPorts : ~UnregisterFlag(c)
      /\ ~Deinit
  BY UnregFacts
<1> USE DEF NullInv, TypeOK
<1>2. ASSUME NEW t \in RxThreads, RxThread(t) PROVE NullInv'
  <2> USE DEF Crash, lifeVars, workerVars
  <2>1. ASSUME NEW c \in CPorts, NEW k \in Kinds, RxCheck(t, c, k) PROVE NullInv'
    BY <1>1, <2>1, RxFacts DEF RxCheck, HasDriver
  <2>2. CASE RxReject(t) \/ RxCheckNoTable(t) \/ RxFreedTable(t)
    BY <1>1, <2>2 DEF RxReject, RxCheckNoTable, RxFreedTable
  <2>3. CASE RxLookup(t)
    <3>1. rx[t].cport \in CPorts /\ rx[t].kind \in Kinds
      BY <2>3, RxFacts DEF RxLookup
    <3> QED
      BY <1>1, <2>3, <3>1, RxFacts, SMTT(20) DEF RxLookup
  <2>4. CASE RxLookupNull(t)
    BY <1>1, <2>4 DEF RxLookupNull
  <2>5. CASE RxFastHandler(t)
    BY <1>1, <2>5 DEF RxFastHandler, RxIdle
  <2>6. CASE RxCreate(t)
    <3>1. rx[t].cport \in CPorts /\ rx[t].kind \in Kinds
      BY <2>6, RxFacts DEF RxCreate
    <3>2. \A u \in RxThreads : rx'[u].pc # "idle" =>
            rx[u].pc # "idle" /\ rx'[u].cport = rx[u].cport
      <4>1. PICK c \in CPorts, k \in Kinds : c = rx[t].cport /\ k = rx[t].kind
        BY <3>1
      <4>2. RxAt("append", c, k).cport = c /\ rx[t].pc = "create"
        BY <2>6, RxFacts DEF RxCreate
      <4>3. \A u \in RxThreads \ {t} : rx'[u] = rx[u]
        BY <2>6 DEF RxCreate
      <4>4. rx'[t] = RxAt("append", c, k) \/ rx'[t] = RxIdle
        BY <2>6, <4>1 DEF RxCreate
      <4>5. rx'[t].pc # "idle" => rx[t].pc # "idle" /\ rx'[t].cport = rx[t].cport
        <5>1. rx[t].pc # "idle"
          BY <4>2
        <5>2. rx'[t] = RxIdle => rx'[t].pc = "idle"
          BY DEF RxIdle
        <5> QED
          BY <4>1, <4>2, <4>4, <5>1, <5>2
      <4> QED
        BY <4>3, <4>5
    <3>3. UNCHANGED <<driver, rx_fifo, current, call, fault>>
      BY <2>6 DEF RxCreate
    <3> QED
      BY <1>1, <3>2, <3>3
  <2>7. CASE RxAppend(t)
    <3>1. rx[t].cport \in CPorts /\ driver[rx[t].cport]
      BY <1>1, <2>7, RxFacts DEF RxAppend
    <3>2. /\ \A c \in CPorts : c # rx[t].cport => rx_fifo'[c] = rx_fifo[c]
          /\ \A u \in RxThreads : rx'[u].pc # "idle" => rx'[u] = rx[u] /\ rx[u].pc # "idle"
          /\ UNCHANGED <<driver, current, call, fault>>
      BY <2>7, <3>1 DEF RxAppend, Enqueue, RxIdle
    <3>3. \A c \in CPorts : ~driver[c] => c # rx[t].cport
      BY <3>1
    <3>4. \A c \in CPorts : ~driver'[c] => rx_fifo'[c] = <<>> /\ current'[c] = <<>>
      BY <1>1, <3>2, <3>3
    <3>5. \A u \in RxThreads : rx'[u].pc # "idle" => driver'[rx'[u].cport]
      BY <1>1, <3>2
    <3>6. fault' # "driver" /\ \A c \in CPorts : call'[c] \notin {"post", "join", "exit", "clear"}
      BY <1>1, <3>2
    <3> QED
      BY <3>4, <3>5, <3>6
  <2> QED
    BY <1>2, <2>1, <2>2, <2>3, <2>4, <2>5, <2>6, <2>7 DEF RxThread
<1>3. ASSUME NEW c \in CPorts, Worker(c) PROVE NullInv'
  <2>1. /\ UNCHANGED <<driver, call, rx>>
        /\ \A d \in CPorts \ {c} : UNCHANGED <<rx_fifo[d], current[d]>>
    BY <1>3, WorkerFrame DEF lifeVars
  <2>2. ~driver[c] => rx_fifo[c] = <<>> /\ current[c] = <<>>
    BY <1>1
  <2>3. /\ ~driver[c] => rx_fifo'[c] = <<>> /\ current'[c] = <<>>
        /\ fault' # "driver"
    <3> USE DEF Crash, workerVars
    <3>1. CASE WorkerWait(c) \/ WorkerCheck(c) \/ WorkerLookup(c)
      BY <1>1, <2>2, <3>1 DEF WorkerWait, WorkerCheck, WorkerLookup
    <3>2. CASE WorkerGet(c)
      BY <1>1, <2>2, <3>2 DEF WorkerGet
    <3>3. CASE WorkerPingOrResponse(c) \/ WorkerNoHandler(c) \/ WorkerHandler(c)
      BY <1>1, <2>2, <3>3 DEF WorkerPingOrResponse, WorkerNoHandler, WorkerHandler, Finish
    <3>4. CASE WorkerLookupNull(c)
      <4>1. ~driver[c] /\ worker[c] = "dispatch"
        BY <3>4 DEF WorkerLookupNull
      <4>2. Len(current[c]) = 1 /\ current[c] = <<>>
        BY <2>2, <4>1 DEF WorkerInv
      <4> QED
        BY <4>2
    <3> QED
      BY <1>3, <3>1, <3>2, <3>3, <3>4 DEF Worker
  <2> QED
    BY <1>1, <2>1, <2>3
<1>4. ASSUME NEW c \in CPorts, Register(c) PROVE NullInv'
  <2>1. /\ UNCHANGED <<rx, rx_fifo, current, fault>>
        /\ \A d \in CPorts : /\ driver[d] => driver'[d]
                             /\ call'[d] \notin {"post", "join", "exit", "clear"}
    BY <1>1, <1>4 DEF Register, RegisterInit, RegisterStart, RegisterStartFails,
       RegisterPublish, Call, workerVars
  <2>2. \A u \in RxThreads : rx[u].pc # "idle" => rx[u].cport \in CPorts
    BY RxFacts DEF RxStates, RxIdle
  <2>3. \A u \in RxThreads : rx'[u].pc # "idle" => driver'[rx'[u].cport]
    BY <1>1, <2>1, <2>2
  <2> QED
    BY <1>1, <2>1, <2>3
<1>5. ASSUME NEW c \in CPorts, Unregister(c) PROVE NullInv'
  BY <1>1, <1>5 DEF Unregister, UnregisterPost, PostThen, UnregisterJoin, UnregisterExit,
     UnregisterClear, Call
<1>6. CASE InitCount \/ InitAlloc \/ UNCHANGED vars
  BY <1>1, <1>6 DEF InitCount, InitAlloc, vars, workerVars
<1> QED
  BY <1>1, <1>2, <1>3, <1>4, <1>5, <1>6 DEF Next

-----------------------------------------------------------------------------
(* The inductive invariant: what the application's calls fix, what the     *)
(* worker holds, and the three promises that rest on each other.           *)
IInv ==
  /\ TypeOK
  /\ LifeInv
  /\ WorkerInv
  /\ TokensMatchQueue
  /\ InOrder
  /\ DrainInv
  /\ DequeueNeverEmpty
  /\ NullInv

(* The inductive invariant holds in every reachable state.                 *)
THEOREM Inductive == Spec => []IInv
<1>1. Init => IInv
  BY InitType DEF Init, IInv, LifeInv, HasWorker, WorkerInv, TokensMatchQueue,
     HeldToken, ExitToken, InOrder, Consecutive, DrainInv, DequeueNeverEmpty, NullInv,
     RxIdle
<1>2. IInv /\ [Next]_vars => IInv'
  BY TypeStep, LifeStep, QueueStep, OrderStep, DrainStep, DequeueStep, NullStep
     DEF IInv
<1> QED
  BY <1>1, <1>2, PTL DEF Spec

(* One token of the semaphore per queued message, and one for the exit     *)
(* (greybus-core.c:388-401, 508-511, 538-540).                             *)
THEOREM TokensCorrect == Spec => []TokensMatchQueue
<1>1. IInv => TokensMatchQueue
  BY DEF IInv
<1> QED
  BY <1>1, Inductive, PTL

(* The worker never dereferences the head of an empty rx_fifo              *)
(* (greybus-core.c:397-402).                                               *)
THEOREM DequeueCorrect == Spec => []DequeueNeverEmpty
<1>1. IInv => DequeueNeverEmpty
  BY DEF IInv
<1> QED
  BY <1>1, Inductive, PTL

(* Messages are finished exactly once, in the order of acceptance          *)
(* (greybus-core.c:397-414, 508-511).                                      *)
THEOREM OrderCorrect == Spec => []InOrder
<1>1. IInv => InOrder
  BY DEF IInv
<1> QED
  BY <1>1, Inductive, PTL

(* driver->exit is called only on a drained queue (greybus-core.c:538-546). *)
THEOREM DrainCorrect == Spec => []DrainedBeforeExit
<1>1. IInv => DrainedBeforeExit
  BY DEF IInv, DrainInv, DrainedBeforeExit
<1> QED
  BY <1>1, Inductive, PTL

(* Handlers run between init and exit only (greybus-core.c:266, 544, 614). *)
THEOREM HandlerCorrect == Spec => []HandlerWhileInited
<1>1. IInv => HandlerWhileInited
  BY DEF IInv, LifeInv, HasWorker, HandlerWhileInited
<1> QED
  BY <1>1, Inductive, PTL

(* Without an unregistration no thread reads a NULL driver                 *)
(* (greybus-core.c:218, 465, 638).                                         *)
THEOREM NullDriverCorrect == Spec => []NullDriverNeedsUnregister
<1>1. IInv => NullDriverNeedsUnregister
  <2> SUFFICES ASSUME IInv, fault = "driver" PROVE budget.unreg < MaxUnregister
    BY DEF NullDriverNeedsUnregister
  <2>1. budget.unreg \in 0..MaxUnregister /\ MaxUnregister \in Nat
    BY BoundsAssumption DEF IInv, TypeOK, Budgets, BoundsAssumption
  <2> QED
    BY <2>1 DEF IInv, NullInv
<1> QED
  BY <1>1, Inductive, PTL
-----------------------------------------------------------------------------
(* The refinement: rx_fifo, rx_fifo_lock and the worker of a cport are a   *)
(* mailbox.  MCGbDispatch checks the same with its liveness for one cport. *)
Mail(c) == INSTANCE Mailbox WITH
  Message <- Messages,
  box <- rx_fifo[c],
  running <- current[c],
  consumer <- IF worker[c] \in {"none", "exited"} THEN "off"
              ELSE IF exit_worker[c] THEN "leaving" ELSE "on",
  status <- IF fault = "none" THEN "live" ELSE "stopped"

(* What leaves the queue, the message in hand and the worker of a cport    *)
(* alone does nothing to its mailbox, or stops the system.                 *)
LEMMA MailStill ==
  ASSUME NEW c \in CPorts, fault = "none",
         UNCHANGED <<rx_fifo[c], current[c], worker[c], exit_worker[c]>>
  PROVE  [Mail(c)!Next]_(Mail(c)!vars)
<1>1. CASE fault' = "none"
  BY <1>1 DEF Mail!vars
<1>2. CASE fault' # "none"
  BY <1>2 DEF Mail!Next, Mail!Stop
<1> QED
  BY <1>1, <1>2

(* sys_dlist_append in greybus_rx_handler puts a message into the mailbox. *)
LEMMA MailRx ==
  ASSUME TypeOK, fault = "none", NEW c \in CPorts, NEW t \in RxThreads, RxThread(t)
  PROVE  [Mail(c)!Next]_(Mail(c)!vars)
<1>1. UNCHANGED <<exit_worker, worker, current>>
  BY RxFrame DEF lifeVars
<1>2. CASE ~RxAppend(t)
  BY <1>1, <1>2, RxFrame, MailStill
<1>3. CASE RxAppend(t)
  <2>1. PICK d \in CPorts, m \in Messages :
          /\ rx_fifo' = [rx_fifo EXCEPT ![d] = Append(@, m)]
          /\ UNCHANGED fault
    <3>1. rx[t].cport \in CPorts /\ rx[t].kind \in Kinds
      BY <1>3, RxFacts DEF RxAppend, TypeOK
    <3>2. [seq |-> accepted[rx[t].cport] + 1, kind |-> rx[t].kind] \in Messages
      BY <3>1 DEF TypeOK, Messages
    <3> QED
      BY <1>3, <3>1, <3>2 DEF RxAppend, Enqueue
  <2>2. CASE d = c
    <3>1. rx_fifo'[c] = Append(rx_fifo[c], m)
      BY <2>1, <2>2 DEF TypeOK
    <3>2. Mail(c)!Put
      BY <1>1, <2>1, <3>1 DEF Mail!Put
    <3> QED
      BY <3>2 DEF Mail!Next
  <2>3. CASE d # c
    BY <1>1, <2>1, <2>3, MailStill DEF TypeOK
  <2> QED
    BY <2>2, <2>3
<1> QED
  BY <1>2, <1>3

(* The worker takes one message at a time, finishes it, and leaves the     *)
(* mailbox only when it is empty.                                          *)
LEMMA MailWorker ==
  ASSUME TypeOK, LifeInv, WorkerInv, fault = "none", NEW c \in CPorts, Worker(c)
  PROVE  [Mail(c)!Next]_(Mail(c)!vars)
<1>1. exit_worker'[c] = exit_worker[c]
  BY WorkerFrame DEF lifeVars
<1> USE DEF TypeOK
<1>2. CASE WorkerWait(c) \/ WorkerLookup(c)
  BY <1>1, <1>2 DEF WorkerWait, WorkerLookup, workerVars, Mail!vars
<1>3. CASE WorkerCheck(c)
  <2>1. /\ worker[c] = "woken" /\ UNCHANGED <<rx_fifo, current, fault>>
        /\ worker'[c] = IF ExitNow(c) THEN "exited" ELSE "get"
    BY <1>3 DEF WorkerCheck
  <2>2. CASE ExitNow(c)
    <3>1. Len(current[c]) = 0 /\ current[c] \in Seq(Messages)
      BY <2>1 DEF WorkerInv
    <3>2. current[c] = <<>>
      BY <3>1, EmptyFacts
    <3>3. Mail(c)!Leave
      BY <1>1, <2>1, <2>2, <3>2 DEF ExitNow, Mail!Leave
    <3> QED
      BY <3>3 DEF Mail!Next
  <2>3. CASE ~ExitNow(c)
    BY <1>1, <2>1, <2>3 DEF Mail!vars
  <2> QED
    BY <2>2, <2>3
<1>4. CASE WorkerGet(c)
  <2>1. worker[c] = "get" /\ rx_fifo[c] # <<>>
    BY <1>4 DEF WorkerGet, WorkerInv
  <2>2. /\ current'[c] = <<Head(rx_fifo[c])>>
        /\ rx_fifo'[c] = Tail(rx_fifo[c])
        /\ worker'[c] = "dispatch"
        /\ UNCHANGED fault
    BY <1>4, <2>1 DEF WorkerGet
  <2>3. Len(current[c]) = 0 /\ current[c] \in Seq(Messages)
    BY <2>1 DEF WorkerInv
  <2>4. current[c] = <<>>
    BY <2>3, EmptyFacts
  <2>5. Mail(c)!Take
    BY <1>1, <2>1, <2>2, <2>4 DEF Mail!Take
  <2> QED
    BY <2>5 DEF Mail!Next
<1>5. CASE WorkerPingOrResponse(c) \/ WorkerNoHandler(c) \/ WorkerHandler(c)
  <2>1. worker[c] \in {"dispatch", "handler"} /\ Finish(c) /\ UNCHANGED <<rx_fifo, fault>>
    BY <1>5 DEF WorkerPingOrResponse, WorkerNoHandler, WorkerHandler
  <2>2. current'[c] = <<>> /\ worker'[c] = "wait"
    BY <2>1 DEF Finish
  <2>3. Len(current[c]) = 1 /\ current[c] \in Seq(Messages)
    BY <2>1 DEF WorkerInv
  <2>4. current[c] # <<>>
    <3>1. Len(current[c]) = 0 <=> current[c] = <<>>
      BY <2>3, EmptyFacts
    <3> QED
      BY <2>3, <3>1
  <2>5. Mail(c)!Done
    BY <1>1, <2>1, <2>2, <2>4 DEF Mail!Done
  <2> QED
    BY <2>5 DEF Mail!Next
<1>6. CASE WorkerLookupNull(c)
  BY <1>6, MailStill DEF WorkerLookupNull, Crash, lifeVars, workerVars
<1> QED
  BY <1>2, <1>3, <1>4, <1>5, <1>6 DEF Worker

(* pthread_create attaches the consumer, exit_worker asks it to leave.     *)
LEMMA MailCall ==
  ASSUME TypeOK, LifeInv, WorkerInv, fault = "none", NEW c \in CPorts,
         NEW d \in CPorts, Register(d) \/ Unregister(d)
  PROVE  [Mail(c)!Next]_(Mail(c)!vars)
<1>1. UNCHANGED <<rx_fifo, current, fault>>
  BY DEF Register, RegisterInit, RegisterStart, RegisterStartFails, RegisterPublish,
     Unregister, UnregisterFlag, UnregisterPost, PostThen, UnregisterJoin, UnregisterExit,
     UnregisterClear, workerVars
<1>2. CASE d # c
  <2>1. UNCHANGED <<worker[c], exit_worker[c]>>
    BY <1>2 DEF Register, RegisterInit, RegisterStart, RegisterStartFails, RegisterPublish,
     Unregister, UnregisterFlag, UnregisterPost, PostThen, UnregisterJoin, UnregisterExit,
     UnregisterClear, workerVars, TypeOK
  <2> QED
    BY <1>1, <2>1, MailStill
<1>3. CASE d = c
  <2> USE DEF Call, TypeOK
  <2>1. CASE RegisterStart(c)
    <3>1. worker[c] = "none"
      BY <2>1 DEF RegisterStart, LifeInv, HasWorker
    <3>2. worker'[c] = "wait" /\ exit_worker'[c] = FALSE
      BY <2>1 DEF RegisterStart
    <3>3. Mail(c)!Attach
      BY <1>1, <3>1, <3>2 DEF Mail!Attach
    <3> QED
      BY <3>3 DEF Mail!Next
  <2>2. CASE RegisterStartFails(c)
    <3>1. worker[c] = "none" /\ worker'[c] = "none"
      BY <2>2 DEF RegisterStartFails, LifeInv, HasWorker, workerVars
    <3> QED
      BY <1>1, <3>1 DEF Mail!vars
  <2>3. CASE UnregisterFlag(c)
    <3>1. /\ worker[c] \notin {"none", "exited"} /\ exit_worker[c] = FALSE
          /\ worker'[c] = worker[c] /\ exit_worker'[c] = TRUE
      BY <2>3 DEF UnregisterFlag, LifeInv, HasWorker, WorkerInv, workerVars
    <3>2. Mail(c)!AskToLeave
      BY <1>1, <3>1 DEF Mail!AskToLeave
    <3> QED
      BY <3>2 DEF Mail!Next
  <2>4. CASE UnregisterJoin(c)
    <3>1. worker[c] = "exited" /\ worker'[c] = "none"
      BY <2>4 DEF UnregisterJoin
    <3> QED
      BY <1>1, <3>1 DEF Mail!vars
  <2>5. CASE \/ RegisterInit(c) \/ RegisterPublish(c) \/ UnregisterPost(c)
             \/ UnregisterExit(c) \/ UnregisterClear(c)
    <3>1. UNCHANGED <<worker[c], exit_worker[c]>>
      BY <2>5 DEF RegisterInit, RegisterPublish, UnregisterPost, PostThen, UnregisterExit,
         UnregisterClear, workerVars
    <3> QED
      BY <1>1, <3>1, MailStill
  <2> QED
    BY <1>3, <2>1, <2>2, <2>3, <2>4, <2>5 DEF Register, Unregister
<1> QED
  BY <1>2, <1>3

LEMMA MailStep ==
  ASSUME NEW c \in CPorts
  PROVE  IInv /\ [Next]_vars => [Mail(c)!Next]_(Mail(c)!vars)
<1> SUFFICES ASSUME IInv, [Next]_vars PROVE [Mail(c)!Next]_(Mail(c)!vars)
  OBVIOUS
<1> USE DEF IInv
<1>1. CASE UNCHANGED vars
  BY <1>1 DEF vars, Mail!vars
<1>2. CASE Next
  <2>1. fault = "none"
    BY <1>2 DEF Next
  <2>2. ASSUME NEW t \in RxThreads, RxThread(t) PROVE [Mail(c)!Next]_(Mail(c)!vars)
    BY <2>1, <2>2, MailRx
  <2>3. ASSUME NEW d \in CPorts, Worker(d) PROVE [Mail(c)!Next]_(Mail(c)!vars)
    <3>1. CASE d = c
      BY <2>1, <2>3, <3>1, MailWorker
    <3>2. CASE d # c
      BY <2>1, <2>3, <3>2, WorkerFrame, MailStill DEF lifeVars
    <3> QED
      BY <3>1, <3>2
  <2>4. ASSUME NEW d \in CPorts, Register(d) \/ Unregister(d)
        PROVE  [Mail(c)!Next]_(Mail(c)!vars)
    BY <2>1, <2>4, MailCall
  <2>5. CASE InitCount \/ InitAlloc \/ Deinit
    BY <2>1, <2>5, MailStill DEF InitCount, InitAlloc, Deinit, workerVars
  <2> QED
    BY <1>2, <2>2, <2>3, <2>4, <2>5 DEF Next
<1> QED
  BY <1>1, <1>2

(* Every cport's receive queue implements the mailbox: whatever the order  *)
(* of appends, wake-ups, registrations and unregistrations, messages are   *)
(* taken in order and one at a time, and the consumer leaves only an empty *)
(* box (greybus-core.c:378-418, 508-511, 538-546).                         *)
THEOREM RefinesMailbox ==
  ASSUME NEW c \in CPorts
  PROVE  Spec => Mail(c)!Safety
<1>1. Init => Mail(c)!Init
  BY DEF Init, Mail!Init
<1>2. IInv /\ [Next]_vars => [Mail(c)!Next]_(Mail(c)!vars)
  BY MailStep
<1> QED
  BY <1>1, <1>2, Inductive, PTL DEF Spec, Mail!Safety
=============================================================================
