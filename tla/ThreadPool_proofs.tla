------------------------- MODULE ThreadPool_proofs -------------------------
(***************************************************************************)
(* ThreadPool implements WorkPool, for every number of threads and jobs.   *)
(* The invariant follows each job on its way: enqueued, it is once in the  *)
(* queue or in the hands of one thread; and no thread has met the null job *)
(* while a job promised before it is still in the queue.                   *)
(***************************************************************************)
EXTENDS ThreadPool, TLAPS

\* Append and Tail, position by position.
LEMMA QueueShape ==
  ASSUME NEW s \in Seq(Items), NEW x \in Items
  PROVE  /\ Append(s, x) \in Seq(Items)
         /\ Len(Append(s, x)) = Len(s) + 1
         /\ \A i \in 1 .. Len(s) : Append(s, x)[i] = s[i]
         /\ Append(s, x)[Len(s) + 1] = x
         /\ s # <<>> => /\ Head(s) \in Items /\ Head(s) = s[1]
                        /\ Len(s) \in Nat /\ Len(s) >= 1
                        /\ Tail(s) \in Seq(Items)
                        /\ Len(Tail(s)) = Len(s) - 1
                        /\ \A i \in 1 .. Len(s) - 1 : Tail(s)[i] = s[i + 1]
OBVIOUS

\* TypeOK holds in a new pool.
LEMMA TypeInitially == Init => TypeOK
BY DEF Init, TypeOK, Items

\* Every step keeps TypeOK.
LEMMA TypeStep == TypeOK /\ [Next]_vars => TypeOK'
<1> SUFFICES ASSUME TypeOK, [Next]_vars PROVE TypeOK'
  OBVIOUS
<1> USE DEF threadVars, historyVars
<1>1. ASSUME NEW item \in Items, Push(item)
      PROVE  mQueue' \in Seq(Items) /\ waiting' \in SUBSET Threads
  BY <1>1, QueueShape DEF TypeOK, Push, Notify
<1>2. ASSUME NEW j \in Jobs, EnqueueWork(j) PROVE TypeOK'
  BY <1>1, <1>2 DEF TypeOK, EnqueueWork, Items
<1>3. ASSUME NEW t \in Threads, Wait(t) PROVE TypeOK'
  BY <1>3 DEF TypeOK, Wait
<1>4. ASSUME NEW t \in Threads, Pop(t) PROVE TypeOK'
  <2>1. mQueue' \in Seq(Items) /\ Head(mQueue) \in Items
    BY <1>4 DEF TypeOK, Pop
  <2>2. QED  BY <1>4, <2>1 DEF TypeOK, Pop
<1>5. ASSUME NEW t \in Threads, Run(t) PROVE TypeOK'
  BY <1>5 DEF TypeOK, Run, Items
<1>6. ASSUME NEW t \in Threads, Exit(t) PROVE TypeOK'
  BY <1>1, <1>6 DEF TypeOK, Exit, Items
<1>7. ASSUME NEW t \in Threads, SpuriousWakeUp(t) PROVE TypeOK'
  BY <1>7 DEF TypeOK, SpuriousWakeUp
<1>8. CASE Destroy
  BY <1>1, <1>8 DEF TypeOK, Destroy, Items
<1>9. CASE Join
  BY <1>9 DEF TypeOK, Join
<1>10. CASE Terminated \/ UNCHANGED vars
  BY <1>10 DEF TypeOK, Terminated, vars
<1>11. QED
  BY <1>2, <1>3, <1>4, <1>5, <1>6, <1>7, <1>8, <1>9, <1>10 DEF Next, Thread

\* Every variable of the pool keeps its type.
THEOREM PoolTypeCorrect == Spec => []TypeOK
<1>1. QED  BY TypeInitially, TypeStep, PTL DEF Spec

-----------------------------------------------------------------------------
(* Wake-ups.                                                               *)

\* Only threads inside WaitAndPop are in the wait set.
WakeInv == /\ \A t \in waiting : pc[t] = "pop"
           /\ NoLostWakeUp

\* Whoever leaves or waits, somebody is awake for what is in the queue.
LEMMA WakeStep == TypeOK /\ WakeInv /\ [Next]_vars => WakeInv'
<1> SUFFICES ASSUME TypeOK, WakeInv, [Next]_vars PROVE WakeInv'
  OBVIOUS
<1> USE DEF threadVars, historyVars, WakeInv, NoLostWakeUp
<1>1. ASSUME NEW item \in Items, Push(item), pc' = pc PROVE WakeInv'
  BY <1>1 DEF Push, Notify, TypeOK
<1>2. ASSUME NEW j \in Jobs, EnqueueWork(j) PROVE WakeInv'
  BY <1>1, <1>2 DEF EnqueueWork, Items
<1>3. ASSUME NEW t \in Threads, Wait(t) PROVE WakeInv'
  BY <1>3 DEF Wait
<1>4. ASSUME NEW t \in Threads, Pop(t) PROVE WakeInv'
  BY <1>4 DEF Pop, TypeOK
<1>5. ASSUME NEW t \in Threads, Run(t) PROVE WakeInv'
  BY <1>5 DEF Run, TypeOK
<1>6. ASSUME NEW t \in Threads, Exit(t) PROVE WakeInv'
  <2>1. \A u \in Threads : pc'[u] = IF u = t THEN "exit" ELSE pc[u]
    BY <1>6 DEF Exit, TypeOK
  <2>2. waiting' \subseteq waiting /\ t \notin waiting
    BY <1>6 DEF Exit, Push, Notify
  <2>3. \A u \in waiting' : pc'[u] = "pop"
    BY <2>1, <2>2, <1>6 DEF TypeOK
  <2>4. CASE waiting = {}
    BY <2>1, <2>2, <2>3, <2>4
  <2>5. CASE \E u \in waiting : waiting' = waiting \ {u}
    BY <2>1, <2>2, <2>3, <2>5 DEF TypeOK
  <2>6. QED  BY <1>6, <2>4, <2>5 DEF Exit, Push, Notify
<1>7. ASSUME NEW t \in Threads, SpuriousWakeUp(t) PROVE WakeInv'
  BY <1>7 DEF SpuriousWakeUp
<1>8. CASE Destroy
  BY <1>1, <1>8 DEF Destroy, Items
<1>9. CASE Join
  BY <1>9 DEF Join
<1>10. CASE Terminated \/ UNCHANGED vars
  BY <1>10 DEF Terminated, vars
<1>11. QED
  BY <1>2, <1>3, <1>4, <1>5, <1>6, <1>7, <1>8, <1>9, <1>10 DEF Next, Thread

\* No wake-up is ever lost, although Push notifies one thread only and the
\* thread it wakes may find the queue empty again.
THEOREM WakeUps == Spec => []NoLostWakeUp
<1>1. Init => WakeInv
  BY DEF Init, WakeInv, NoLostWakeUp
<1>2. WakeInv => NoLostWakeUp
  BY DEF WakeInv
<1>3. QED  BY <1>1, <1>2, TypeInitially, TypeStep, WakeStep, PTL DEF Spec

-----------------------------------------------------------------------------
(* Jobs.                                                                   *)

Holds(t, j) == pc[t] = "run" /\ workItem[t] = j

\* A thread that has met the null job: it is about to leave, or has left.
Leaving(t) == pc[t] = "exit" \/ Holds(t, Pill)

\* A job that waits its turn in front of the null job.
InFront(j) ==
  /\ \A t \in Threads : ~Leaving(t)
  /\ \E i \in 1 .. Len(mQueue) :
       mQueue[i] = j /\ \A k \in 1 .. i : mQueue[k] # Pill

\* A job in the queue is there once, is not run yet, and is in nobody's hands.
Queued == \A i \in 1 .. Len(mQueue) :
            mQueue[i] # Pill =>
              /\ mQueue[i] \in accepted \ ran
              /\ \A k \in 1 .. Len(mQueue) : mQueue[k] = mQueue[i] => k = i
              /\ \A t \in Threads : ~Holds(t, mQueue[i])
\* A job a thread holds is not run yet, and no other thread holds it.
Held == \A t \in Threads : \A j \in Jobs :
          Holds(t, j) => /\ j \in accepted \ ran
                         /\ \A u \in Threads : Holds(u, j) => u = t
\* A promised job that has not run is in front of the null job or held.
Kept == \A j \in promised \ ran : InFront(j) \/ \E t \in Threads : Holds(t, j)
\* Before the destructor there is no null job; after it no thread is left.
Open == owner = "using" => /\ \A t \in Threads : ~Leaving(t)
                           /\ \A i \in 1 .. Len(mQueue) : mQueue[i] # Pill
Gone == owner = "gone" => \A t \in Threads : pc[t] = "exit"

JobInv == Queued /\ Held /\ Kept /\ Open /\ Gone /\ ran \subseteq accepted

\* What EnqueueWork, Destroy and Exit do to the queue.
LEMMA PushShape ==
  ASSUME TypeOK, NEW item \in Items, Push(item)
  PROVE  /\ Len(mQueue) \in Nat /\ Len(mQueue') = Len(mQueue) + 1
         /\ \A i \in 1 .. Len(mQueue) : mQueue'[i] = mQueue[i]
         /\ mQueue'[Len(mQueue) + 1] = item
         /\ \A i \in 1 .. Len(mQueue') : i \in 1 .. Len(mQueue) \/ i = Len(mQueue) + 1
<1>1. mQueue \in Seq(Items) /\ mQueue' = Append(mQueue, item) /\ Len(mQueue) \in Nat
  BY DEF TypeOK, Push
<1>2. QED  BY <1>1, QueueShape

\* A new job is behind everything, and nobody holds it.
LEMMA EnqueueStep ==
  ASSUME TypeOK, JobInv, NEW j \in Jobs, EnqueueWork(j)
  PROVE  JobInv'
<1> USE DEF threadVars, historyVars
<1>1. /\ pc' = pc /\ workItem' = workItem /\ owner' = owner /\ ran' = ran
      /\ owner # "gone" /\ j \notin accepted /\ accepted' = accepted \cup {j}
      /\ promised' = IF owner = "using" THEN promised \cup {j} ELSE promised
      /\ Push(j) /\ j \in Items /\ j # Pill
  BY PoolAssumption DEF EnqueueWork, Items
<1> DEFINE n == Len(mQueue)
<1>2. /\ n \in Nat /\ Len(mQueue') = n + 1
      /\ \A i \in 1 .. n : mQueue'[i] = mQueue[i]
      /\ mQueue'[n + 1] = j
      /\ \A i \in 1 .. Len(mQueue') : i \in 1 .. n \/ i = n + 1
      /\ \A i \in 1 .. n : i \in 1 .. Len(mQueue')
  BY <1>1, PushShape
<1> HIDE DEF n
<1>3. /\ \A i \in 1 .. n : mQueue[i] # j
      /\ \A t \in Threads : ~Holds(t, j)
  BY <1>1 DEF JobInv, Queued, Held, n
<1>4. /\ \A t \in Threads : \A x : Holds(t, x)' <=> Holds(t, x)
      /\ \A t \in Threads : Leaving(t)' <=> Leaving(t)
  BY <1>1 DEF Holds, Leaving
<1>5. Queued'
  <2> SUFFICES ASSUME NEW i \in 1 .. Len(mQueue'), NEW x, x = mQueue'[i], x # Pill
               PROVE  /\ x \in accepted' \ ran'
                      /\ \A k \in 1 .. Len(mQueue') : mQueue'[k] = x => k = i
                      /\ \A t \in Threads : ~Holds(t, x)'
    BY DEF Queued, Holds
  <2>1. CASE i = n + 1
    <3>1. x = j /\ j \notin ran
      BY <2>1, <1>1, <1>2 DEF JobInv
    <3>2. QED  BY <2>1, <3>1, <1>1, <1>2, <1>3, <1>4
  <2>2. CASE i \in 1 .. n
    <3>1. /\ x = mQueue[i] /\ x \in accepted \ ran /\ x # j
          /\ \A k \in 1 .. n : mQueue[k] = x => k = i
          /\ \A t \in Threads : ~Holds(t, x)
      BY <2>2, <1>2, <1>3 DEF JobInv, Queued, n
    <3>2. QED  BY <2>2, <3>1, <1>1, <1>2, <1>3, <1>4
  <2>3. QED  BY <2>1, <2>2, <1>2
<1>6. Held'
  BY <1>1 DEF JobInv, Held, Holds
<1>7. \A x : InFront(x) => InFront(x)'
  <2> SUFFICES ASSUME NEW x, InFront(x) PROVE InFront(x)'
    OBVIOUS
  <2>1. PICK i \in 1 .. n : mQueue[i] = x /\ \A k \in 1 .. i : mQueue[k] # Pill
    BY DEF InFront, n
  <2>2. i \in 1 .. Len(mQueue') /\ \A k \in 1 .. i : k \in 1 .. n
    BY <1>2
  <2>3. mQueue'[i] = x /\ \A k \in 1 .. i : mQueue'[k] # Pill
    BY <2>1, <2>2, <1>2
  <2>4. QED  BY <2>2, <2>3, <1>4 DEF InFront
<1>8. owner = "using" => InFront(j)'
  <2> SUFFICES ASSUME owner = "using" PROVE InFront(j)'
    OBVIOUS
  <2>1. /\ \A t \in Threads : ~Leaving(t)
        /\ \A i \in 1 .. n : mQueue[i] # Pill
    BY DEF JobInv, Open, n
  <2>2. n + 1 \in 1 .. Len(mQueue')
    BY <1>2
  <2>3. mQueue'[n + 1] = j /\ \A k \in 1 .. n + 1 : mQueue'[k] # Pill
    BY <2>1, <1>1, <1>2
  <2>4. QED  BY <2>1, <2>2, <2>3, <1>4 DEF InFront
<1>9. Kept'
  BY <1>1, <1>4, <1>7, <1>8 DEF JobInv, Kept
<1>10. Open' /\ Gone' /\ (ran \subseteq accepted)'
  BY <1>1, <1>2, <1>4 DEF JobInv, Open, Gone, n
<1>11. QED  BY <1>5, <1>6, <1>9, <1>10 DEF JobInv

\* The null job goes behind everything, from the destructor or a leaving thread.
LEMMA PillStep ==
  ASSUME TypeOK, JobInv, Push(Pill), UNCHANGED historyVars,
         owner' # "using", owner' = "gone" => owner = "gone",
         \A t \in Threads : \A x \in Jobs : Holds(t, x)' <=> Holds(t, x),
         \A t \in Threads : Leaving(t)' <=> Leaving(t),
         \A t \in Threads : pc[t] = "exit" => pc'[t] = "exit"
  PROVE  JobInv'
<1> USE DEF historyVars
<1> DEFINE n == Len(mQueue)
<1>1. Pill \in Items
  BY DEF Items
<1>2. /\ n \in Nat /\ Len(mQueue') = n + 1
      /\ \A i \in 1 .. n : mQueue'[i] = mQueue[i]
      /\ mQueue'[n + 1] = Pill
      /\ \A i \in 1 .. Len(mQueue') : i \in 1 .. n \/ i = n + 1
      /\ \A i \in 1 .. n : i \in 1 .. Len(mQueue')
  BY <1>1, PushShape
<1>3. \A i \in 1 .. n : mQueue[i] # Pill => mQueue[i] \in Jobs
  BY DEF TypeOK, Items, n
<1> HIDE DEF n
<1>5. Queued'
  <2> SUFFICES ASSUME NEW i \in 1 .. Len(mQueue'), NEW x, x = mQueue'[i], x # Pill
               PROVE  /\ x \in accepted' \ ran'
                      /\ \A k \in 1 .. Len(mQueue') : mQueue'[k] = x => k = i
                      /\ \A t \in Threads : ~Holds(t, x)'
    BY DEF Queued, Holds
  <2>1. i \in 1 .. n /\ x = mQueue[i] /\ x \in Jobs
    BY <1>2, <1>3
  <2>2. /\ x \in accepted \ ran
        /\ \A k \in 1 .. n : mQueue[k] = x => k = i
        /\ \A t \in Threads : ~Holds(t, x)
    BY <2>1 DEF JobInv, Queued, n
  <2>3. \A k \in 1 .. Len(mQueue') : mQueue'[k] = x => k = i
    BY <2>1, <2>2, <1>2
  <2>4. QED  BY <2>1, <2>2, <2>3
<1>6. Held'
  BY DEF JobInv, Held
<1>7. \A x : InFront(x) => InFront(x)'
  <2> SUFFICES ASSUME NEW x, InFront(x) PROVE InFront(x)'
    OBVIOUS
  <2>1. PICK i \in 1 .. n : mQueue[i] = x /\ \A k \in 1 .. i : mQueue[k] # Pill
    BY DEF InFront, n
  <2>2. i \in 1 .. Len(mQueue') /\ \A k \in 1 .. i : k \in 1 .. n
    BY <1>2
  <2>3. mQueue'[i] = x /\ \A k \in 1 .. i : mQueue'[k] # Pill
    BY <2>1, <2>2, <1>2
  <2>4. \A t \in Threads : ~Leaving(t)'
    BY DEF InFront
  <2>5. QED  BY <2>2, <2>3, <2>4 DEF InFront
<1>8. Kept'
  BY <1>7 DEF JobInv, Kept, TypeOK
<1>9. Open' /\ Gone' /\ (ran \subseteq accepted)'
  BY DEF JobInv, Open, Gone
<1>10. QED  BY <1>5, <1>6, <1>8, <1>9 DEF JobInv

\* A thread takes the head of the queue: a job moves into its hands, or the
\* null job does, and then every promised job has left the queue.
LEMMA PopStep ==
  ASSUME TypeOK, JobInv, NEW t \in Threads, Pop(t)
  PROVE  JobInv'
<1> USE DEF threadVars, historyVars
<1> DEFINE n == Len(mQueue)
           head == Head(mQueue)
<1>1. /\ n \in Nat /\ n >= 1 /\ head \in Items /\ head = mQueue[1]
      /\ Len(mQueue') = n - 1
      /\ \A i \in 1 .. n - 1 : mQueue'[i] = mQueue[i + 1]
  <2>1. mQueue \in Seq(Items) /\ mQueue # <<>> /\ mQueue' = Tail(mQueue)
    BY DEF TypeOK, Pop
  <2>2. QED  BY <2>1, QueueShape
<1>2. /\ ran' = ran /\ accepted' = accepted /\ promised' = promised /\ owner' = owner
      /\ pc[t] = "pop"
      /\ \A u \in Threads : pc'[u] = IF u = t THEN "run" ELSE pc[u]
      /\ \A u \in Threads : workItem'[u] = IF u = t THEN head ELSE workItem[u]
  BY DEF Pop, TypeOK
<1> HIDE DEF n, head
<1>3. /\ \A u \in Threads : \A x : Holds(u, x)' <=> (u # t /\ Holds(u, x)) \/ (u = t /\ x = head)
      /\ \A x : ~Holds(t, x)
  BY <1>2 DEF Holds
<1>4. head # Pill => /\ head \in accepted \ ran
                     /\ \A k \in 1 .. n : mQueue[k] = head => k = 1
                     /\ \A u \in Threads : ~Holds(u, head)
  BY <1>1 DEF JobInv, Queued, n
<1>5. Queued'
  <2> SUFFICES ASSUME NEW i \in 1 .. Len(mQueue'), NEW x, x = mQueue'[i], x # Pill
               PROVE  /\ x \in accepted' \ ran'
                      /\ \A k \in 1 .. Len(mQueue') : mQueue'[k] = x => k = i
                      /\ \A u \in Threads : ~Holds(u, x)'
    BY DEF Queued, Holds
  <2>1. i \in 1 .. n - 1 /\ i + 1 \in 1 .. n /\ x = mQueue[i + 1]
    BY <1>1
  <2>2. /\ x \in accepted \ ran
        /\ \A k \in 1 .. n : mQueue[k] = x => k = i + 1
        /\ \A u \in Threads : ~Holds(u, x)
    BY <2>1 DEF JobInv, Queued, n
  <2>3. x # head
    BY <1>1, <2>1, <2>2
  <2>4. \A k \in 1 .. Len(mQueue') : mQueue'[k] = x => k = i
    <3> SUFFICES ASSUME NEW k \in 1 .. Len(mQueue'), mQueue'[k] = x PROVE k = i
      OBVIOUS
    <3>1. k + 1 \in 1 .. n /\ mQueue[k + 1] = x
      BY <1>1
    <3>2. k + 1 = i + 1
      BY <3>1, <2>2
    <3>3. QED  BY <3>2, <2>1, <1>1
  <2>5. QED  BY <2>2, <2>3, <2>4, <1>2, <1>3
<1>6. Held'
  <2> SUFFICES ASSUME NEW u \in Threads, NEW j \in Jobs, Holds(u, j)'
               PROVE  /\ j \in accepted' \ ran'
                      /\ \A v \in Threads : Holds(v, j)' => v = u
    BY DEF Held, Holds
  <2>1. CASE u = t
    <3>1. j = head /\ head # Pill
      BY <2>1, <1>3, PoolAssumption
    <3>2. QED  BY <2>1, <3>1, <1>2, <1>3, <1>4
  <2>2. CASE u # t
    <3>1. Holds(u, j)
      BY <2>2, <1>3
    <3>2. j # head
      BY <3>1, <1>4, PoolAssumption
    <3>3. QED  BY <2>2, <3>1, <3>2, <1>2, <1>3 DEF JobInv, Held
  <2>3. QED  BY <2>1, <2>2
<1>7. \A x : InFront(x) => InFront(x)' \/ Holds(t, x)'
  <2> SUFFICES ASSUME NEW x, InFront(x), x # head PROVE InFront(x)'
    BY <1>3
  <2>1. PICK i \in 1 .. n : mQueue[i] = x /\ \A k \in 1 .. i : mQueue[k] # Pill
    BY DEF InFront, n
  <2>2. i # 1 /\ i - 1 \in 1 .. Len(mQueue') /\ mQueue'[i - 1] = x
    BY <2>1, <1>1
  <2>3. \A k \in 1 .. i - 1 : k \in 1 .. n - 1 /\ k + 1 \in 1 .. i
    BY <2>2, <1>1
  <2>4. \A k \in 1 .. i - 1 : mQueue'[k] # Pill
    BY <2>1, <2>3, <1>1
  <2>5. head # Pill
    BY <2>1, <1>1
  <2>6. \A u \in Threads : ~Leaving(u)'
    BY <2>5, <1>2, <1>3 DEF InFront, Leaving
  <2>7. QED  BY <2>2, <2>4, <2>6 DEF InFront
<1>8. Kept'
  BY <1>2, <1>3, <1>7 DEF JobInv, Kept
<1>9. Open'
  <2> SUFFICES ASSUME owner = "using"
               PROVE  /\ \A u \in Threads : ~Leaving(u)'
                      /\ \A i \in 1 .. Len(mQueue') : mQueue'[i] # Pill
    BY <1>2 DEF Open
  <2>1. /\ \A u \in Threads : ~Leaving(u)
        /\ \A i \in 1 .. n : mQueue[i] # Pill
    BY DEF JobInv, Open, n
  <2>2. head # Pill
    BY <2>1, <1>1
  <2>3. \A i \in 1 .. Len(mQueue') : i \in 1 .. n - 1 /\ i + 1 \in 1 .. n
    BY <1>1
  <2>4. QED  BY <2>1, <2>2, <2>3, <1>1, <1>2, <1>3 DEF Leaving
<1>10. Gone' /\ (ran \subseteq accepted)'
  BY <1>2 DEF JobInv, Gone
<1>11. QED  BY <1>5, <1>6, <1>8, <1>9, <1>10 DEF JobInv

\* A job is run by the one thread that holds it.
LEMMA RunStep ==
  ASSUME TypeOK, JobInv, NEW t \in Threads, Run(t)
  PROVE  JobInv'
<1> USE DEF threadVars, historyVars
<1> DEFINE job == workItem[t]
<1>1. /\ mQueue' = mQueue /\ accepted' = accepted /\ promised' = promised
      /\ owner' = owner /\ workItem' = workItem
      /\ job # Pill /\ job \in Jobs /\ Holds(t, job)
      /\ ran' = ran \cup {job}
      /\ pc[t] = "run"
      /\ \A u \in Threads : pc'[u] = IF u = t THEN "pop" ELSE pc[u]
  BY DEF Run, TypeOK, Items, Holds
<1>2. /\ job \in accepted /\ \A u \in Threads : Holds(u, job) => u = t
  BY <1>1 DEF JobInv, Held
<1>3. \A u \in Threads : \A x : Holds(u, x)' <=> u # t /\ Holds(u, x)
  BY <1>1 DEF Holds
<1>4. \A x : Holds(t, x) => x = job
  BY DEF Holds
<1> HIDE DEF job
<1>5. \A u \in Threads : Leaving(u)' <=> Leaving(u)
  BY <1>1, <1>3, <1>4 DEF Leaving
<1>6. Queued'
  <2>1. \A i \in 1 .. Len(mQueue) : mQueue[i] # Pill => mQueue[i] # job
    BY <1>1 DEF JobInv, Queued
  <2> SUFFICES ASSUME NEW i \in 1 .. Len(mQueue), NEW x, x = mQueue[i], x # Pill
               PROVE  /\ x \in accepted \ (ran \cup {job})
                      /\ \A k \in 1 .. Len(mQueue) : mQueue[k] = x => k = i
                      /\ \A u \in Threads : ~Holds(u, x)'
    BY <1>1 DEF Queued, Holds
  <2>2. QED  BY <2>1, <1>3 DEF JobInv, Queued
<1>7. Held'
  <2> SUFFICES ASSUME NEW u \in Threads, NEW j \in Jobs, Holds(u, j)'
               PROVE  /\ j \in accepted' \ ran'
                      /\ \A v \in Threads : Holds(v, j)' => v = u
    BY DEF Held, Holds
  <2>1. u # t /\ Holds(u, j) /\ j # job
    BY <1>2, <1>3
  <2>2. QED  BY <2>1, <1>1, <1>3 DEF JobInv, Held
<1>8. Kept'
  <2>1. \A x : InFront(x) => InFront(x)'
    BY <1>1, <1>5 DEF InFront
  <2>2. QED  BY <2>1, <1>1, <1>3, <1>4 DEF JobInv, Kept
<1>9. Open' /\ Gone' /\ (ran \subseteq accepted)'
  BY <1>1, <1>2, <1>5 DEF JobInv, Open, Gone
<1>10. QED  BY <1>6, <1>7, <1>8, <1>9 DEF JobInv

\* Every step keeps JobInv.
LEMMA JobStep == TypeOK /\ JobInv /\ [Next]_vars => JobInv'
<1> SUFFICES ASSUME TypeOK, JobInv, [Next]_vars PROVE JobInv'
  OBVIOUS
<1> USE DEF threadVars, historyVars
<1>1. ASSUME pc' = pc, workItem' = workItem, mQueue' = mQueue, owner' = owner,
             UNCHANGED historyVars
      PROVE  JobInv'
  <2>1. /\ \A t \in Threads : \A x : Holds(t, x)' <=> Holds(t, x)
        /\ \A t \in Threads : Leaving(t)' <=> Leaving(t)
        /\ \A x : InFront(x)' <=> InFront(x)
    BY <1>1 DEF Holds, Leaving, InFront
  <2>2. Queued' /\ Held' /\ Kept'
    BY <1>1, <2>1 DEF JobInv, Queued, Held, Kept, Holds
  <2>3. QED  BY <1>1, <2>1, <2>2 DEF JobInv, Open, Gone
<1>2. ASSUME NEW j \in Jobs, EnqueueWork(j) PROVE JobInv'
  BY <1>2, EnqueueStep
<1>3. ASSUME NEW t \in Threads, Wait(t) PROVE JobInv'
  BY <1>1, <1>3 DEF Wait
<1>4. ASSUME NEW t \in Threads, Pop(t) PROVE JobInv'
  BY <1>4, PopStep
<1>5. ASSUME NEW t \in Threads, Run(t) PROVE JobInv'
  BY <1>5, RunStep
<1>6. ASSUME NEW t \in Threads, Exit(t) PROVE JobInv'
  <2>1. /\ Push(Pill) /\ workItem' = workItem /\ owner' = owner /\ Holds(t, Pill)
        /\ UNCHANGED historyVars
        /\ \A u \in Threads : pc'[u] = IF u = t THEN "exit" ELSE pc[u]
    BY <1>6 DEF Exit, TypeOK, Holds
  <2>2. \A u \in Threads : \A x \in Jobs : Holds(u, x)' <=> Holds(u, x)
    BY <2>1, PoolAssumption DEF Holds
  <2>3. \A u \in Threads : Leaving(u)' <=> Leaving(u)
    BY <2>1 DEF Leaving, Holds
  <2>4. owner' # "using"
    BY <2>1 DEF JobInv, Open, Leaving
  <2>5. QED  BY <2>1, <2>2, <2>3, <2>4, PillStep
<1>7. ASSUME NEW t \in Threads, SpuriousWakeUp(t) PROVE JobInv'
  BY <1>1, <1>7 DEF SpuriousWakeUp
<1>8. CASE Destroy
  <2>1. /\ Push(Pill) /\ workItem' = workItem /\ pc' = pc /\ owner' = "joining"
        /\ UNCHANGED historyVars
    BY <1>8 DEF Destroy
  <2>2. /\ \A t \in Threads : \A x \in Jobs : Holds(t, x)' <=> Holds(t, x)
        /\ \A t \in Threads : Leaving(t)' <=> Leaving(t)
    BY <2>1 DEF Holds, Leaving
  <2>3. QED  BY <2>1, <2>2, PillStep
<1>9. CASE Join
  <2>1. /\ pc' = pc /\ workItem' = workItem /\ mQueue' = mQueue /\ owner' = "gone"
        /\ UNCHANGED historyVars /\ \A t \in Threads : pc[t] = "exit"
    BY <1>9 DEF Join
  <2>2. /\ \A t \in Threads : \A x : Holds(t, x)' <=> Holds(t, x)
        /\ \A x : InFront(x)' <=> InFront(x)
    BY <2>1 DEF Holds, Leaving, InFront
  <2>3. Queued' /\ Held' /\ Kept'
    BY <2>1, <2>2 DEF JobInv, Queued, Held, Kept, Holds
  <2>4. QED  BY <2>1, <2>3 DEF JobInv, Open, Gone
<1>10. CASE Terminated \/ UNCHANGED vars
  BY <1>1, <1>10 DEF Terminated, vars
<1>11. QED
  BY <1>2, <1>3, <1>4, <1>5, <1>6, <1>7, <1>8, <1>9, <1>10 DEF Next, Thread

\* JobInv holds in a new pool.
LEMMA JobInitially == Init => JobInv
BY DEF Init, JobInv, Queued, Held, Kept, Open, Gone, Holds, Leaving

\* A step of the pool is a step of WorkPool or leaves its variables alone: in
\* particular the destructor returns only when every promised job has run.
LEMMA StepRefines ==
  TypeOK /\ JobInv /\ [Next]_vars => [Abstract!Next]_(Abstract!vars)
<1> SUFFICES ASSUME TypeOK, JobInv, [Next]_vars
             PROVE  Abstract!Next \/ UNCHANGED <<historyVars, owner>>
  BY DEF Abstract!vars, historyVars
<1> USE DEF threadVars, historyVars
<1>1. owner \in {"using", "joining", "gone"}
  BY DEF TypeOK
<1>2. ASSUME NEW j \in Jobs, EnqueueWork(j) PROVE Abstract!Accept(j)
  BY <1>1, <1>2 DEF EnqueueWork, Abstract!Accept
<1>3. ASSUME NEW t \in Threads, Run(t)
      PROVE  workItem[t] \in Jobs /\ Abstract!Execute(workItem[t])
  <2>1. workItem[t] \in Jobs /\ Holds(t, workItem[t]) /\ pc[t] = "run"
    BY <1>3 DEF Run, TypeOK, Items, Holds
  <2>2. workItem[t] \in accepted \ ran /\ owner # "gone"
    BY <2>1 DEF JobInv, Held, Gone
  <2>3. QED  BY <1>1, <1>3, <2>1, <2>2 DEF Run, Abstract!Execute
<1>4. CASE Destroy
  BY <1>4 DEF Destroy, Abstract!BeginClose, Abstract!Next
<1>5. CASE Join
  <2>1. \A t \in Threads : Leaving(t) /\ \A j \in Jobs : ~Holds(t, j)
    BY <1>5 DEF Join, Leaving, Holds
  <2>2. promised \subseteq ran
    BY <2>1, PoolAssumption DEF JobInv, Kept, InFront, TypeOK
  <2>3. QED  BY <1>5, <2>2 DEF Join, Abstract!Close, Abstract!Next
<1>6. ASSUME NEW t \in Threads, Wait(t) \/ Pop(t) \/ Exit(t) \/ SpuriousWakeUp(t)
      PROVE  UNCHANGED <<historyVars, owner>>
  BY <1>6 DEF Wait, Pop, Exit, SpuriousWakeUp
<1>7. CASE Terminated \/ UNCHANGED vars
  BY <1>7 DEF Terminated, vars
<1>8. QED
  BY <1>2, <1>3, <1>4, <1>5, <1>6, <1>7 DEF Next, Thread, Abstract!Next

\* The pool implements WorkPool: no job runs twice, none runs once the pool is
\* destroyed, and the destructor does not return before every job handed over
\* before it was called has run, whatever order the threads leave in.
THEOREM PoolKeepsPromise == Spec => RefinesWorkPool
<1>1. Init => Abstract!Init
  BY DEF Init, Abstract!Init
<1>2. QED
  BY <1>1, TypeInitially, TypeStep, JobInitially, JobStep, StepRefines, PTL
     DEF Spec, RefinesWorkPool, Abstract!Spec
=============================================================================
