----------------------------- MODULE ThreadPool -----------------------------
(***************************************************************************)
(* icl::thread_pool over ThreadQueue: the pool PluginController uses to    *)
(* take a plug-in's callbacks off the plug-in's own thread.                *)
(*                                                                         *)
(*   producers   reader threads of the plug-ins, in enqueue_work           *)
(*   Threads     the pool's threads, each in WaitAndPop / run, for ever    *)
(*   owner       the thread that destroys the pool: one null job, then     *)
(*               join() of every thread                                    *)
(*                                                                         *)
(* Every critical section of ThreadQueue::mMutex is one step. A thread in  *)
(* mCondVar's wait set is in "waiting"; it may also wake for no reason.    *)
(***************************************************************************)
EXTENDS Naturals, Sequences

CONSTANTS
  Jobs,     \* the jobs of a run, each enqueued at most once
  Pill,     \* the null std::function that ends a thread
  Threads   \* hardware_concurrency() of them

ASSUME PoolAssumption == Pill \notin Jobs /\ Threads # {}

VARIABLES
  mQueue,   \* ThreadQueue::mQueue
  waiting,  \* threads blocked in mCondVar.wait
  pc,       \* "pop", "run" or "exit"
  workItem, \* the job a thread has popped
  owner,    \* "using", "joining" and "gone": the pool is destroyed
  accepted, promised, ran   \* history: see WorkPool

threadVars  == <<pc, workItem>>
historyVars == <<accepted, promised, ran>>
vars == <<mQueue, waiting, pc, workItem, owner, accepted, promised, ran>>

Items == Jobs \cup {Pill}

Init ==
  /\ mQueue = <<>> /\ waiting = {}
  /\ pc = [t \in Threads |-> "pop"]
  /\ workItem = [t \in Threads |-> Pill]
  /\ owner = "using"
  /\ accepted = {} /\ promised = {} /\ ran = {}

-----------------------------------------------------------------------------
(* ThreadQueue.                                                            *)

Notify_Nobody == UNCHANGED waiting

\* notify_one wakes one of the threads that wait, if there are any.
Notify ==
  \/ waiting = {} /\ UNCHANGED waiting
  \/ \E t \in waiting : waiting' = waiting \ {t}

Push(item) ==
  /\ mQueue' = Append(mQueue, item)
  /\ Notify

\* WaitAndPop up to mCondVar.wait, which releases the mutex.
Wait(t) ==
  /\ pc[t] = "pop" /\ t \notin waiting
  /\ mQueue = <<>>
  /\ waiting' = waiting \cup {t}
  /\ UNCHANGED <<mQueue, threadVars, owner, historyVars>>

SpuriousWakeUp(t) ==
  /\ t \in waiting
  /\ waiting' = waiting \ {t}
  /\ UNCHANGED <<mQueue, threadVars, owner, historyVars>>

\* The wait set's "while" written as "if": whoever wakes up pops.
Pop_Unchecked(t) ==
  /\ pc[t] = "pop" /\ t \notin waiting
  /\ workItem' = [workItem EXCEPT ![t] = IF mQueue = <<>> THEN "garbage"
                                         ELSE Head(mQueue)]
  /\ mQueue' = IF mQueue = <<>> THEN mQueue ELSE Tail(mQueue)
  /\ pc' = [pc EXCEPT ![t] = "run"]
  /\ UNCHANGED <<waiting, owner, historyVars>>

\* WaitAndPop once the queue is not empty.
Pop(t) ==
  /\ pc[t] = "pop" /\ t \notin waiting
  /\ mQueue # <<>>
  /\ workItem' = [workItem EXCEPT ![t] = Head(mQueue)]
  /\ mQueue' = Tail(mQueue)
  /\ pc' = [pc EXCEPT ![t] = "run"]
  /\ UNCHANGED <<waiting, owner, historyVars>>

-----------------------------------------------------------------------------
(* The threads of the pool.                                                *)

Run(t) ==
  /\ pc[t] = "run" /\ workItem[t] # Pill
  /\ ran' = ran \cup {workItem[t]}
  /\ pc' = [pc EXCEPT ![t] = "pop"]
  /\ UNCHANGED <<mQueue, waiting, workItem, owner, accepted, promised>>

Exit_KeepPill(t) ==
  /\ pc[t] = "run" /\ workItem[t] = Pill
  /\ pc' = [pc EXCEPT ![t] = "exit"]
  /\ UNCHANGED <<mQueue, waiting, workItem, owner, historyVars>>

\* The null job goes back into the queue for the next thread.
Exit(t) ==
  /\ pc[t] = "run" /\ workItem[t] = Pill
  /\ Push(Pill)
  /\ pc' = [pc EXCEPT ![t] = "exit"]
  /\ UNCHANGED <<workItem, owner, historyVars>>

Thread(t) == Wait(t) \/ Pop(t) \/ Run(t) \/ Exit(t)

-----------------------------------------------------------------------------
(* Its users.                                                              *)

\* A plug-in that is not stopped yet may enqueue while the destructor runs.
EnqueueWork(j) ==
  /\ owner # "gone" /\ j \notin accepted
  /\ Push(j)
  /\ accepted' = accepted \cup {j}
  /\ promised' = IF owner = "using" THEN promised \cup {j} ELSE promised
  /\ UNCHANGED <<threadVars, owner, ran>>

Destroy ==
  /\ owner = "using"
  /\ Push(Pill)
  /\ owner' = "joining"
  /\ UNCHANGED <<threadVars, historyVars>>

\* detach() written for join().
Join_Detached ==
  /\ owner = "joining"
  /\ owner' = "gone"
  /\ UNCHANGED <<mQueue, waiting, threadVars, historyVars>>

Join ==
  /\ owner = "joining"
  /\ \A t \in Threads : pc[t] = "exit"
  /\ owner' = "gone"
  /\ UNCHANGED <<mQueue, waiting, threadVars, historyVars>>

Terminated == owner = "gone" /\ UNCHANGED vars

Next ==
  \/ \E j \in Jobs : EnqueueWork(j)
  \/ \E t \in Threads : Thread(t) \/ SpuriousWakeUp(t)
  \/ Destroy
  \/ Join
  \/ Terminated

Spec == Init /\ [][Next]_vars

-----------------------------------------------------------------------------
(* Properties.                                                             *)

TypeOK ==
  /\ mQueue \in Seq(Items)
  /\ waiting \in SUBSET Threads
  /\ pc \in [Threads -> {"pop", "run", "exit"}]
  /\ workItem \in [Threads -> Items]
  /\ owner \in {"using", "joining", "gone"}
  /\ accepted \in SUBSET Jobs /\ promised \in SUBSET Jobs /\ ran \in SUBSET Jobs

\* The pool keeps WorkPool's promise: no job runs twice, none runs in a
\* destroyed pool, and none handed over before the destructor is dropped.
Abstract == INSTANCE WorkPool WITH
  state <- CASE owner = "using" -> "open" [] owner = "joining" -> "closing"
             [] owner = "gone" -> "closed"
RefinesWorkPool == Abstract!Spec

\* No wake-up is lost: while a job or the null job is in the queue, a thread
\* that has not left is awake to fetch it.
NoLostWakeUp ==
  mQueue # <<>> /\ (\E t \in Threads : pc[t] # "exit") =>
    \E t \in Threads : pc[t] # "exit" /\ t \notin waiting
=============================================================================
