------------------------------ MODULE WorkPool ------------------------------
(***************************************************************************)
(* What thread_pool promises to PluginController: a job handed over is run *)
(* at most once, and when the destructor returns every job handed over     *)
(* before it was called has been run to its end.                           *)
(***************************************************************************)
CONSTANT Jobs

VARIABLES
  accepted,  \* jobs enqueue_work has returned for
  promised,  \* those of them that were accepted before the destructor
  ran,       \* jobs that have been executed
  state      \* "open", "closing" once the destructor runs, then "closed"

vars == <<accepted, promised, ran, state>>

Init ==
  /\ accepted = {} /\ promised = {} /\ ran = {}
  /\ state = "open"

Accept(j) ==
  /\ state # "closed" /\ j \notin accepted
  /\ accepted' = accepted \cup {j}
  /\ promised' = IF state = "open" THEN promised \cup {j} ELSE promised
  /\ UNCHANGED <<ran, state>>

Execute(j) ==
  /\ state # "closed" /\ j \in accepted \ ran
  /\ ran' = ran \cup {j}
  /\ UNCHANGED <<accepted, promised, state>>

BeginClose ==
  /\ state = "open" /\ state' = "closing"
  /\ UNCHANGED <<accepted, promised, ran>>

Close ==
  /\ state = "closing" /\ promised \subseteq ran
  /\ state' = "closed"
  /\ UNCHANGED <<accepted, promised, ran>>

Next ==
  \/ \E j \in Jobs : Accept(j) \/ Execute(j)
  \/ BeginClose
  \/ Close

Spec == Init /\ [][Next]_vars
=============================================================================
