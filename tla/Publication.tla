---------------------------- MODULE Publication ----------------------------
(***************************************************************************)
(* How the passages leave the studio: every ten seconds, or when a button  *)
(* is pressed, TableWindow::Draw posts the table, and                      *)
(* reception_resultats.php, run by any number of server processes at once, *)
(* rebuilds manolab_results from each request: DROP, CREATE IF NOT EXISTS, *)
(* one INSERT per runner.                                                  *)
(* Every statement commits on its own and the table has no key. Requests   *)
(* overtake each other or get lost, processes die between two statements.  *)
(* The script goes on after a statement that failed, or stops, depending   *)
(* on the PHP in use. No reply is read: what does not get through is not   *)
(* noticed.                                                                *)
(*                                                                         *)
(* A lap is its number: LapBook and RaceTable say which laps are counted.  *)
(***************************************************************************)
EXTENDS Integers, Sequences, FiniteSets, SequencesExt

CONSTANTS
  Ids,          \* runners, the keys of mTable
  Procs,        \* server processes that can run the script at once
  MaxLaps,      \* bound on a runner's laps
  MaxRequests,  \* bound on the requests of a run of TLC
  MaxRestarts,  \* bound on the restarts of a run of TLC
  NoTable,      \* manolab_results after DROP TABLE
  Nobody        \* no process, for "owner"

Row == [id : Ids, tours : 1..MaxLaps]

ASSUME PublicationConstants ==
  /\ Ids \subseteq Nat /\ IsFiniteSet(Ids)
  /\ {MaxLaps, MaxRequests, MaxRestarts} \subseteq Nat
  /\ Nobody \notin Procs
  /\ NoTable \notin Seq(Row)

VARIABLES
  laps,       \* mTable: runner -> number of laps
  net,        \* requests on their way to the server: number and rows
  requests,   \* requests sent so far (bound, and it tells them apart)
  restarts,   \* restarts so far (bound)
  php,        \* process -> where it is in reception_resultats.php
  results,    \* manolab_results: the rows in the order of their insertion
  alone,      \* history: has the process had the table to itself, without
              \* a failed DROP or CREATE?
  owner,      \* history: the process that dropped the table last
  failed      \* history: process -> rows whose INSERT failed

studio == <<laps, requests, restarts>>
server == <<php, results, alone, owner, failed>>
vars == <<laps, net, requests, restarts,
          php, results, alone, owner, failed>>

Idle == [pc |-> "idle", rows |-> <<>>, next |-> 1]

\* ToJson: one row per runner that passed, in the order of the std::map.
\* (Mutant: a lookup has inserted the runners that did not pass.)
Passed_Everyone(table) == Ids
Passed(table) == {i \in Ids : table[i] > 0}
Rank(i, S) == Cardinality({j \in S : j <= i})
RowsOf(table) ==
  LET Nth(k) == CHOOSE i \in Passed(table) : Rank(i, Passed(table)) = k
  IN [k \in 1..Cardinality(Passed(table)) |->
        [id |-> Nth(k), tours |-> table[Nth(k)]]]

Init ==
  /\ laps = [i \in Ids |-> 0]
  /\ net = {} /\ requests = 0 /\ restarts = 0
  /\ php = [p \in Procs |-> Idle]
  /\ results = <<>>
  /\ alone = [p \in Procs |-> FALSE]
  /\ owner = Nobody
  /\ failed = [p \in Procs |-> {}]

-----------------------------------------------------------------------------
(* The studio.                                                             *)

Pass(i) ==
  /\ laps[i] < MaxLaps
  /\ laps' = [laps EXCEPT ![i] = @ + 1]
  /\ UNCHANGED <<net, requests, restarts, server>>

\* The connection may fail, and nobody notices. What is written may be cut:
\* the send buffer is full, or the server hangs up. A body cut short decodes
\* to null: no rows.
SendToServer ==
  /\ \/ UNCHANGED <<net, requests>>
     \/ /\ requests < MaxRequests
        /\ requests' = requests + 1
        /\ \E rows \in {RowsOf(laps), <<>>} :
             net' = net \cup {[number |-> requests', rows |-> rows]}
  /\ UNCHANGED <<laps, restarts, server>>

\* The studio starts again from export.json: the beginning of the laps it had
\* (FileIsBehindTable of RaceTable), or none.
Restart ==
  /\ restarts < MaxRestarts
  /\ restarts' = restarts + 1
  /\ laps' \in [Ids -> 0..MaxLaps]
  /\ \A i \in Ids : laps'[i] <= laps[i]
  /\ UNCHANGED <<net, requests, server>>

-----------------------------------------------------------------------------
(* reception_resultats.php: one statement at a time. A statement can fail, *)
(* all those after a lost connection do, and the script goes on with the   *)
(* next one.                                                               *)

Goto(p, pc) == php' = [php EXCEPT ![p].pc = pc]

\* The web server gives a request to a free process; a request nobody takes
\* is a lost one.
Accept(p) ==
  \E r \in net :
    /\ php[p].pc \in {"idle", "done"}
    /\ net' = net \ {r}
    /\ php' = [php EXCEPT ![p] = [pc |-> "drop", rows |-> r.rows, next |-> 1]]
    /\ alone' = [q \in Procs |-> q = p /\ \A o \in Procs \ {p} :
                                            php[o].pc \in {"idle", "done"}]
    /\ owner' = IF owner = p THEN Nobody ELSE owner
    /\ failed' = [failed EXCEPT ![p] = {}]
    /\ UNCHANGED <<studio, results>>

\* Mutant: the table keeps the rows of the earlier requests.
Drop_Nothing(p) ==
  /\ php[p].pc = "drop"
  /\ owner' = p
  /\ Goto(p, "create")
  /\ UNCHANGED <<studio, net, results, alone, failed>>

Drop(p) ==
  /\ php[p].pc = "drop"
  /\ \/ results' = NoTable /\ owner' = p /\ UNCHANGED alone
     \/ alone' = [alone EXCEPT ![p] = FALSE] /\ UNCHANGED <<results, owner>>
  /\ Goto(p, "create")
  /\ UNCHANGED <<studio, net, failed>>

\* Mutant: the statement replaces a table that is already there.
Create_Anew(p) ==
  /\ php[p].pc = "create"
  /\ results' = <<>>
  /\ Goto(p, "insert")
  /\ UNCHANGED <<studio, net, alone, owner, failed>>

Create(p) ==
  /\ php[p].pc = "create"
  /\ \/ results' = (IF results = NoTable THEN <<>> ELSE results)
        /\ UNCHANGED alone
     \/ alone' = [alone EXCEPT ![p] = FALSE] /\ UNCHANGED results
  /\ Goto(p, "insert")
  /\ UNCHANGED <<studio, net, owner, failed>>

\* An INSERT that fails is reported to the log of the server, no more.
Insert(p) ==
  /\ php[p].pc = "insert"
  /\ php[p].next <= Len(php[p].rows)
  /\ \/ /\ results # NoTable
        /\ results' = Append(results, php[p].rows[php[p].next])
        /\ UNCHANGED failed
     \/ /\ failed' = [failed EXCEPT ![p] = @ \cup {php[p].next}]
        /\ UNCHANGED results
  /\ php' = [php EXCEPT ![p].next = @ + 1]
  /\ UNCHANGED <<studio, net, alone, owner>>

Finish(p) ==
  /\ php[p].pc = "insert"
  /\ php[p].next > Len(php[p].rows)
  /\ Goto(p, "done")
  /\ UNCHANGED <<studio, net, results, alone, owner, failed>>

\* A time limit, an exception of the database driver, a server restart.
Die(p) ==
  /\ php[p].pc \in {"drop", "create", "insert"}
  /\ php' = [php EXCEPT ![p] = Idle]
  /\ owner' = IF owner = p THEN Nobody ELSE owner
  /\ failed' = [failed EXCEPT ![p] = {}]
  /\ UNCHANGED <<studio, net, results, alone>>

Next ==
  \/ \E i \in Ids : Pass(i)
  \/ SendToServer \/ Restart
  \/ \E p \in Procs :
       \/ Accept(p) \/ Drop(p) \/ Create(p)
       \/ Insert(p) \/ Finish(p) \/ Die(p)

Spec == Init /\ [][Next]_vars

-----------------------------------------------------------------------------
\* Every row on its way or in the table is that of a runner that passed, and a
\* process inserts the rows of its request and no others.
TypeOK ==
  /\ laps \in [Ids -> 0..MaxLaps]
  /\ net \subseteq [number : 1..requests, rows : Seq(Row)]
  /\ requests \in 0..MaxRequests /\ restarts \in 0..MaxRestarts
  /\ php \in [Procs -> [pc : {"idle", "drop", "create", "insert", "done"},
                        rows : Seq(Row), next : Nat]]
  /\ \A p \in Procs : php[p].next \in 1..Len(php[p].rows) + 1
  /\ results = NoTable \/ results \in Seq(Row)
  /\ alone \in [Procs -> BOOLEAN]
  /\ owner \in Procs \cup {Nobody}
  /\ failed \in [Procs -> SUBSET Nat]

\* The rows a process has inserted, and that they are still in the table, in
\* the order of the request (whatever stands between them).
Inserted(p) == (1..php[p].next - 1) \ failed[p]
InOrder(p) ==
  \E at \in [Inserted(p) -> DOMAIN results] :
    /\ \A j, k \in Inserted(p) : j < k => at[j] < at[k]
    /\ \A k \in Inserted(p) : results[at[k]] = php[p].rows[k]

\* The process that dropped the table last loses none of the rows it inserted,
\* and they stay in their order, whatever other processes, older or dead, do
\* to the table meanwhile.
LastDropKeepsItsRows == owner # Nobody /\ results # NoTable => InOrder(owner)

\* A request that had the table to itself, and of which no statement failed,
\* leaves its rows and nothing else, whatever overlapping, failing or dying
\* processes left before: the next lonely request repairs the results.
LoneRequestRepairs ==
  \A p \in Procs :
    (php[p].pc = "done" /\ alone[p] /\ failed[p] = {}) => results = php[p].rows
=============================================================================
