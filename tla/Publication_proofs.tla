------------------------- MODULE Publication_proofs -------------------------
(***************************************************************************)
(* What Publication promises for any number of runners, requests and       *)
(* server processes: the process that dropped the table last keeps the     *)
(* rows it inserted, in their order, and a request alone on the server, if *)
(* none of its statements fails, leaves exactly the rows it brought.       *)
(***************************************************************************)
EXTENDS Publication, FiniteSetTheorems, FunctionTheorems,
        SequenceTheorems, TLAPS

-----------------------------------------------------------------------------
(* The rows a request carries.                                             *)

\* In a finite set of numbers the ranks grow with the numbers.
LEMMA RankGrows ==
  ASSUME NEW S \in SUBSET Nat, IsFiniteSet(S)
  PROVE  /\ \A i \in S : Rank(i, S) \in 1..Cardinality(S)
         /\ \A i, j \in S : i < j => Rank(i, S) < Rank(j, S)
<1> DEFINE Below(i) == {j \in S : j <= i}
<1>1. \A i \in S : /\ IsFiniteSet(Below(i)) /\ Cardinality(Below(i)) \in Nat
                   /\ Cardinality(Below(i)) <= Cardinality(S)
                   /\ Cardinality(Below(i)) # 0
  <2> SUFFICES ASSUME NEW i \in S
               PROVE  /\ IsFiniteSet(Below(i)) /\ Cardinality(Below(i)) \in Nat
                      /\ Cardinality(Below(i)) <= Cardinality(S)
                      /\ Cardinality(Below(i)) # 0
    OBVIOUS
  <2>1. i \in Below(i) /\ Below(i) \in SUBSET S
    OBVIOUS
  <2> HIDE DEF Below
  <2> QED
    BY <2>1, FS_Subset, FS_CardinalityType, FS_EmptySet
<1>2. Cardinality(S) \in Nat
  BY FS_CardinalityType
<1>3. ASSUME NEW i \in S, NEW j \in S, i < j
      PROVE  Cardinality(Below(i)) < Cardinality(Below(j))
  <2>0. i \in Nat /\ j \in Nat /\ \A k \in S : k \in Nat
    OBVIOUS
  <2>1. j \in Below(j) /\ j \notin Below(i)
    BY <1>3, <2>0
  <2>2. ASSUME NEW k \in Below(i)
        PROVE  k \in Below(j)
    <3>1. k \in S /\ k \in Nat /\ k <= i
      BY <2>0
    <3> QED
      BY <3>1, <2>0, <1>3
  <2>3. Below(i) \in SUBSET Below(j)
    BY <2>2
  <2> HIDE DEF Below
  <2>4. /\ Cardinality(Below(i)) <= Cardinality(Below(j))
        /\ Cardinality(Below(j)) # Cardinality(Below(i))
    BY <2>1, <2>3, <1>1, FS_Subset
  <2> QED
    BY <2>4, <1>1
<1>4. \A i \in S : Rank(i, S) = Cardinality(Below(i))
  BY DEF Rank
<1> HIDE DEF Below
<1> QED
  BY <1>1, <1>2, <1>3, <1>4

\* There is a number of every rank up to the size of the set.
LEMMA EveryRank ==
  ASSUME NEW S \in SUBSET Nat, IsFiniteSet(S)
  PROVE  \A k \in 1..Cardinality(S) : \E i \in S : Rank(i, S) = k
<1> DEFINE n == Cardinality(S)
           f == [i \in S |-> Rank(i, S)]
<1>1. n \in Nat
  BY FS_CardinalityType
<1>2. IsFiniteSet(1..n) /\ Cardinality(1..n) = n
  BY <1>1, FS_Interval
<1>3. f \in [S -> 1..n]
  BY RankGrows
<1>4. ASSUME NEW i \in S, NEW j \in S, f[i] = f[j]
      PROVE  i = j
  <2>1. Rank(i, S) = Rank(j, S) /\ Rank(i, S) \in Int
    BY <1>4, RankGrows
  <2>2. ~ (i < j) /\ ~ (j < i)
    BY <2>1, RankGrows
  <2> QED
    BY <2>2
<1> HIDE DEF f, n
<1>5. f \in Injection(S, 1..n)
  BY <1>3, <1>4 DEF Injection, IsInjective
<1>6. f \in Surjection(S, 1..n)
  BY <1>2, <1>5, FS_Injection DEF n
<1> QED
  BY <1>6 DEF Surjection, f, n

\* A request carries one row for each runner that passed and for no other, in
\* the order of the runners, with the laps the table gives the runner.
THEOREM RowsOfTable ==
  ASSUME NEW table \in [Ids -> 0..MaxLaps]
  PROVE  LET rows == RowsOf(table)
         IN  /\ rows \in Seq(Row)
             /\ \A k \in DOMAIN rows : rows[k].tours = table[rows[k].id]
             /\ \A i \in Ids :
                  table[i] > 0 <=> \E k \in DOMAIN rows : rows[k].id = i
             /\ \A k, l \in DOMAIN rows : k < l => rows[k].id < rows[l].id
<1> DEFINE S == Passed(table)
           n == Cardinality(S)
           Nth(k) == CHOOSE i \in S : Rank(i, S) = k
           rows == [k \in 1..n |-> [id |-> Nth(k), tours |-> table[Nth(k)]]]
<1>1. RowsOf(table) = rows
  BY DEF RowsOf
<1>2. S \in SUBSET Nat /\ S \subseteq Ids /\ IsFiniteSet(S)
  BY PublicationConstants, FS_Subset DEF Passed
<1>3. n \in Nat
  BY <1>2, FS_CardinalityType
<1>4. \A k \in 1..n : Nth(k) \in S /\ Rank(Nth(k), S) = k
  BY <1>2, EveryRank
<1>5. \A i \in S : Rank(i, S) \in 1..n
  BY <1>2, RankGrows
<1>6. \A i, j \in S : i < j => Rank(i, S) < Rank(j, S)
  BY <1>2, RankGrows
<1>7. \A i \in S : Nth(Rank(i, S)) = i
  <2> SUFFICES ASSUME NEW i \in S
               PROVE  Nth(Rank(i, S)) = i
    OBVIOUS
  <2> DEFINE j == Nth(Rank(i, S))
  <2>1. j \in S /\ Rank(j, S) = Rank(i, S) /\ Rank(i, S) \in Int
    BY <1>3, <1>4, <1>5
  <2> HIDE DEF j
  <2>2. ~ (i < j) /\ ~ (j < i)
    BY <2>1, <1>6, <1>3, <1>5
  <2>3. i = j
    BY <2>1, <2>2, <1>2
  <2> QED
    BY <2>3 DEF j
<1>8. \A i \in Ids : i \in S <=> table[i] > 0
  BY DEF Passed
<1> HIDE DEF S, Nth, n
<1>9. \A k \in 1..n : [id |-> Nth(k), tours |-> table[Nth(k)]] \in Row
  <2> SUFFICES ASSUME NEW k \in 1..n
               PROVE  [id |-> Nth(k), tours |-> table[Nth(k)]] \in Row
    OBVIOUS
  <2>1. Nth(k) \in Ids /\ table[Nth(k)] > 0 /\ table[Nth(k)] \in 0..MaxLaps
    BY <1>2, <1>4, <1>8
  <2> QED
    BY <2>1, PublicationConstants DEF Row
<1>10. rows \in Seq(Row)
  BY <1>3, <1>9
<1>11. \A k \in 1..n : rows[k].id = Nth(k) /\ rows[k].tours = table[rows[k].id]
  OBVIOUS
<1>12. DOMAIN rows = 1..n
  OBVIOUS
<1> HIDE DEF rows
<1>13. \A k, l \in 1..n : k < l => rows[k].id < rows[l].id
  <2> SUFFICES ASSUME NEW k \in 1..n, NEW l \in 1..n, k < l
               PROVE  Nth(k) < Nth(l)
    BY <1>11
  <2>1. /\ Nth(k) \in S /\ Nth(l) \in S
        /\ Rank(Nth(k), S) = k /\ Rank(Nth(l), S) = l
    BY <1>4
  <2>2. ~ (Nth(l) < Nth(k)) /\ Nth(k) # Nth(l)
    BY <2>1, <1>6, <1>3
  <2>3. Nth(k) \in Nat /\ Nth(l) \in Nat
    BY <2>1, <1>2
  <2> QED
    BY <2>2, <2>3
<1>14. \A i \in Ids : table[i] > 0 <=> \E k \in 1..n : rows[k].id = i
  <2>1. ASSUME NEW i \in Ids, table[i] > 0
        PROVE  \E k \in 1..n : rows[k].id = i
    BY <2>1, <1>5, <1>7, <1>8, <1>11
  <2>2. ASSUME NEW i \in Ids, NEW k \in 1..n, rows[k].id = i
        PROVE  table[i] > 0
    BY <2>2, <1>4, <1>8, <1>11
  <2> QED
    BY <2>1, <2>2
<1> QED
  BY <1>1, <1>10, <1>11, <1>12, <1>13, <1>14
-----------------------------------------------------------------------------
(* The inductive invariants.                                               *)

\* What a process is doing: it has inserted nothing yet before the INSERTs,
\* and only the INSERTs it has tried can have failed.
Statements ==
  \A p \in Procs : /\ php[p].pc \in {"drop", "create"} => php[p].next = 1
                   /\ failed[p] \subseteq 1..php[p].next - 1

\* The process that dropped the table last is still at work on it, and as long
\* as nobody has created the table again it has inserted nothing.
Dropped ==
  owner # Nobody =>
    /\ php[owner].pc \in {"create", "insert", "done"}
    /\ results = NoTable => Inserted(owner) = {}

\* No request is being handled by p.
Waiting(p) == php[p].pc \in {"idle", "done"}

\* The rows of p, as far as it got, are the table.
Exactly(p) ==
  /\ Len(results) = php[p].next - 1
  /\ \A k \in 1..Len(results) : results[k] = php[p].rows[k]

\* While a request has the table to itself nobody else is at work, and the
\* table holds exactly the rows inserted so far, if none of them was refused.
OwnTable(p) ==
  /\ \A q \in Procs \ {p} : Waiting(q)
  /\ php[p].pc = "create" => results = NoTable
  /\ php[p].pc = "insert" => results \in Seq(Row) /\ (failed[p] = {} => Exactly(p))
  /\ php[p].pc = "done" /\ failed[p] = {} => results = php[p].rows

\* This is so for every process of which the history says it.
Alone == \A p \in Procs : alone[p] => OwnTable(p)

\* The inductive strengthening of LastDropKeepsItsRows and LoneRequestRepairs.
TableInv ==
  /\ TypeOK /\ Statements /\ Dropped
  /\ Alone /\ LastDropKeepsItsRows

-----------------------------------------------------------------------------
(* Types.                                                                  *)

Script == [pc : {"idle", "drop", "create", "insert", "done"},
           rows : Seq(Row), next : Nat]

Studio ==
  /\ laps \in [Ids -> 0..MaxLaps]
  /\ net \subseteq [number : 1..requests, rows : Seq(Row)]
  /\ requests \in 0..MaxRequests /\ restarts \in 0..MaxRestarts

Server ==
  /\ php \in [Procs -> Script]
  /\ \A p \in Procs : php[p].next \in 1..Len(php[p].rows) + 1
  /\ results = NoTable \/ results \in Seq(Row)
  /\ alone \in [Procs -> BOOLEAN]
  /\ owner \in Procs \cup {Nobody}
  /\ failed \in [Procs -> SUBSET Nat]

\* The types of the two sides of the network.
LEMMA TypeParts == (TypeOK <=> Studio /\ Server) /\ (TypeOK' <=> Studio' /\ Server')
  BY DEF TypeOK, Studio, Server, Script

\* A request that is sent carries the rows of the table, or none.
LEMMA Sending ==
  ASSUME Studio, SendToServer
  PROVE  /\ net' \subseteq [number : 1..requests', rows : Seq(Row)]
         /\ requests' \in 0..MaxRequests
<1>1. MaxRequests \in Nat /\ requests \in Nat
  BY PublicationConstants DEF Studio
<1>2. CASE UNCHANGED <<net, requests>>
  BY <1>1, <1>2 DEF Studio
<1>3. CASE /\ requests < MaxRequests
           /\ requests' = requests + 1
           /\ \E rows \in {RowsOf(laps), <<>>} :
                net' = net \cup {[number |-> requests', rows |-> rows]}
  <2>1. PICK rows \in {RowsOf(laps), <<>>} :
               net' = net \cup {[number |-> requests', rows |-> rows]}
    BY <1>3
  <2>2. laps \in [Ids -> 0..MaxLaps]
    BY DEF Studio
  <2>3. RowsOf(laps) \in Seq(Row)
    BY <2>2, RowsOfTable
  <2>4. rows \in Seq(Row)
    <3>1. <<>> \in Seq(Row)
      OBVIOUS
    <3> QED
      BY <3>1, <2>3
  <2>5. requests' \in 1..MaxRequests
    BY <1>1, <1>3
  <2>6. [number |-> requests', rows |-> rows] \in [number : 1..requests', rows : Seq(Row)]
    BY <2>4, <2>5, <1>1, <1>3
  <2>7. net \subseteq [number : 1..requests', rows : Seq(Row)]
    <3> SUFFICES ASSUME NEW r \in net
                 PROVE  r \in [number : 1..requests', rows : Seq(Row)]
      OBVIOUS
    <3>1. r \in [number : 1..requests, rows : Seq(Row)]
      BY DEF Studio
    <3>2. 1..requests \subseteq 1..requests'
      BY <1>1, <1>3
    <3> QED
      BY <3>1, <3>2
  <2> QED
    BY <2>1, <2>5, <2>6, <2>7
<1> QED
  BY <1>2, <1>3 DEF SendToServer

\* A statement moves one process on and leaves the others where they are.
LEMMA Moving ==
  ASSUME Server, NEW p \in Procs, NEW pc \in {"idle", "drop", "create", "insert", "done"},
         Goto(p, pc)
  PROVE  /\ php' \in [Procs -> Script]
         /\ php'[p].pc = pc
         /\ php'[p].rows = php[p].rows /\ php'[p].next = php[p].next
         /\ \A q \in Procs : q # p => php'[q] = php[q]
         /\ \A q \in Procs : php'[q].next \in 1..Len(php'[q].rows) + 1
<1>1. php \in [Procs -> Script] /\ php[p] \in Script
  BY DEF Server
<1>2. php' = [php EXCEPT ![p] = [php[p] EXCEPT !.pc = pc]]
  BY DEF Goto
<1>3. [php[p] EXCEPT !.pc = pc] \in Script
  BY <1>1 DEF Script
<1>4. /\ php' \in [Procs -> Script]
      /\ php'[p] = [php[p] EXCEPT !.pc = pc]
      /\ \A q \in Procs : q # p => php'[q] = php[q]
  BY <1>1, <1>2, <1>3
<1>5. /\ php'[p].pc = pc
      /\ php'[p].rows = php[p].rows /\ php'[p].next = php[p].next
  BY <1>1, <1>4 DEF Script
<1>6. \A q \in Procs : php'[q].next \in 1..Len(php'[q].rows) + 1
  BY <1>4, <1>5 DEF Server
<1> QED
  BY <1>4, <1>5, <1>6

\* Whatever the studio does, its table and its requests keep their types.
LEMMA StudioKeeps ==
  ASSUME Studio, \/ \E i \in Ids : Pass(i)
                 \/ SendToServer \/ Restart
  PROVE  Studio' /\ UNCHANGED server
<1>1. /\ MaxRequests \in Nat /\ MaxRestarts \in Nat /\ MaxLaps \in Nat
      /\ restarts \in 0..MaxRestarts /\ laps \in [Ids -> 0..MaxLaps]
  BY PublicationConstants DEF Studio
<1>2. ASSUME NEW i \in Ids, Pass(i)
      PROVE  Studio' /\ UNCHANGED server
  <2>1. laps[i] + 1 \in 0..MaxLaps
    BY <1>1, <1>2 DEF Pass
  <2>2. laps' \in [Ids -> 0..MaxLaps]
    BY <2>1, <1>1, <1>2 DEF Pass
  <2> QED
    BY <2>2, <1>2 DEF Pass, Studio
<1>3. CASE SendToServer
  <2>1. /\ net' \subseteq [number : 1..requests', rows : Seq(Row)]
        /\ requests' \in 0..MaxRequests
    BY <1>3, Sending
  <2>2. UNCHANGED <<laps, restarts, server>>
    BY <1>3 DEF SendToServer
  <2> QED
    BY <2>1, <2>2 DEF Studio
<1>4. CASE Restart
  <2>1. /\ restarts' \in 0..MaxRestarts /\ laps' \in [Ids -> 0..MaxLaps]
        /\ UNCHANGED <<net, requests, server>>
    BY <1>1, <1>4 DEF Restart
  <2> QED
    BY <2>1 DEF Studio
<1> QED
  BY <1>2, <1>3, <1>4

-----------------------------------------------------------------------------
(* The rows of a process in the table.                                     *)

\* The rows with the numbers "some" are in the table "table", in order.
Embedded(some, rows, table) ==
  \E at \in [some -> DOMAIN table] :
    /\ \A j, k \in some : j < k => at[j] < at[k]
    /\ \A k \in some : table[at[k]] = rows[k]

\* InOrder in these words, before and after a step.
LEMMA InOrderIsEmbedded ==
  ASSUME NEW p
  PROVE  /\ InOrder(p) <=> Embedded(Inserted(p), php[p].rows, results)
         /\ InOrder(p)' <=> Embedded(Inserted(p)', php'[p].rows, results')
  BY DEF InOrder, Embedded

\* Nothing inserted, nothing to lose.
LEMMA EmbeddedNothing ==
  ASSUME NEW rows, NEW table
  PROVE  Embedded({}, rows, table)
<1> DEFINE at == [k \in {} |-> 0]
<1>1. at \in [{} -> DOMAIN table]
  OBVIOUS
<1> HIDE DEF at
<1> QED
  BY <1>1 DEF Embedded

\* A row more at the end of the table keeps the rows in it.
LEMMA EmbeddedLonger ==
  ASSUME NEW some, NEW rows, NEW table \in Seq(Row), NEW row \in Row,
         Embedded(some, rows, table)
  PROVE  Embedded(some, rows, Append(table, row))
<1>1. PICK at \in [some -> DOMAIN table] :
        /\ \A j, k \in some : j < k => at[j] < at[k]
        /\ \A k \in some : table[at[k]] = rows[k]
  BY DEF Embedded
<1>2. /\ DOMAIN table \subseteq DOMAIN Append(table, row)
      /\ \A i \in DOMAIN table : Append(table, row)[i] = table[i]
  OBVIOUS
<1>3. /\ at \in [some -> DOMAIN Append(table, row)]
      /\ \A k \in some : Append(table, row)[at[k]] = rows[k]
  BY <1>1, <1>2
<1> QED
  BY <1>1, <1>3 DEF Embedded

\* And the row may be the next one of the process.
LEMMA EmbeddedOneMore ==
  ASSUME NEW n \in Nat, NEW some \in SUBSET (1..n - 1), NEW rows,
         NEW table \in Seq(Row), rows[n] \in Row,
         Embedded(some, rows, table)
  PROVE  Embedded(some \cup {n}, rows, Append(table, rows[n]))
<1> DEFINE row == rows[n]
           longer == Append(table, row)
<1>1. PICK at \in [some -> DOMAIN table] :
        /\ \A j, k \in some : j < k => at[j] < at[k]
        /\ \A k \in some : table[at[k]] = rows[k]
  BY DEF Embedded
<1> DEFINE to == [k \in some \cup {n} |->
                    IF k = n THEN Len(table) + 1 ELSE at[k]]
<1>2. /\ Len(table) \in Nat /\ DOMAIN table = 1..Len(table)
      /\ DOMAIN longer = 1..Len(table) + 1
      /\ longer[Len(table) + 1] = row
      /\ \A i \in DOMAIN table : longer[i] = table[i]
  OBVIOUS
<1>3. \A k \in some : k \in Nat /\ k < n
  OBVIOUS
<1>4. /\ \A k \in some : to[k] = at[k] /\ to[k] \in 1..Len(table)
      /\ to[n] = Len(table) + 1
  BY <1>1, <1>2, <1>3
<1>5. to \in [some \cup {n} -> DOMAIN longer]
  <2>1. \A k \in some \cup {n} : to[k] \in 1..Len(table) + 1
    BY <1>2, <1>4
  <2> QED
    BY <2>1, <1>2
<1>6. \A k \in some : longer[to[k]] = rows[k]
  BY <1>1, <1>2, <1>4
<1>7. longer[to[n]] = rows[n]
  BY <1>2, <1>4
<1>8. ASSUME NEW j \in some \cup {n}, NEW k \in some \cup {n}, j < k
      PROVE  to[j] < to[k]
  <2>1. CASE j \in some /\ k \in some
    BY <2>1, <1>1, <1>4, <1>8
  <2>2. CASE j \in some /\ k = n
    BY <2>2, <1>2, <1>4
  <2>3. CASE j = n
    BY <2>3, <1>3, <1>8
  <2> QED
    BY <2>1, <2>2, <2>3
<1> HIDE DEF to, longer
<1>9. Embedded(some \cup {n}, rows, longer)
  BY <1>5, <1>6, <1>7, <1>8 DEF Embedded
<1> QED
  BY <1>9 DEF longer

\* A statement that touches neither the owner's rows nor the table it dropped
\* keeps them; so does one that adds a row to the table.
LEMMA OwnerUntouched ==
  ASSUME Server, LastDropKeepsItsRows, owner' # Nobody, owner' = owner,
         php'[owner].rows = php[owner].rows, Inserted(owner)' = Inserted(owner),
         results \in Seq(Row),
         \/ results' = results
         \/ \E row \in Row : results' = Append(results, row)
  PROVE  LastDropKeepsItsRows'
<1>1. Embedded(Inserted(owner), php[owner].rows, results)
  BY InOrderIsEmbedded, PublicationConstants DEF LastDropKeepsItsRows
<1>2. Embedded(Inserted(owner), php[owner].rows, results')
  BY <1>1, EmbeddedLonger
<1>3. Embedded(Inserted(owner)', php'[owner].rows, results')
  BY <1>2
<1>4. InOrder(owner)'
  BY <1>3, InOrderIsEmbedded
<1> QED
  BY <1>4 DEF LastDropKeepsItsRows

\* Nothing inserted yet, and the promise holds of any table.
LEMMA OwnerAtStart ==
  ASSUME Inserted(owner)' = {}
  PROVE  LastDropKeepsItsRows'
<1>1. InOrder(owner)'
  <2>1. Embedded(Inserted(owner)', php'[owner'].rows, results')
    BY EmbeddedNothing
  <2> QED
    BY <2>1 DEF InOrder, Embedded
<1> QED
  BY <1>1 DEF LastDropKeepsItsRows

-----------------------------------------------------------------------------
(* The statements of the script.                                           *)

\* What is left to show of a statement: it does not touch the studio, and the
\* table keeps its promises to the process that dropped it and to the one that
\* is alone.
Kept == Server' /\ Statements' /\ Dropped' /\ Alone' /\ LastDropKeepsItsRows'

\* A new request resets who is alone and who dropped the table.
LEMMA AcceptKeeps ==
  ASSUME TableInv, NEW p \in Procs, Accept(p)
  PROVE  Kept /\ UNCHANGED studio /\ net' \subseteq net
<1>1. Studio /\ Server /\ Statements /\ Dropped /\ Alone /\ LastDropKeepsItsRows
  BY TypeParts DEF TableInv
<1>2. PICK r \in net :
        /\ php[p].pc \in {"idle", "done"}
        /\ net' = net \ {r}
        /\ php' = [php EXCEPT ![p] = [pc |-> "drop", rows |-> r.rows, next |-> 1]]
        /\ alone' = [q \in Procs |-> q = p /\ \A o \in Procs \ {p} :
                                                php[o].pc \in {"idle", "done"}]
        /\ owner' = IF owner = p THEN Nobody ELSE owner
        /\ failed' = [failed EXCEPT ![p] = {}]
        /\ UNCHANGED <<studio, results>>
  BY DEF Accept
<1>3. r.rows \in Seq(Row) /\ Len(r.rows) \in Nat
  BY <1>1 DEF Studio
<1>4. [pc |-> "drop", rows |-> r.rows, next |-> 1] \in Script
  BY <1>3 DEF Script
<1>5. /\ php' \in [Procs -> Script]
      /\ php'[p] = [pc |-> "drop", rows |-> r.rows, next |-> 1]
      /\ \A q \in Procs : q # p => php'[q] = php[q]
  BY <1>1, <1>2, <1>4 DEF Server
<1>6. /\ \A q \in Procs : alone'[q] =>
           q = p /\ \A o \in Procs \ {p} : php[o].pc \in {"idle", "done"}
      /\ alone' \in [Procs -> BOOLEAN]
  BY <1>2
<1>7. /\ php'[p].pc = "drop" /\ php'[p].rows = r.rows /\ php'[p].next = 1
      /\ results' = results
  BY <1>2, <1>5
<1>8. /\ owner' \in Procs \cup {Nobody}
      /\ owner' # Nobody => owner' = owner /\ owner # p /\ owner \in Procs
  BY <1>1, <1>2 DEF Server
<1>14. /\ failed' \in [Procs -> SUBSET Nat] /\ failed'[p] = {}
       /\ \A q \in Procs : q # p => failed'[q] = failed[q]
  BY <1>1, <1>2 DEF Server
<1>9. Server'
  <2>1. \A q \in Procs : php'[q].next \in 1..Len(php'[q].rows) + 1
    <3>1. php'[p].next \in 1..Len(php'[p].rows) + 1
      BY <1>3, <1>7
    <3> QED
      BY <3>1, <1>1, <1>5 DEF Server
  <2>2. results' = NoTable \/ results' \in Seq(Row)
    BY <1>1, <1>7 DEF Server
  <2> QED
    BY <2>1, <2>2, <1>5, <1>6, <1>8, <1>14 DEF Server
<1>10. Statements'
  BY <1>1, <1>5, <1>7, <1>14 DEF Statements
<1>15. owner' # Nobody => /\ php'[owner] = php[owner] /\ owner' = owner
                          /\ Inserted(owner)' = Inserted(owner)
  BY <1>5, <1>8, <1>14 DEF Inserted
<1>11. Dropped'
  BY <1>1, <1>7, <1>8, <1>15 DEF Dropped
<1>12. Alone'
  BY <1>5, <1>6, <1>7 DEF Alone, OwnTable, Waiting
<1>13. LastDropKeepsItsRows'
  <2>1. CASE owner' = Nobody \/ results' = NoTable
    BY <2>1 DEF LastDropKeepsItsRows
  <2>2. CASE owner' # Nobody /\ results' # NoTable
    <3>1. results \in Seq(Row)
      BY <2>2, <1>1, <1>7 DEF Server
    <3> QED
      BY <2>2, <3>1, <1>1, <1>7, <1>15, OwnerUntouched
  <2> QED
    BY <2>1, <2>2
<1> QED
  BY <1>2, <1>9, <1>10, <1>11, <1>12, <1>13 DEF Kept

\* Dropping the table leaves nothing to lose; a DROP that fails loses nothing.
LEMMA DropKeeps ==
  ASSUME TableInv, NEW p \in Procs, Drop(p)
  PROVE  Kept /\ UNCHANGED studio /\ net' \subseteq net
<1>1. Studio /\ Server /\ Statements /\ Dropped /\ Alone /\ LastDropKeepsItsRows
  BY TypeParts DEF TableInv
<1>2. /\ php' \in [Procs -> Script]
      /\ php'[p].pc = "create"
      /\ php'[p].rows = php[p].rows /\ php'[p].next = php[p].next
      /\ \A q \in Procs : q # p => php'[q] = php[q]
      /\ \A q \in Procs : php'[q].next \in 1..Len(php'[q].rows) + 1
  BY <1>1, Moving DEF Drop
<1>3. /\ php[p].pc = "drop" /\ php[p].next = 1
      /\ UNCHANGED <<studio, net, failed>>
  BY <1>1 DEF Drop, Statements
<1>4. Statements'
  BY <1>1, <1>2, <1>3 DEF Statements
<1>5. \A q \in Procs : Inserted(q)' = Inserted(q)
  BY <1>2, <1>3 DEF Inserted
<1>6. Inserted(p) = {}
  BY <1>3 DEF Inserted
<1>7. CASE results' = NoTable /\ owner' = p /\ UNCHANGED alone
  <2>1. Server'
    BY <1>1, <1>2, <1>3, <1>7 DEF Server
  <2>2. Dropped'
    BY <1>2, <1>5, <1>6, <1>7 DEF Dropped
  <2>3. LastDropKeepsItsRows'
    BY <1>7 DEF LastDropKeepsItsRows
  <2>4. Alone'
    BY <1>1, <1>2, <1>3, <1>7 DEF Alone, OwnTable, Waiting
  <2> QED
    BY <1>3, <1>4, <2>1, <2>2, <2>3, <2>4 DEF Kept
<1>8. CASE alone' = [alone EXCEPT ![p] = FALSE] /\ UNCHANGED <<results, owner>>
  <2>1. /\ alone' \in [Procs -> BOOLEAN] /\ ~alone'[p]
        /\ \A q \in Procs : alone'[q] => alone[q]
    BY <1>1, <1>8 DEF Server
  <2>2. Server'
    BY <1>1, <1>2, <1>3, <1>8, <2>1 DEF Server
  <2>3. owner # Nobody => owner \in Procs /\ owner # p
    BY <1>1, <1>3 DEF Server, Dropped
  <2>4. owner # Nobody => /\ php'[owner] = php[owner]
                          /\ Inserted(owner)' = Inserted(owner)
    BY <1>2, <1>5, <1>8, <2>3
  <2>5. Dropped'
    BY <1>1, <1>8, <2>4 DEF Dropped
  <2>6. LastDropKeepsItsRows'
    <3>1. CASE owner = Nobody \/ results = NoTable
      BY <3>1, <1>8 DEF LastDropKeepsItsRows
    <3>2. CASE owner # Nobody /\ results # NoTable
      <4>1. results \in Seq(Row)
        BY <3>2, <1>1 DEF Server
      <4> QED
        BY <3>2, <4>1, <1>1, <1>8, <2>4, OwnerUntouched
    <3> QED
      BY <3>1, <3>2
  <2>7. Alone'
    BY <1>1, <1>2, <1>3, <1>8, <2>1 DEF Alone, OwnTable, Waiting
  <2> QED
    BY <1>3, <1>4, <2>2, <2>5, <2>6, <2>7 DEF Kept
<1> QED
  BY <1>7, <1>8 DEF Drop

\* CREATE IF NOT EXISTS leaves the rows of a table that is there.
LEMMA CreateKeeps ==
  ASSUME TableInv, NEW p \in Procs, Create(p)
  PROVE  Kept /\ UNCHANGED studio /\ net' \subseteq net
<1>1. Studio /\ Server /\ Statements /\ Dropped /\ Alone /\ LastDropKeepsItsRows
  BY TypeParts DEF TableInv
<1>2. /\ php' \in [Procs -> Script]
      /\ php'[p].pc = "insert"
      /\ php'[p].rows = php[p].rows /\ php'[p].next = php[p].next
      /\ \A q \in Procs : q # p => php'[q] = php[q]
      /\ \A q \in Procs : php'[q].next \in 1..Len(php'[q].rows) + 1
  BY <1>1, Moving DEF Create
<1>3. /\ php[p].pc = "create" /\ php[p].next = 1
      /\ UNCHANGED <<studio, net, owner, failed>>
  BY <1>1 DEF Create, Statements
<1>4. /\ <<>> \in Seq(Row) /\ Len(<<>>) = 0
      /\ NoTable \notin Seq(Row)
  BY PublicationConstants
<1>5. /\ alone' \in [Procs -> BOOLEAN]
      /\ \A q \in Procs : alone'[q] => alone[q]
      /\ results' = results \/ (results = NoTable /\ results' = <<>>)
      /\ alone'[p] => (results = NoTable => results' = <<>>)
  BY <1>1 DEF Create, Server
<1>6. results' = NoTable \/ results' \in Seq(Row)
  BY <1>1, <1>4, <1>5 DEF Server
<1>7. Server'
  BY <1>1, <1>2, <1>3, <1>5, <1>6 DEF Server
<1>8. Statements'
  BY <1>1, <1>2, <1>3 DEF Statements
<1>9. /\ owner # Nobody => owner \in Procs
      /\ \A q \in Procs : Inserted(q)' = Inserted(q)
  BY <1>1, <1>2, <1>3 DEF Server, Inserted
<1>10. Dropped'
  BY <1>1, <1>2, <1>3, <1>4, <1>5, <1>9 DEF Dropped
<1>11. LastDropKeepsItsRows'
  <2>1. CASE owner = Nobody
    BY <2>1, <1>3 DEF LastDropKeepsItsRows
  <2>2. CASE owner # Nobody /\ results = NoTable
    <3>1. Inserted(owner)' = {}
      BY <2>2, <1>1, <1>3, <1>9 DEF Dropped
    <3> QED
      BY <3>1, OwnerAtStart
  <2>3. CASE owner # Nobody /\ results # NoTable
    <3>1. results \in Seq(Row) /\ results' = results
      BY <2>3, <1>1, <1>5 DEF Server
    <3>2. php'[owner].rows = php[owner].rows
      BY <2>3, <1>2, <1>9
    <3> QED
      BY <2>3, <3>1, <3>2, <1>1, <1>3, <1>9, OwnerUntouched
  <2> QED
    BY <2>1, <2>2, <2>3
<1>12. Alone'
  <2> SUFFICES ASSUME NEW q \in Procs, alone'[q]
               PROVE  OwnTable(q)'
    BY DEF Alone
  <2>1. OwnTable(q)
    BY <1>1, <1>5 DEF Alone
  <2>2. q = p
    BY <2>1, <1>3 DEF OwnTable, Waiting
  <2>3. results = NoTable
    BY <2>1, <2>2, <1>3 DEF OwnTable
  <2>4. results' = <<>>
    BY <2>2, <2>3, <1>5
  <2>5. results' \in Seq(Row) /\ Len(results') = 0
    BY <2>4, <1>4
  <2>6. Exactly(q)'
    BY <2>2, <2>5, <1>2, <1>3 DEF Exactly
  <2> QED
    BY <2>1, <2>2, <2>5, <2>6, <1>2, <1>3 DEF OwnTable, Waiting
<1> QED
  BY <1>3, <1>7, <1>8, <1>10, <1>11, <1>12 DEF Kept

\* An INSERT moves its process on to the next row.
LEMMA Inserting ==
  ASSUME Server, NEW p \in Procs, Insert(p)
  PROVE  /\ php[p].rows \in Seq(Row) /\ php[p].next \in 1..Len(php[p].rows)
         /\ php[p].rows[php[p].next] \in Row
         /\ php' \in [Procs -> Script]
         /\ php'[p].pc = "insert" /\ php'[p].rows = php[p].rows
         /\ php'[p].next = php[p].next + 1
         /\ \A q \in Procs : q # p => php'[q] = php[q]
         /\ \A q \in Procs : php'[q].next \in 1..Len(php'[q].rows) + 1
<1>1. /\ php[p] \in Script /\ php[p].rows \in Seq(Row) /\ php[p].next \in Nat
      /\ php[p].next \in 1..Len(php[p].rows)
      /\ php[p].pc = "insert"
      /\ php' = [php EXCEPT ![p] = [php[p] EXCEPT !.next = @ + 1]]
  BY DEF Server, Script, Insert
<1>2. [php[p] EXCEPT !.next = @ + 1] \in Script
  BY <1>1 DEF Script
<1>3. /\ php' \in [Procs -> Script]
      /\ php'[p] = [php[p] EXCEPT !.next = @ + 1]
      /\ \A q \in Procs : q # p => php'[q] = php[q]
  BY <1>1, <1>2 DEF Server
<1>4. /\ php'[p].pc = "insert" /\ php'[p].rows = php[p].rows
      /\ php'[p].next = php[p].next + 1
  BY <1>1, <1>3 DEF Script
<1>5. php'[p].next \in 1..Len(php'[p].rows) + 1
  BY <1>1, <1>4
<1>6. \A q \in Procs : php'[q].next \in 1..Len(php'[q].rows) + 1
  BY <1>3, <1>5 DEF Server
<1>7. php[p].rows[php[p].next] \in Row
  BY <1>1
<1> QED
  BY <1>1, <1>3, <1>4, <1>6, <1>7

\* An INSERT adds a row of the request to the rows that are there, or fails.
LEMMA InsertKeeps ==
  ASSUME TableInv, NEW p \in Procs, Insert(p)
  PROVE  Kept /\ UNCHANGED studio /\ net' \subseteq net
<1>1. Studio /\ Server /\ Statements /\ Dropped /\ Alone /\ LastDropKeepsItsRows
  BY TypeParts DEF TableInv
<1> DEFINE n == php[p].next
           row == php[p].rows[n]
<1>2. /\ php[p].rows \in Seq(Row) /\ n \in 1..Len(php[p].rows) /\ row \in Row
      /\ php' \in [Procs -> Script]
      /\ php'[p].pc = "insert" /\ php'[p].rows = php[p].rows
      /\ php'[p].next = n + 1
      /\ \A q \in Procs : q # p => php'[q] = php[q]
      /\ \A q \in Procs : php'[q].next \in 1..Len(php'[q].rows) + 1
  BY <1>1, Inserting
<1>3. php[p].pc = "insert" /\ UNCHANGED <<studio, net, alone, owner>>
  BY DEF Insert
<1>4. /\ failed' \in [Procs -> SUBSET Nat]
      /\ \A q \in Procs : q # p => failed'[q] = failed[q]
      /\ \/ results # NoTable /\ results' = Append(results, row) /\ failed'[p] = failed[p]
         \/ results' = results /\ failed'[p] = failed[p] \cup {n}
  <2>1. CASE results # NoTable /\ results' = Append(results, row) /\ UNCHANGED failed
    BY <2>1, <1>1 DEF Server
  <2>2. CASE failed' = [failed EXCEPT ![p] = @ \cup {n}] /\ UNCHANGED results
    BY <2>2, <1>1, <1>2 DEF Server
  <2> QED
    BY <2>1, <2>2 DEF Insert
<1>5. n \in Nat /\ failed[p] \subseteq 1..n - 1 /\ n + 1 - 1 = n
  BY <1>1, <1>2 DEF Statements
<1>6. /\ \A q \in Procs : q # p => Inserted(q)' = Inserted(q)
      /\ failed'[p] = failed[p] => Inserted(p)' = Inserted(p) \cup {n}
      /\ failed'[p] = failed[p] \cup {n} => Inserted(p)' = Inserted(p)
  <2>1. Inserted(p) = (1..n - 1) \ failed[p] /\ Inserted(p)' = (1..n) \ failed'[p]
    BY <1>2, <1>5 DEF Inserted
  <2>2. 1..n = (1..n - 1) \cup {n} /\ n \notin 1..n - 1
    BY <1>2, <1>5
  <2>3. \A q \in Procs : q # p => Inserted(q)' = Inserted(q)
    BY <1>2, <1>4 DEF Inserted
  <2>4. failed'[p] = failed[p] => Inserted(p)' = Inserted(p) \cup {n}
    BY <2>1, <2>2, <1>5
  <2>5. failed'[p] = failed[p] \cup {n} => Inserted(p)' = Inserted(p)
    BY <2>1, <2>2
  <2> QED
    BY <2>3, <2>4, <2>5
<1>7. results # NoTable => results \in Seq(Row) /\ results' \in Seq(Row)
                           /\ results' # NoTable
  <2>1. \A table \in Seq(Row) : Append(table, row) \in Seq(Row)
    BY <1>2
  <2>2. results # NoTable => results \in Seq(Row)
    BY <1>1 DEF Server
  <2> HIDE DEF row
  <2>3. results # NoTable => results' \in Seq(Row)
    BY <2>1, <2>2, <1>4
  <2> QED
    BY <2>2, <2>3, PublicationConstants
<1>8. Server'
  <2>1. results' = NoTable \/ results' \in Seq(Row)
    BY <1>4, <1>7
  <2> QED
    BY <2>1, <1>1, <1>2, <1>3, <1>4 DEF Server
<1>9. Statements'
  <2>1. failed'[p] \subseteq 1..php'[p].next - 1
    <3>1. failed'[p] \subseteq 1..n
      <4>1. 1..n - 1 \subseteq 1..n /\ n \in 1..n
        BY <1>2, <1>5
      <4> QED
        BY <4>1, <1>4, <1>5
    <3> QED
      BY <3>1, <1>2, <1>5
  <2> QED
    BY <2>1, <1>1, <1>2, <1>4 DEF Statements
<1>10. owner # Nobody => owner \in Procs
  BY <1>1 DEF Server
<1>11. Dropped'
  <2> SUFFICES ASSUME owner # Nobody
               PROVE  /\ php'[owner].pc \in {"create", "insert", "done"}
                      /\ results' = NoTable => Inserted(owner)' = {}
    BY <1>3 DEF Dropped
  <2>1. php'[owner].pc \in {"create", "insert", "done"}
    BY <1>1, <1>2, <1>10 DEF Dropped
  <2>2. ASSUME results' = NoTable
        PROVE  Inserted(owner)' = {}
    <3>1. results = NoTable /\ Inserted(owner) = {}
      BY <2>2, <1>1, <1>7 DEF Dropped
    <3>2. failed'[p] = failed[p] \cup {n}
      BY <3>1, <1>4
    <3> QED
      BY <3>1, <3>2, <1>3, <1>6, <1>10
  <2> QED
    BY <2>1, <2>2
<1>12. LastDropKeepsItsRows'
  <2>1. CASE owner = Nobody \/ results' = NoTable
    BY <2>1, <1>3 DEF LastDropKeepsItsRows
  <2>2. ASSUME owner # Nobody, results' # NoTable,
               owner # p \/ failed'[p] = failed[p] \cup {n}
        PROVE  LastDropKeepsItsRows'
    <3>1. /\ Inserted(owner)' = Inserted(owner)
          /\ php'[owner].rows = php[owner].rows
      BY <2>2, <1>2, <1>3, <1>6, <1>10
    <3>2. results \in Seq(Row)
      BY <2>2, <1>1, <1>4 DEF Server
    <3> QED
      BY <2>2, <3>1, <3>2, <1>1, <1>2, <1>3, <1>4, OwnerUntouched
  <2>3. CASE owner = p /\ results # NoTable /\ failed'[p] = failed[p]
             /\ results' = Append(results, row)
    <3>1. results \in Seq(Row)
      BY <2>3, <1>7
    <3>2. Embedded(Inserted(p), php[p].rows, results)
      <4>1. owner # Nobody
        BY <2>3, PublicationConstants
      <4>2. InOrder(p)
        BY <4>1, <2>3, <1>1 DEF LastDropKeepsItsRows
      <4> QED
        BY <4>2, InOrderIsEmbedded
    <3>3. Inserted(p) \in SUBSET (1..n - 1)
      BY DEF Inserted
    <3>4. Embedded(Inserted(p) \cup {n}, php[p].rows, Append(results, php[p].rows[n]))
      BY <3>1, <3>2, <3>3, <1>2, <1>5, EmbeddedOneMore
    <3>5. Embedded(Inserted(p)', php'[p].rows, results')
      BY <3>4, <2>3, <1>2, <1>6
    <3>6. InOrder(p)'
      BY <3>5, InOrderIsEmbedded
    <3> QED
      BY <3>6, <2>3, <1>3 DEF LastDropKeepsItsRows
  <2> QED
    BY <2>1, <2>2, <2>3, <1>4
<1>13. Alone'
  <2> SUFFICES ASSUME NEW q \in Procs, alone[q]
               PROVE  OwnTable(q)'
    BY <1>3 DEF Alone
  <2>1. OwnTable(q)
    BY <1>1 DEF Alone
  <2>2. q = p
    BY <2>1, <1>3 DEF OwnTable, Waiting
  <2>3. results \in Seq(Row) /\ (failed[p] = {} => Exactly(p))
    BY <2>1, <2>2, <1>3 DEF OwnTable
  <2>4. results' \in Seq(Row)
    BY <2>3, <1>2, <1>4
  <2>5. ASSUME failed'[p] = {}
        PROVE  Exactly(p)'
    <3>1. failed[p] = {} /\ results' = Append(results, row)
      BY <2>5, <1>4
    <3>2. /\ Len(results) = n - 1
          /\ \A k \in 1..Len(results) : results[k] = php[p].rows[k]
      BY <3>1, <2>3 DEF Exactly
    <3>3. /\ Len(results') = n
          /\ \A k \in 1..Len(results) : results'[k] = results[k]
          /\ results'[n] = row
      BY <3>1, <3>2, <2>3, <1>2, <1>5
    <3>4. \A k \in 1..Len(results') : results'[k] = php[p].rows[k]
      <4> SUFFICES ASSUME NEW k \in 1..n
                   PROVE  results'[k] = php[p].rows[k]
        BY <3>3
      <4>1. CASE k = n
        BY <4>1, <3>3
      <4>2. CASE k # n
        <5>1. k \in 1..Len(results)
          BY <4>2, <3>2, <1>5
        <5> QED
          BY <5>1, <3>2, <3>3
      <4> QED
        BY <4>1, <4>2
    <3> QED
      BY <3>3, <3>4, <1>2, <1>5 DEF Exactly
  <2>6. \A o \in Procs \ {p} : Waiting(o)'
    BY <2>1, <2>2, <1>2 DEF OwnTable, Waiting
  <2> QED
    BY <2>2, <2>4, <2>5, <2>6, <1>2 DEF OwnTable
<1> QED
  BY <1>3, <1>8, <1>9, <1>11, <1>12, <1>13 DEF Kept

\* A process that reached its end leaves the table as it is.
LEMMA FinishKeeps ==
  ASSUME TableInv, NEW p \in Procs, Finish(p)
  PROVE  Kept /\ UNCHANGED studio /\ net' \subseteq net
<1>1. Studio /\ Server /\ Statements /\ Dropped /\ Alone /\ LastDropKeepsItsRows
  BY TypeParts DEF TableInv
<1>2. /\ php' \in [Procs -> Script]
      /\ php'[p].pc = "done"
      /\ php'[p].rows = php[p].rows /\ php'[p].next = php[p].next
      /\ \A q \in Procs : q # p => php'[q] = php[q]
      /\ \A q \in Procs : php'[q].next \in 1..Len(php'[q].rows) + 1
  BY <1>1, Moving DEF Finish
<1>3. /\ php[p].pc = "insert" /\ php[p].next > Len(php[p].rows)
      /\ UNCHANGED <<studio, net, results, alone, owner, failed>>
  BY DEF Finish
<1>4. Server'
  BY <1>1, <1>2, <1>3 DEF Server
<1>5. Statements'
  BY <1>1, <1>2, <1>3 DEF Statements
<1>6. /\ owner # Nobody => owner \in Procs
      /\ \A q \in Procs : Inserted(q)' = Inserted(q) /\ php'[q].rows = php[q].rows
  BY <1>1, <1>2, <1>3 DEF Server, Inserted
<1>7. Dropped'
  BY <1>1, <1>2, <1>3, <1>6 DEF Dropped
<1>8. LastDropKeepsItsRows'
  <2>1. CASE owner = Nobody \/ results = NoTable
    BY <2>1, <1>3 DEF LastDropKeepsItsRows
  <2>2. CASE owner # Nobody /\ results # NoTable
    <3>1. results \in Seq(Row)
      BY <2>2, <1>1 DEF Server
    <3> QED
      BY <2>2, <3>1, <1>1, <1>3, <1>6, OwnerUntouched
  <2> QED
    BY <2>1, <2>2
<1>9. Alone'
  <2> SUFFICES ASSUME NEW q \in Procs, alone[q]
               PROVE  OwnTable(q)'
    BY <1>3 DEF Alone
  <2>1. OwnTable(q)
    BY <1>1 DEF Alone
  <2>2. q = p
    BY <2>1, <1>3 DEF OwnTable, Waiting
  <2>3. results \in Seq(Row) /\ (failed[p] = {} => Exactly(p))
    BY <2>1, <2>2, <1>3 DEF OwnTable
  <2>4. php[p].rows \in Seq(Row) /\ php[p].next \in 1..Len(php[p].rows) + 1
    BY <1>1 DEF Server, Script
  <2>5. failed[p] = {} => results = php[p].rows
    <3> SUFFICES ASSUME failed[p] = {} PROVE results = php[p].rows
      OBVIOUS
    <3>1. /\ Len(results) = php[p].next - 1
          /\ \A k \in 1..Len(results) : results[k] = php[p].rows[k]
      BY <2>3 DEF Exactly
    <3>2. Len(results) = Len(php[p].rows)
      BY <3>1, <2>4, <1>3
    <3> QED
      BY <3>1, <3>2, <2>3, <2>4, SeqEqual
  <2>6. \A o \in Procs \ {p} : Waiting(o)'
    BY <2>1, <2>2, <1>2 DEF OwnTable, Waiting
  <2> QED
    BY <2>2, <2>5, <2>6, <1>2, <1>3 DEF OwnTable
<1> QED
  BY <1>3, <1>4, <1>5, <1>7, <1>8, <1>9 DEF Kept

\* A process that dies takes its claim on the table with it.
LEMMA DieKeeps ==
  ASSUME TableInv, NEW p \in Procs, Die(p)
  PROVE  Kept /\ UNCHANGED studio /\ net' \subseteq net
<1>1. Studio /\ Server /\ Statements /\ Dropped /\ Alone /\ LastDropKeepsItsRows
  BY TypeParts DEF TableInv
<1>2. Idle \in Script /\ Idle.pc = "idle" /\ Idle.next = 1 /\ Idle.rows = <<>>
  BY DEF Idle, Script
<1>3. /\ php[p].pc \in {"drop", "create", "insert"}
      /\ php' = [php EXCEPT ![p] = Idle]
      /\ failed' = [failed EXCEPT ![p] = {}]
      /\ UNCHANGED <<studio, net, results, alone>>
  BY DEF Die
<1>4. /\ php' \in [Procs -> Script] /\ php'[p] = Idle
      /\ \A q \in Procs : q # p => php'[q] = php[q]
      /\ failed' \in [Procs -> SUBSET Nat] /\ failed'[p] = {}
      /\ \A q \in Procs : q # p => failed'[q] = failed[q]
  BY <1>1, <1>2, <1>3 DEF Server
<1>5. /\ owner' \in Procs \cup {Nobody}
      /\ owner' # Nobody => owner' = owner /\ owner # p /\ owner \in Procs
  BY <1>1 DEF Server, Die
<1>6. Server'
  <2>1. php'[p].next \in 1..Len(php'[p].rows) + 1
    BY <1>2, <1>4
  <2> QED
    BY <2>1, <1>1, <1>3, <1>4, <1>5 DEF Server
<1>7. Statements'
  BY <1>1, <1>2, <1>4 DEF Statements
<1>8. owner' # Nobody => /\ php'[owner] = php[owner] /\ owner' = owner
                         /\ Inserted(owner)' = Inserted(owner)
  BY <1>4, <1>5 DEF Inserted
<1>9. Dropped'
  BY <1>1, <1>3, <1>8 DEF Dropped
<1>10. LastDropKeepsItsRows'
  <2>1. CASE owner' = Nobody \/ results = NoTable
    BY <2>1, <1>3 DEF LastDropKeepsItsRows
  <2>2. CASE owner' # Nobody /\ results # NoTable
    <3>1. results \in Seq(Row)
      BY <2>2, <1>1 DEF Server
    <3> QED
      BY <2>2, <3>1, <1>1, <1>3, <1>8, OwnerUntouched
  <2> QED
    BY <2>1, <2>2
<1>11. Alone'
  <2> SUFFICES ASSUME NEW q \in Procs, alone[q]
               PROVE  OwnTable(q)'
    BY <1>3 DEF Alone
  <2>1. OwnTable(q)
    BY <1>1 DEF Alone
  <2>2. q = p
    BY <2>1, <1>3 DEF OwnTable, Waiting
  <2> QED
    BY <2>1, <2>2, <1>2, <1>4 DEF OwnTable, Waiting
<1> QED
  BY <1>3, <1>6, <1>7, <1>9, <1>10, <1>11 DEF Kept

-----------------------------------------------------------------------------
(* The theorems.                                                           *)

\* The empty table of a new run keeps every promise.
LEMMA InitInv == Init => TableInv
<1> SUFFICES ASSUME Init PROVE TableInv
  OBVIOUS
<1>1. /\ php = [p \in Procs |-> Idle] /\ owner = Nobody /\ results = <<>>
      /\ alone = [p \in Procs |-> FALSE] /\ failed = [p \in Procs |-> {}]
      /\ laps = [i \in Ids |-> 0]
      /\ net = {} /\ requests = 0 /\ restarts = 0
  BY DEF Init
<1>2. Idle \in Script /\ Idle.pc = "idle" /\ Idle.next = 1 /\ Idle.rows = <<>>
  BY DEF Idle, Script
<1>3. Studio
  BY <1>1, PublicationConstants DEF Studio
<1>4. results \in Seq(Row)
  BY <1>1
<1>5. Server
  BY <1>1, <1>2, <1>4 DEF Server
<1>6. Statements /\ Dropped /\ Alone
  BY <1>1, <1>2 DEF Statements, Dropped, Alone
<1>7. LastDropKeepsItsRows
  BY <1>1 DEF LastDropKeepsItsRows
<1> QED
  BY <1>3, <1>5, <1>6, <1>7, TypeParts DEF TableInv

\* A step that leaves the server side alone leaves its invariants.
LEMMA ServerUntouched ==
  ASSUME Server, Statements, Dropped, Alone, LastDropKeepsItsRows,
         UNCHANGED server
  PROVE  Server' /\ Statements' /\ Dropped' /\ Alone' /\ LastDropKeepsItsRows'
<1>1. UNCHANGED <<php, results, alone, owner, failed>>
  BY DEF server
<1>2. \A p : Inserted(p)' = Inserted(p) /\ InOrder(p)' = InOrder(p)
  BY <1>1 DEF Inserted, InOrder
<1>3. Server' /\ Statements'
  BY <1>1 DEF Server, Statements
<1>4. Dropped' /\ LastDropKeepsItsRows'
  BY <1>1, <1>2 DEF Dropped, LastDropKeepsItsRows
<1>5. Alone'
  BY <1>1 DEF Alone, OwnTable, Waiting, Exactly
<1> QED
  BY <1>3, <1>4, <1>5

\* No step of the studio or of the script breaks the invariant.
LEMMA StepInv == TableInv /\ [Next]_vars => TableInv'
<1> SUFFICES ASSUME TableInv, [Next]_vars PROVE TableInv'
  OBVIOUS
<1>1. Studio /\ Server /\ Statements /\ Dropped /\ Alone /\ LastDropKeepsItsRows
  BY TypeParts DEF TableInv
<1>2. ASSUME \/ \E i \in Ids : Pass(i)
             \/ SendToServer \/ Restart
      PROVE  TableInv'
  <2>1. Studio' /\ UNCHANGED server
    BY <1>1, <1>2, StudioKeeps
  <2>2. Server' /\ Statements' /\ Dropped' /\ Alone' /\ LastDropKeepsItsRows'
    BY <2>1, <1>1, ServerUntouched
  <2> QED
    BY <2>1, <2>2, TypeParts DEF TableInv
<1>3. ASSUME Kept, UNCHANGED studio, net' \subseteq net
      PROVE  TableInv'
  <2>1. UNCHANGED <<laps, requests, restarts>>
    BY <1>3 DEF studio
  <2>2. Studio'
    BY <2>1, <1>1, <1>3 DEF Studio
  <2> QED
    BY <2>2, <1>3, TypeParts DEF TableInv, Kept
<1>4. ASSUME NEW p \in Procs,
             \/ Accept(p) \/ Drop(p) \/ Create(p)
             \/ Insert(p) \/ Finish(p) \/ Die(p)
      PROVE  TableInv'
  BY <1>3, <1>4, AcceptKeeps, DropKeeps, CreateKeeps, InsertKeeps,
     FinishKeeps, DieKeeps
<1>5. CASE UNCHANGED vars
  <2>1. Studio' /\ UNCHANGED server
    BY <1>1, <1>5 DEF vars, server, Studio
  <2>2. Server' /\ Statements' /\ Dropped' /\ Alone' /\ LastDropKeepsItsRows'
    BY <2>1, <1>1, ServerUntouched
  <2> QED
    BY <2>1, <2>2, TypeParts DEF TableInv
<1> QED
  BY <1>2, <1>4, <1>5 DEF Next

\* The inductive invariant holds of every run.
THEOREM TableKeepsPromise == Spec => []TableInv
<1> QED
  BY InitInv, StepInv, PTL DEF Spec

\* Every row on its way or in the table is that of a runner that passed, and a
\* process inserts the rows of its request and no others.
THEOREM PublicationTypeCorrect == Spec => []TypeOK
<1>1. TableInv => TypeOK
  BY DEF TableInv
<1> QED
  BY <1>1, TableKeepsPromise, PTL

\* However many processes run reception_resultats.php at once, whichever of
\* their statements fail and wherever they die, the rows that the one that
\* dropped manolab_results last has inserted stay there, in their order.
THEOREM LastDrop == Spec => []LastDropKeepsItsRows
<1>1. TableInv => LastDropKeepsItsRows
  BY DEF TableInv
<1> QED
  BY <1>1, TableKeepsPromise, PTL

\* A request that is alone on the server, and of which no statement fails,
\* leaves manolab_results with its rows and nothing else, whatever the requests
\* before it left behind.
THEOREM LoneRequest == Spec => []LoneRequestRepairs
<1>1. TableInv => LoneRequestRepairs
  BY DEF TableInv, Alone, OwnTable, LoneRequestRepairs
<1> QED
  BY <1>1, TableKeepsPromise, PTL
=============================================================================
