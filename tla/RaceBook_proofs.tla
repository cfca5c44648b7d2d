--------------------------- MODULE RaceBook_proofs ---------------------------
(***************************************************************************)
(* The lap table, export.json and the server together are the book of a    *)
(* race: RaceTable implements LapBook, for every number of pool threads,   *)
(* tags, courses and restarts. The invariants say what the refinement and  *)
(* CloudIsBehindTable need beyond TableInv: how Draw's copy, the file and  *)
(* the server are dated.                                                   *)
(***************************************************************************)
EXTENDS RaceTable_proofs

-----------------------------------------------------------------------------
(* Draw's copy, the file and the server.                                   *)

\* The times of a copy that has laps are relative to the start of the race.
Dated(f) == f.complete /\ f.laps # NoLaps => f.start = mStartTime

\* While the autosave writes the file there is nothing in it.
DiskInv ==
  /\ Dated(snap) /\ Dated(file)
  /\ ~snap.complete => snap = Torn
  /\ pc = "write" => ~file.complete

\* Position by position, what CloudIsBehindTable says.
CloudInv ==
  restarts = 0 =>
    \A t \in Tags :
      /\ Len(cloud[t]) <= Len(mTable[t])
      /\ \A i \in 1 .. Len(cloud[t]) : cloud[t][i] = mTable[t][i] - mStartTime

RaceInv == TypeOK /\ TableInv /\ LimitInv

BookInv == RaceInv /\ DiskInv

-----------------------------------------------------------------------------
(* What a step does to the table, the copy, the file and the server.       *)

raceDisk == <<mTable, mStartTime, file, cloud, restarts>>

\* Draw makes a copy or forgets it, or nothing of this happens.
Copies ==
  /\ UNCHANGED raceDisk
  /\ snap' \in {snap, Torn, Saved(mTable, mStartTime)}
  /\ pc' = "write" => pc = "write"

\* The file is truncated.
Opens ==
  /\ file' = Torn
  /\ UNCHANGED <<mTable, mStartTime, cloud, restarts, snap>>

\* The truncated file gets the copy, or a part of it.
Writes ==
  /\ pc = "write" /\ pc' = "send"
  /\ file' \in {snap, Torn}
  /\ UNCHANGED <<mTable, mStartTime, cloud, restarts, snap>>

\* The server gets the copy.
Sends ==
  /\ cloud' = snap.laps /\ snap' = Torn
  /\ pc' = "window"
  /\ UNCHANGED <<mTable, mStartTime, file, restarts>>

\* Every step does one of these, unless it applies a read or restarts.
LEMMA DiskShape ==
  ASSUME [Next]_vars
  PROVE  \/ Copies \/ Opens \/ Writes \/ Sends
         \/ \E w \in Workers : Apply(w)
         \/ Restart
<1> USE DEF raceVars, setupVars, diskVars, engVars, workerFrame, guiFrame, raceDisk
<1>1. ASSUME NEW tag \in Tags, NEW time \in CurrentTimeStamp64, SendToManolab(tag, time)
      PROVE  Copies
  BY <1>1 DEF SendToManolab, Copies
<1>2. ASSUME NEW w \in Workers, Worker(w), ~Apply(w) PROVE Copies
  BY <1>2 DEF Worker, Take, LookDossard, LookTours, LookCategory, LookBox, Copies
<1>3. CASE Gui
  <2>1. CASE DrawCopy
    BY <2>1 DEF DrawCopy, Copies
  <2>2. CASE AutosaveOpen
    BY <2>2 DEF AutosaveOpen, Copies, Opens
  <2>3. CASE AutosaveWrite
    BY <2>3 DEF AutosaveWrite, Writes
  <2>4. CASE DrawSend
    BY <2>4 DEF DrawSend, Copies, Sends
  <2>5. CASE DrawWindow \/ DrawCategories \/ DrawLabels
    BY <2>5 DEF DrawWindow, DrawCategories, DrawLabels, Copies
  <2>6. CASE DrawDossards \/ DrawBoxes \/ DrawCourse
    BY <2>6 DEF DrawDossards, DrawBoxes, DrawCourse, Copies
  <2> QED
    BY <1>3, <2>1, <2>2, <2>3, <2>4, <2>5, <2>6 DEF Gui
<1>4. CASE UNCHANGED vars
  BY <1>4 DEF vars, Copies
<1> QED
  BY ONLY <1>1, <1>2, <1>3, <1>4, [Next]_vars DEF Next

\* A read that is applied leaves the copy, the file and the server alone, and
\* the start when it is set.
LEMMA ApplyFrame ==
  ASSUME NEW w \in Workers, Apply(w)
  PROVE  /\ UNCHANGED <<snap, file, cloud, restarts, pc, queue>>
         /\ mTable # NoLaps => mStartTime' = mStartTime
  BY DEF Apply, StartAfter, workerFrame, diskVars

\* Before the first passage every copy is without laps.
LEMMA NoLapsNoImage ==
  ASSUME TypeOK, NEW f \in Images, Image(f, mTable), f.complete, mTable = NoLaps
  PROVE  f.laps = NoLaps
<1>1. \A t \in Tags : f.laps[t] \in Seq(Int) /\ Len(f.laps[t]) <= Len(mTable[t])
  BY DEF Image, Images
<1>2. \A t \in Tags : Len(mTable[t]) = 0
  BY DEF NoLaps
<1>3. \A t \in Tags : f.laps[t] = <<>>
  BY <1>1, <1>2
<1> QED
  BY <1>3 DEF Images, NoLaps

\* A restart reads back a table that has laps only if the file has some.
LEMMA RestartLaps ==
  ASSUME TypeOK, Restart, mTable' # NoLaps
  PROVE  file.complete /\ file.laps # NoLaps /\ mStartTime' = file.start
<1>1. file.complete
  BY DEF Restart
<1>2. ASSUME file.laps = NoLaps PROVE FALSE
  <2>1. \A t \in Tags : mTable'[t] \in Seq(Int) /\ Len(mTable'[t]) = 0
    BY <1>1, <1>2, RestartShape DEF NoLaps
  <2>2. \A t \in Tags : mTable'[t] = <<>>
    BY <2>1
  <2>3. TypeOK'
    BY TypeStep DEF Next
  <2> QED
    BY <2>2, <2>3 DEF TypeOK, NoLaps
<1> QED
  BY <1>1, <1>2, RestartShape

-----------------------------------------------------------------------------
(* The copy, the file and the server stay dated.                           *)

\* DiskInv holds when the program starts.
LEMMA DiskInitially == Init => DiskInv
  BY DEF Init, DiskInv, Dated, Torn

\* Every step keeps DiskInv.
LEMMA DiskStep == RaceInv /\ DiskInv /\ [Next]_vars => DiskInv'
<1> SUFFICES ASSUME RaceInv, DiskInv, [Next]_vars PROVE DiskInv'
  OBVIOUS
<1>1. TypeOK /\ TableInv
  BY DEF RaceInv
<1>2. snap \in Images /\ file \in Images
  BY <1>1 DEF TypeOK, Images
<1>3. ~Torn.complete /\ Torn.laps = NoLaps
  BY DEF Torn
<1>4. /\ Saved(mTable, mStartTime).complete
      /\ Saved(mTable, mStartTime).start = mStartTime
  BY DEF Saved
<1>5. CASE Copies
  BY <1>3, <1>4, <1>5 DEF Copies, raceDisk, DiskInv, Dated
<1>6. CASE Opens
  BY <1>3, <1>6 DEF Opens, DiskInv, Dated
<1>7. CASE Writes
  BY <1>3, <1>7 DEF Writes, DiskInv, Dated
<1>8. CASE Sends
  BY <1>3, <1>8 DEF Sends, DiskInv, Dated
<1>9. ASSUME NEW w \in Workers, Apply(w) PROVE DiskInv'
  <2>1. CASE mTable = NoLaps
    <3>1. /\ snap.complete => snap.laps = NoLaps
          /\ file.complete => file.laps = NoLaps
      BY <1>1, <1>2, <2>1, NoLapsNoImage DEF TableInv
    <3> QED
      BY <1>9, <3>1, ApplyFrame DEF DiskInv, Dated
  <2>2. CASE mTable # NoLaps
    BY <1>9, <2>2, ApplyFrame DEF DiskInv, Dated
  <2> QED
    BY <2>1, <2>2
<1>10. CASE Restart
  <2>1. snap' = Torn /\ file' = file /\ pc' = "copy"
    BY <1>10 DEF Restart
  <2>2. file.complete => mStartTime' = file.start
    BY <1>10 DEF Restart
  <2> QED
    BY <1>3, <2>1, <2>2 DEF DiskInv, Dated
<1> QED
  BY <1>5, <1>6, <1>7, <1>8, <1>9, <1>10, DiskShape

\* CloudInv holds when the program starts.
LEMMA CloudInitially == Init => CloudInv
<1> SUFFICES ASSUME Init PROVE CloudInv
  OBVIOUS
<1>1. \A t \in Tags : cloud[t] = <<>> /\ mTable[t] = <<>>
  BY DEF Init, NoLaps
<1> QED
  BY <1>1 DEF CloudInv

\* Every step keeps CloudInv until the program restarts.
LEMMA CloudStep == BookInv /\ CloudInv /\ [Next]_vars => CloudInv'
<1> SUFFICES ASSUME BookInv, CloudInv, [Next]_vars PROVE CloudInv'
  OBVIOUS
<1>1. TypeOK /\ TableInv /\ DiskInv
  BY DEF BookInv, RaceInv
<1>2. \A t \in Tags : /\ mTable[t] \in Seq(Int) /\ Len(mTable[t]) \in Nat
                      /\ cloud[t] \in Seq(Int) /\ Len(cloud[t]) \in Nat
  BY <1>1 DEF TypeOK
<1>3. ASSUME UNCHANGED <<mTable, mStartTime, cloud, restarts>> PROVE CloudInv'
  BY <1>3 DEF CloudInv
<1>4. CASE Copies \/ Opens \/ Writes
  BY <1>3, <1>4 DEF Copies, raceDisk, Opens, Writes
<1>5. CASE Sends
  <2>1. cloud' = snap.laps /\ UNCHANGED <<mTable, mStartTime, restarts>>
    BY <1>5 DEF Sends
  <2>2. CASE snap.laps = NoLaps
    <3>1. \A t \in Tags : Len(cloud'[t]) = 0
      BY <2>1, <2>2 DEF NoLaps
    <3> QED
      BY <2>1, <3>1, <1>2 DEF CloudInv
  <2>3. CASE snap.laps # NoLaps
    <3>1. snap.complete /\ snap.start = mStartTime
      BY <1>1, <2>3 DEF DiskInv, Dated, Torn
    <3>2. \A t \in Tags : /\ Len(snap.laps[t]) <= Len(mTable[t])
                          /\ \A i \in 1 .. Len(snap.laps[t]) :
                               snap.laps[t][i] + mStartTime = mTable[t][i]
      BY <1>1, <3>1 DEF TableInv, Image
    <3>3. \A t \in Tags : \A i \in 1 .. Len(snap.laps[t]) : snap.laps[t][i] \in Int
      BY <1>1 DEF TypeOK
    <3>4. mStartTime \in Int
      BY <1>1 DEF TypeOK
    <3>5. \A t \in Tags : /\ Len(snap.laps[t]) <= Len(mTable[t])
                          /\ \A i \in 1 .. Len(snap.laps[t]) :
                               snap.laps[t][i] = mTable[t][i] - mStartTime
      BY <3>2, <3>3, <3>4
    <3> QED
      BY <2>1, <3>5 DEF CloudInv
  <2> QED
    BY <2>2, <2>3
<1>6. ASSUME NEW w \in Workers, Apply(w) PROVE CloudInv'
  <2> SUFFICES ASSUME restarts = 0, NEW t \in Tags
               PROVE  /\ Len(cloud[t]) <= Len(mTable'[t])
                      /\ \A i \in 1 .. Len(cloud[t]) :
                           cloud[t][i] = mTable'[t][i] - mStartTime'
    BY <1>6, ApplyFrame DEF CloudInv
  <2>1. /\ Len(cloud[t]) <= Len(mTable[t])
        /\ \A i \in 1 .. Len(cloud[t]) : cloud[t][i] = mTable[t][i] - mStartTime
    BY DEF CloudInv
  <2>2. /\ Len(mTable'[t]) \in Nat /\ Len(mTable[t]) <= Len(mTable'[t])
        /\ \A i \in 1 .. Len(mTable[t]) : mTable'[t][i] = mTable[t][i]
    <3>1. mTable'[t] \in Seq(Int)
      BY <1>1, <1>6, ApplyShape
    <3>2. \/ mTable'[t] = mTable[t]
          \/ /\ Len(mTable'[t]) = Len(mTable[t]) + 1
             /\ \A i \in 1 .. Len(mTable[t]) : mTable'[t][i] = mTable[t][i]
      BY <1>1, <1>6, ApplyShape
    <3> QED
      BY <1>2, <3>1, <3>2
  <2>3. CASE mTable = NoLaps
    <3>1. Len(cloud[t]) = 0
      BY <1>2, <2>1, <2>3 DEF NoLaps
    <3> QED
      BY <3>1, <2>2
  <2>4. CASE mTable # NoLaps
    <3>1. mStartTime' = mStartTime
      BY <1>6, <2>4, ApplyFrame
    <3>2. Len(cloud[t]) \in Nat /\ Len(mTable[t]) \in Nat
      BY <1>2
    <3>3. Len(cloud[t]) <= Len(mTable'[t])
      BY ONLY <2>1, <2>2, <3>2
    <3>4. \A i \in 1 .. Len(cloud[t]) : mTable'[t][i] = mTable[t][i]
      BY ONLY <2>1, <2>2, <3>2
    <3> QED
      BY ONLY <3>1, <3>3, <3>4, <2>1
  <2> QED
    BY <2>3, <2>4
<1>7. CASE Restart
  <2>1. restarts' # 0
    BY <1>1, <1>7 DEF Restart, TypeOK
  <2> QED
    BY <2>1 DEF CloudInv
<1> QED
  BY <1>4, <1>5, <1>6, <1>7, DiskShape

\* The conjunction of the invariants holds of every run.
LEMMA BookAndCloud == Spec => [](BookInv /\ CloudInv)
<1>1. Init => BookInv /\ CloudInv
  BY InitialType, TableInitially, LimitInitially, DiskInitially, CloudInitially
     DEF BookInv, RaceInv
<1>2. BookInv /\ CloudInv /\ [Next]_vars => (BookInv /\ CloudInv)'
  BY TypeStep, TableStep, LimitStep, DiskStep, CloudStep DEF BookInv, RaceInv
<1> QED
  BY <1>1, <1>2, PTL DEF Spec

\* Until a restart, what the server shows is the beginning of every runner's
\* laps, relative to the start of the race (SendToServer and ToJson, while
\* pool threads run ParseAction): no published lap is taken back.
THEOREM Published == Spec => []CloudIsBehindTable
<1>1. BookInv /\ CloudInv => CloudIsBehindTable
  <2> SUFFICES ASSUME BookInv, CloudInv, restarts = 0, NEW t \in Tags
               PROVE  IsPrefix(cloud[t], ToTimes(mTable[t], mStartTime))
    BY DEF CloudIsBehindTable
  <2>1. cloud[t] \in Seq(Int) /\ mTable[t] \in Seq(Int) /\ mStartTime \in Int
    BY DEF BookInv, RaceInv, TypeOK
  <2> DEFINE sent == ToTimes(mTable[t], mStartTime)
  <2>2. /\ sent \in Seq(Int) /\ Len(sent) = Len(mTable[t])
        /\ \A i \in 1 .. Len(mTable[t]) : sent[i] = mTable[t][i] - mStartTime
    BY <2>1, TimesRoundTrip
  <2> HIDE DEF sent
  <2>3. /\ Len(cloud[t]) <= Len(mTable[t])
        /\ \A i \in 1 .. Len(cloud[t]) : cloud[t][i] = mTable[t][i] - mStartTime
    BY DEF CloudInv
  <2>4. \A i \in 1 .. Len(cloud[t]) : cloud[t][i] = sent[i]
    BY <2>1, <2>2, <2>3
  <2>5. IsPrefix(cloud[t], sent)
    BY <2>1, <2>2, <2>3, <2>4, PrefixIsPointwise
  <2> QED
    BY <2>5 DEF sent
<1> QED
  BY <1>1, BookAndCloud, PTL

-----------------------------------------------------------------------------
(* Every step of the lap table is a step of the book.                      *)

\* The saved copy of the book that a file holds.
Copy(f) == IF f.complete
           THEN [laps |-> Decode(f.laps, f.start), start |-> f.start]
           ELSE Torn

\* A copy is not mistaken for a lost one.
LEMMA CopyIsNotTorn == \A laps, start : [laps |-> laps, start |-> start] # Torn
<1> SUFFICES ASSUME NEW laps, NEW start,
                    [laps |-> laps, start |-> start] = Torn
             PROVE  FALSE
  OBVIOUS
<1>1. "complete" \in DOMAIN Torn
  BY DEF Torn
<1>2. "complete" \notin DOMAIN [laps |-> laps, start |-> start]
  OBVIOUS
<1> QED
  BY <1>1, <1>2

\* What the book calls a prefix.
LEMMA BookPrefix ==
  ASSUME NEW s \in Seq(Int), NEW t \in Seq(Int), Len(s) <= Len(t),
         \A i \in 1 .. Len(s) : s[i] = t[i]
  PROVE  Book!IsPrefix(s, t)
  BY DEF Book!IsPrefix

\* An empty table is an empty book.
LEMMA EmptyBook == Book!Empty = NoLaps
  BY DEF Book!Empty, NoLaps

\* The initial table is the initial book.
LEMMA BookInit == Init => Book!Init
  BY EmptyBook DEF Init, Book!Init, Torn

\* Draw's copy and the file, decoded, are behind the table.
LEMMA CopyBehind ==
  ASSUME TypeOK, NEW f \in Images, Image(f, mTable), f.complete
  PROVE  /\ Copy(f) # Torn
         /\ Copy(f).laps = Decode(f.laps, f.start) /\ Copy(f).start = f.start
         /\ Book!Behind(Copy(f).laps, mTable)
         /\ Copy(f).laps # NoLaps => f.laps # NoLaps
<1>1. /\ Copy(f) = [laps |-> Decode(f.laps, f.start), start |-> f.start]
      /\ Copy(f).laps = Decode(f.laps, f.start) /\ Copy(f).start = f.start
  BY DEF Copy
<1>2. f.laps \in [Tags -> Seq(Int)] /\ f.start \in Int
  BY DEF Images
<1>3. \A t \in Tags :
        /\ Copy(f).laps[t] \in Seq(Int)
        /\ Len(Copy(f).laps[t]) = Len(f.laps[t])
        /\ \A i \in 1 .. Len(f.laps[t]) : Copy(f).laps[t][i] = f.laps[t][i] + f.start
  BY <1>1, <1>2, TimesRoundTrip DEF Decode
<1>4. ASSUME NEW t \in Tags PROVE Book!IsPrefix(Copy(f).laps[t], mTable[t])
  <2>1. /\ Len(f.laps[t]) <= Len(mTable[t])
        /\ \A i \in 1 .. Len(f.laps[t]) : f.laps[t][i] + f.start = mTable[t][i]
    BY DEF Image
  <2>2. mTable[t] \in Seq(Int)
    BY DEF TypeOK
  <2> QED
    BY <1>3, <2>1, <2>2, BookPrefix
<1>5. Book!Behind(Copy(f).laps, mTable)
  BY <1>4 DEF Book!Behind
<1>6. ASSUME f.laps = NoLaps PROVE Copy(f).laps = NoLaps
  <2>1. \A t \in Tags : Copy(f).laps[t] = <<>>
    BY <1>3, <1>6 DEF NoLaps
  <2>2. Copy(f).laps = [t \in Tags |-> Copy(f).laps[t]]
    BY <1>1 DEF Decode
  <2> QED
    BY <2>1, <2>2 DEF NoLaps
<1> QED
  BY <1>1, <1>5, <1>6, CopyIsNotTorn

\* A read that is applied is a passage, or changes nothing.
LEMMA ApplyRecords ==
  ASSUME RaceInv, NEW w \in Workers, Apply(w)
  PROVE  Book!RecordSome \/ UNCHANGED Book!vars
<1> DEFINE r == wk[w].read
<1>1. TypeOK /\ LimitInv
  BY DEF RaceInv
<1>2. /\ r.tag \in Tags /\ r.time \in Nat /\ wk[w].tours \in Nat
      /\ UNCHANGED <<file, cloud>>
      /\ mTable[r.tag] \in Seq(Int) /\ mTable \in [Tags -> Seq(Int)]
  BY <1>1, ApplyShape, ApplyFrame DEF TypeOK, Busy
<1>3. CASE ~Accepts(mTable[r.tag], r.time, wk[w].tours)
  <2>1. mTable' = mTable /\ mTable # NoLaps
    BY <1>2, <1>3 DEF Apply, Accepts, NoLaps
  <2>2. mStartTime' = mStartTime
    BY <2>1, ApplyFrame
  <2> QED
    BY <1>2, <2>1, <2>2 DEF Book!vars
<1>4. CASE Accepts(mTable[r.tag], r.time, wk[w].tours)
  <2>1. mTable' = [mTable EXCEPT ![r.tag] = Append(@, r.time)]
    BY <1>4 DEF Apply
  <2>2. mTable'[r.tag] = Append(mTable[r.tag], r.time)
    BY <1>2, <2>1
  <2>3. /\ Len(mTable'[r.tag]) = Len(mTable[r.tag]) + 1
        /\ mTable'[r.tag][Len(mTable'[r.tag])] = r.time
    BY <1>2, <2>2
  <2>4. \E n \in Passages[r.tag] : Len(mTable[r.tag]) < n
    <3>1. PICK c \in Courses : /\ Key(r.tag) \in Valid(c)
                               /\ wk[w].tours <= c[Key(r.tag)].tours
      BY <1>1 DEF LimitInv, Known, Apply
    <3>2. c[Key(r.tag)].tours \in Nat
      BY <3>1, ParamsAssumption DEF Valid, Runner
    <3>3. Len(mTable[r.tag]) = 0 \/ Len(mTable[r.tag]) <= wk[w].tours
      BY <1>2, <1>4 DEF Accepts
    <3>4. Len(mTable[r.tag]) < c[Key(r.tag)].tours + 1
      BY <1>2, <3>1, <3>2, <3>3
    <3>5. c[Key(r.tag)].tours + 1 \in Passages[r.tag]
      BY <1>2, <3>1 DEF Passages
    <3> QED
      BY <3>4, <3>5
  <2>5. mTable[r.tag] # <<>> =>
          \E d \in Windows : r.time - mTable[r.tag][Len(mTable[r.tag])] > d
    BY <1>1, <1>4 DEF Accepts, TypeOK
  <2>6. mStartTime' = IF mTable = Book!Empty THEN r.time ELSE mStartTime
    BY EmptyBook DEF Apply, StartAfter
  <2>7. Book!Record(r.tag, r.time)
    BY <1>2, <2>1, <2>4, <2>5, <2>6 DEF Book!Record
  <2> QED
    BY <1>2, <2>3, <2>7 DEF Book!RecordSome
<1> QED
  BY <1>3, <1>4

\* Every step of the lap table is a step of the book, or none.
LEMMA BookStep == BookInv /\ [Next]_vars => [Book!Next]_Book!vars
<1> SUFFICES ASSUME BookInv, [Next]_vars
             PROVE  Book!Next \/ UNCHANGED Book!vars
  OBVIOUS
<1>1. RaceInv /\ TypeOK /\ TableInv /\ DiskInv
  BY DEF BookInv, RaceInv
<1>2. snap \in Images /\ file \in Images /\ Image(snap, mTable) /\ Image(file, mTable)
  BY <1>1 DEF TypeOK, TableInv, Images
<1>3. ~Torn.complete
  BY DEF Torn
<1>4. CASE Copies
  BY <1>4 DEF Copies, raceDisk, Book!vars
<1>5. CASE Opens
  <2>1. Book!Save
    BY <1>3, <1>5 DEF Opens, Book!Save
  <2> QED
    BY <2>1 DEF Book!Next
<1>6. CASE Writes
  <2>1. ~file.complete /\ UNCHANGED <<mTable, mStartTime, cloud>>
    BY <1>1, <1>6 DEF Writes, DiskInv
  <2>2. CASE ~file'.complete
    BY <2>1, <2>2 DEF Book!Save, Book!Next
  <2>3. CASE file'.complete
    <3>1. file' = snap /\ snap.complete
      BY <1>3, <1>6, <2>3 DEF Writes
    <3>2. /\ Book!Behind(Copy(snap).laps, mTable)
          /\ Copy(snap).laps # NoLaps => snap.laps # NoLaps
          /\ Copy(snap).laps = Decode(snap.laps, snap.start)
      BY <1>1, <1>2, <3>1, CopyBehind
    <3>3. Copy(snap).laps # Book!Empty => snap.start = mStartTime
      BY <1>1, <3>1, <3>2, EmptyBook DEF DiskInv, Dated
    <3> DEFINE decoded == Decode(snap.laps, snap.start)
    <3>4. Book!Behind(decoded, mTable) /\ (decoded # Book!Empty => snap.start = mStartTime)
      BY <3>2, <3>3
    <3> HIDE DEF decoded
    <3>5. (IF file'.complete
           THEN [laps |-> Decode(file'.laps, file'.start), start |-> file'.start]
           ELSE Torn) = [laps |-> decoded, start |-> snap.start]
      BY <3>1 DEF decoded
    <3>6. Book!Save
      BY <2>1, <3>4, <3>5 DEF Book!Save
    <3> QED
      BY <3>6 DEF Book!Next
  <2> QED
    BY <2>2, <2>3
<1>7. CASE Sends
  <2>1. cloud' = snap.laps /\ UNCHANGED <<mTable, mStartTime, file>>
    BY <1>7 DEF Sends
  <2>2. ASSUME NEW t \in Tags
        PROVE  Book!IsPrefix(snap.laps[t], Book!Offsets(mTable)[t])
    <3> DEFINE sent == ToTimes(mTable[t], mStartTime)
    <3>1. Book!Offsets(mTable)[t] = sent
      BY DEF Book!Offsets, ToTimes
    <3>2. mTable[t] \in Seq(Int) /\ mStartTime \in Int /\ snap.laps[t] \in Seq(Int)
      BY <1>1 DEF TypeOK
    <3>3. /\ sent \in Seq(Int) /\ Len(sent) = Len(mTable[t])
          /\ \A i \in 1 .. Len(mTable[t]) : sent[i] = mTable[t][i] - mStartTime
      BY <3>2, TimesRoundTrip
    <3> HIDE DEF sent
    <3>4. CASE snap.laps = NoLaps
      <4>1. Len(snap.laps[t]) = 0
        BY <3>4 DEF NoLaps
      <4> QED
        BY <3>1, <3>2, <3>3, <4>1, BookPrefix
    <3>5. CASE snap.laps # NoLaps
      <4>1. snap.complete /\ snap.start = mStartTime
        BY <1>1, <3>5 DEF DiskInv, Dated, Torn
      <4>2. /\ Len(snap.laps[t]) <= Len(mTable[t])
            /\ \A i \in 1 .. Len(snap.laps[t]) :
                 snap.laps[t][i] + mStartTime = mTable[t][i]
        BY <1>2, <4>1 DEF Image
      <4>3. \A i \in 1 .. Len(snap.laps[t]) :
              snap.laps[t][i] \in Int /\ i \in 1 .. Len(mTable[t])
        BY <3>2, <4>2
      <4>4. \A i \in 1 .. Len(snap.laps[t]) : snap.laps[t][i] = sent[i]
        <5> SUFFICES ASSUME NEW i \in 1 .. Len(snap.laps[t])
                     PROVE  snap.laps[t][i] = sent[i]
          OBVIOUS
        <5>1. snap.laps[t][i] + mStartTime = mTable[t][i] /\ snap.laps[t][i] \in Int
          BY <4>2, <4>3
        <5>2. sent[i] = mTable[t][i] - mStartTime
          BY <3>3, <4>3
        <5> QED
          BY <3>2, <5>1, <5>2
      <4> QED
        BY <3>1, <3>2, <3>3, <4>2, <4>4, BookPrefix
    <3> QED
      BY <3>4, <3>5
  <2>3. Book!Publish
    BY <2>1, <2>2 DEF Book!Publish, Book!Behind
  <2> QED
    BY <2>3 DEF Book!Next
<1>8. ASSUME NEW w \in Workers, Apply(w)
      PROVE  Book!Next \/ UNCHANGED Book!vars
  BY <1>1, <1>8, ApplyRecords DEF Book!Next
<1>9. CASE Restart
  <2>1. /\ mTable' = IF file.complete THEN Decode(file.laps, file.start) ELSE NoLaps
        /\ mStartTime' = IF file.complete THEN file.start ELSE 0
        /\ UNCHANGED <<file, cloud>>
    BY <1>9 DEF Restart
  <2>2. CASE file.complete
    BY <2>1, <2>2, CopyIsNotTorn DEF Book!Recover, Book!Next
  <2>3. CASE ~file.complete
    BY <2>1, <2>3, EmptyBook DEF Book!Recover, Book!Next
  <2> QED
    BY <2>2, <2>3
<1> QED
  BY <1>4, <1>5, <1>6, <1>7, <1>8, <1>9, DiskShape

\* The lap table, export.json and the server keep the promises of LapBook:
\* every step of the pool threads, of Draw and its autosave, and of a restart
\* is a passage written, a save, a publication, a recovery, or nothing.
THEOREM TableIsABook == Spec => RefinesLapBook
<1>1. BookInv /\ CloudInv => BookInv
  OBVIOUS
<1> QED
  BY <1>1, BookAndCloud, BookInit, BookStep, PTL DEF Spec, RefinesLapBook, Book!Spec

=============================================================================
