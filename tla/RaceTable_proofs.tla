-------------------------- MODULE RaceTable_proofs --------------------------
(***************************************************************************)
(* Proofs about RaceTable, for every number of pool threads, tags,         *)
(* courses and restarts. First TypeOK, then the inductive invariants:      *)
(* TableInv (the laps, the copy Draw made of them and the autosave),       *)
(* LimitInv (what ParseAction has looked up without the mutex) and         *)
(* CourseInv (the lines of the shared table), and the safety properties    *)
(* that follow from them.                                                  *)
(***************************************************************************)
EXTENDS RaceTable, FiniteSetTheorems, SequenceTheorems, TLAPS

\* A sequence is a prefix when it is not longer and agrees position by position.
LEMMA PrefixIsPointwise ==
  ASSUME NEW s \in Seq(Int), NEW t \in Seq(Int)
  PROVE  IsPrefix(s, t) <=> /\ Len(s) <= Len(t)
                            /\ \A i \in 1 .. Len(s) : s[i] = t[i]
BY DEF IsPrefix

\* Entry::ToString and FromString keep the number of laps and shift each time.
LEMMA TimesRoundTrip ==
  ASSUME NEW s \in Seq(Int), NEW n \in Int
  PROVE  /\ ToTimes(s, n) \in Seq(Int)
         /\ Len(ToTimes(s, n)) = Len(s)
         /\ \A i \in 1 .. Len(s) : ToTimes(s, n)[i] = s[i] - n
         /\ FromTimes(s, n) \in Seq(Int)
         /\ Len(FromTimes(s, n)) = Len(s)
         /\ \A i \in 1 .. Len(s) : FromTimes(s, n)[i] = s[i] + n
<1>1. DOMAIN s = 1 .. Len(s) /\ Len(s) \in Nat /\ \A i \in 1 .. Len(s) : s[i] \in Int
  OBVIOUS
<1>2. ASSUME NEW f \in [1 .. Len(s) -> Int]
      PROVE  f \in Seq(Int) /\ Len(f) = Len(s)
  BY <1>1
<1>3. /\ ToTimes(s, n) \in [1 .. Len(s) -> Int]
      /\ FromTimes(s, n) \in [1 .. Len(s) -> Int]
  BY <1>1 DEF ToTimes, FromTimes
<1>4. QED  BY <1>1, <1>2, <1>3 DEF ToTimes, FromTimes

\* Every line SetTableEntry leaves is a new one or one that was there: lines
\* past the new ones stay.
LEMMA SetTableEntryType ==
  ASSUME NEW S, NEW lines \in Seq(S), NEW new \in Seq(S)
  PROVE  /\ SetTableEntry(lines, new) \in Seq(S)
         /\ \A i \in 1 .. Len(SetTableEntry(lines, new)) :
              \/ i <= Len(new) /\ SetTableEntry(lines, new)[i] = new[i]
              \/ i \in 1 .. Len(lines) /\ SetTableEntry(lines, new)[i] = lines[i]
<1> DEFINE rest == SubSeq(lines, Len(new) + 1, Len(lines))
<1>1. /\ rest \in Seq(S)
      /\ Len(rest) = IF Len(new) + 1 <= Len(lines) THEN Len(lines) - Len(new) ELSE 0
      /\ \A i \in 1 .. Len(lines) - Len(new) : rest[i] = lines[Len(new) + i]
  OBVIOUS
<1>2. QED  BY <1>1, ConcatProperties DEF SetTableEntry

\* A tag's key is a key of the code's maps.
LEMMA KeyType == \A t \in Tags : Key(t) \in Keys
BY ParamsAssumption DEF Key, Keys

\* What a fetched course leaves in the shared table: every line is either one
\* that was there or a runner of the course.
LEMMA GetCourseLines ==
  ASSUME TypeOK, NEW c \in Courses, GetCourse(c)
  PROVE  /\ course' = c
         /\ shared' \in [categories : Seq(SUBSET Cats), dossards : Seq(Line)]
         /\ \A i \in 1 .. Len(shared'.dossards) :
              \/ i \in 1 .. Len(shared.dossards) /\ shared'.dossards[i] = shared.dossards[i]
              \/ \E k \in Valid(c) :
                   shared'.dossards[i] = [dossard |-> k, cat |-> c[k].cat, tours |-> c[k].tours]
<1>1. PICK order \in Ascending(Valid(c)) :
        shared' =
          [categories |-> SetTableEntry(shared.categories, <<{c[k].cat : k \in Valid(c)}>>),
           dossards   |-> SetTableEntry(shared.dossards, DossardLines(c, order))]
  BY DEF GetCourse
<1>2. Valid(c) \subseteq Keys /\ \A k \in Valid(c) : c[k].cat \in Cats /\ c[k].tours \in Nat
  BY ParamsAssumption DEF Valid, Runner
<1>3. Cardinality(Valid(c)) \in Nat
  BY ParamsAssumption, FS_CardinalityType, FS_Subset DEF Valid
<1>4. DossardLines(c, order) \in [1 .. Cardinality(Valid(c)) -> Line]
  BY <1>2 DEF DossardLines, Ascending, Line
<1>5. DossardLines(c, order) \in Seq(Line) /\ Len(DossardLines(c, order)) = Cardinality(Valid(c))
  BY <1>3, <1>4
<1>6. <<{c[k].cat : k \in Valid(c)}>> \in Seq(SUBSET Cats)
  BY <1>2
<1>7. /\ shared.categories \in Seq(SUBSET Cats)
      /\ shared.dossards \in Seq(Line)
  BY DEF TypeOK
<1>8. shared' \in [categories : Seq(SUBSET Cats), dossards : Seq(Line)]
  BY <1>1, <1>5, <1>6, <1>7, SetTableEntryType
<1>9. \A i \in 1 .. Len(shared'.dossards) :
        \/ i \in 1 .. Len(DossardLines(c, order)) /\ shared'.dossards[i] = DossardLines(c, order)[i]
        \/ i \in 1 .. Len(shared.dossards) /\ shared'.dossards[i] = shared.dossards[i]
  BY <1>1, <1>5, <1>7, SetTableEntryType
<1>10. \A i \in 1 .. Len(DossardLines(c, order)) : \E k \in Valid(c) :
         DossardLines(c, order)[i] = [dossard |-> k, cat |-> c[k].cat, tours |-> c[k].tours]
  BY <1>5 DEF DossardLines, Ascending
<1>11. QED  BY <1>8, <1>9, <1>10 DEF GetCourse

\* The empty table is a table.
LEMMA NoLapsType == NoLaps \in [Tags -> Seq(Int)]
BY DEF NoLaps

\* A torn file is a file.
LEMMA TornType == Torn \in [complete : BOOLEAN, start : Int, laps : [Tags -> Seq(Int)]]
BY NoLapsType DEF Torn

\* TypeOK holds when the program starts.
LEMMA InitialType == Init => TypeOK
<1> SUFFICES ASSUME Init PROVE TypeOK
  OBVIOUS
<1>1. /\ reads \in Nat /\ restarts \in Nat
      /\ queue \in Seq(Read)
      /\ wk \in [Workers -> {Idle} \cup Busy]
  BY DEF Init
<1>2. /\ mTable \in [Tags -> Seq(Int)] /\ mStartTime \in Int /\ mWindow \in Windows
      /\ cloud \in [Tags -> Seq(Int)]
  BY NoLapsType, ParamsAssumption DEF Init
<1>3. /\ mCategories \in [Cats -> {"none", "off", "on"}]
      /\ mDossards \in [Keys -> Cats \cup {NoCat}]
      /\ mToursMax \in [Keys -> Nat]
      /\ mCatLabels \in SUBSET Cats
  BY DEF Init
<1>4. /\ snap \in [complete : BOOLEAN, start : Int, laps : [Tags -> Seq(Int)]]
      /\ file \in [complete : BOOLEAN, start : Int, laps : [Tags -> Seq(Int)]]
      /\ mSendToCloud \in BOOLEAN
  BY TornType DEF Init
<1>5. /\ shared \in [categories : Seq(SUBSET Cats), dossards : Seq(Line)]
      /\ course = <<>>
  BY DEF Init
<1>6. QED  BY <1>1, <1>2, <1>3, <1>4, <1>5 DEF TypeOK, Init

\* Every step keeps TypeOK.
LEMMA TypeStep == TypeOK /\ [Next]_vars => TypeOK'
<1> SUFFICES ASSUME TypeOK, [Next]_vars PROVE TypeOK'
  OBVIOUS
<1> USE DEF raceVars, setupVars, diskVars, engVars, workerFrame, guiFrame
<1>1. ASSUME NEW tag \in Tags, NEW time \in CurrentTimeStamp64, SendToManolab(tag, time)
      PROVE  TypeOK'
  <2>1. [tag |-> tag, time |-> time] \in Read
    BY ParamsAssumption DEF CurrentTimeStamp64, Read
  <2>2. queue' \in Seq(Read)
    BY <1>1, <2>1 DEF TypeOK, SendToManolab, Push
  <2>3. QED  BY <1>1, <2>2 DEF TypeOK, SendToManolab
<1>2. ASSUME NEW w \in Workers, Worker(w) PROVE TypeOK'
  <2>0. wk[w] # Idle => wk[w] \in Busy
    BY DEF TypeOK
  <2>1. CASE Take(w)
    <3>1. Head(queue) \in Read /\ Tail(queue) \in Seq(Read)
      BY <2>1 DEF TypeOK, Take
    <3>2. [pc |-> "dossard", read |-> Head(queue), cat |-> NoCat, tours |-> 0] \in Busy
      BY <3>1 DEF Busy
    <3>3. wk' \in [Workers -> {Idle} \cup Busy]
      BY <2>1, <3>2 DEF TypeOK, Take
    <3>4. QED  BY <2>1, <3>1, <3>3 DEF TypeOK, Take
  <2>2. CASE LookDossard(w)
    <3>1. mDossards[Key(wk[w].read.tag)] \in Cats \cup {NoCat}
      BY <2>0, <2>2, KeyType DEF TypeOK, LookDossard, Busy, Idle, Read
    <3>2. wk[w] \in Busy
      BY <2>0, <2>2 DEF LookDossard, Idle
    <3>3. [wk[w] EXCEPT !.pc = "tours", !.cat = mDossards[Key(wk[w].read.tag)]] \in Busy
      BY <3>1, <3>2 DEF Busy
    <3>4. wk' \in [Workers -> {Idle} \cup Busy]
      BY <2>2, <3>3 DEF TypeOK, LookDossard
    <3>5. QED  BY <2>2, <3>4 DEF TypeOK, LookDossard
  <2>3. CASE LookTours(w)
    <3>1. mToursMax[Key(wk[w].read.tag)] \in Nat
      BY <2>0, <2>3, KeyType DEF TypeOK, LookTours, Busy, Idle, Read
    <3>2. wk[w] \in Busy
      BY <2>0, <2>3 DEF LookTours, Idle
    <3>3. \A n \in Nat : [wk[w] EXCEPT !.pc = "category", !.tours = n] \in Busy
      BY <3>2 DEF Busy
    <3>4. PICK n \in Nat : wk' = [wk EXCEPT ![w].pc = "category", ![w].tours = n]
      BY <2>3, <3>1 DEF LookTours
    <3>5. wk' \in [Workers -> {Idle} \cup Busy]
      BY <3>3, <3>4 DEF TypeOK
    <3>6. QED  BY <2>3, <3>5 DEF TypeOK, LookTours
  <2>4. CASE LookCategory(w)
    <3>1. wk[w] \in Busy
      BY <2>0, <2>4 DEF LookCategory, Idle
    <3>2. [wk[w] EXCEPT !.pc = "box"] \in Busy
      BY <3>1 DEF Busy
    <3>3. wk' \in [Workers -> {Idle} \cup Busy]
      BY <2>4, <3>2 DEF TypeOK, LookCategory
    <3>4. QED  BY <2>4, <3>3 DEF TypeOK, LookCategory
  <2>5. CASE LookBox(w)
    <3>0. wk[w] \in Busy /\ [wk[w] EXCEPT !.pc = "apply"] \in Busy
      BY <2>0, <2>5 DEF LookBox, Idle, Busy
    <3>1. wk' \in [Workers -> {Idle} \cup Busy]
      BY <2>5, <3>0 DEF TypeOK, LookBox
    <3>2. mCategories' \in [Cats -> {"none", "off", "on"}]
      BY <2>5 DEF TypeOK, LookBox
    <3>3. QED  BY <2>5, <3>1, <3>2 DEF TypeOK, LookBox
  <2>6. CASE Apply(w)
    <3>1. wk[w].read \in Read
      BY <2>0, <2>6 DEF Apply, Busy, Idle
    <3>2. mStartTime' \in Int
      BY <2>6, <3>1 DEF TypeOK, Apply, StartAfter, Read
    <3>3. mTable' \in [Tags -> Seq(Int)]
      BY <2>6, <3>1 DEF TypeOK, Apply, Read
    <3>4. wk' \in [Workers -> {Idle} \cup Busy]
      BY <2>6 DEF TypeOK, Apply
    <3>5. QED  BY <2>6, <3>2, <3>3, <3>4 DEF TypeOK, Apply
  <2>7. QED  BY <1>2, <2>1, <2>2, <2>3, <2>4, <2>5, <2>6 DEF Worker
<1>3. CASE Gui
  <2>1. CASE DrawCopy
    <3>1. snap' \in [complete : BOOLEAN, start : Int, laps : [Tags -> Seq(Int)]]
      BY <2>1, TimesRoundTrip DEF TypeOK, DrawCopy, Saved, Encode
    <3>2. QED  BY <2>1, <3>1 DEF TypeOK, DrawCopy
  <2>2. CASE AutosaveOpen
    BY <2>2, TornType DEF TypeOK, AutosaveOpen
  <2>3. CASE AutosaveWrite
    BY <2>3, TornType DEF TypeOK, AutosaveWrite
  <2>4. CASE DrawSend
    BY <2>4, TornType DEF TypeOK, DrawSend
  <2>5. CASE DrawWindow
    BY <2>5 DEF TypeOK, DrawWindow
  <2>6. CASE DrawCategories
    <3>1. Len(shared.categories) = 1 => shared.categories[1] \in SUBSET Cats
      BY DEF TypeOK
    <3>2. QED  BY <2>6, <3>1 DEF TypeOK, DrawCategories
  <2>7. CASE DrawLabels
    BY <2>7 DEF TypeOK, DrawLabels
  <2>8. CASE DrawDossards
    <3>1. \A k \in Keys : LastOf(k) # {} => LastLine(k) \in Line
      BY DEF TypeOK, LastLine, LastOf, LinesOf
    <3>2. /\ mDossards' \in [Keys -> Cats \cup {NoCat}]
          /\ mToursMax' \in [Keys -> Nat]
      BY <2>8, <3>1 DEF TypeOK, DrawDossards, Line
    <3>3. QED  BY <2>8, <3>2 DEF TypeOK, DrawDossards
  <2>9. CASE DrawBoxes
    <3>1. mCategories' \in [Cats -> {"none", "off", "on"}]
      BY <2>9 DEF TypeOK, DrawBoxes, Listed
    <3>2. QED  BY <2>9, <3>1 DEF TypeOK, DrawBoxes
  <2>10. CASE DrawCourse
    <3>1. ASSUME NEW c \in Courses, GetCourse(c)
          PROVE  /\ shared' \in [categories : Seq(SUBSET Cats), dossards : Seq(Line)]
                 /\ course' \in Courses
      BY <3>1, GetCourseLines DEF TypeOK
    <3>2. QED  BY <2>10, <3>1 DEF TypeOK, DrawCourse
  <2>11. QED
    BY <1>3, <2>1, <2>2, <2>3, <2>4, <2>5, <2>6, <2>7, <2>8, <2>9, <2>10 DEF Gui
<1>4. CASE Restart
  <2>1. mTable' \in [Tags -> Seq(Int)] /\ mStartTime' \in Int
    BY <1>4, NoLapsType, TimesRoundTrip DEF TypeOK, Restart, Decode
  <2>2. /\ wk' \in [Workers -> {Idle} \cup Busy]
        /\ mCategories' \in [Cats -> {"none", "off", "on"}]
        /\ mDossards' \in [Keys -> Cats \cup {NoCat}]
        /\ mToursMax' \in [Keys -> Nat]
        /\ queue' \in Seq(Read)
        /\ shared' \in [categories : Seq(SUBSET Cats), dossards : Seq(Line)]
    BY <1>4 DEF Restart
  <2>3. /\ reads' \in Nat /\ restarts' \in Nat
        /\ mWindow' \in Windows
    BY <1>4, ParamsAssumption DEF TypeOK, Restart
  <2>4. mCatLabels' \in SUBSET Cats
    BY <1>4 DEF Restart
  <2>5. pc' = "copy" /\ mSendToCloud' \in BOOLEAN /\ course' = <<>>
    BY <1>4 DEF Restart
  <2>6. /\ snap' \in [complete : BOOLEAN, start : Int, laps : [Tags -> Seq(Int)]]
        /\ file' \in [complete : BOOLEAN, start : Int, laps : [Tags -> Seq(Int)]]
        /\ cloud' \in [Tags -> Seq(Int)]
    BY <1>4, TornType DEF TypeOK, Restart
  <2>7. QED
    BY <2>1, <2>2, <2>3, <2>4, <2>5, <2>6 DEF TypeOK
<1>5. CASE UNCHANGED vars
  BY <1>5 DEF TypeOK, vars
<1>6. QED  BY ONLY <1>1, <1>2, <1>3, <1>4, <1>5, [Next]_vars DEF Next

\* TypeOK is an invariant: every member keeps its type, whatever the
\* interleaving of the pool, the GUI thread and the restarts.
THEOREM TypeCorrect == Spec => []TypeOK
<1>1. QED  BY InitialType, TypeStep, PTL DEF Spec

-----------------------------------------------------------------------------
(* The laps. TypeOK is not enough: a restart reloads the table from the    *)
(* file, so the invariant has to say that the file, and the copy it is     *)
(* written from, are images of the beginning of the table.                 *)

\* f, when it is complete, restores the beginning of table; and the time of
\* some first passage in it is the start.
Image(f, table) ==
  f.complete =>
    /\ \A t \in Tags : /\ Len(f.laps[t]) <= Len(table[t])
                       /\ \A i \in 1 .. Len(f.laps[t]) :
                            f.laps[t][i] + f.start = table[t][i]
    /\ f.laps # NoLaps => \E t \in Tags : f.laps[t] # <<>> /\ f.laps[t][1] = 0

\* The inductive strengthening of StartIsAPassage and FileIsBehindTable, and
\* what LapsSpaced needs when a restart reloads the table.
TableInv == /\ StartIsAPassage
            /\ Image(snap, mTable)
            /\ Image(file, mTable)

\* Only Apply and Restart touch the table; the file only ever becomes the
\* copy Draw made, or a torn one.
LEMMA StepShape ==
  ASSUME TypeOK, [Next]_vars
  PROVE  \/ /\ UNCHANGED raceVars
            /\ file' \in {file, snap, Torn}
            /\ snap' \in {snap, Torn, Saved(mTable, mStartTime)}
         \/ \E w \in Workers : Apply(w)
         \/ Restart
<1> USE DEF raceVars, setupVars, diskVars, engVars, workerFrame, guiFrame
<1> DEFINE Quiet == /\ UNCHANGED raceVars
                    /\ file' \in {file, snap, Torn}
                    /\ snap' \in {snap, Torn, Saved(mTable, mStartTime)}
<1>1. ASSUME NEW tag \in Tags, NEW time \in CurrentTimeStamp64, SendToManolab(tag, time)
      PROVE  Quiet
  BY <1>1 DEF SendToManolab
<1>2. ASSUME NEW w \in Workers, Worker(w), ~Apply(w) PROVE Quiet
  BY <1>2 DEF Worker, Take, LookDossard, LookTours, LookCategory, LookBox
<1>3. CASE Gui
  BY <1>3 DEF Gui, DrawCopy, AutosaveOpen, AutosaveWrite, DrawSend, DrawWindow,
              DrawCategories, DrawLabels, DrawDossards, DrawBoxes, DrawCourse
<1>4. CASE UNCHANGED vars  BY <1>4 DEF vars
<1>5. QED  BY <1>1, <1>2, <1>3, <1>4 DEF Next

\* What one run of the locked section does to the table, position by position.
LEMMA ApplyShape ==
  ASSUME TypeOK, NEW w \in Workers, Apply(w)
  PROVE  /\ wk[w] \in Busy /\ wk[w].read.tag \in Tags /\ wk[w].read.time \in Nat
         /\ snap' = snap /\ file' = file
         /\ mStartTime' = IF mTable = NoLaps THEN wk[w].read.time ELSE mStartTime
         /\ mTable' \in [Tags -> Seq(Int)]
         /\ \A t \in Tags :
              \/ mTable'[t] = mTable[t]
              \/ /\ t = wk[w].read.tag
                 /\ Accepts(mTable[t], wk[w].read.time, wk[w].tours)
                 /\ Len(mTable'[t]) = Len(mTable[t]) + 1
                 /\ \A i \in 1 .. Len(mTable[t]) : mTable'[t][i] = mTable[t][i]
                 /\ mTable'[t][Len(mTable[t]) + 1] = wk[w].read.time
         /\ mTable = NoLaps => mTable'[wk[w].read.tag] = <<wk[w].read.time>>
<1>1. wk[w] \in Busy
  BY DEF TypeOK, Apply, Idle
<1>2. wk[w].read.tag \in Tags /\ wk[w].read.time \in Nat
  BY <1>1 DEF Busy, Read
<1>3. snap' = snap /\ file' = file
  BY DEF Apply, workerFrame, diskVars
<1>4. mTable' \in [Tags -> Seq(Int)]
  BY <1>2 DEF TypeOK, Apply
<1>5. mStartTime' = IF mTable = NoLaps THEN wk[w].read.time ELSE mStartTime
  BY DEF Apply, StartAfter
<1>6. \A t \in Tags :
        \/ mTable'[t] = mTable[t]
        \/ /\ t = wk[w].read.tag
           /\ Accepts(mTable[t], wk[w].read.time, wk[w].tours)
           /\ mTable'[t] = Append(mTable[t], wk[w].read.time)
  BY <1>2 DEF TypeOK, Apply
<1>7. \A t \in Tags : mTable[t] \in Seq(Int)
  BY DEF TypeOK
<1>8. mTable = NoLaps => mTable'[wk[w].read.tag] = <<wk[w].read.time>>
  <2>1. mTable = NoLaps => mTable[wk[w].read.tag] = <<>>
    BY <1>2 DEF NoLaps
  <2>2. mTable = NoLaps => mTable' = [mTable EXCEPT ![wk[w].read.tag] = Append(@, wk[w].read.time)]
    BY <2>1 DEF Apply, Accepts
  <2>3. QED  BY <1>2, <2>1, <2>2 DEF TypeOK
<1>9. QED  BY <1>1, <1>2, <1>3, <1>4, <1>5, <1>6, <1>7, <1>8

Images == [complete : BOOLEAN, start : Int, laps : [Tags -> Seq(Int)]]

\* A torn file restores nothing, which any table extends.
LEMMA ImageOfTorn == \A table : Image(Torn, table)
BY DEF Image, Torn

\* The copy Draw makes is an image of the table: the times relative to the
\* start, plus the start, are the times.
LEMMA ImageOfSaved ==
  ASSUME TypeOK, StartIsAPassage
  PROVE  Image(Saved(mTable, mStartTime), mTable)
<1> DEFINE f == Saved(mTable, mStartTime)
<1>1. \A t \in Tags : mTable[t] \in Seq(Int) /\ f.laps[t] = ToTimes(mTable[t], mStartTime)
  BY DEF TypeOK, Saved, Encode
<1>2. f.start = mStartTime /\ mStartTime \in Int
  BY DEF TypeOK, Saved
<1>3. \A t \in Tags : /\ f.laps[t] \in Seq(Int)
                      /\ Len(f.laps[t]) = Len(mTable[t])
                      /\ \A i \in 1 .. Len(mTable[t]) : f.laps[t][i] = mTable[t][i] - mStartTime
  BY <1>1, <1>2, TimesRoundTrip
<1>4. \A t \in Tags : \A i \in 1 .. Len(mTable[t]) : mTable[t][i] \in Int
  BY <1>1
<1>5. ASSUME f.laps # NoLaps PROVE \E t \in Tags : f.laps[t] # <<>> /\ f.laps[t][1] = 0
  <2>1. mTable # NoLaps
    BY <1>5 DEF Saved, Encode, NoLaps, ToTimes
  <2>2. PICK t \in Tags : mTable[t] # <<>> /\ mTable[t][1] = mStartTime
    BY <2>1 DEF StartIsAPassage
  <2>3. 1 \in 1 .. Len(mTable[t])
    BY <1>1, <2>2
  <2>4. f.laps[t] \in Seq(Int) /\ Len(f.laps[t]) >= 1 /\ f.laps[t][1] = mTable[t][1] - mStartTime
    BY <1>1, <1>3, <2>3
  <2>5. f.laps[t][1] = 0 /\ f.laps[t] # <<>>
    BY <1>2, <2>2, <2>4
  <2>6. QED  BY <2>5
<1>6. Image(f, mTable)
  <2> HIDE DEF f
  <2>1. \A t \in Tags : \A i \in 1 .. Len(f.laps[t]) : f.laps[t][i] + f.start = mTable[t][i]
    BY <1>2, <1>3, <1>4
  <2>2. \A t \in Tags : Len(f.laps[t]) <= Len(mTable[t])
    BY <1>1, <1>3
  <2>3. QED  BY <1>5, <2>1, <2>2 DEF Image
<1>7. QED  BY <1>6

\* An image stays one when laps are appended.
LEMMA ImageKept ==
  ASSUME TypeOK, NEW w \in Workers, Apply(w), NEW f \in Images, Image(f, mTable)
  PROVE  Image(f, mTable')
<1>1. \A t \in Tags : /\ Len(mTable[t]) \in Nat /\ Len(mTable'[t]) \in Nat
                      /\ Len(mTable[t]) <= Len(mTable'[t])
                      /\ \A i \in 1 .. Len(mTable[t]) : mTable'[t][i] = mTable[t][i]
  <2>1. \A t \in Tags : mTable[t] \in Seq(Int) /\ mTable'[t] \in Seq(Int)
    BY ApplyShape DEF TypeOK
  <2>2. ASSUME NEW t \in Tags
        PROVE  /\ Len(mTable[t]) <= Len(mTable'[t])
               /\ \A i \in 1 .. Len(mTable[t]) : mTable'[t][i] = mTable[t][i]
    BY <2>1, ApplyShape
  <2>3. QED  BY <2>1, <2>2
<1>2. \A t \in Tags : Len(f.laps[t]) \in Nat
  BY DEF Images
<1>3. ASSUME NEW t \in Tags, f.complete
      PROVE  /\ Len(f.laps[t]) <= Len(mTable'[t])
             /\ \A i \in 1 .. Len(f.laps[t]) : f.laps[t][i] + f.start = mTable'[t][i]
  BY <1>1, <1>2, <1>3 DEF Image
<1>4. QED  BY <1>3 DEF Image

\* What a restart reads back.
LEMMA RestartShape ==
  ASSUME TypeOK, Restart, file.complete
  PROVE  /\ mStartTime' = file.start
         /\ \A t \in Tags :
              /\ mTable'[t] \in Seq(Int)
              /\ Len(mTable'[t]) = Len(file.laps[t])
              /\ \A i \in 1 .. Len(file.laps[t]) : mTable'[t][i] = file.laps[t][i] + file.start
<1>1. mTable' = Decode(file.laps, file.start) /\ mStartTime' = file.start
  BY DEF Restart
<1>2. file.start \in Int /\ file.laps \in [Tags -> Seq(Int)]
  BY DEF TypeOK
<1>3. \A t \in Tags : mTable'[t] = FromTimes(file.laps[t], file.start)
  BY <1>1 DEF Decode
<1>4. \A t \in Tags :
        /\ mTable'[t] \in Seq(Int)
        /\ Len(mTable'[t]) = Len(file.laps[t])
        /\ \A i \in 1 .. Len(file.laps[t]) : mTable'[t][i] = file.laps[t][i] + file.start
  BY <1>2, <1>3, TimesRoundTrip
<1>5. QED  BY <1>1, <1>4

\* TableInv holds when the program starts.
LEMMA TableInitially == Init => TableInv
<1> SUFFICES ASSUME Init PROVE TableInv
  OBVIOUS
<1>1. mTable = NoLaps /\ snap = Torn /\ file = Torn
  BY DEF Init
<1>2. QED  BY <1>1, ImageOfTorn DEF TableInv, StartIsAPassage

\* Every step keeps TableInv: Apply appends to what the images are images of,
\* a restart replaces the table by the image itself.
LEMMA TableStep == TypeOK /\ TableInv /\ [Next]_vars => TableInv'
<1> SUFFICES ASSUME TypeOK, TableInv, [Next]_vars PROVE TableInv'
  OBVIOUS
<1>0. TypeOK'
  BY TypeStep
<1>1. ASSUME UNCHANGED raceVars,
             file' \in {file, snap, Torn},
             snap' \in {snap, Torn, Saved(mTable, mStartTime)}
      PROVE  TableInv'
  <2>1. mTable' = mTable /\ mStartTime' = mStartTime
    BY <1>1 DEF raceVars
  <2>2. StartIsAPassage'
    BY <2>1 DEF TableInv, StartIsAPassage
  <2>3. Image(file', mTable)
    BY <1>1, ImageOfTorn DEF TableInv
  <2>4. Image(snap', mTable)
    BY <1>1, ImageOfTorn, ImageOfSaved DEF TableInv
  <2>5. QED  BY <2>1, <2>2, <2>3, <2>4 DEF TableInv
<1>2. ASSUME NEW w \in Workers, Apply(w) PROVE TableInv'
  <2> DEFINE r == wk[w].read
  <2>1. /\ Image(snap, mTable') /\ Image(file, mTable')
        /\ snap' = snap /\ file' = file
    BY <1>2, ImageKept, ApplyShape DEF TableInv, TypeOK, Images
  <2>2. \A t \in Tags : mTable[t] \in Seq(Int) /\ mTable'[t] \in Seq(Int)
    BY <1>2, ApplyShape DEF TypeOK
  <2>3. StartIsAPassage'
    <3>1. CASE mTable = NoLaps
      <4>1. mTable'[r.tag] = <<r.time>> /\ mStartTime' = r.time /\ r.tag \in Tags
        BY <1>2, <3>1, ApplyShape
      <4>2. mTable'[r.tag] # <<>> /\ mTable'[r.tag][1] = mStartTime'
        BY <4>1
      <4>3. QED  BY <4>1, <4>2 DEF StartIsAPassage
    <3>2. CASE mTable # NoLaps
      <4>1. PICK t \in Tags : mTable[t] # <<>> /\ mTable[t][1] = mStartTime
        BY <3>2 DEF TableInv, StartIsAPassage
      <4>2. 1 \in 1 .. Len(mTable[t])
        BY <2>2, <4>1
      <4>3. mTable'[t][1] = mTable[t][1] /\ Len(mTable'[t]) >= 1
        BY <1>2, <2>2, <4>2, ApplyShape
      <4>4. mTable'[t] # <<>> /\ mStartTime' = mStartTime
        BY <1>2, <2>2, <3>2, <4>3, ApplyShape
      <4>5. QED  BY <4>1, <4>3, <4>4 DEF StartIsAPassage
    <3>3. QED  BY <3>1, <3>2
  <2>4. QED  BY <2>1, <2>3 DEF TableInv
<1>3. CASE Restart
  <2>1. snap' = Torn /\ file' = file
    BY <1>3 DEF Restart
  <2>2. CASE ~file.complete
    <3>1. mTable' = NoLaps
      BY <1>3, <2>2 DEF Restart
    <3>2. StartIsAPassage'
      BY <3>1 DEF StartIsAPassage
    <3>3. Image(file, mTable')
      BY <2>2 DEF Image
    <3>4. QED  BY <2>1, <3>2, <3>3, ImageOfTorn DEF TableInv
  <2>3. CASE file.complete
    <3>1. \A t \in Tags : /\ mTable'[t] \in Seq(Int)
                          /\ Len(mTable'[t]) = Len(file.laps[t])
                          /\ \A i \in 1 .. Len(file.laps[t]) :
                               mTable'[t][i] = file.laps[t][i] + file.start
      BY <1>3, <2>3, RestartShape
    <3>2. \A t \in Tags : file.laps[t] \in Seq(Int) /\ mTable[t] \in Seq(Int)
      BY DEF TypeOK
    <3>3. StartIsAPassage'
      <4>1. SUFFICES ASSUME mTable' # NoLaps
                     PROVE  \E t \in Tags : mTable'[t] # <<>> /\ mTable'[t][1] = mStartTime'
        BY DEF StartIsAPassage
      <4>2. file.laps # NoLaps
        <5>1. ASSUME file.laps = NoLaps PROVE mTable' = NoLaps
          <6>1. \A t \in Tags : mTable'[t] = <<>>
            BY <3>1, <5>1 DEF NoLaps
          <6>2. mTable' \in [Tags -> Seq(Int)]
            BY <1>0 DEF TypeOK
          <6>3. QED  BY <6>1, <6>2 DEF NoLaps
        <5>2. QED  BY <4>1, <5>1
      <4>3. PICK t \in Tags : file.laps[t] # <<>> /\ file.laps[t][1] = 0
        BY <2>3, <4>2 DEF TableInv, Image
      <4>4. 1 \in 1 .. Len(file.laps[t])
        BY <3>2, <4>3
      <4>5. mTable'[t][1] = file.start /\ mTable'[t] # <<>>
        BY <3>1, <3>2, <4>3, <4>4 DEF TypeOK
      <4>6. mStartTime' = file.start
        BY <1>3, <2>3, RestartShape
      <4>7. QED  BY <4>5, <4>6
    <3>4. Image(file, mTable')
      <4>1. file.laps # NoLaps => \E t \in Tags : file.laps[t] # <<>> /\ file.laps[t][1] = 0
        BY <2>3 DEF TableInv, Image
      <4>2. \A t \in Tags : /\ Len(file.laps[t]) <= Len(mTable'[t])
                            /\ \A i \in 1 .. Len(file.laps[t]) :
                                 file.laps[t][i] + file.start = mTable'[t][i]
        BY <3>1, <3>2
      <4>3. QED  BY <4>1, <4>2 DEF Image
    <3>5. QED  BY <2>1, <3>3, <3>4, ImageOfTorn DEF TableInv
  <2>4. QED  BY <2>2, <2>3
<1>4. QED  BY <1>1, <1>2, <1>3, StepShape

-----------------------------------------------------------------------------
(* The number of laps. The bound a worker checks comes from an unlocked    *)
(* lookup, so the invariant follows it from the course the server gave,    *)
(* through the shared table and mToursMax, to the worker.                  *)

\* Some course has the runner k and at least n laps to run for it.
Known(k, n) == \E c \in Courses : k \in Valid(c) /\ n <= c[k].tours

\* The inductive strengthening of LapLimit.
LimitInv ==
  /\ LapLimit
  /\ \A i \in 1 .. Len(shared.dossards) :
       Known(shared.dossards[i].dossard, shared.dossards[i].tours)
  /\ \A k \in Keys : mDossards[k] # NoCat => Known(k, mToursMax[k])
  /\ \A w \in Workers :
       /\ wk[w].pc = "tours" => mDossards[Key(wk[w].read.tag)] # NoCat
       /\ wk[w].pc \in {"category", "box", "apply"} =>
            Known(Key(wk[w].read.tag), wk[w].tours)

\* A runner of some course is one with any smaller number of laps.
LEMMA KnownZero ==
  ASSUME NEW k, NEW n \in Nat, Known(k, n)
  PROVE  Known(k, 0)
<1>1. PICK c \in Courses : k \in Valid(c) /\ n <= c[k].tours
  BY DEF Known
<1>2. c[k].tours \in Nat
  BY <1>1, ParamsAssumption DEF Valid, Runner
<1>3. QED  BY <1>1, <1>2 DEF Known

\* LimitInv holds when the program starts.
LEMMA LimitInitially == Init => LimitInv
BY DEF Init, LimitInv, LapLimit, NoLaps, Idle

\* Every step keeps LimitInv: what a pool thread has looked up was true of
\* some course, even when the maps are refilled under it.
LEMMA LimitStep == TypeOK /\ TableInv /\ LimitInv /\ [Next]_vars => LimitInv'
<1> SUFFICES ASSUME TypeOK, TableInv, LimitInv, [Next]_vars PROVE LimitInv'
  OBVIOUS
<1> USE DEF raceVars, setupVars, diskVars, engVars, workerFrame, guiFrame
<1>0. TypeOK'
  BY TypeStep
<1>1. ASSUME NEW tag \in Tags, NEW time \in CurrentTimeStamp64, SendToManolab(tag, time)
      PROVE  LimitInv'
  BY <1>1 DEF LimitInv, LapLimit, SendToManolab
<1>2. ASSUME NEW w \in Workers, Worker(w) PROVE LimitInv'
  <2>0. wk[w] # Idle => wk[w] \in Busy
    BY DEF TypeOK
  <2>00. wk \in [Workers -> {Idle} \cup Busy]
    BY DEF TypeOK
  <2>1. CASE Take(w)
    BY <2>1, <2>00 DEF Take, LimitInv, LapLimit
  <2>2. CASE LookDossard(w)
    <3>1. wk[w] \in Busy
      BY <2>0, <2>2 DEF LookDossard, Idle
    <3>2. QED  BY <2>00, <2>2, <3>1 DEF LookDossard, LimitInv, LapLimit, Idle, Busy
  <2>3. CASE LookTours(w)
    <3>1. wk[w] \in Busy /\ Key(wk[w].read.tag) \in Keys
      BY <2>0, <2>3, KeyType DEF LookTours, Idle, Busy, Read
    <3>2. PICK n \in {mToursMax[Key(wk[w].read.tag)], 0} :
            wk' = [wk EXCEPT ![w].pc = "category", ![w].tours = n]
      BY <2>3 DEF LookTours
    <3>3. Known(Key(wk[w].read.tag), n)
      BY <2>3, <3>1, <3>2, KnownZero DEF LookTours, LimitInv, TypeOK
    <3>4. wk'[w].read = wk[w].read /\ wk'[w].tours = n /\ wk'[w].pc = "category"
      BY <2>00, <3>1, <3>2 DEF Busy
    <3>5. \A v \in Workers : v # w => wk'[v] = wk[v]
      BY <2>00, <3>2
    <3>6. QED
      BY <2>3, <3>3, <3>4, <3>5 DEF LookTours, LimitInv, LapLimit
  <2>4. CASE LookCategory(w)
    <3>1. wk[w] \in Busy
      BY <2>0, <2>4 DEF LookCategory, Idle
    <3>2. QED  BY <2>00, <2>4, <3>1 DEF LookCategory, LimitInv, LapLimit, Idle, Busy
  <2>5. CASE LookBox(w)
    <3>1. wk[w] \in Busy
      BY <2>0, <2>5 DEF LookBox, Idle
    <3>2. QED  BY <2>00, <2>5, <3>1 DEF LookBox, LimitInv, LapLimit, Idle, Busy
  <2>6. CASE Apply(w)
    <3>1. LapLimit'
      <4> SUFFICES ASSUME NEW t \in Tags, mTable'[t] # <<>>
                   PROVE  \E c \in Courses : /\ Key(t) \in Valid(c)
                                             /\ Len(mTable'[t]) <= c[Key(t)].tours + 1
        BY DEF LapLimit
      <4>1. CASE mTable'[t] = mTable[t]
        BY <4>1 DEF LimitInv, LapLimit
      <4>2. CASE /\ t = wk[w].read.tag
                 /\ Accepts(mTable[t], wk[w].read.time, wk[w].tours)
                 /\ Len(mTable'[t]) = Len(mTable[t]) + 1
        <5>1. PICK c \in Courses : Key(t) \in Valid(c) /\ wk[w].tours <= c[Key(t)].tours
          BY <2>6, <4>2 DEF LimitInv, Known, Apply
        <5>2. wk[w].tours \in Nat /\ c[Key(t)].tours \in Nat
          BY <2>6, <5>1, ApplyShape, ParamsAssumption DEF Busy, Valid, Runner
        <5>3. mTable[t] \in Seq(Int) /\ (Len(mTable[t]) = 0 \/ Len(mTable[t]) <= wk[w].tours)
          BY <4>2 DEF Accepts, TypeOK
        <5>4. QED  BY <4>2, <5>1, <5>2, <5>3
      <4>3. QED  BY <2>6, <4>1, <4>2, ApplyShape
    <3>2. QED  BY <2>00, <2>6, <3>1 DEF Apply, LimitInv, Idle
  <2>7. QED  BY <1>2, <2>1, <2>2, <2>3, <2>4, <2>5, <2>6 DEF Worker
<1>3. CASE Gui
  <2>1. CASE DrawDossards
    <3>1. ASSUME NEW k \in Keys
          PROVE  /\ mDossards'[k] # NoCat => Known(k, mToursMax'[k])
                 /\ mDossards[k] # NoCat => mDossards'[k] # NoCat
      <4>1. CASE LastOf(k) = {}
        BY <2>1, <4>1 DEF DrawDossards, LimitInv
      <4>2. CASE LastOf(k) # {}
        <5>1. PICK i \in 1 .. Len(shared.dossards) : /\ LastLine(k) = shared.dossards[i]
                                                    /\ shared.dossards[i].dossard = k
          <6>1. shared.dossards \in Seq(Line)
            BY DEF TypeOK
          <6>2. (CHOOSE i \in LastOf(k) : TRUE) \in LastOf(k)
            BY <4>2
          <6>3. \A i \in LastOf(k) : i \in 1 .. Len(shared.dossards) /\ shared.dossards[i].dossard = k
            BY <6>1 DEF LastOf, LinesOf
          <6>4. QED  BY <6>2, <6>3 DEF LastLine
        <5>2. mDossards'[k] = LastLine(k).cat /\ mToursMax'[k] = LastLine(k).tours
          BY <2>1, <4>2 DEF DrawDossards
        <5>3. LastLine(k).cat \in Cats
          <6>1. shared.dossards \in Seq(Line)
            BY DEF TypeOK
          <6>2. LastLine(k) \in Line
            BY <5>1, <6>1
          <6>3. QED  BY <6>2 DEF Line
        <5>4. QED  BY <5>1, <5>2, <5>3, ParamsAssumption DEF LimitInv
      <4>3. QED  BY <4>1, <4>2
    <3>2. \A w \in Workers : wk[w].pc = "tours" => Key(wk[w].read.tag) \in Keys
      BY KeyType DEF TypeOK, Idle, Busy, Read
    <3>3. QED
      BY <2>1, <3>1, <3>2 DEF DrawDossards, LimitInv, LapLimit
  <2>2. CASE DrawCourse
    <3>1. ASSUME NEW c \in Courses, GetCourse(c)
          PROVE  \A i \in 1 .. Len(shared'.dossards) :
                   Known(shared'.dossards[i].dossard, shared'.dossards[i].tours)
      <4>1. \A k \in Valid(c) : Known(k, c[k].tours)
        BY ParamsAssumption DEF Known, Valid, Runner
      <4>2. ASSUME NEW i \in 1 .. Len(shared'.dossards), NEW k \in Valid(c),
                   shared'.dossards[i] = [dossard |-> k, cat |-> c[k].cat, tours |-> c[k].tours]
            PROVE  Known(shared'.dossards[i].dossard, shared'.dossards[i].tours)
        BY <4>1, <4>2
      <4>3. ASSUME NEW i \in 1 .. Len(shared.dossards), shared'.dossards[i] = shared.dossards[i]
            PROVE  Known(shared'.dossards[i].dossard, shared'.dossards[i].tours)
        BY <4>3 DEF LimitInv
      <4>4. QED  BY <3>1, <4>2, <4>3, GetCourseLines
    <3>2. QED  BY <2>2, <3>1 DEF DrawCourse, LimitInv, LapLimit
  <2>3. ASSUME Gui, ~DrawDossards, ~DrawCourse PROVE LimitInv'
    <3>1. UNCHANGED <<mTable, shared, mDossards, mToursMax, wk>>
      BY <2>3 DEF Gui, DrawCopy, AutosaveOpen, AutosaveWrite, DrawSend, DrawWindow,
                  DrawCategories, DrawLabels, DrawBoxes
    <3>2. QED  BY <3>1 DEF LimitInv, LapLimit
  <2>4. QED  BY <1>3, <2>1, <2>2, <2>3
<1>4. CASE Restart
  <2>1. LapLimit'
    <3>1. CASE ~file.complete
      BY <1>4, <3>1 DEF Restart, LapLimit, NoLaps
    <3>2. CASE file.complete
      <4> SUFFICES ASSUME NEW t \in Tags, mTable'[t] # <<>>
                   PROVE  \E c \in Courses : /\ Key(t) \in Valid(c)
                                             /\ Len(mTable'[t]) <= c[Key(t)].tours + 1
        BY DEF LapLimit
      <4>1. /\ mTable'[t] \in Seq(Int) /\ mTable[t] \in Seq(Int)
            /\ Len(mTable'[t]) <= Len(mTable[t])
        BY <1>4, <3>2, RestartShape DEF TableInv, Image, TypeOK
      <4>2. mTable[t] # <<>>
        BY <4>1
      <4>3. PICK c \in Courses : /\ Key(t) \in Valid(c)
                                 /\ Len(mTable[t]) <= c[Key(t)].tours + 1
        BY <4>2 DEF LimitInv, LapLimit
      <4>4. c[Key(t)].tours \in Nat
        BY <4>3, ParamsAssumption DEF Valid, Runner
      <4>5. QED  BY <4>1, <4>3, <4>4
    <3>3. QED  BY <3>1, <3>2
  <2>2. QED  BY <1>4, <2>1 DEF Restart, LimitInv, Idle
<1>5. CASE UNCHANGED vars
  BY <1>5 DEF LimitInv, LapLimit, vars
<1>6. QED  BY ONLY <1>1, <1>2, <1>3, <1>4, <1>5, [Next]_vars DEF Next

-----------------------------------------------------------------------------
(* The theorems.                                                           *)

\* The conjunction of the three is an invariant.
LEMMA Inductive == Spec => [](TypeOK /\ TableInv /\ LimitInv)
<1>1. Init => TypeOK /\ TableInv /\ LimitInv
  BY InitialType, TableInitially, LimitInitially
<1>2. TypeOK /\ TableInv /\ LimitInv /\ [Next]_vars => (TypeOK /\ TableInv /\ LimitInv)'
  BY TypeStep, TableStep, LimitStep
<1>3. QED  BY <1>1, <1>2, PTL DEF Spec

\* What a step does to the laps of a runner.
LEMMA SpacedStep ==
  ASSUME TypeOK, TableInv, [Next]_vars, NEW t \in Tags
  PROVE  \/ mTable'[t] = mTable[t]
         \/ restarts' # restarts /\ IsPrefix(mTable'[t], mTable[t])
         \/ LET lap == mTable'[t][Len(mTable'[t])] IN
              /\ mTable'[t] = Append(mTable[t], lap)
              /\ mTable[t] # <<>> => lap - mTable[t][Len(mTable[t])] > mWindow
<1>1. CASE UNCHANGED raceVars
  BY <1>1 DEF raceVars
<1>2. ASSUME NEW w \in Workers, Apply(w), mTable'[t] # mTable[t]
      PROVE  LET lap == mTable'[t][Len(mTable'[t])] IN
               /\ mTable'[t] = Append(mTable[t], lap)
               /\ mTable[t] # <<>> => lap - mTable[t][Len(mTable[t])] > mWindow
  <2>1. /\ wk[w].read.time \in Nat /\ mTable[t] \in Seq(Int) /\ mTable'[t] \in Seq(Int)
        /\ t = wk[w].read.tag
        /\ Accepts(mTable[t], wk[w].read.time, wk[w].tours)
        /\ Len(mTable'[t]) = Len(mTable[t]) + 1
        /\ \A i \in 1 .. Len(mTable[t]) : mTable'[t][i] = mTable[t][i]
        /\ mTable'[t][Len(mTable[t]) + 1] = wk[w].read.time
    BY <1>2, ApplyShape DEF TypeOK
  <2>2. mTable'[t] = Append(mTable[t], wk[w].read.time)
    BY <2>1
  <2>3. mTable'[t][Len(mTable'[t])] = wk[w].read.time
    BY <2>1
  <2>4. mTable[t] # <<>> => wk[w].read.time - mTable[t][Len(mTable[t])] > mWindow
    BY <2>1 DEF Accepts
  <2>5. QED  BY <2>2, <2>3, <2>4
<1>3. CASE Restart
  <2>1. restarts' # restarts
    BY <1>3 DEF Restart, TypeOK
  <2>2. mTable[t] \in Seq(Int)
    BY DEF TypeOK
  <2>3. CASE ~file.complete
    <3>1. mTable'[t] = <<>>
      BY <1>3, <2>3 DEF Restart, NoLaps
    <3> DEFINE none == <<>>
    <3>2. /\ none \in Seq(Int) /\ Len(none) <= Len(mTable[t])
          /\ \A i \in 1 .. Len(none) : none[i] = mTable[t][i]
      BY <2>2
    <3> HIDE DEF none
    <3>3. IsPrefix(none, mTable[t])
      BY <2>2, <3>2, PrefixIsPointwise
    <3>4. QED  BY <2>1, <3>1, <3>3 DEF none
  <2>4. CASE file.complete
    <3>1. /\ mTable'[t] \in Seq(Int)
          /\ Len(mTable'[t]) = Len(file.laps[t])
          /\ \A i \in 1 .. Len(file.laps[t]) : mTable'[t][i] = file.laps[t][i] + file.start
      BY <1>3, <2>4, RestartShape
    <3>2. /\ Len(file.laps[t]) <= Len(mTable[t])
          /\ \A i \in 1 .. Len(file.laps[t]) : file.laps[t][i] + file.start = mTable[t][i]
      BY <2>4 DEF TableInv, Image
    <3>3. IsPrefix(mTable'[t], mTable[t])
      <4> DEFINE after == mTable'[t]
      <4>1. /\ after \in Seq(Int) /\ Len(after) <= Len(mTable[t])
            /\ \A i \in 1 .. Len(after) : after[i] = mTable[t][i]
        BY <3>1, <3>2
      <4> HIDE DEF after
      <4>2. IsPrefix(after, mTable[t])
        BY <2>2, <4>1, PrefixIsPointwise
      <4>3. QED  BY <4>2 DEF after
    <3>4. QED  BY <2>1, <3>3
  <2>5. QED  BY <2>3, <2>4
<1>4. QED  BY <1>1, <1>2, <1>3, StepShape

\* A step adds to a runner at most one passage, later than the last one by
\* more than the blocking window in force, and nothing but a restart takes
\* passages away: for any number of pool threads, whatever the clock gives, and
\* whenever the operator changes the window (ParseAction, Import).
THEOREM Spacing == Spec => LapsSpaced
<1>1. TypeOK /\ TableInv /\ LimitInv /\ [Next]_vars =>
        [ \A t \in Tags :
            \/ mTable'[t] = mTable[t]
            \/ restarts' # restarts /\ IsPrefix(mTable'[t], mTable[t])
            \/ LET lap == mTable'[t][Len(mTable'[t])] IN
                 /\ mTable'[t] = Append(mTable[t], lap)
                 /\ mTable[t] # <<>> => lap - mTable[t][Len(mTable[t])] > mWindow ]_vars
  BY SpacedStep
<1>2. QED  BY <1>1, Inductive, PTL DEF Spec, LapsSpaced

\* While anything is recorded, the start of the race is a passage of one of
\* the runners, also after any number of restarts.
THEOREM StartTime == Spec => []StartIsAPassage
<1>1. TypeOK /\ TableInv /\ LimitInv => StartIsAPassage
  BY DEF TableInv
<1>2. QED  BY <1>1, Inductive, PTL

\* No runner has more passages than the start and the laps of a course the
\* server gave, although ParseAction reads that number without the mutex.
THEOREM Limit == Spec => []LapLimit
<1>1. TypeOK /\ TableInv /\ LimitInv => LapLimit
  BY DEF LimitInv
<1>2. QED  BY <1>1, Inductive, PTL

\* A complete export.json restores the beginning of every runner's laps.
THEOREM Autosave == Spec => []FileIsBehindTable
<1>1. TypeOK /\ TableInv /\ LimitInv => FileIsBehindTable
  <2> SUFFICES ASSUME TypeOK, TableInv, file.complete, NEW t \in Tags
               PROVE  IsPrefix(FromTimes(file.laps[t], file.start), mTable[t])
    BY DEF FileIsBehindTable
  <2>1. file.laps[t] \in Seq(Int) /\ file.start \in Int /\ mTable[t] \in Seq(Int)
    BY DEF TypeOK
  <2>2. /\ Len(file.laps[t]) <= Len(mTable[t])
        /\ \A i \in 1 .. Len(file.laps[t]) : file.laps[t][i] + file.start = mTable[t][i]
    BY DEF TableInv, Image
  <2> DEFINE restored == FromTimes(file.laps[t], file.start)
  <2>3. /\ restored = [i \in 1 .. Len(file.laps[t]) |-> file.laps[t][i] + file.start]
        /\ \A i \in 1 .. Len(file.laps[t]) : file.laps[t][i] \in Int
    BY <2>1 DEF FromTimes
  <2>4. /\ restored \in Seq(Int)
        /\ Len(restored) = Len(file.laps[t])
        /\ \A i \in 1 .. Len(restored) : restored[i] = file.laps[t][i] + file.start
    BY <2>1, <2>3
  <2>5. \A i \in 1 .. Len(restored) : restored[i] = mTable[t][i]
    BY <2>2, <2>4
  <2> HIDE DEF restored
  <2>6. IsPrefix(restored, mTable[t])
    BY <2>1, <2>2, <2>4, <2>5, PrefixIsPointwise
  <2>7. QED  BY <2>6 DEF restored
<1>2. QED  BY <1>1, Inductive, PTL

-----------------------------------------------------------------------------
(* The course. SetTableEntry leaves the lines past the new ones, so the    *)
(* shared table only begins with the course.                               *)

\* The shared table begins with one line for each runner of CourseWindow's
\* course.
CourseInv ==
  \E order \in Ascending(Valid(course)) :
    /\ Cardinality(Valid(course)) <= Len(shared.dossards)
    /\ \A i \in 1 .. Cardinality(Valid(course)) :
         shared.dossards[i] = DossardLines(course, order)[i]

\* SetTableEntry leaves the new lines at the beginning of the list.
LEMMA Overwritten ==
  ASSUME NEW S, NEW lines \in Seq(S), NEW new \in Seq(S)
  PROVE  /\ Len(new) <= Len(SetTableEntry(lines, new))
         /\ \A i \in 1 .. Len(new) : SetTableEntry(lines, new)[i] = new[i]
<1> DEFINE rest == SubSeq(lines, Len(new) + 1, Len(lines))
<1>1. rest \in Seq(S)
  OBVIOUS
<1>2. QED  BY <1>1, ConcatProperties DEF SetTableEntry

\* A course as CourseWindow keeps it: none at all, or an answer of the server.
LEMMA ValidFinite ==
  ASSUME NEW c \in Courses \cup {<<>>}
  PROVE  IsFiniteSet(Valid(c)) /\ Cardinality(Valid(c)) \in Nat /\ Valid(c) \subseteq Nat
<1>1. CASE c = <<>>
  <2>1. Valid(c) = {}
    BY <1>1 DEF Valid
  <2>2. QED  BY <2>1, FS_EmptySet
<1>2. CASE c \in Courses
  <2>1. IsFiniteSet(DOMAIN c) /\ Valid(c) \in SUBSET DOMAIN c /\ DOMAIN c \subseteq Keys
    BY <1>2, ParamsAssumption DEF Valid
  <2>2. Keys \subseteq Nat
    BY ParamsAssumption DEF Keys
  <2>3. QED  BY <2>1, <2>2, FS_Subset, FS_CardinalityType
<1>3. QED  BY <1>1, <1>2

\* An ascending list of the runners names each of them once.
LEMMA EachOnce ==
  ASSUME NEW S, IsFiniteSet(S), S \subseteq Nat, NEW order \in Ascending(S)
  PROVE  \A k \in S : \E i \in 1 .. Cardinality(S) :
           order[i] = k /\ \A j \in 1 .. Cardinality(S) : order[j] = k => j = i
<1> DEFINE n == Cardinality(S)
<1>1. n \in Nat
  BY FS_CardinalityType
<1>2. order \in [1 .. n -> S] /\ \A i, j \in 1 .. n : i < j => order[i] < order[j]
  BY DEF Ascending
<1>3. IsFiniteSet(1 .. n) /\ Cardinality(1 .. n) = n
  BY <1>1, FS_Interval
<1> HIDE DEF n
<1>4. ASSUME NEW i \in 1 .. n, NEW j \in 1 .. n, order[i] = order[j] PROVE i = j
  <2>1. order[i] \in Nat /\ order[j] \in Nat
    BY <1>2
  <2>2. ~ (i < j) /\ ~ (j < i)
    BY <1>2, <1>4, <2>1
  <2>3. QED  BY <1>1, <2>2
<1>5. order \in Injection(1 .. n, S)
  BY <1>2, <1>4 DEF Injection, IsInjective
<1>6. order \in Surjection(1 .. n, S)
  BY <1>3, <1>5, FS_Injection DEF n
<1>7. \A k \in S : \E i \in 1 .. n : order[i] = k
  BY <1>6 DEF Surjection
<1>8. QED  BY <1>4, <1>7 DEF n

\* CourseInv holds when the program starts.
LEMMA CourseInitially == Init => CourseInv
<1> SUFFICES ASSUME Init PROVE CourseInv
  OBVIOUS
<1>1. course = <<>> /\ shared.dossards = <<>>
  BY DEF Init
<1>2. Valid(<<>>) = {}
  BY DEF Valid
<1>3. Cardinality(Valid(<<>>)) = 0
  BY <1>2, FS_EmptySet
<1>4. <<>> \in Ascending(Valid(<<>>))
  BY <1>2, <1>3 DEF Ascending
<1>5. QED  BY <1>1, <1>3, <1>4 DEF CourseInv

\* Fetching a course leaves its lines at the beginning of the shared table.
LEMMA CourseStep == TypeOK /\ CourseInv /\ [Next]_vars => CourseInv'
<1> SUFFICES ASSUME TypeOK, CourseInv, [Next]_vars PROVE CourseInv'
  OBVIOUS
<1> USE DEF raceVars, setupVars, diskVars, engVars, workerFrame, guiFrame
<1>1. ASSUME UNCHANGED <<shared, course>> PROVE CourseInv'
  BY <1>1 DEF CourseInv
<1>2. ASSUME NEW tag \in Tags, NEW time \in CurrentTimeStamp64, SendToManolab(tag, time)
      PROVE  CourseInv'
  BY <1>1, <1>2 DEF SendToManolab
<1>3. ASSUME NEW w \in Workers, Worker(w) PROVE CourseInv'
  BY <1>1, <1>3 DEF Worker, Take, LookDossard, LookTours, LookCategory, LookBox, Apply
<1>4. ASSUME Gui, ~DrawCourse PROVE CourseInv'
  BY <1>1, <1>4 DEF Gui, DrawCopy, AutosaveOpen, AutosaveWrite, DrawSend, DrawWindow,
                    DrawCategories, DrawLabels, DrawDossards, DrawBoxes
<1>5. CASE DrawCourse
  <2>1. ASSUME NEW c \in Courses, GetCourse(c) PROVE CourseInv'
    <3>1. PICK order \in Ascending(Valid(c)) :
            /\ course' = c
            /\ shared'.dossards = SetTableEntry(shared.dossards, DossardLines(c, order))
      BY <2>1 DEF GetCourse
    <3>2. /\ Cardinality(Valid(c)) \in Nat
          /\ Valid(c) \subseteq Keys
      BY ValidFinite, ParamsAssumption DEF Valid
    <3>3. /\ DossardLines(c, order) \in Seq(Line)
          /\ Len(DossardLines(c, order)) = Cardinality(Valid(c))
      <4>1. \A k \in Valid(c) : c[k].cat \in Cats /\ c[k].tours \in Nat
        BY ParamsAssumption DEF Valid, Runner
      <4>2. DossardLines(c, order) \in [1 .. Cardinality(Valid(c)) -> Line]
        BY <3>2, <4>1 DEF DossardLines, Ascending, Line
      <4>3. QED  BY <3>2, <4>2
    <3>4. shared.dossards \in Seq(Line)
      BY DEF TypeOK
    <3>5. /\ Cardinality(Valid(c)) <= Len(shared'.dossards)
          /\ \A i \in 1 .. Cardinality(Valid(c)) :
               shared'.dossards[i] = DossardLines(c, order)[i]
      BY <3>1, <3>3, <3>4, Overwritten
    <3>6. QED  BY <3>1, <3>5 DEF CourseInv
  <2>2. QED  BY <1>1, <1>5, <2>1 DEF DrawCourse
<1>6. CASE Restart
  <2>1. course' = <<>> /\ shared'.dossards = <<>>
    BY <1>6 DEF Restart
  <2>2. Valid(<<>>) = {}
    BY DEF Valid
  <2>3. Cardinality(Valid(<<>>)) = 0
    BY <2>2, FS_EmptySet
  <2>4. <<>> \in Ascending(Valid(<<>>))
    BY <2>2, <2>3 DEF Ascending
  <2>5. QED  BY <2>1, <2>3, <2>4 DEF CourseInv
<1>7. CASE UNCHANGED vars
  BY <1>1, <1>7 DEF vars
<1>8. QED
  BY ONLY <1>2, <1>3, <1>4, <1>5, <1>6, <1>7, [Next]_vars DEF Next

\* What the frame that refills the maps leaves in them.
LEMMA Refill ==
  ASSUME TypeOK, CourseInv, [Next]_vars, pc = "dossards", pc' = "boxes",
         NEW k \in Valid(course), ~LeftOver(k)
  PROVE  mDossards'[k] = course[k].cat /\ mToursMax'[k] = course[k].tours
<1>1. DrawDossards
  BY DEF Next, SendToManolab, Worker, Take, LookDossard, LookTours, LookCategory,
         LookBox, Apply, Gui, DrawCopy, AutosaveOpen, AutosaveWrite, DrawSend, DrawWindow,
         DrawCategories, DrawLabels, DrawBoxes, DrawCourse, Restart, vars, workerFrame
<1> DEFINE n == Cardinality(Valid(course))
<1>2. PICK order \in Ascending(Valid(course)) :
        /\ n <= Len(shared.dossards)
        /\ \A i \in 1 .. n : shared.dossards[i] = DossardLines(course, order)[i]
  BY DEF CourseInv
<1>3. course \in Courses \cup {<<>>}
  BY DEF TypeOK
<1>4. IsFiniteSet(Valid(course)) /\ Valid(course) \subseteq Nat /\ n \in Nat
  BY <1>3, ValidFinite
<1>5. PICK i \in 1 .. n : order[i] = k /\ \A j \in 1 .. n : order[j] = k => j = i
  BY <1>4, EachOnce
<1>6. DOMAIN shared.dossards = 1 .. Len(shared.dossards) /\ Len(shared.dossards) \in Nat
  BY DEF TypeOK
<1>7. \A j \in DOMAIN shared.dossards : shared.dossards[j].dossard = k => j <= n
  BY <1>4, <1>6 DEF LeftOver
<1>8. ASSUME NEW j \in 1 .. n
      PROVE  /\ shared.dossards[j].dossard = order[j]
             /\ shared.dossards[j].cat = course[order[j]].cat
             /\ shared.dossards[j].tours = course[order[j]].tours
  <2>1. DOMAIN order = 1 .. n
    BY DEF Ascending
  <2>2. shared.dossards[j] = [dossard |-> order[j], cat |-> course[order[j]].cat,
                              tours |-> course[order[j]].tours]
    BY <1>2, <2>1 DEF DossardLines
  <2>3. QED  BY <2>2
<1> HIDE DEF n
<1>9. LinesOf(k) = {i}
  <2>1. i \in DOMAIN shared.dossards /\ shared.dossards[i].dossard = k
    BY <1>2, <1>4, <1>5, <1>6, <1>8
  <2>2. \A j \in DOMAIN shared.dossards : shared.dossards[j].dossard = k => j \in 1 .. n
    BY <1>4, <1>6, <1>7
  <2>3. \A j \in DOMAIN shared.dossards : shared.dossards[j].dossard = k => j = i
    BY <1>5, <1>8, <2>2
  <2>4. QED  BY <2>1, <2>3 DEF LinesOf
<1>10. LastOf(k) = {i}
  <2>1. i \in Int
    BY <1>4
  <2>2. QED  BY <1>9, <2>1 DEF LastOf
<1>11. LastLine(k) = shared.dossards[i]
  BY <1>10 DEF LastLine
<1>12. LastLine(k).cat = course[k].cat /\ LastLine(k).tours = course[k].tours
  BY <1>5, <1>8, <1>11
<1>13. k \in Keys
  BY <1>3, ParamsAssumption DEF Valid
<1>14. QED  BY <1>1, <1>10, <1>12, <1>13 DEF DrawDossards

\* Whatever courses were fetched before, longer or shorter: the frame that
\* refills the maps leaves a runner of the course with the category and the
\* laps of the course, unless a line of a longer course fetched before still
\* names the runner (Draw, SetTableEntry).
THEOREM Refreshed == Spec => RunnersRefreshed
<1>1. TypeOK /\ CourseInv /\ [Next]_vars =>
        [ pc = "dossards" /\ pc' = "boxes" =>
            \A k \in Valid(course) :
              ~LeftOver(k) => /\ mDossards'[k] = course[k].cat
                              /\ mToursMax'[k] = course[k].tours ]_vars
  BY Refill
<1>2. Init => TypeOK /\ CourseInv
  BY InitialType, CourseInitially
<1>3. TypeOK /\ CourseInv /\ [Next]_vars => (TypeOK /\ CourseInv)'
  BY TypeStep, CourseStep
<1>4. QED  BY <1>1, <1>2, <1>3, PTL DEF Spec, RunnersRefreshed
=============================================================================
