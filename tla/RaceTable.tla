----------------------------- MODULE RaceTable -----------------------------
(***************************************************************************)
(* The lap table of Pier-O-Bois: how a tag seen by the RFID reader becomes *)
(* a lap, an autosave and a published result.                              *)
(*                                                                         *)
(*   reader thread   SendToManolab stamps a read and hands it to the       *)
(*                   plug-in controller's thread pool (queue)              *)
(*   pool workers    TableWindow::ParseAction, several at a time: three    *)
(*                   unlocked lookups, then one section under mMutex       *)
(*   GUI thread      TableWindow::Draw, then CourseWindow::Draw, for ever  *)
(*   restart         a crash or a closed window, then the constructor,     *)
(*                   which imports export.json                             *)
(*                                                                         *)
(* A std::map of the code is a total function whose value for an absent    *)
(* key is <<>>, "none" or NoCat.                                           *)
(***************************************************************************)
EXTENDS Integers, FiniteSets, Sequences, SequencesExt

CONSTANTS
  Tags,         \* the numbers the reader decodes, 0 for an unreadable EPC
  KeyMod,       \* mDossards and mToursMax have uint32_t keys: 2^32
  Cats, NoCat,  \* category names; the empty string
  Courses,      \* what envoi_course.php may answer: dossard -> runner
  Windows,      \* values the operator may give mWindow
  DefaultWindow,
  Workers,      \* threads of the pool
  MaxTime, MaxReads, MaxRestarts  \* bounds of a run

Keys == 0 .. KeyMod - 1
Key(tag) == tag % KeyMod
Runner == [cat : Cats \cup {NoCat}, tours : Nat]

ASSUME ParamsAssumption ==
  /\ Tags \subseteq Nat
  /\ KeyMod \in Nat \ {0}
  /\ NoCat \notin Cats
  /\ IsFiniteSet(Cats)
  /\ \A c \in Courses : /\ IsFiniteSet(DOMAIN c)
                        /\ DOMAIN c \subseteq Keys
                        /\ c \in [DOMAIN c -> Runner]
  /\ Windows \subseteq Int
  /\ DefaultWindow \in Windows
  /\ MaxTime \in Nat /\ MaxReads \in Nat /\ MaxRestarts \in Nat

VARIABLES
  reads,        \* tags reported so far (bound)
  queue,        \* m_workQueue of the plug-in controller's pool
  wk,           \* what each pool thread is doing
  mTable, mStartTime, mWindow,                   \* guarded by mMutex
  mCategories, mDossards, mToursMax, mCatLabels, \* not guarded
  pc,           \* where the GUI thread is
  snap,         \* Draw's local copies of mTable and mStartTime
  mSendToCloud,
  file,         \* export.json
  cloud,        \* the results the server received last
  shared,       \* ProcessEngine::mSharedTable
  course,       \* CourseWindow's own copy of the course
  restarts

raceVars  == <<mTable, mStartTime>>
setupVars == <<mCategories, mDossards, mToursMax, mCatLabels>>
diskVars  == <<snap, mSendToCloud, file, cloud>>
engVars   == <<shared, course>>
vars == <<reads, queue, wk, mTable, mStartTime, mWindow, mCategories,
          mDossards, mToursMax, mCatLabels, pc, snap, mSendToCloud, file,
          cloud, shared, course, restarts>>

-----------------------------------------------------------------------------
(* Data.                                                                   *)

Read   == [tag : Tags, time : Nat]
Idle   == [pc |-> "idle"]
Busy   == [pc : {"dossard", "tours", "category", "box", "apply"},
           read : Read, cat : Cats \cup {NoCat}, tours : Nat]
Line   == [dossard : Keys, cat : Cats, tours : Nat]

Valid_Unprotected(c) == DOMAIN c

\* Entries with an empty category are skipped by GetCourse.
Valid(c) == {k \in DOMAIN c : c[k].cat # NoCat}

NoLaps == [t \in Tags |-> <<>>]

FromTimes_NoStart(offs, start) == offs

\* Entry::ToString writes each lap relative to the start; FromString adds
\* the start back. Six decimals of a second hold a millisecond exactly.
ToTimes(laps, start)   == [i \in DOMAIN laps |-> laps[i] - start]
FromTimes(offs, start) == [i \in DOMAIN offs |-> offs[i] + start]
Encode(table, start)    == [t \in Tags |-> ToTimes(table[t], start)]
Decode(table, start)    == [t \in Tags |-> FromTimes(table[t], start)]

Torn == [complete |-> FALSE, start |-> 0, laps |-> NoLaps]
Saved_NoStart(table, start) ==
  [complete |-> TRUE, start |-> 0, laps |-> Encode(table, start)]
Saved(table, start) ==
  [complete |-> TRUE, start |-> start, laps |-> Encode(table, start)]

\* ProcessEngine::SetTableEntry: overwrite the line, or append.
SetTableEntry(lines, new) ==
  new \o SubSeq(lines, Len(new) + 1, Len(lines))

-----------------------------------------------------------------------------
Init ==
  /\ reads = 0 /\ restarts = 0
  /\ queue = <<>>
  /\ wk = [w \in Workers |-> Idle]
  /\ mTable = NoLaps /\ mStartTime = 0 /\ mWindow = DefaultWindow
  /\ mCategories = [c \in Cats |-> "none"]
  /\ mDossards = [k \in Keys |-> NoCat]
  /\ mToursMax = [k \in Keys |-> 0]
  /\ mCatLabels = {}
  /\ pc = "copy"
  /\ snap = Torn /\ mSendToCloud = FALSE
  /\ file = Torn /\ cloud = NoLaps
  /\ shared = [categories |-> <<>>, dossards |-> <<>>]
  /\ course = <<>>

-----------------------------------------------------------------------------
(* The reader thread.                                                      *)

\* A stamp is wall-clock time: between two reads the clock may be set, or
\* step back, so that a later read can carry an earlier time.
CurrentTimeStamp64 == 0 .. MaxTime

Push(q, data) == Append(q, data)

SendToManolab(tag, time) ==
  /\ reads < MaxReads
  /\ reads' = reads + 1
  /\ queue' = Push(queue, [tag |-> tag, time |-> time])
  /\ UNCHANGED <<wk, raceVars, mWindow, setupVars, pc, diskVars, engVars,
                 restarts>>

-----------------------------------------------------------------------------
(* ParseAction on a pool thread. While the GUI thread is refilling a map,  *)
(* an unlocked lookup in it may also miss a key that is there.             *)

Refilling(phase) == pc = phase

Take(w) ==
  /\ wk[w] = Idle
  /\ queue # <<>>
  /\ wk' = [wk EXCEPT ![w] = [pc |-> "dossard", read |-> Head(queue),
                              cat |-> NoCat, tours |-> 0]]
  /\ queue' = Tail(queue)
  /\ UNCHANGED <<reads, raceVars, mWindow, setupVars, pc, diskVars,
                 engVars, restarts>>

workerFrame == <<reads, queue, mWindow, mDossards, mToursMax, mCatLabels,
                 pc, diskVars, engVars, restarts>>

LookDossard(w) ==
  /\ wk[w].pc = "dossard"
  /\ LET cat == mDossards[Key(wk[w].read.tag)] IN
       \/ /\ cat # NoCat
          /\ wk' = [wk EXCEPT ![w].pc = "tours", ![w].cat = cat]
       \/ /\ cat = NoCat \/ Refilling("dossards")
          /\ wk' = [wk EXCEPT ![w] = Idle]
  /\ UNCHANGED <<workerFrame, raceVars, mCategories>>

LookTours(w) ==
  /\ wk[w].pc = "tours"
  /\ \E tours \in {mToursMax[Key(wk[w].read.tag)]}
                    \cup (IF Refilling("dossards") THEN {0} ELSE {}) :
       wk' = [wk EXCEPT ![w].pc = "category", ![w].tours = tours]
  /\ UNCHANGED <<workerFrame, raceVars, mCategories>>

LookCategory(w) ==
  /\ wk[w].pc = "category"
  /\ \/ /\ mCategories[wk[w].cat] # "none"
        /\ wk' = [wk EXCEPT ![w].pc = "box"]
     \/ /\ mCategories[wk[w].cat] = "none" \/ Refilling("labels")
        /\ wk' = [wk EXCEPT ![w] = Idle]
  /\ UNCHANGED <<workerFrame, raceVars, mCategories>>

\* operator[] inserts the category, unticked, when it is no longer there.
LookBox(w) ==
  /\ wk[w].pc = "box"
  /\ LET cat == wk[w].cat IN
       /\ IF mCategories[cat] = "on"
          THEN wk' = [wk EXCEPT ![w].pc = "apply"]
          ELSE wk' = [wk EXCEPT ![w] = Idle]
       /\ mCategories' = [mCategories EXCEPT
                            ![cat] = IF @ = "none" THEN "off" ELSE @]
  /\ UNCHANGED <<workerFrame, raceVars>>

Accepts_OneLapMore(laps, time, tours) ==
  laps = <<>> \/ (Len(laps) <= tours + 1 /\ time - laps[Len(laps)] > mWindow)
Accepts_AtWindow(laps, time, tours) ==
  laps = <<>> \/ (Len(laps) <= tours /\ time - laps[Len(laps)] >= mWindow)
Accepts_KnownOnly(laps, time, tours) ==
  laps # <<>> /\ Len(laps) <= tours /\ time - laps[Len(laps)] > mWindow

\* A first passage is always kept; then at most tours more, each later than
\* the last one by more than the blocking window.
Accepts(laps, time, tours) ==
  \/ laps = <<>>
  \/ /\ Len(laps) <= tours
     /\ time - laps[Len(laps)] > mWindow

StartAfter_EachRunner(r) ==
  IF mTable[r.tag] = <<>> THEN r.time ELSE mStartTime
StartAfter_Earliest(r) ==
  IF mTable = NoLaps \/ r.time < mStartTime THEN r.time ELSE mStartTime

\* The first read applied to an empty table starts the race.
StartAfter(r) == IF mTable = NoLaps THEN r.time ELSE mStartTime

\* The section between mMutex.lock() and mMutex.unlock().
Apply(w) ==
  /\ wk[w].pc = "apply"
  /\ LET r == wk[w].read IN
       /\ mStartTime' = StartAfter(r)
       /\ mTable' = IF Accepts(mTable[r.tag], r.time, wk[w].tours)
                    THEN [mTable EXCEPT ![r.tag] = Append(@, r.time)]
                    ELSE mTable
  /\ wk' = [wk EXCEPT ![w] = Idle]
  /\ UNCHANGED <<workerFrame, mCategories>>

Worker(w) == \/ Take(w) \/ LookDossard(w) \/ LookTours(w)
             \/ LookCategory(w) \/ LookBox(w) \/ Apply(w)

-----------------------------------------------------------------------------
(* TableWindow::Draw, one frame after the other on the GUI thread.         *)

guiFrame == <<reads, queue, wk, raceVars, restarts>>

\* The copy under mMutex; the autosave timer may have expired.
DrawCopy ==
  /\ pc = "copy"
  /\ snap' = Saved(mTable, mStartTime)
  /\ pc' \in {"open", "send"}
  /\ UNCHANGED <<guiFrame, mWindow, setupVars, mSendToCloud, file, cloud,
                 engVars>>

\* StringToFile truncates export.json; when the open fails nobody notices.
AutosaveOpen ==
  /\ pc = "open"
  /\ \/ /\ file' = Torn
        /\ pc' = "write"
        /\ UNCHANGED mSendToCloud
     \/ /\ pc' = "send"
        /\ mSendToCloud' = TRUE
        /\ UNCHANGED file
  /\ UNCHANGED <<guiFrame, mWindow, setupVars, snap, cloud, engVars>>

AutosaveWrite ==
  /\ pc = "write"
  /\ file' \in {snap, Torn}
  /\ mSendToCloud' = TRUE
  /\ pc' = "send"
  /\ UNCHANGED <<guiFrame, mWindow, setupVars, snap, cloud, engVars>>

\* The "Envoyer" button, or the flag: the request gets through or does not.
DrawSend ==
  /\ pc = "send"
  /\ \/ cloud' = snap.laps
     \/ UNCHANGED cloud
  /\ mSendToCloud' = FALSE
  /\ snap' = Torn        \* not read again in this frame
  /\ pc' = "window"
  /\ UNCHANGED <<guiFrame, mWindow, setupVars, file, engVars>>

\* The "Appliquer" button, under mMutex.
DrawWindow ==
  /\ pc = "window"
  /\ mWindow' \in Windows \cup {mWindow}
  /\ pc' = "categories"
  /\ UNCHANGED <<guiFrame, setupVars, diskVars, engVars>>

Listed == {c \in Cats : mCategories[c] # "none"}

\* Refill the maps only when the number of categories differs.
DrawCategories ==
  /\ pc = "categories"
  /\ IF Len(shared.categories) = 1
     THEN /\ mCatLabels' = shared.categories[1]
          /\ IF Cardinality(mCatLabels') # Cardinality(Listed)
             THEN /\ mCategories' = [c \in Cats |-> "none"]
                  /\ pc' = "labels"
             ELSE /\ UNCHANGED mCategories
                  /\ pc' = "boxes"
     ELSE /\ pc' = "course"
          /\ UNCHANGED <<mCatLabels, mCategories>>
  /\ UNCHANGED <<guiFrame, mWindow, mDossards, mToursMax, diskVars, engVars>>

DrawLabels ==
  /\ pc = "labels"
  /\ mCategories' = [c \in Cats |-> IF c \in mCatLabels THEN "off"
                                    ELSE mCategories[c]]
  /\ pc' = "dossards"
  /\ UNCHANGED <<guiFrame, mWindow, mDossards, mToursMax, mCatLabels,
                 diskVars, engVars>>

LinesOf_SkipFirst(k) ==
  {i \in DOMAIN shared.dossards : i > 1 /\ shared.dossards[i].dossard = k}

\* The last line that names a dossard wins; dossards no line names stay.
LinesOf(k) == {i \in DOMAIN shared.dossards : shared.dossards[i].dossard = k}
LastOf(k)  == {i \in LinesOf(k) : \A j \in LinesOf(k) : j <= i}
LastLine(k) == shared.dossards[CHOOSE i \in LastOf(k) : TRUE]

DrawDossards ==
  /\ pc = "dossards"
  /\ mDossards' = [k \in Keys |-> IF LastOf(k) = {} THEN mDossards[k]
                                  ELSE LastLine(k).cat]
  /\ mToursMax' = [k \in Keys |-> IF LastOf(k) = {} THEN mToursMax[k]
                                  ELSE LastLine(k).tours]
  /\ pc' = "boxes"
  /\ UNCHANGED <<guiFrame, mWindow, mCategories, mCatLabels, diskVars,
                 engVars>>

\* At most one click on a category's box in a frame.
DrawBoxes ==
  /\ pc = "boxes"
  /\ \/ UNCHANGED mCategories
     \/ \E c \in Listed :
          mCategories' = [mCategories EXCEPT
                            ![c] = IF @ = "on" THEN "off" ELSE "on"]
  /\ pc' = "course"
  /\ UNCHANGED <<guiFrame, mWindow, mDossards, mToursMax, mCatLabels,
                 diskVars, engVars>>

\* CourseWindow::Draw: a click on "Recuperer" whose request succeeds.
DossardLines(c, order) ==
  [i \in DOMAIN order |-> [dossard |-> order[i], cat |-> c[order[i]].cat,
                           tours |-> c[order[i]].tours]]

Ascending(S) == {s \in [1 .. Cardinality(S) -> S] :
                   \A i, j \in 1 .. Cardinality(S) : i < j => s[i] < s[j]}

GetCourse(c) ==
  /\ course' = c
  /\ \E order \in Ascending(Valid(c)) :
       shared' =
         [categories |-> SetTableEntry(shared.categories,
                                       <<{c[k].cat : k \in Valid(c)}>>),
          dossards   |-> SetTableEntry(shared.dossards,
                                       DossardLines(c, order))]

DrawCourse ==
  /\ pc = "course"
  /\ \/ \E c \in Courses : GetCourse(c)
     \/ UNCHANGED engVars
  /\ pc' = "copy"
  /\ UNCHANGED <<guiFrame, mWindow, setupVars, diskVars>>

Gui == \/ DrawCopy \/ AutosaveOpen \/ AutosaveWrite \/ DrawSend \/ DrawWindow
       \/ DrawCategories \/ DrawLabels \/ DrawDossards \/ DrawBoxes
       \/ DrawCourse

-----------------------------------------------------------------------------
(* The process dies, or its window is closed, and is started again: only   *)
(* the file and the server remember anything. A file that was not written  *)
(* to its end does not parse and is ignored.                               *)
Restart ==
  /\ restarts < MaxRestarts
  /\ restarts' = restarts + 1
  /\ mTable' = IF file.complete THEN Decode(file.laps, file.start) ELSE NoLaps
  /\ mStartTime' = IF file.complete THEN file.start ELSE 0
  /\ mWindow' = DefaultWindow
  /\ queue' = <<>>
  /\ wk' = [w \in Workers |-> Idle]
  /\ mCategories' = [c \in Cats |-> "none"]
  /\ mDossards' = [k \in Keys |-> NoCat]
  /\ mToursMax' = [k \in Keys |-> 0]
  /\ mCatLabels' = {}
  /\ pc' = "copy"
  /\ snap' = Torn /\ mSendToCloud' = FALSE
  /\ shared' = [categories |-> <<>>, dossards |-> <<>>]
  /\ course' = <<>>
  /\ UNCHANGED <<reads, file, cloud>>

-----------------------------------------------------------------------------
Next ==
  \/ \E tag \in Tags, time \in CurrentTimeStamp64 : SendToManolab(tag, time)
  \/ \E w \in Workers : Worker(w)
  \/ Gui
  \/ Restart

Spec == Init /\ [][Next]_vars

\* A pool thread that has something to do is eventually scheduled.
FairSpec == Spec /\ \A w \in Workers : WF_vars(Worker(w))
-----------------------------------------------------------------------------
(* Properties.                                                             *)

\* Every variable keeps the type of the member it stands for.
TypeOK ==
  /\ reads \in Nat /\ restarts \in Nat
  /\ queue \in Seq(Read)
  /\ wk \in [Workers -> {Idle} \cup Busy]
  /\ mTable \in [Tags -> Seq(Int)]
  /\ mStartTime \in Int
  /\ mWindow \in Windows
  /\ mCategories \in [Cats -> {"none", "off", "on"}]
  /\ mDossards \in [Keys -> Cats \cup {NoCat}]
  /\ mToursMax \in [Keys -> Nat]
  /\ mCatLabels \in SUBSET Cats
  /\ pc \in {"copy", "open", "write", "send", "window", "categories",
             "labels", "dossards", "boxes", "course"}
  /\ snap \in [complete : BOOLEAN, start : Int, laps : [Tags -> Seq(Int)]]
  /\ mSendToCloud \in BOOLEAN
  /\ file \in [complete : BOOLEAN, start : Int, laps : [Tags -> Seq(Int)]]
  /\ cloud \in [Tags -> Seq(Int)]
  /\ shared \in [categories : Seq(SUBSET Cats), dossards : Seq(Line)]
  /\ course = <<>> \/ course \in Courses

\* However the pool interleaves the reads of a runner, whatever their stamps
\* and whenever the operator changes the window: a step leaves a beginning of
\* the runner's laps (nothing but a restart takes any away) or adds one passage,
\* and then it is later than the last one by more than the blocking window in
\* force at that moment. No double detection is a lap, and no file adds one.
LapsSpaced ==
  [][ \A t \in Tags :
        \/ mTable'[t] = mTable[t]
        \/ restarts' # restarts /\ IsPrefix(mTable'[t], mTable[t])
        \/ LET lap == mTable'[t][Len(mTable'[t])] IN
             /\ mTable'[t] = Append(mTable[t], lap)
             /\ mTable[t] # <<>> => lap - mTable[t][Len(mTable[t])] > mWindow
    ]_vars

\* A recorded tag is a runner of some course the server gave, and has at most
\* the start and that course's number of laps, even when several workers
\* apply the runner's last reads together.
LapLimit ==
  \A t \in Tags : mTable[t] # <<>> =>
    \E c \in Courses : /\ Key(t) \in Valid(c)
                       /\ Len(mTable[t]) <= c[Key(t)].tours + 1

\* Every time sent or saved is relative to mStartTime: as long as anything is
\* recorded it is the first passage of one of the runners, also after a
\* restart.
StartIsAPassage ==
  mTable # NoLaps =>
    \E t \in Tags : mTable[t] # <<>> /\ mTable[t][1] = mStartTime

\* What a complete export.json would restore is, runner by runner, the
\* beginning of the laps in memory: the autosave never writes a lap the table
\* does not have, and never mixes two states of the table.
FileIsBehindTable ==
  file.complete =>
    \A t \in Tags : IsPrefix(FromTimes(file.laps[t], file.start), mTable[t])

\* Until a restart, a result published in the cloud is never taken back: it
\* is the beginning of the laps in memory, relative to the same start.
CloudIsBehindTable ==
  restarts = 0 =>
    \A t \in Tags : IsPrefix(cloud[t], ToTimes(mTable[t], mStartTime))

\* A read that waits in the pool's queue for a runner whose category is ticked
\* gets the runner into the table, unless the category or the runner's entry
\* goes away meanwhile: no read is lost between the reader's thread, the pool
\* and the table. (A read already being looked up may be judged by the runner's
\* former category.)
Pending(t) == \E i \in DOMAIN queue : queue[i].tag = t
Allowed(t) == /\ mDossards[Key(t)] # NoCat
              /\ mCategories[mDossards[Key(t)]] = "on"
PassageRecorded ==
  \A t \in Tags :
    (Pending(t) /\ Allowed(t)) ~> (mTable[t] # <<>> \/ ~Allowed(t))

\* Once the categories are tested, the map holds the categories of the course.
CategoriesRefreshed ==
  [][ pc = "categories" /\ pc' = "boxes" =>
        {c \in Cats : mCategories'[c] # "none"} = shared.categories[1] ]_vars

\* Once the dossards are refilled, every runner of the course has the
\* category and the number of laps of the course.
DossardsRefreshed ==
  [][ pc = "dossards" /\ pc' = "boxes" =>
        \A k \in Valid(course) : /\ mDossards'[k] = course[k].cat
                                 /\ mToursMax'[k] = course[k].tours ]_vars

\* A line of a longer course fetched before still names the runner.
LeftOver(k) ==
  \E i \in DOMAIN shared.dossards : /\ i > Cardinality(Valid(course))
                                    /\ shared.dossards[i].dossard = k

\* However many courses were fetched before, longer ones too: once the dossards
\* are refilled, a runner of the course whom no line left over names has the
\* category and the number of laps of the course.
RunnersRefreshed ==
  [][ pc = "dossards" /\ pc' = "boxes" =>
        \A k \in Valid(course) :
          ~LeftOver(k) => /\ mDossards'[k] = course[k].cat
                          /\ mToursMax'[k] = course[k].tours ]_vars

\* The table, export.json and the server together are the book of a race: with
\* the snapshots of Draw, the files half written, the requests that fail and
\* the restarts, every step is a passage written, a save, a publication, a
\* recovery from the save, or nothing at all.
Passages ==
  [t \in Tags |->
     {c[Key(t)].tours + 1 : c \in {d \in Courses : Key(t) \in Valid(d)}}]
Book == INSTANCE LapBook WITH
          Nothing <- Torn,
          book <- mTable, start <- mStartTime, published <- cloud,
          saved <- IF file.complete
                   THEN [laps |-> Decode(file.laps, file.start),
                         start |-> file.start]
                   ELSE Torn
RefinesLapBook == Book!Spec

\* A pool thread is never about to read a map the GUI thread is writing.
NoUnlockedAccess ==
  \A w \in Workers : /\ ~(wk[w].pc = "dossard" /\ Refilling("dossards"))
                     /\ ~(wk[w].pc = "tours" /\ Refilling("dossards"))
                     /\ ~(wk[w].pc = "category" /\ Refilling("labels"))
                     /\ ~(wk[w].pc = "box" /\ Refilling("labels"))
=============================================================================
