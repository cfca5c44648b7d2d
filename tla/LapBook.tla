------------------------------ MODULE LapBook ------------------------------
(***************************************************************************)
(* What the lap table promises to a race: a book in which passages are     *)
(* written one at a time and never crossed out, a saved copy and published *)
(* results that are never ahead of the book, and a start that stays the    *)
(* first passage written. A crash falls back to the saved copy, whatever   *)
(* was published.                                                          *)
(***************************************************************************)
EXTENDS Integers, Sequences, SequencesExt

CONSTANTS
  Tags,
  Windows,   \* blocking windows that can be in force
  Passages,  \* tag -> the numbers of passages the courses allow
  Nothing    \* the saved copy of a book that was lost

VARIABLES book, start, saved, published

vars == <<book, start, saved, published>>

Empty == [t \in Tags |-> <<>>]

Behind(older, newer) == \A t \in Tags : IsPrefix(older[t], newer[t])

\* Times as they are published: relative to the start.
Offsets(laps) == [t \in Tags |-> [i \in DOMAIN laps[t] |-> laps[t][i] - start]]

Init ==
  /\ book = Empty /\ start = 0
  /\ saved = Nothing /\ published = Empty

Record(t, time) ==
  /\ \E n \in Passages[t] : Len(book[t]) < n
  /\ book[t] # <<>> => \E w \in Windows : time - book[t][Len(book[t])] > w
  /\ book' = [book EXCEPT ![t] = Append(@, time)]
  /\ start' = IF book = Empty THEN time ELSE start
  /\ UNCHANGED <<saved, published>>

RecordSome ==
  \E t \in Tags : /\ Len(book'[t]) = Len(book[t]) + 1
                  /\ Record(t, book'[t][Len(book'[t])])

\* The copy follows the book, or is lost half-way.
Save ==
  /\ \/ saved' = Nothing
     \/ /\ saved' = [laps |-> saved'.laps, start |-> saved'.start]
        /\ Behind(saved'.laps, book)
        /\ saved'.laps # Empty => saved'.start = start
        /\ saved # Nothing => Behind(saved.laps, saved'.laps)
  /\ UNCHANGED <<book, start, published>>

Publish ==
  /\ Behind(published', Offsets(book))
  /\ UNCHANGED <<book, start, saved>>

\* Nothing that was not saved survives.
Recover ==
  /\ book' = IF saved = Nothing THEN Empty ELSE saved.laps
  /\ start' = IF saved = Nothing THEN 0 ELSE saved.start
  /\ UNCHANGED <<saved, published>>

Next == RecordSome \/ Save \/ Publish \/ Recover

Spec == Init /\ [][Next]_vars
=============================================================================
