---------------------------- MODULE MCRaceTable ----------------------------
(* Small instances of RaceTable for TLC.                                   *)
EXTENDS RaceTable, TLC

CONSTANTS w1, w2, A, B

Course(f, n) == [k \in DOMAIN f |-> [cat |-> f[k], tours |-> n]]

\* One runner of one category; the entry whose category is empty is one
\* GetCourse must skip.
OneRunner == {Course([k \in {1, 3} |-> IF k = 1 THEN A ELSE NoCat], 1)}
\* As many categories, but not the same.
Renamed == {Course([k \in {1} |-> c], 1) : c \in {A, B}}
\* Two runners of two categories (the entry whose category is empty must be
\* skipped), then only the first or only the second one, in another category
\* and with another number of laps: a line of the longer course stays.
Refetched == {<<[cat |-> A, tours |-> 0], [cat |-> B, tours |-> 1],
                [cat |-> NoCat, tours |-> 0]>>,
              Course([k \in {1} |-> B], 1),
              Course([k \in {2} |-> A], 0)}
\* One runner leaves; the other one changes category.
Withdrawn == {Course([k \in {1, 2} |-> IF k = 1 THEN A ELSE B], 1),
              Course([k \in {2} |-> A], 2)}

\* The pool threads run the same code.
Symmetric == Permutations({w1, w2})
=============================================================================
