------------------------ MODULE MCRequirementClosure -----------------------
(***************************************************************************)
(* All small requirement graphs, for TLC.                                  *)
(***************************************************************************)
EXTENDS RequirementClosure

EdgesOver(levels) == [source: Type, skill: Type, level: levels]

UpTo(n, rows) ==
    LET sets[k \in 0..n] ==
          IF k = 0 THEN {{}} ELSE {s \cup {e} : s \in sets[k - 1], e \in rows} \cup {{}}
    IN sets[n]

\* All graphs of up to three rows, followed or not, some of two rows that may
\* be invalid, and all that can be made of ten rows: six that go down from the
\* target, two that lead back up, and two to the target, one not followed.
SmallGraphs ==
    UpTo(3, EdgesOver({0, 1})) \cup UpTo(2, EdgesOver({1, 2, 6}))
      \cup SUBSET ({e \in EdgesOver({1}) : e.source < e.skill}
                     \cup {[source |-> 4, skill |-> 2, level |-> 1],
                           [source |-> 3, skill |-> 2, level |-> 1],
                           [source |-> 2, skill |-> 1, level |-> 2],
                           [source |-> 4, skill |-> 1, level |-> 0]})

=============================================================================
