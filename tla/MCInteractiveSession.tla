------------------------- MODULE MCInteractiveSession -------------------------
(***************************************************************************)
(* Small natural sessions for TLC: two files, two wordings of an analysis, *)
(* two local models, and humans who keep to a few lines each.              *)
(***************************************************************************)
EXTENDS InteractiveSessionInvariant

Analysis(objective) == [kind |-> "PROJECT_ANALYSIS", objective |-> objective, target |-> NoTarget]

\* The second analysis is grounded on a file, the first on none.
MCGrounding == [o \in Objective |-> IF o = "explain" THEN << <<"f">> >> ELSE <<>>]
MCWorld == [t \in Target |-> 1]

\* Two analyses in any order.
Analyst == {TaskLine(Analysis("explain")), TaskLine(Analysis("assess")), Line("yes")}
\* Two files, put off, refused and asked for again.
Hesitant == {TaskLine(FileTask("READ_FILE", "f")), TaskLine(FileTask("READ_FILE", "g")),
             Line("yes"), Line("no"), Line("cancel"), Line("other")}
\* Files, one of them outside the workspace.
Reader == {TaskLine(ListTask), TaskLine(FileTask("READ_AND_EXPLAIN_FILE", "g")),
           TaskLine(FileTask("READ_FILE", Outside)), Line("yes")}
\* Questions to one provider after the other.
Chooser == {Line("ask"), LocalLine("m1"), LocalLine("m2"), Line("external"), Line("disable"),
            Line("reset"), Line("status"), Line("exit")}
\* An analysis between two selections.
Comparer == {TaskLine(Analysis("explain")), Line("yes"), LocalLine("m2")}
MCOpenings ==
  [codex : {FALSE}, lines : {Analyst, Hesitant, Reader, Chooser, Comparer}]
    \union [codex : {TRUE}, lines : {Chooser}]
=============================================================================
