-------------------------- MODULE MCAttributionRun --------------------------
(* Versions 1 and 2 differ in layout only.  Version 3 is another program   *)
(* that translates like them.  Version 4 translates in another way, and    *)
(* the patch does not fit it.                                              *)
EXTENDS AttributionRun

MCVersions == 1 .. 4

Meaning(v) == CASE v \in {1, 2} -> "a" [] v = 3 -> "b" [] v = 4 -> "c"

Style(meaning) == IF meaning = "c" THEN "new" ELSE "old"

\* C: how it is written, and what it means.
MCTexts == {"old", "new"} \X {"a", "b", "c"}

MCEmit(text, v) == <<Style(text[2]), Meaning(v)>>

MCSeed == <<"old", "a">>

Fitting == <<1, 1, 1, 1, 1, 1, 1, 1>>

MCAnchors(v) == IF v = 4 THEN [Fitting EXCEPT ![1] = 0] ELSE Fitting

All == Range(AllStages)

MCRequests ==
    {All, {"build"}, {"build", "markers", "copies"}, {"build", "rc", "report"}, {"markers", "rc"}, {"timing", "report"}}

=============================================================================
