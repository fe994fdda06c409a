---------------------------- MODULE MCAutomation ----------------------------
(* Instances of module Automation for TLC.                                 *)
EXTENDS Automation

\* Two tasks of one epic: the first is in code-review, the second is to be
\* groomed.
TwoOfAnEpic  == <<3, 3>>
SamePriority == <<1, 1>>
Staggered    == <<"code-review", "backlog">>

\* One task, to be reviewed.
Alone    == <<0>>
Urgent   == <<0>>
ToReview == <<"code-review">>

OneEach == [s \in Stages |-> IF s \in {"ready", "in-progress"} THEN 1 ELSE 0]

=============================================================================
