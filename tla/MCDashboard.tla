---------------------------- MODULE MCDashboard ----------------------------
(* One open page, on a list that is empty and then gets a row.               *)
EXTENDS Dashboard

\* The list, its second page, and the list filtered to one row.
FewQuestions ==
  {[filter |-> 0, offset |-> 0], [filter |-> 0, offset |-> 1], [filter |-> 1, offset |-> 0]}
=============================================================================
