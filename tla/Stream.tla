------------------------------- MODULE Stream --------------------------------
(***************************************************************************)
(* The stream of conclusions one Stage promises its readers: every         *)
(* Operation that concludes takes the next number of the stream, and       *)
(* writes it into its own status later, in another request.  A reconcile   *)
(* lost between the two takes the same number again while the Stage        *)
(* remembers it.  The promoter implements this; the recorder reads it.     *)
(***************************************************************************)
EXTENDS Naturals, Sequences

CONSTANT MaxConcluded  \* how many conclusions a Stage remembers (20)

VARIABLES
  log,      \* the uid that took each number, oldest first
  taking,   \* the Operations whose reconcile has its number and will write it
  written   \* the Operations whose status says they concluded

vars == <<log, taking, written>>

\* The numbers the Stage still remembers.
Remembered == {n \in DOMAIN log : n + MaxConcluded > Len(log)}

RememberedOps == {log[n] : n \in Remembered}

Init == log = <<>> /\ taking = {} /\ written = {}

Take(u) ==
  /\ u \notin written \cup taking \cup RememberedOps
  /\ log' = Append(log, u)
  /\ taking' = taking \cup {u}
  /\ UNCHANGED written

TakeAgain(u) ==
  /\ u \in RememberedOps \ (written \cup taking)
  /\ taking' = taking \cup {u}
  /\ UNCHANGED <<log, written>>

Write(u) ==
  /\ u \in taking
  /\ taking' = taking \ {u}
  /\ written' = written \cup {u}
  /\ UNCHANGED log

Lose(u) ==
  /\ u \in taking
  /\ taking' = taking \ {u}
  /\ UNCHANGED <<log, written>>

\* Whoever takes a step holds a number after it.
Next == \E u \in {log'[n] : n \in DOMAIN log'} :
          Take(u) \/ TakeAgain(u) \/ Write(u) \/ Lose(u)

Spec == Init /\ [][Next]_vars

=============================================================================
