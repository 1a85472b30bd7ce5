-------------------------- MODULE CategoryPipeline --------------------------
(***************************************************************************)
(* What the translation queue promises about its categories, with units,   *)
(* claims, leases, reports and gates left out: one category at a time is   *)
(* worked on; it moves on one stage at a time and only while it is the     *)
(* focus and not halted; it moves back only by an explicit decision, which *)
(* makes it the focus and halts the category that was; and when a category *)
(* is done the work goes on with another that is not.                      *)
(***************************************************************************)
EXTENDS Integers

CONSTANTS Categories, NoOne

VARIABLES
  focus,     \* the category in focus, NoOne once everything is done
  progress,  \* stages behind each category: 0 in analysis, Done at the end
  halted     \* categories stopped by a block or by a pause

vars == <<focus, progress, halted>>

Done == 5

Working(c) == focus = c /\ ~halted[c]

Init ==
  /\ focus \in Categories
  /\ progress = [c \in Categories |-> 0]
  /\ halted = [c \in Categories |-> FALSE]

\* The focus category passes to its next stage, short of the last one.
Step(c) ==
  /\ Working(c)
  /\ progress[c] + 1 < Done
  /\ progress' = [progress EXCEPT ![c] = @ + 1]
  /\ UNCHANGED <<focus, halted>>

\* The focus category is done, and another open one becomes the focus.
Finish(c) ==
  /\ Working(c)
  /\ progress[c] + 1 = Done
  /\ progress' = [progress EXCEPT ![c] = Done]
  /\ LET open == {k \in Categories : progress'[k] # Done} IN
       IF open = {} THEN focus' = NoOne ELSE focus' \in open
  /\ UNCHANGED halted

Halt(c) ==
  /\ progress[c] # Done
  /\ halted' = [halted EXCEPT ![c] = TRUE]
  /\ UNCHANGED <<focus, progress>>

\* A decision about c: it restarts at a stage it had reached, and what was the
\* focus is halted.
Resume(c, p) ==
  /\ p <= progress[c] /\ p # Done
  /\ focus' = c
  /\ progress' = [progress EXCEPT ![c] = p]
  /\ halted' = [k \in Categories |-> IF k = c THEN FALSE ELSE halted[k] \/ k = focus]

Next ==
  \E c \in Categories :
    \/ Step(c)
    \/ Finish(c)
    \/ Halt(c)
    \/ \E p \in 0..(Done - 1) : Resume(c, p)

Spec == Init /\ [][Next]_vars
=============================================================================
