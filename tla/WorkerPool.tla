------------------------------ MODULE WorkerPool ------------------------------
(***************************************************************************)
(* What the download queue promises, without its list, its files and its   *)
(* promise chains: at most Slots tasks run, no slot is free while a task   *)
(* waits, a task runs only after it waited and stops only when it ends or  *)
(* the process dies, and a death after a good save takes nothing away: what*)
(* waited still waits, and nothing else does but what was running.         *)
(***************************************************************************)
EXTENDS Naturals, FiniteSets

CONSTANTS Task, Slots

VARIABLES
  waiting,  \* tasks that are to run
  running,  \* tasks that hold a slot
  open,     \* FALSE from a death to the first turn after it
  kept      \* the last save succeeded

vars == <<waiting, running, open, kept>>

Init == waiting = {} /\ running = {} /\ open = TRUE /\ kept = TRUE

\* Of the tasks W some get a slot beside R, as many as there are slots.
Admit(W, R) ==
  /\ waiting' \subseteq W
  /\ running' = R \cup (W \ waiting')
  /\ Cardinality(running') <= Slots
  /\ waiting' # {} => Cardinality(running') = Slots

\* A task is added; others that wait may be given up in the same turn.
Submit(t) ==
  /\ open /\ open'
  /\ t \notin waiting \cup running
  /\ \E W \in SUBSET (waiting \cup {t}) : Admit(W, running)

\* Tasks that wait are given up.
GiveUp ==
  /\ open /\ open'
  /\ \E W \in SUBSET waiting : Admit(W, running)

\* A task ends and its slot is given away at once.
Finish(t) ==
  /\ open /\ open'
  /\ t \in running
  /\ Admit(waiting, running \ {t})

Die ==
  /\ ~open'
  /\ running' = {}
  /\ waiting' \in SUBSET Task
  /\ kept => waiting \subseteq waiting' /\ waiting' \subseteq waiting \cup running

Reopen ==
  /\ ~open /\ open'
  /\ \E W \in SUBSET waiting : Admit(W, {})

Next ==
  /\ kept' \in BOOLEAN
  /\ \/ \E t \in Task : Submit(t) \/ Finish(t)
     \/ GiveUp \/ Die \/ Reopen

Spec == Init /\ [][Next]_vars
=============================================================================
