------------------------------- MODULE PrLoop -------------------------------
(***************************************************************************)
(* What the PR loop of create_unomi_prs.py promises, without git: a run   *)
(* hands every eligible group (a ticket of the phase list whose group has  *)
(* files) to PR creation exactly once, in phase-list order, opens a pull   *)
(* request at most for the group it is handling, never closes one, and     *)
(* ends once every eligible group was handled unless the user interrupts  *)
(* it first: no other way out of the loop exists.  Between runs the        *)
(* grouping may be recomputed.                                             *)
(***************************************************************************)
EXTENDS Sequences, SequencesExt

CONSTANT Order      \* the phase list, flattened: <<ticket, ...>>

VARIABLES
  running,   \* a run's loop is in progress
  eligible,  \* tickets of Order whose group has files
  handled,   \* tickets handed to PR creation in this run
  open,        \* tickets with an open pull request
  interrupted  \* the last run was stopped by an interruption

avars == <<running, eligible, handled, open, interrupted>>

Pos(t) == SelectInSeq(Order, LAMBDA x : x = t)
Before(u, t) == Pos(u) < Pos(t)

LoopInit ==
  /\ running = FALSE /\ handled = {} /\ open = {} /\ interrupted = FALSE
  /\ eligible \in SUBSET Range(Order)

(* The grouping is computed before a run starts. *)
Regroup ==
  /\ ~running /\ handled = {}
  /\ eligible' \in SUBSET Range(Order)
  /\ UNCHANGED <<running, handled, open, interrupted>>

(* A run starts over a grouping, possibly recomputed. *)
Begin ==
  /\ ~running
  /\ running' = TRUE /\ handled' = {} /\ interrupted' = FALSE
  /\ eligible' \in SUBSET Range(Order)
  /\ UNCHANGED open

(* The next eligible group in Order is handled; its PR may open. *)
Handle(t) ==
  /\ running
  /\ t \in eligible \ handled
  /\ \A u \in eligible : Before(u, t) => u \in handled
  /\ handled' = handled \cup {t}
  /\ open' \in {open, open \cup {t}}
  /\ UNCHANGED <<running, eligible, interrupted>>

End ==
  /\ running /\ eligible \subseteq handled
  /\ running' = FALSE
  /\ UNCHANGED <<eligible, handled, open, interrupted>>

(* The user interrupts the process: the only way a run ends early, and it *)
(* is marked as such.                                                      *)
Stop ==
  /\ running /\ running' = FALSE /\ interrupted' = TRUE
  /\ UNCHANGED <<eligible, handled, open>>

Loop == (\E t \in Range(Order) : Handle(t)) \/ End

LoopNext == Regroup \/ Begin \/ Loop \/ Stop

(* Once started, the loop makes progress until it ends or is stopped. *)
LoopSpec == LoopInit /\ [][LoopNext]_avars /\ WF_avars(Loop)
=============================================================================
