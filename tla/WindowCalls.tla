---------------------------- MODULE WindowCalls ----------------------------
(***************************************************************************)
(* The main window's calls into Rust, and the faults and user operations    *)
(* that the modules of its stores share.                                    *)
(*                                                                          *)
(* A synchronous Tauri command runs on the main thread, in the order the    *)
(* window issued it; its answer is one step with it, since nothing the       *)
(* window does in between can see the difference.  An asynchronous command   *)
(* arrives in the same order and runs on a pool at any time after.           *)
(***************************************************************************)
EXTENDS Integers, Sequences, FiniteSets, SequencesExt, FiniteSetsExt

CONSTANT Budgets  \* bounds on a behaviour: the user's operations per store, the
                  \* launches, and the failed reads, writes and loads

Stores == {"config", "history", "queue"}
MaxOps == Max({b.config + b.history + b.queue : b \in Budgets})

ASSUME BoundsAssumption ==
  /\ Budgets \subseteq [Stores \cup {"launches", "faults"} -> Nat]
  /\ Budgets # {} /\ IsFiniteSet(Budgets)

VARIABLES
  asked,   \* calls on their way to the main thread, oldest first
  ops,     \* user operations so far; the newest one's number names its edit
  use,     \* this behaviour's bounds: nothing happens in a store it does not use
  left,    \* what is left of them
  faults   \* faults so far

callVars == <<asked, ops, use, left, faults>>

Arrives(cmd) == asked # <<>> /\ Head(asked).cmd = cmd

(* How many calls of one kind are on their way.                             *)
Underway(cmd) == Cardinality({i \in 1..Len(asked) : asked[i].cmd = cmd})

Uses(store) == use[store] > 0
Edit == ops + 1
Spends(what) == left[what] > 0 /\ left' = [left EXCEPT ![what] = @ - 1]
Acts(store) == Spends(store) /\ ops' = ops + 1 /\ UNCHANGED use
Fails == faults < use.faults /\ faults' = faults + 1
=============================================================================
