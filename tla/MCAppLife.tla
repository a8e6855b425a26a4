----------------------------- MODULE MCAppLife -----------------------------
(* The application's life for TLC: what the user does is spent on one store,  *)
(* or on two that meet.                                                     *)
EXTENDS AppLife

Spent(c, h, q, l, n) ==
  [config |-> c, history |-> h, queue |-> q, launches |-> l, faults |-> n]
MCBudgets == {Spent(2, 0, 0, 1, 1), Spent(1, 0, 0, 3, 1), Spent(0, 2, 0, 1, 1),
              Spent(0, 3, 0, 1, 0), Spent(0, 0, 1, 1, 1), Spent(0, 0, 1, 2, 0),
              Spent(1, 1, 0, 1, 0)}
=============================================================================
