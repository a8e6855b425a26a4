--------------------------- MODULE MCSettingsSync ---------------------------
(***************************************************************************)
(* Bounds for TLC: what the user, the network and the other devices do,     *)
(* as the ways to spend a few edits and gestures.                           *)
(***************************************************************************)
EXTENDS SettingsSync

Spend(changes, kind, n) == [k \in Kinds |-> CASE k = "edit" -> changes [] k = kind -> n [] OTHER -> 0]

\* Two edits around one excursion of any kind, or around two deletions; one
\* edit around three switches of server.
MCBudgets == {Spend(2, k, 1) : k \in Kinds \ {"edit"}}
               \cup {Spend(2, "delete", 2), Spend(1, "switch", 3)}
               \cup {[Spend(1, "delete", 1) EXCEPT !["loss"] = 1]}

\* No edit: servers are left and met again while their bindings are late.
ThreeSwitches == {Spend(0, "switch", 3)}
=============================================================================
