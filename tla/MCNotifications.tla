-------------------------- MODULE MCNotifications --------------------------
(***************************************************************************)
(* An instance of Notifications for TLC: two tabs of one user, two         *)
(* requests on single rows, three notifications, a list cut at two.        *)
(***************************************************************************)
EXTENDS Notifications, TLC

Tabs == Permutations(Conn) \cup Permutations(Slot)
=============================================================================
