-------------------------- MODULE MCNotifications --------------------------
(***************************************************************************)
(* A small instance of Notifications: a mail m, a push p to the same user  *)
(* u, and a message x of no known type; t is a live device, g a gone one.  *)
(***************************************************************************)
EXTENDS Notifications, TLC

CONSTANTS m, p, x, u, v, t, g, c1, c2, l1, l2

ToU == [n \in Message |-> u]

Symmetry == Permutations(Consumer) \cup Permutations(Login)
=============================================================================
