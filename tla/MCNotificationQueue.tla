---- MODULE MCNotificationQueue ----
(* A small instance of NotificationQueue for TLC. *)
EXTENDS NotificationQueue, TLC

CONSTANTS j1, d1, d2, w1, w2

Symmetric == Permutations(Devices) \cup Permutations(Workers)
====
