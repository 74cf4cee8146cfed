----------------------- MODULE MCNotificationDelivery -----------------------
(* Small instances of NotificationDelivery for TLC. *)
EXTENDS NotificationDelivery, TLC

(* Workers, deliveries and tokens are interchangeable, unless some deliveries
   are poison: NotificationDelivery compares them for equality only. *)
Symmetry ==
  Permutations(Worker) \cup Permutations(Delivery) \cup Permutations(Token)
=============================================================================
