----------------------- MODULE NotificationDeliveryMC -----------------------
(***************************************************************************)
(* Small instances of NotificationDelivery.                                *)
(***************************************************************************)
EXTENDS NotificationDelivery, TLC

\* Drain loops are interchangeable where no fairness is assumed.
WorkerSymmetry == Permutations(Workers)
=============================================================================
