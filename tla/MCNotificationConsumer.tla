------------------------ MODULE MCNotificationConsumer ------------------------
(* Small instances of NotificationConsumer.  Consumers, entries and events   *)
(* of one kind are interchangeable, recipients are ordered.                  *)
EXTENDS NotificationConsumer, TLC

Symmetry == Permutations(Consumers) \cup Permutations(Entries)

(* For safety, with an identity-service that is always ready: after Recover    *)
(* nothing happens that could not happen before.                             *)
FaultsStay == faults # {}

(* A bound: the marker of at most one message is lost.                       *)
OneSlip == Cardinality(slipped) <= 1
=============================================================================
