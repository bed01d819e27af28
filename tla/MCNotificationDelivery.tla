----------------------- MODULE MCNotificationDelivery -----------------------
(* A small instance of NotificationDelivery for TLC. *)
EXTENDS NotificationDelivery

\* Rows of one kind are queued in a behaviour, of either: deliveries never take both, so the
\* two meet in nothing but the bounds.  Everybody has subscribed to begin with.
OneKind == \E kind \in {Announcements, Calls} : \A r \in Rows \ kind : asked[r] = 0

EitherKindInit == Init /\ subscribed = Rows

EitherKindSpec == EitherKindInit /\ [][Next /\ OneKind']_vars /\ Fairness
============================================================================
