------------------------ MODULE MCNotificationRoutes ------------------------
(***************************************************************************)
(* One event and one tool beside the task.  The inbox keeps an item for    *)
(* the day it was received and a second day follows, so an item is pruned  *)
(* under a retry and an event grows too old to be read.  Two troubles: a   *)
(* fault while another is repaired, a crash after a failed write, a second *)
(* install.  Two attempts, so one may fail and be retried.                 *)
(***************************************************************************)
EXTENDS NotificationRoutes

=============================================================================
