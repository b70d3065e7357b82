------------------------ MODULE MCScheduledDocuments ------------------------
(* One document job with a recurring schedule and a row for one run on      *)
(* request.                                                                 *)
EXTENDS ScheduledDocuments

OneJob == [s \in Schedules |-> "papers"]
=============================================================================
