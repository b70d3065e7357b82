-------------------------- MODULE MCEmailDispatcher --------------------------
(* The dispatcher's poll and one by hand, a mail with files and two mails to *)
(* reply to, and a person who drops a file.                                  *)
EXTENDS EmailDispatcher

MCRuns  == 1..3
MCOrder == [m \in Mails |-> CASE m = "files" -> 1 [] m = "ask" -> 2 [] m = "thanks" -> 3]
=============================================================================
