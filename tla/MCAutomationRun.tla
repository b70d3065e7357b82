--------------------------- MODULE MCAutomationRun ---------------------------
(* Runs of one automation in one process, whose scripts ask once or never.  *)
EXTENDS AutomationRun

InApp == [r \in Runs |-> App]
Once  == [r \in Runs |-> 1]
Never == [r \in Runs |-> 0]
=============================================================================
