SPECIFICATION FairSpec
CONSTANTS
  Runs <- MCRuns
  Callers = {"loop", "now", "ann"}
  People = {"ann"}
  Files = {"files", "ask", "thanks", "ann"}
  MaxFaults = 1
  MaxEvents = 1
  Pollers = {"loop", "now"}
  Loop = "loop"
  Mails = {"files", "ask", "thanks"}
  Order <- MCOrder
  ForWorkflow = {"files"}
  Cap = 1
  Page = 2
INVARIANTS
  TypeOK
  ToldOnce
  ActedSparingly
  CapHolds
PROPERTIES
  AskedIsTold
  EveryMailIsSettled
  MailFilesAreWorked
CHECK_DEADLOCK FALSE
