--------------------------- MODULE MCOrderBroker ---------------------------
(***************************************************************************)
(* Small instances of OrderBroker for TLC.                                 *)
(***************************************************************************)
EXTENDS OrderBroker

\* The command lines main() documents, with the periods 5 and 7 scaled down so
\* that two requests reach both: never fail or fail every 2nd time, a partial
\* fill every time or every 2nd time, with QuickFIX or mocked.
MCConfigs == [mock : BOOLEAN, failOncePer : {0, 2}, partialOncePer : {1, 2}]
=============================================================================
