------------------------ MODULE MCAutomationDelivery ------------------------
(***************************************************************************)
(* Small instances of AutomationDelivery for TLC.                          *)
(***************************************************************************)
EXTENDS AutomationDelivery

CONSTANTS e1, t1
==============================================================================
