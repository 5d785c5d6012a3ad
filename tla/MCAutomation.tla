---------------------------- MODULE MCAutomation ----------------------------
(* The configurations give the constants numbers; nothing else is needed. *)
EXTENDS Automation
=============================================================================
