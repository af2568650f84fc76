--------------------------- MODULE MCMBHandlers ----------------------------
(***************************************************************************)
(* MBHandlers for TLC: two of the handlers that mb.c registers, one of     *)
(* them that of the slave identifier, and one of an application.           *)
(***************************************************************************)
EXTENDS MBHandlers

CONSTANTS read, own

SomeHandlers == {eMBFuncReportSlaveID, read, own}
TwoBuiltIn == << Entry(17, eMBFuncReportSlaveID), Entry(3, read) >>
=============================================================================
