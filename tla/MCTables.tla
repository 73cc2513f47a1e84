------------------------------ MODULE MCTables ------------------------------
(***************************************************************************)
(* Small instances, for TLC, of the two modules that are a table and       *)
(* nothing else: the money ledger and the current entries of a timetable.  *)
(* They share no state, and nothing in the code works on both, so that one *)
(* run explores each of them while the other one is as it began.           *)
(***************************************************************************)
EXTENDS MCLedger, Schedule

CONSTANTS room, teacher

Three == {1, 2, 3}

tablesVars == <<ledgerVars, classes>>

TablesInit == LedgerInit /\ ScheduleInit

TablesNext ==
  \/ ScheduleInit /\ LedgerNext /\ UNCHANGED classes
  \/ LedgerInit /\ ScheduleNext /\ UNCHANGED ledgerVars

TablesSpec == TablesInit /\ [][TablesNext]_tablesVars
=============================================================================
