----------------------------- MODULE Ingestion -----------------------------
(***************************************************************************)
(* Timetable ingestion: runIngestion (packages/core), the crawl of the LGU *)
(* portal (packages/adapters/timetable-lgu) and TimetableSink, which brings*)
(* the versioned entries to the crawled batch (packages/modules/timetable).*)
(*                                                                         *)
(* The portal is a tree: its panel lists semesters, a semester degrees, a  *)
(* degree sections, and a section page its slots.  It may change at any    *)
(* request, answer an error, or block.  A slot stands for what its content *)
(* hash covers.  Cron starts the runs one after another; each transaction  *)
(* of the sink is a step, and the process may die between any two.  The    *)
(* catalog rows (teachers, rooms, ..) an entry refers to are left out.     *)
(***************************************************************************)
EXTENDS Integers, Sequences

CONSTANTS Panel,       \* the root of the portal
          Pages,       \* the sections
          Children,    \* [node -> its list of nodes]
          Slots,       \* the slots there can be
          PageOf,      \* [slot -> its section]
          TermOf,      \* [slot -> its semester]
          MaxTries,    \* requests before the client gives up on a node
          MaxFaults,   \* bound: errors, blocks and crashes
          MaxChanges   \* bound: changes of the portal

VARIABLES portal,   \* the slots the portal shows
          table,    \* timetable_entries: the current and the closed hashes
          run,      \* the process
          log,      \* ingestion_runs: the status of the run in progress, or the last
          faults,
          changes,
          wrote,    \* history: whether this run's entries were committed
          source    \* history: per term, the batch its current entries are from

ingestionVars == <<portal, table, run, log, faults, changes, wrote, source>>

Nodes == DOMAIN Children
Terms == {TermOf[s] : s \in Slots}
Requests == Seq(Nodes)

ASSUME TreeAssumption ==
  /\ Panel \in Nodes /\ Pages \subseteq Nodes
  /\ \A n \in Nodes : Children[n] \in Requests /\ (n \in Pages => Children[n] = <<>>)
ASSUME SlotsAssumption == PageOf \in [Slots -> Pages] /\ TermOf \in [Slots -> Nodes]
ASSUME BoundsAssumption == MaxTries \in Nat \ {0} /\ {MaxFaults, MaxChanges} \subseteq Nat

NoRun == [pc |-> "idle", todo |-> <<>>, tries |-> 0, batch |-> {}]

Statuses == {"running", "success", "failed"}

IngestionInit ==
  /\ portal \in SUBSET Slots
  /\ table = [current |-> {}, closed |-> {}]
  /\ run = NoRun
  /\ log = "success"
  /\ faults = 0 /\ changes = 0
  /\ wrote = TRUE
  /\ source = [t \in Terms |-> {}]

InTerm(S, t) == {s \in S : TermOf[s] = t}

Fault == faults < MaxFaults /\ faults' = faults + 1

RunTo(pc) == run' = [run EXCEPT !.pc = pc]

-----------------------------------------------------------------------------
(* startRun                                                                *)
Start ==
  /\ run.pc = "idle"
  /\ run' = [NoRun EXCEPT !.pc = "crawl", !.todo = <<Panel>>]
  /\ log' = "running" /\ wrote' = FALSE
  /\ UNCHANGED <<portal, table, faults, changes, source>>

(* crawl: the panel first, then depth first through the lists.             *)

Crawling == run.pc = "crawl" /\ run.todo # <<>>

(* A section page is read into slots, a list into requests.                *)
Fetch ==
  LET n == Head(run.todo)
  IN /\ Crawling
     /\ run' = [run EXCEPT !.tries = 0,
                  !.todo = Children[n] \o Tail(run.todo),
                  !.batch = @ \cup {s \in portal : PageOf[s] = n}]
     /\ UNCHANGED <<portal, table, log, faults, changes, wrote, source>>

(* An error is retried by the client ...                                   *)
Retry ==
  /\ Crawling /\ run.tries + 1 < MaxTries
  /\ Fault
  /\ run' = [run EXCEPT !.tries = @ + 1]
  /\ UNCHANGED <<portal, table, log, changes, wrote, source>>

(* ... and then skipped as an anomaly, with everything below it, unless it *)
(* is the panel itself that cannot be read.                                *)
Skip ==
  /\ Crawling /\ run.tries + 1 = MaxTries
  /\ Fault
  /\ run' = IF Head(run.todo) = Panel THEN [run EXCEPT !.pc = "failed"]
            ELSE [run EXCEPT !.tries = 0, !.todo = Tail(@)]
  /\ UNCHANGED <<portal, table, log, changes, wrote, source>>

(* A 403, 429 or 503 ends the crawl at once, and so does a session that    *)
(* could not be made.                                                      *)
Blocked ==
  /\ Crawling
  /\ Fault
  /\ RunTo("failed")
  /\ UNCHANGED <<portal, table, log, changes, wrote, source>>

(* recordSnapshot and normalize.                                           *)
Snapshot ==
  /\ run.pc = "crawl" /\ run.todo = <<>>
  /\ RunTo("persist")
  /\ UNCHANGED <<portal, table, log, faults, changes, wrote, source>>

-----------------------------------------------------------------------------
(* planTimetableDiff and persistInTx: per term the batch has entries of,   *)
(* close what the batch lacks and insert what the table lacks.             *)

(* Mutant of Planned: nothing is closed.                                   *)
Planned_NoClose(current, incoming) == [insert |-> incoming \ current, close |-> {}]

Planned(current, incoming) ==
  [insert |-> incoming \ current, close |-> current \ incoming]

(* Mutant of Fits: the unique index is on every row, not the current ones. *)
Fits_EveryRow(new) == new \cap (table.current \cup table.closed) = {}

(* tt_entries_current_hash_uq admits the insert.                           *)
Fits(new) == new \cap table.current = {}

Diffed == {t \in Terms : InTerm(run.batch, t) # {}}

Plans == [t \in Diffed |-> Planned(InTerm(table.current, t), InTerm(run.batch, t))]

Inserts == UNION {Plans[t].insert : t \in Diffed}
Closes == UNION {Plans[t].close : t \in Diffed}

Persist ==
  /\ run.pc = "persist" /\ Fits(Inserts)
  /\ table' = [current |-> (table.current \ Closes) \cup Inserts,
               closed |-> table.closed \cup Closes]
  /\ wrote' = TRUE
  /\ source' = [t \in Terms |-> IF t \in Diffed THEN InTerm(run.batch, t) ELSE source[t]]
  /\ RunTo("finish")
  /\ UNCHANGED <<portal, log, faults, changes>>

(* Mutant of PersistFails: the error is swallowed and the run goes on.     *)
PersistFails_Swallowed ==
  /\ run.pc = "persist"
  /\ IF Fits(Inserts) THEN Fault ELSE UNCHANGED faults
  /\ RunTo("finish")
  /\ UNCHANGED <<portal, table, log, changes, wrote, source>>

(* The transaction rolls back: a statement failed, or the index refused it.*)
PersistFails ==
  /\ run.pc = "persist"
  /\ IF Fits(Inserts) THEN Fault ELSE UNCHANGED faults
  /\ RunTo("failed")
  /\ UNCHANGED <<portal, table, log, changes, wrote, source>>

(* finishRun, in a transaction of its own.                                 *)
Finish(status) ==
  /\ log' = status
  /\ run' = NoRun
  /\ UNCHANGED <<portal, table, faults, changes, wrote, source>>

FinishSuccess == run.pc = "finish" /\ Finish("success")
FinishFailed == run.pc = "failed" /\ Finish("failed")

(* When recording the success fails, the catch records a failure.          *)
FinishThrows ==
  /\ run.pc = "finish"
  /\ Fault
  /\ RunTo("failed")
  /\ UNCHANGED <<portal, table, log, changes, wrote, source>>

-----------------------------------------------------------------------------
(* The process dies; its run stays `running' in the log.                   *)
Crash ==
  /\ run.pc # "idle"
  /\ Fault
  /\ run' = NoRun
  /\ UNCHANGED <<portal, table, log, changes, wrote, source>>

PortalChanges ==
  /\ changes < MaxChanges
  /\ changes' = changes + 1
  /\ portal' \in SUBSET Slots
  /\ UNCHANGED <<table, run, log, faults, wrote, source>>

Progress ==
  Start \/ Fetch \/ Snapshot \/ Persist \/ FinishSuccess \/ FinishFailed
  \/ (~Fits(Inserts) /\ PersistFails)

IngestionNext ==
  \/ Start \/ Fetch \/ Retry \/ Skip \/ Blocked \/ Snapshot \/ Persist \/ PersistFails
  \/ FinishSuccess \/ FinishFailed \/ FinishThrows \/ Crash \/ PortalChanges

(* Cron starts the next run and a run that is not disturbed goes on.       *)
IngestionSpec ==
  IngestionInit /\ [][IngestionNext]_ingestionVars /\ WF_ingestionVars(Progress)

-----------------------------------------------------------------------------
IngestionTypes ==
  /\ portal \subseteq Slots
  /\ table \in [current : SUBSET Slots, closed : SUBSET Slots]
  /\ run \in [pc : {"idle", "crawl", "persist", "finish", "failed"}, todo : Requests,
              tries : 0..MaxTries - 1, batch : SUBSET Slots]
  /\ log \in Statuses
  /\ faults \in 0..MaxFaults /\ changes \in 0..MaxChanges
  /\ source \in [Terms -> SUBSET Slots]

(* A term shows the slots of one crawl, the last that brought any: never a *)
(* mix of an old and a new timetable, whatever was skipped or died between *)
(* ("no partial state").                                                   *)
TermsAreWhole == \A t \in Terms : InTerm(table.current, t) = source[t]

(* Types, and no mixed timetable (TermsAreWhole).                          *)
TableInv == IngestionTypes /\ TermsAreWhole

(* The health endpoint's signal, the last successful run, is never that of *)
(* a run whose entries are not in the table.                               *)
SuccessIsPersisted == log = "success" => wrote

(* When the portal stops changing and failing, each semester that has a    *)
(* timetable is shown as it is, for good, although earlier runs skipped    *)
(* sections and closed their entries.                                      *)
CatchesUp ==
  <>[](\A t \in Terms : InTerm(portal, t) # {} => InTerm(table.current, t) = InTerm(portal, t))
=============================================================================
