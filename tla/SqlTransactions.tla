--------------------------- MODULE SqlTransactions --------------------------
(***************************************************************************)
(* utils/sqlite: one connection with its Transaction guard, its prepared   *)
(* statement and its ExecutionBudget, over an SQLite that may refuse a     *)
(* statement, roll the whole transaction back on its own, find the file    *)
(* busy at COMMIT, report a COMMIT it has applied as failed and fail a     *)
(* ROLLBACK.  The callers are those of persistence: a scope opens a guard, *)
(* steps statements, commits or rolls back, and reports a failed COMMIT as *)
(* unknown.  After a statement has failed they run no other one in that    *)
(* scope, whose end destroys the guard, but they may still try to commit.  *)
(* A scope without a guard, or whose guard has ended, runs its statements  *)
(* in autocommit.                                                          *)
(***************************************************************************)
EXTENDS Naturals, FiniteSets

CONSTANTS MaxWrites     \* bound: writes attempted through the connection

ASSUME WritesAssumption == MaxWrites \in Nat

VARIABLES sqConn,     \* [usable, transaction_owned, budget_owned] of Connection
          sqFile,     \* writes in the database file
          sqOpen,     \* writes of the transaction SQLite has open
          sqAuto,     \* sqlite3_get_autocommit
          sqGuard,    \* the Transaction object: "none", "active", "ended"
          sqStmt,     \* the Statement object: "none", "bound", "row", "done", "failed"
          sqScope,    \* "idle", "plain" or "guarded"
          sqHandler,  \* whose handlers SQLite calls: "none" or a budget
          sqBudgets,  \* budgets alive
          sqWrites,   \* writes attempted so far
          sqMine,     \* history: writes that succeeded in the current scope
          sqSaid,     \* history: writes reported to a caller as committed
          sqApplied   \* history: writes of a COMMIT that failed and was applied

sqVars == <<sqConn, sqFile, sqOpen, sqAuto, sqGuard, sqStmt, sqScope, sqHandler,
            sqBudgets, sqWrites, sqMine, sqSaid, sqApplied>>

sqEngine == <<sqFile, sqOpen, sqAuto>>
sqBudget == <<sqHandler, sqBudgets>>
sqTold == <<sqSaid, sqApplied>>
sqHistory == <<sqMine, sqTold>>

Budgets == {"first", "second"}

SqInit ==
  /\ sqConn = [usable |-> TRUE, transaction_owned |-> FALSE, budget_owned |-> FALSE]
  /\ sqFile = {} /\ sqOpen = {} /\ sqAuto = TRUE
  /\ sqGuard = "none" /\ sqStmt = "none" /\ sqScope = "idle"
  /\ sqHandler = "none" /\ sqBudgets = {} /\ sqWrites = 0
  /\ sqMine = {} /\ sqSaid = {} /\ sqApplied = {}

-----------------------------------------------------------------------------
(* The engine.                                                              *)

RollbackEngine == sqOpen' = {} /\ sqAuto' = TRUE /\ UNCHANGED sqFile

CommitEngine == sqFile' = sqFile \cup sqOpen /\ sqOpen' = {} /\ sqAuto' = TRUE

(* A row or a write takes effect at once only outside a transaction.         *)
WriteEngine(w) ==
  IF sqAuto THEN sqFile' = sqFile \cup {w} /\ UNCHANGED <<sqOpen, sqAuto>>
  ELSE sqOpen' = sqOpen \cup {w} /\ UNCHANGED <<sqFile, sqAuto>>

(* A failing statement is undone alone, or takes its transaction with it.    *)
FailEngine == UNCHANGED sqEngine \/ (~sqAuto /\ RollbackEngine)

-----------------------------------------------------------------------------
(* The scope of a caller.                                                   *)

EnterPlain ==
  /\ sqScope = "idle" /\ sqScope' = "plain" /\ sqMine' = {}
  /\ UNCHANGED <<sqConn, sqEngine, sqGuard, sqStmt, sqBudget, sqWrites, sqTold>>

(* Transaction::Transaction, after Connection::check: refused while another  *)
(* guard, or a transaction left open, holds the connection.                  *)
BeginTransaction ==
  /\ sqScope = "idle" /\ sqConn.usable
  /\ ~sqConn.transaction_owned /\ sqAuto
  /\ sqAuto' = FALSE /\ sqOpen' = {} /\ UNCHANGED sqFile
  /\ sqConn' = [sqConn EXCEPT !.transaction_owned = TRUE]
  /\ sqGuard' = "active" /\ sqScope' = "guarded" /\ sqMine' = {}
  /\ UNCHANGED <<sqStmt, sqBudget, sqWrites, sqTold>>

MutantUsableAfter == TRUE

(* What is left to reuse once the destructor's ROLLBACK has failed.          *)
UsableAfter == FALSE

(* Transaction::~Transaction.  It never throws: a rollback that leaves the    *)
(* transaction open marks the connection.                                    *)
DestroyGuard(rolled) ==
  IF sqGuard # "active" THEN UNCHANGED <<sqConn, sqEngine>>
  ELSE /\ \/ sqAuto /\ UNCHANGED sqEngine
          \/ ~sqAuto /\ rolled /\ RollbackEngine
          \/ ~sqAuto /\ ~rolled /\ UNCHANGED sqEngine
       /\ sqConn' = [sqConn EXCEPT !.transaction_owned = FALSE,
                       !.usable = @ /\ (sqAuto \/ rolled \/ UsableAfter)]

(* The end of a scope, normally or by an exception: the statement is          *)
(* finalized, then the guard is destroyed.                                    *)
Leave(rolled) ==
  /\ sqScope # "idle" /\ sqScope' = "idle"
  /\ DestroyGuard(rolled)
  /\ sqGuard' = "none" /\ sqStmt' = "none"
  /\ sqMine' = {}
  /\ sqSaid' = IF sqScope = "plain" THEN sqSaid \cup sqMine ELSE sqSaid
  /\ UNCHANGED <<sqBudget, sqWrites, sqApplied>>

-----------------------------------------------------------------------------
(* Statements.                                                              *)

(* Database::prepare and the bindings, before the first step.                 *)
Prepare ==
  /\ sqScope # "idle" /\ sqConn.usable
  /\ sqStmt \in {"none", "done"} /\ sqWrites < MaxWrites
  /\ sqStmt' = "bound" /\ sqWrites' = sqWrites + 1
  /\ UNCHANGED <<sqConn, sqEngine, sqGuard, sqScope, sqBudget, sqHistory>>

(* Statement::step with SQLITE_ROW: a read has a current row.                 *)
StepRow ==
  /\ sqStmt \in {"bound", "row"} /\ sqConn.usable
  /\ sqStmt' = "row"
  /\ UNCHANGED <<sqConn, sqEngine, sqGuard, sqScope, sqBudget, sqWrites, sqHistory>>

(* Statement::step with SQLITE_DONE: the write, when it is one, is made.       *)
StepDone(writes) ==
  /\ sqStmt \in {"bound", "row"} /\ sqConn.usable
  /\ sqStmt' = "done"
  /\ IF writes /\ sqStmt = "bound"
     THEN WriteEngine(sqWrites) /\ sqMine' = sqMine \cup {sqWrites}
     ELSE UNCHANGED <<sqEngine, sqMine>>
  /\ UNCHANGED <<sqConn, sqGuard, sqScope, sqBudget, sqWrites, sqTold>>

(* Statement::step with an error, among them the interruption by a budget      *)
(* whose time is over: the statement is failed for good.                       *)
StepFails ==
  /\ sqStmt \in {"bound", "row"} /\ sqConn.usable
  /\ FailEngine /\ sqStmt' = "failed"
  /\ UNCHANGED <<sqConn, sqGuard, sqScope, sqBudget, sqWrites, sqHistory>>

-----------------------------------------------------------------------------
(* The end of a transaction.                                                *)

Ended == [sqConn EXCEPT !.transaction_owned = FALSE]

MutantCommitRefused == FALSE

(* COMMIT with no transaction open is an error: SQLite had rolled back.       *)
CommitRefused == sqAuto

(* Transaction::commit.  The guard is given up only after COMMIT succeeded.   *)
Commit ==
  /\ sqGuard = "active" /\ sqConn.usable /\ ~CommitRefused
  /\ IF sqAuto THEN UNCHANGED sqEngine ELSE CommitEngine
  /\ sqGuard' = "ended" /\ sqConn' = Ended
  /\ sqSaid' = sqSaid \cup sqMine /\ sqMine' = {} /\ sqScope' = "plain"
  /\ UNCHANGED <<sqStmt, sqBudget, sqWrites, sqApplied>>

(* COMMIT fails: busy, with the transaction kept, rolled back by SQLite, or    *)
(* applied before the error (the callers report it as unknown).                *)
CommitFails ==
  /\ sqGuard = "active" /\ sqConn.usable
  /\ \/ FailEngine /\ UNCHANGED sqApplied
     \/ ~sqAuto /\ CommitEngine /\ sqApplied' = sqApplied \cup sqMine
  /\ sqStmt' = "failed"
  /\ UNCHANGED <<sqConn, sqGuard, sqScope, sqBudget, sqWrites, sqMine, sqSaid>>

(* Transaction::rollback.                                                     *)
Rollback ==
  /\ sqGuard = "active" /\ sqConn.usable
  /\ RollbackEngine
  /\ sqGuard' = "ended" /\ sqConn' = Ended /\ sqMine' = {} /\ sqScope' = "plain"
  /\ UNCHANGED <<sqStmt, sqBudget, sqWrites, sqTold>>

-----------------------------------------------------------------------------
(* ExecutionBudget.                                                         *)

MutantBudgetRefused == FALSE

(* One guard owns the handlers of a connection.                               *)
BudgetRefused == sqConn.budget_owned

(* The constructor; a refused one installs nothing and leaves no object.      *)
NewBudget(b) ==
  /\ b \notin sqBudgets /\ sqConn.usable /\ ~BudgetRefused
  /\ sqBudgets' = sqBudgets \cup {b} /\ sqHandler' = b
  /\ sqConn' = [sqConn EXCEPT !.budget_owned = TRUE]
  /\ UNCHANGED <<sqEngine, sqGuard, sqStmt, sqScope, sqWrites, sqHistory>>

(* The destructor clears the handlers of the connection, whoever set them.     *)
EndBudget(b) ==
  /\ b \in sqBudgets /\ sqBudgets' = sqBudgets \ {b} /\ sqHandler' = "none"
  /\ sqConn' = [sqConn EXCEPT !.budget_owned = FALSE]
  /\ UNCHANGED <<sqEngine, sqGuard, sqStmt, sqScope, sqWrites, sqHistory>>

SqNext ==
  \/ EnterPlain \/ BeginTransaction
  \/ \E rolled \in BOOLEAN : Leave(rolled)
  \/ Prepare \/ StepRow \/ StepFails
  \/ \E writes \in BOOLEAN : StepDone(writes)
  \/ Commit \/ CommitFails \/ Rollback
  \/ \E b \in Budgets : NewBudget(b) \/ EndBudget(b)

SqSpec == SqInit /\ [][SqNext]_sqVars

-----------------------------------------------------------------------------
(* The file holds exactly the writes whose success a caller was told of, those *)
(* an autocommit scope has made, and those of a transaction SQLite applied     *)
(* while its COMMIT was reported as unknown, which is there whole: a commit    *)
(* that reported success lost none, also when SQLite had rolled back on its    *)
(* own, and no later work runs inside a transaction that a failed rollback     *)
(* left open (Transaction, Connection::check).                                 *)
FileIsWhatWasReported ==
  sqFile = sqSaid \cup sqApplied \cup (IF sqScope = "plain" THEN sqMine ELSE {})

(* While a budget lives, SQLite's handlers are its own: a deadline is never   *)
(* lifted, and no callback runs on a destroyed budget (ExecutionBudget).      *)
BudgetInForce == \A b \in Budgets : b \in sqBudgets <=> sqHandler = b
=============================================================================
