-------------------------- MODULE SharedConnection --------------------------
(***************************************************************************)
(* The one sqlite3 connection that every request thread of the API server  *)
(* shares (SqliteRepository opens it with check_same_thread=False).        *)
(*                                                                         *)
(* Python's sqlite3 module runs in its legacy transaction mode there: a    *)
(* data-changing statement first looks at the connection and runs BEGIN    *)
(* when no transaction is open, then runs the statement; commit() looks    *)
(* again and runs COMMIT when one is open.  A transaction therefore        *)
(* belongs to the connection and not to a thread: any thread reads what    *)
(* another has not committed, and any commit() publishes the writes of all *)
(* of them.  Threads interleave between the look and the BEGIN or COMMIT,  *)
(* which then fails ("cannot start a transaction within a transaction",    *)
(* "cannot commit - no transaction is active").                            *)
(*                                                                         *)
(* A connection is a record: view is what a SELECT on it returns, disk     *)
(* what a restarted process finds, open whether a transaction is open.     *)
(***************************************************************************)

(* A connection to a database file that holds these tables. *)
Connect(tables) == [view |-> tables, disk |-> tables, open |-> FALSE]

(* BEGIN, when it succeeds. *)
Begin(db) == [db EXCEPT !.open = TRUE]

(* A data-changing statement that leaves the tables so.  It is durable at  *)
(* once when another thread's COMMIT has closed the transaction that this  *)
(* statement expected to be in (autocommit).                               *)
Execute(db, tables) ==
  [view |-> tables,
   disk |-> IF db.open THEN db.disk ELSE tables,
   open |-> db.open]

(* COMMIT, when it succeeds. *)
Commit(db) == [view |-> db.view, disk |-> db.view, open |-> FALSE]

(* The process dies and another one opens the file: the transaction that   *)
(* was open is rolled back.                                                *)
Reconnect(db) == Connect(db.disk)

(* What the module guarantees whatever the threads do: with no transaction *)
(* open nothing is waiting to be committed.                                *)
NothingPending(db) == ~db.open => db.view = db.disk
=============================================================================
