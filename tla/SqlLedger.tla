----------------------------- MODULE SqlLedger -----------------------------
(***************************************************************************)
(* ledger.py: Ledger objects of several processes over one SQL table.       *)
(*                                                                         *)
(* The database numbers the rows (idx) and orders them by that number; an   *)
(* insert takes its number before its transaction commits, and the number   *)
(* of a transaction that fails is not used again.  Each process has opened  *)
(* the table once and keeps the leaves of its tree and the numbers of the   *)
(* rows it knows of.  A row's event is named by the row's number.           *)
(*                                                                         *)
(* A process has one connection, which sees the rows of its own open        *)
(* transaction beside those that are there.  Nothing ever rolls back: when  *)
(* commit() raises, PostgreSQL has ended the transaction, but sqlite may    *)
(* leave it open, and then the next commit of the connection commits its    *)
(* rows as well.                                                            *)
(*                                                                         *)
(* Ledger.commit holds the process's lock from the count of the rows to the *)
(* append of the leaf, so a process has one commit at a time; get_record    *)
(* does not take it.                                                        *)
(***************************************************************************)
EXTENDS SequencesExt, Positions

CONSTANTS Processes,
          MaxRows,    \* bound of the model: how many numbers are assigned
          MaxFaults,  \* bound of the model: how many faults happen to one writer alone;
                      \* there is one less for each writer more
          ReadWriters \* bound of the model: how many writers there are at most when positions
                      \* past the list are asked for

ASSUME SqlAssumption == IsFiniteSet(Processes) /\ {MaxRows, MaxFaults, ReadWriters} \subseteq Nat

VARIABLES qmark,    \* the table is sqlite's, not PostgreSQL's
          writers,  \* the processes that commit; the others only read
          rows,     \* durable: for each number its row, [state, leaf_index]
          ledger,   \* each process's backend and Ledger
          faults    \* how many faults have happened

sqlVars == <<qmark, writers, rows, ledger>>

RowStates == {"open", "there", "gone"}

SqlTypeOK ==
    /\ qmark \in BOOLEAN
    /\ writers \subseteq Processes
    /\ rows \in Seq([state : RowStates, leaf_index : Nat])
    /\ \A p \in Processes :
          /\ ledger[p].pc \in {"idle", "insert", "commit"}
          /\ ledger[p].idx \in Seq(1..MaxRows) /\ ledger[p].leaves \in Seq(1..MaxRows)
          /\ ledger[p].leaf_index \in Nat /\ ledger[p].row \in 0..Len(rows)
          /\ {ledger[p].broken, ledger[p].left, ledger[p].mixed} \subseteq BOOLEAN
          /\ ledger[p].open = {i \in ledger[p].open : rows[i].state = "open"}
    /\ faults \in 0..MaxFaults

Fault == faults < MaxFaults + 1 - Cardinality(writers) /\ faults' = faults + 1

\* SELECT ... ORDER BY idx: the rows whose transactions have committed,
ThereIn(table) == {i \in DOMAIN table : table[i].state = "there"}

SelectedOf(table) == Ascending(ThereIn(table))

Selected == SelectedOf(rows)

\* and on a process's connection those of its own transaction as well.
View(p) == Ascending(ThereIn(rows) \cup ledger[p].open)

\* A process that opens the table.
Opened(table) == [pc |-> "idle", idx |-> SelectedOf(table), leaves |-> SelectedOf(table),
                  leaf_index |-> 0, row |-> 0,
                  open |-> {},       \* the rows of the connection's open transaction
                  broken |-> FALSE,  \* the connection refuses every statement
                  left |-> FALSE,    \* history: a commit raised and left its row open
                  mixed |-> FALSE]   \* history: the list was loaded with the row of a commit

SqlInit ==
    /\ qmark \in BOOLEAN
    /\ writers \in {w \in SUBSET Processes : w # {}}
    /\ rows = <<>>
    /\ ledger = [p \in Processes |-> Opened(rows)]

\* commit(): the leaf's index is the number of rows the connection sees.
BeginCommit(p) ==
    /\ p \in writers /\ ledger[p].pc = "idle" /\ ~ledger[p].broken
    /\ Len(rows) + Cardinality({q \in Processes : ledger[q].pc = "insert"}) < MaxRows
    /\ ledger' = [ledger EXCEPT ![p].pc = "insert", ![p].leaf_index = Len(View(p))]
    /\ UNCHANGED <<qmark, writers, rows, faults>>

\* sqlite has one writing transaction at a time.
Insert(p) ==
    /\ ledger[p].pc = "insert"
    /\ qmark => \A q \in Processes \ {p} : ledger[q].open = {}
    /\ rows' = Append(rows, [state |-> "open", leaf_index |-> ledger[p].leaf_index])
    /\ ledger' = [ledger EXCEPT ![p].pc = "commit", ![p].row = Len(rows) + 1,
                                ![p].open = @ \cup {Len(rows) + 1}]
    /\ UNCHANGED <<qmark, writers, faults>>

\* The rows after process p's transaction, if there is one, has ended so.
EndedAs(p, state) ==
    [i \in DOMAIN rows |-> IF i \in ledger[p].open THEN [rows[i] EXCEPT !.state = state] ELSE rows[i]]

\* The transaction commits; the number of its last row joins the list and the leaf the tree.
CommitRow(p) ==
    /\ ledger[p].pc = "commit"
    /\ rows' = EndedAs(p, "there")
    /\ ledger' = [ledger EXCEPT ![p].pc = "idle", ![p].open = {},
                                ![p].idx = Append(@, ledger[p].row),
                                ![p].leaves = Append(@, ledger[p].row)]
    /\ UNCHANGED <<qmark, writers, faults>>

\* A statement or the commit raises, in a commit or in a read.  PostgreSQL refuses every
\* later statement of the connection, unless it was the commit itself that it refused; if
\* the connection is lost in the commit the transaction may have committed.  sqlite goes
\* on, in the same transaction or without it.
Raises(p) ==
    /\ ~ledger[p].broken
    /\ Fault
    /\ \E broken \in BOOLEAN, state \in RowStates :
          /\ broken => ~qmark
          /\ state = "open" => qmark
          /\ state = "there" => broken /\ ledger[p].pc = "commit"
          /\ ~broken => qmark \/ ledger[p].pc = "commit"
          /\ rows' = EndedAs(p, state)
          /\ ledger' = [ledger EXCEPT ![p].pc = "idle", ![p].broken = broken,
                                      ![p].open = IF state = "open" THEN @ ELSE {},
                                      ![p].left = @ \/ (state = "open" /\ ledger[p].pc = "commit")]
    /\ UNCHANGED <<qmark, writers>>

\* Mutant: what is loaded is put behind the list.
ReadPastEndAppends(p) ==
    /\ ~ledger[p].broken /\ Cardinality(writers) <= ReadWriters
    /\ ledger' = [ledger EXCEPT ![p].idx = SubSeq(@ \o View(p), 1, Len(View(p))),
                                ![p].mixed = @ \/ ledger[p].pc = "commit"]
    /\ UNCHANGED <<qmark, writers, rows, faults>>

\* get_record() of a position past the list, in any thread: the list is loaded again, the
\* tree is not, and neither a commit nor a head looks at the list.
ReadPastEnd(p) ==
    /\ ~ledger[p].broken /\ Cardinality(writers) <= ReadWriters
    /\ ledger' = [ledger EXCEPT ![p].idx = View(p), ![p].mixed = @ \/ ledger[p].pc = "commit"]
    /\ UNCHANGED <<qmark, writers, rows, faults>>

\* The process ends, in the middle of a commit or not, and opens the table again.
Reopen(p) ==
    /\ IF ledger[p].pc = "idle" THEN UNCHANGED faults ELSE Fault
    /\ \/ rows' = EndedAs(p, "gone")
       \/ ledger[p].pc = "commit" /\ rows' = EndedAs(p, "there")
    /\ ledger' = [ledger EXCEPT ![p] = Opened(rows')]
    /\ UNCHANGED <<qmark, writers>>

SqlNext ==
    \E p \in Processes :
        \/ BeginCommit(p) \/ Insert(p) \/ CommitRow(p) \/ Raises(p)
        \/ ReadPastEnd(p) \/ Reopen(p)

----------------------------------------------------------------------------
(* Properties.                                                              *)

\* ledger.py:157-173: with one writer, whatever transactions failed and whenever a
\* reader fell behind, every row there is has its position as its leaf index, and every
\* process has a tree of the table's first rows and finds at a position the row the table
\* has there, under that index.  Not so a process in which a commit raised and left its
\* row open, until it opens the table again; and not the list of one that loaded it
\* between the insert of a row of its own and that row's commit.
ReadsFollow ==
    Cardinality(writers) = 1 =>
        /\ \A n \in DOMAIN Selected : rows[Selected[n]].leaf_index = n - 1
        /\ \A p \in Processes :
              ~ledger[p].left =>
                 /\ IsPrefix(ledger[p].leaves, Selected)
                 /\ ~ledger[p].mixed => IsPrefix(ledger[p].idx, Selected)
=============================================================================
