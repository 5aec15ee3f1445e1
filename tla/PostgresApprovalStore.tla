----------------------- MODULE PostgresApprovalStore -----------------------
(***************************************************************************)
(* The Postgres approval store (qfc-quorum/src/store/postgres.rs).         *)
(*                                                                         *)
(* record_approval is a READ COMMITTED transaction: a look-up by (request, *)
(* approver), an INSERT that the two unique keys of the table, that pair   *)
(* and the approval id, may refuse, and the commit.  An INSERT waits for a *)
(* transaction that has inserted the same key and not ended.  Each         *)
(* statement is one action; a connection may be lost at any of them, at    *)
(* the commit with the row already stored.                                 *)
(***************************************************************************)
EXTENDS ApprovalTypes

CONSTANT Submissions    \* tasks; each runs record_approval once

VARIABLES
  rows,         \* the table: [Requests -> [Approvers -> row or NoApproval]]
  by_commit,    \* [Requests -> sequence of approvers, in commit order]
  submission    \* per task: where it is, its key, its approval, its outcome

pgStoreVars == <<rows, by_commit, submission>>

NotSubmitted == [pc |-> "idle"]

PgStoreInit ==
  /\ rows = [r \in Requests |-> [a \in Approvers |-> NoApproval]]
  /\ by_commit = [r \in Requests |-> <<>>]
  /\ submission = [t \in Submissions |-> NotSubmitted]

Moves(t, pc) == submission' = [submission EXCEPT ![t] = [@ EXCEPT !.pc = pc]]

Ends(t, outcome) ==
  submission' = [submission EXCEPT ![t] = [@ EXCEPT !.pc = "done", !.outcome = outcome]]

Row(t) == rows[submission[t].req][submission[t].who]

\* SELECT approval_id: the same id answers AlreadyRecorded, another one
\* DuplicateApproval.
SelectRow(t) ==
  /\ submission[t].pc = "select"
  /\ \/ /\ Row(t) # NoApproval
        /\ Ends(t, IF Row(t).id = submission[t].appr.id
                     THEN "AlreadyRecorded" ELSE "DuplicateApproval")
     \/ Row(t) = NoApproval /\ Moves(t, "insert")
  /\ UNCHANGED <<rows, by_commit>>

\* The approval id is already that of a row.
IdTaken(id) ==
  \E r \in Requests, a \in Approvers : rows[r][a] # NoApproval /\ rows[r][a].id = id

\* Another open transaction has inserted one of t's keys.
InsertedElsewhere(t) ==
  \E u \in Submissions \ {t} :
    /\ submission[u].pc = "commit"
    /\ \/ submission[u].appr.id = submission[t].appr.id
       \/ submission[u].req = submission[t].req /\ submission[u].who = submission[t].who

\* Mutant: ON CONFLICT DO UPDATE.
InsertOrReplace(t) ==
  /\ submission[t].pc = "insert" /\ ~ InsertedElsewhere(t)
  /\ Moves(t, "commit")
  /\ UNCHANGED <<rows, by_commit>>

\* Mutant: a unique violation is taken for a resubmission.
InsertIdempotently(t) ==
  /\ submission[t].pc = "insert" /\ ~ InsertedElsewhere(t)
  /\ LET taken == Row(t) # NoApproval \/ IdTaken(submission[t].appr.id) IN
     IF taken THEN Ends(t, "AlreadyRecorded") ELSE Moves(t, "commit")
  /\ UNCHANGED <<rows, by_commit>>

\* INSERT: a violation of either unique key is answered DuplicateApproval.
InsertRow(t) ==
  /\ submission[t].pc = "insert" /\ ~ InsertedElsewhere(t)
  /\ LET taken == Row(t) # NoApproval \/ IdTaken(submission[t].appr.id) IN
     IF taken THEN Ends(t, "DuplicateApproval") ELSE Moves(t, "commit")
  /\ UNCHANGED <<rows, by_commit>>

\* The commit, whose answer may be lost.
CommitApproval(t) ==
  /\ submission[t].pc = "commit"
  /\ rows' = [rows EXCEPT ![submission[t].req] =
                [@ EXCEPT ![submission[t].who] = submission[t].appr]]
  /\ by_commit' = [by_commit EXCEPT ![submission[t].req] =
                     Append(@, submission[t].who)]
  /\ \E outcome \in {"Inserted", "Io"} : Ends(t, outcome)

\* A statement fails, or the handler's future is dropped: rollback.
AbandonApproval(t) ==
  /\ submission[t].pc \in {"select", "insert", "commit"}
  /\ Ends(t, "Io")
  /\ UNCHANGED <<rows, by_commit>>

\* The store seen as a ledger: a commit records a row and lists it.
PgLedger == INSTANCE ApprovalLedger WITH recorded <- rows, listing <- by_commit
-----------------------------------------------------------------------------
(* Properties *)

\* The Postgres store keeps the promise of every ApprovalStore: one decision per
\* (request, approver), never replaced, whatever transactions overlap, fail or
\* lose their answer.
PostgresStoreIsLedger == PgLedger!LedgerSpec

\* The outcome of record_approval stays true: Inserted means the submitter's own
\* approval is the recorded one, AlreadyRecorded that the recorded one has its
\* id, DuplicateApproval that its key or its approval id belongs to some row.
\* (An overlapping resubmission may be answered DuplicateApproval, which the
\* in-memory store never does.)
PostgresAnswersHold ==
  \A t \in Submissions : submission[t].pc = "done" =>
    LET s == submission[t] IN
    /\ s.outcome = "Inserted" => Row(t) = s.appr
    /\ s.outcome = "AlreadyRecorded" => Row(t) # NoApproval /\ Row(t).id = s.appr.id
    /\ s.outcome = "DuplicateApproval" => Row(t) # NoApproval \/ IdTaken(s.appr.id)
=============================================================================
