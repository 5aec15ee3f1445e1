------------------------ MODULE MemoryApprovalStore ------------------------
(***************************************************************************)
(* The in-memory approval store (qfc-quorum/src/store/memory.rs).          *)
(*                                                                         *)
(* record_approval takes two locks one after the other: it checks and      *)
(* inserts under `inner`, releases it, and only then appends to            *)
(* `by_request`.  Each critical section is one action.  A submission runs  *)
(* in an HTTP handler task whose future is dropped when the client goes    *)
(* away; the only suspension point between the two sections is the wait    *)
(* for the `by_request` lock, so a task can be cancelled exactly there.    *)
(***************************************************************************)
EXTENDS ApprovalTypes

CONSTANT Tasks    \* submission tasks; each runs record_approval once

VARIABLES
  inner,          \* [Requests -> [Approvers -> row or NoApproval]]
  by_request,     \* [Requests -> sequence of approvers, in push order]
  task            \* per task: where it is, its key, its approval, its answer

storeVars == <<inner, by_request, task>>

Idle == [pc |-> "idle"]

Outcomes == {"none", "Inserted", "AlreadyRecorded", "DuplicateApproval"}

TaskStates ==
  {Idle} \cup
  [pc : {"index", "done", "dropped"}, req : Requests, who : Approvers,
   appr : Approvals, outcome : Outcomes]

StoreTypeOK ==
  /\ inner \in [Requests -> [Approvers -> Approvals \cup {NoApproval}]]
  /\ by_request \in [Requests -> Seq(Approvers)]
  /\ task \in [Tasks -> TaskStates]

StoreInit ==
  /\ inner = [r \in Requests |-> [a \in Approvers |-> NoApproval]]
  /\ by_request = [r \in Requests |-> <<>>]
  /\ task = [t \in Tasks |-> Idle]

\* Task t's state once it has called record_approval with (r, a, p).
Submitted(t, r, a, p, pc, outcome) ==
  task' = [task EXCEPT ![t] = [pc |-> pc, req |-> r, who |-> a, appr |-> p,
                               outcome |-> outcome]]

\* Mutant: no look-up before the insert.
RecordUnchecked(t, r, a, p) ==
  /\ task[t] = Idle
  /\ inner' = [inner EXCEPT ![r] = [@ EXCEPT ![a] = p]]
  /\ Submitted(t, r, a, p, "index", "none")
  /\ UNCHANGED by_request

\* Mutant: an upsert; a second decision under another id replaces the first.
RecordOverwrites(t, r, a, p) ==
  /\ task[t] = Idle
  /\ \/ /\ inner[r][a] # NoApproval
        /\ Submitted(t, r, a, p, "done", "AlreadyRecorded")
        /\ inner' = [inner EXCEPT ![r] = [@ EXCEPT ![a] = p]]
     \/ /\ inner[r][a] = NoApproval
        /\ inner' = [inner EXCEPT ![r] = [@ EXCEPT ![a] = p]]
        /\ Submitted(t, r, a, p, "index", "none")
  /\ UNCHANGED by_request

\* The first critical section: a row with the same approval id answers
\* AlreadyRecorded, one with another id DuplicateApproval; otherwise insert.
RecordInner(t, r, a, p) ==
  /\ task[t] = Idle
  /\ \/ /\ inner[r][a] # NoApproval
        /\ \/ /\ inner[r][a].id = p.id
              /\ Submitted(t, r, a, p, "done", "AlreadyRecorded")
           \/ /\ inner[r][a].id # p.id
              /\ Submitted(t, r, a, p, "done", "DuplicateApproval")
        /\ UNCHANGED inner
     \/ /\ inner[r][a] = NoApproval
        /\ inner' = [inner EXCEPT ![r] = [@ EXCEPT ![a] = p]]
        /\ Submitted(t, r, a, p, "index", "none")
  /\ UNCHANGED by_request

\* Mutant: the newest approval goes first.
IndexPrepends(t) ==
  /\ task[t].pc = "index"
  /\ by_request' = [by_request EXCEPT ![task[t].req] = <<task[t].who>> \o @]
  /\ task' = [task EXCEPT ![t] = [@ EXCEPT !.pc = "done", !.outcome = "Inserted"]]
  /\ UNCHANGED inner

\* Mutant: only approvals are indexed, rejects are not.
IndexApprovesOnly(t) ==
  /\ task[t].pc = "index"
  /\ by_request' = IF task[t].appr.decision = "Approve"
                     THEN [by_request EXCEPT ![task[t].req] = Append(@, task[t].who)]
                     ELSE by_request
  /\ task' = [task EXCEPT ![t] = [@ EXCEPT !.pc = "done", !.outcome = "Inserted"]]
  /\ UNCHANGED inner

\* The second critical section: push (approver, approval id) on the index.
RecordIndex(t) ==
  /\ task[t].pc = "index"
  /\ by_request' = [by_request EXCEPT ![task[t].req] = Append(@, task[t].who)]
  /\ task' = [task EXCEPT ![t] = [@ EXCEPT !.pc = "done", !.outcome = "Inserted"]]
  /\ UNCHANGED inner

\* The handler's future is dropped while it waits for the index lock.
DropTask(t) ==
  /\ task[t].pc = "index"
  /\ task' = [task EXCEPT ![t] = [@ EXCEPT !.pc = "dropped"]]
  /\ UNCHANGED <<inner, by_request>>

StoreNext ==
  \E t \in Tasks :
    \/ \E r \in Requests, a \in Approvers, p \in Approvals : RecordInner(t, r, a, p)
    \/ RecordIndex(t)
    \/ DropTask(t)

StoreSpec == StoreInit /\ [][StoreNext]_storeVars

\* The store seen as a ledger: a row is recorded by the first critical section
\* and listed by the second.
Ledger == INSTANCE ApprovalLedger WITH recorded <- inner, listing <- by_request

\* list_for_request holds both read locks: the decisions of the indexed
\* approvers that have a row, in push order.
ListForRequest(r) ==
  {i \in DOMAIN by_request[r] : inner[r][by_request[r][i]] # NoApproval}

DecisionAt(r, i) == inner[r][by_request[r][i]].decision
=============================================================================
