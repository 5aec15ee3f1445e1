----------------------- MODULE OrchestratingApprover -----------------------
(***************************************************************************)
(* The quorum collector (qfc-quorum/src/approvers/orchestrating.rs) over   *)
(* the in-memory approval store: collect_approvals lists the store, answers*)
(* on the first reject or on `threshold` approves, else reads the clock and*)
(* either times out or sleeps until the poll backoff, the deadline or a    *)
(* notify_arrival, whichever is first.                                     *)
(*                                                                         *)
(* Listing and reading the clock are separate actions: submissions run on  *)
(* other threads and, with Postgres, the listing itself is a round trip.   *)
(***************************************************************************)
EXTENDS MemoryApprovalStore, FiniteSets

CONSTANTS
  Threshold,    \* approvals needed, the policy decision's `threshold`
  Timeout,      \* collection timeout, in ticks
  Backoff,      \* poll_backoff, in ticks
  MaxTime       \* bound: the clock stops here

ASSUME CollectAssumption ==
  /\ Threshold \in Nat \ {0}
  /\ Timeout \in Nat
  /\ Backoff \in Nat \ {0}
  /\ MaxTime \in Nat

VARIABLES
  now,          \* the monotonic clock `Instant::now()`
  col,          \* per request: the state of its collect_approvals call
  counted,      \* per request: the approvers whose approvals were returned
  settledAt,    \* history: when the listing first settled the request
  polledAt      \* history: when the collector last listed the store

collectVars == <<now, col, counted, settledAt, polledAt>>
vars == <<storeVars, collectVars>>

Never == MaxTime + 1

Results == {"none", "approved", "rejected", "timeout", "transport"}

ColStates == [pc : {"idle", "poll", "check", "sleep", "done"},
              started : 0 .. MaxTime, wake : Nat, result : Results]

TypeOK ==
  /\ StoreTypeOK
  /\ now \in 0 .. MaxTime
  /\ col \in [Requests -> ColStates]
  /\ counted \in [Requests -> Seq(Approvers)]
  /\ settledAt \in [Requests -> 0 .. Never]
  /\ polledAt \in [Requests -> 0 .. MaxTime]

Init ==
  /\ StoreInit
  /\ now = 0
  /\ col = [r \in Requests |->
              [pc |-> "idle", started |-> 0, wake |-> 0, result |-> "none"]]
  /\ counted = [r \in Requests |-> <<>>]
  /\ settledAt = [r \in Requests |-> Never]
  /\ polledAt = [r \in Requests |-> 0]

Rejects(r) == {i \in ListForRequest(r) : DecisionAt(r, i) = "Reject"}
Approves(r) == {i \in ListForRequest(r) : DecisionAt(r, i) = "Approve"}

\* What makes the collector answer.
Settled(r) == Rejects(r) # {} \/ Cardinality(Approves(r)) >= Threshold

Deadline(r) == col[r].started + Timeout

Return(r, result, approvers) ==
  /\ col' = [col EXCEPT ![r] = [@ EXCEPT !.pc = "done", !.result = result]]
  /\ counted' = [counted EXCEPT ![r] = approvers]

\* The bound keeps the deadline within the clock's range.
StartCollect(r) ==
  /\ col[r].pc = "idle"
  /\ now + Timeout <= MaxTime
  /\ col' = [col EXCEPT ![r] = [@ EXCEPT !.pc = "poll", !.started = now]]
  /\ UNCHANGED <<storeVars, now, counted, settledAt, polledAt>>

\* Mutant: more than `threshold` approvals are asked for.
PollStrictly(r) ==
  /\ col[r].pc = "poll"
  /\ \/ /\ Cardinality(Approves(r)) > Threshold
        /\ Return(r, "approved", by_request[r])
     \/ /\ ~ (Cardinality(Approves(r)) > Threshold)
        /\ col' = [col EXCEPT ![r] = [@ EXCEPT !.pc = "check"]]
        /\ UNCHANGED counted
  /\ polledAt' = [polledAt EXCEPT ![r] = now]
  /\ UNCHANGED <<storeVars, now, settledAt>>

\* One listing of the store and the two answers it can give.
Poll(r) ==
  /\ col[r].pc = "poll"
  /\ \/ \E i \in Rejects(r) :
          /\ \A j \in Rejects(r) : i <= j
          /\ Return(r, "rejected", <<by_request[r][i]>>)
     \/ /\ Rejects(r) = {}
        /\ Cardinality(Approves(r)) >= Threshold
        /\ Return(r, "approved", by_request[r])
     \/ /\ ~ Settled(r)
        /\ col' = [col EXCEPT ![r] = [@ EXCEPT !.pc = "check"]]
        /\ UNCHANGED counted
  /\ polledAt' = [polledAt EXCEPT ![r] = now]
  /\ UNCHANGED <<storeVars, now, settledAt>>

\* The store's listing fails (a database error).
PollFails(r) ==
  /\ col[r].pc = "poll"
  /\ Return(r, "transport", <<>>)
  /\ UNCHANGED <<storeVars, now, settledAt, polledAt>>

\* Mutant: a remaining time of zero is slept, not answered.
CheckNoDeadline(r) ==
  /\ col[r].pc = "check"
  /\ LET remaining == IF now >= Deadline(r) THEN 0 ELSE Deadline(r) - now
         wait == IF remaining < Backoff THEN remaining ELSE Backoff
     IN  col' = [col EXCEPT ![r] = [@ EXCEPT !.pc = "sleep", !.wake = now + wait]]
  /\ UNCHANGED <<storeVars, now, counted, settledAt, polledAt>>

\* remaining = timeout - elapsed; zero answers Timeout, else sleep.
CheckDeadline(r) ==
  /\ col[r].pc = "check"
  /\ \/ /\ now >= Deadline(r)
        /\ Return(r, "timeout", <<>>)
     \/ /\ now < Deadline(r)
        /\ LET remaining == Deadline(r) - now
               wait == IF remaining < Backoff THEN remaining ELSE Backoff
           IN  col' = [col EXCEPT ![r] = [@ EXCEPT !.pc = "sleep", !.wake = now + wait]]
        /\ UNCHANGED counted
  /\ UNCHANGED <<storeVars, now, settledAt, polledAt>>

SleepOver(r) ==
  /\ col[r].pc = "sleep"
  /\ now >= col[r].wake
  /\ col' = [col EXCEPT ![r] = [@ EXCEPT !.pc = "poll"]]
  /\ UNCHANGED <<storeVars, now, counted, settledAt, polledAt>>

\* notify_waiters wakes the collectors that sleep at this moment and leaves no
\* permit for the ones that do not.
NotifyArrival ==
  /\ \E r \in Requests : col[r].pc = "sleep"
  /\ col' = [r \in Requests |->
               IF col[r].pc = "sleep" THEN [col[r] EXCEPT !.pc = "poll"] ELSE col[r]]
  /\ UNCHANGED <<storeVars, now, counted, settledAt, polledAt>>

Submission ==
  /\ StoreNext
  /\ settledAt' = [r \in Requests |->
       IF settledAt[r] = Never /\ Settled(r)' THEN now ELSE settledAt[r]]
  /\ UNCHANGED <<now, col, counted, polledAt>>

Tick ==
  /\ now < MaxTime
  /\ now' = now + 1
  /\ UNCHANGED <<storeVars, col, counted, settledAt, polledAt>>

Next ==
  \/ Submission
  \/ Tick
  \/ NotifyArrival
  \/ \E r \in Requests :
       StartCollect(r) \/ Poll(r) \/ PollFails(r) \/ CheckDeadline(r) \/ SleepOver(r)

Spec == Init /\ [][Next]_vars

\* tokio runs a task that is ready, and time passes.  Nobody is obliged to
\* submit an approval or to start a collection.
Fairness ==
  /\ WF_vars(Tick)
  /\ \A r \in Requests :
       WF_vars(Poll(r)) /\ WF_vars(CheckDeadline(r)) /\ WF_vars(SleepOver(r))
  /\ \A t \in Tasks : WF_vars(Submission /\ RecordIndex(t))

FairSpec == Spec /\ Fairness
-----------------------------------------------------------------------------
(* Properties *)

\* The store implements the ledger every ApprovalStore promises: one decision
\* per (request, approver), never replaced, listed at most once, whatever the
\* order in which concurrent record_approval calls take their two locks.
StoreIsLedger == Ledger!LedgerSpec

\* A collected quorum is a real one: an "approved" answer names at least
\* Threshold different approvers, each with a recorded Approve, and they are
\* exactly the listing as it stood, so no reject was listed before the answer.
CollectedQuorum ==
  \A r \in Requests : col[r].result = "approved" =>
    /\ Cardinality(Listed(counted[r])) >= Threshold
    /\ \A i \in DOMAIN counted[r] :
         /\ i \in DOMAIN by_request[r]
         /\ counted[r][i] = by_request[r][i]
         /\ inner[r][counted[r][i]] # NoApproval
         /\ inner[r][counted[r][i]].decision = "Approve"

\* The answer a submitter got stays true: Inserted means its own approval is
\* the recorded and listed one, AlreadyRecorded that the recorded one has its
\* approval id, DuplicateApproval that another one is recorded.
AnswersStayTrue ==
  \A t \in Tasks : task[t] # Idle =>
    LET row == inner[task[t].req][task[t].who] IN
    /\ task[t].outcome = "Inserted" =>
         row = task[t].appr /\ task[t].who \in Listed(by_request[task[t].req])
    /\ task[t].outcome = "AlreadyRecorded" => row # NoApproval /\ row.id = task[t].appr.id
    /\ task[t].outcome = "DuplicateApproval" => row # NoApproval /\ row.id # task[t].appr.id

\* Timeout is answered only once the deadline has passed, and only by a
\* collector whose last listing came before the request settled: a quorum or a
\* reject that was listed when the collector looked is never answered Timeout.
TimeoutIsHonest ==
  \A r \in Requests : col[r].result = "timeout" =>
    now >= Deadline(r) /\ settledAt[r] >= polledAt[r]

\* Every collection ends: whatever the submissions and the wake-ups do, a
\* started collect_approvals returns.
CollectorReturns ==
  \A r \in Requests : col[r].pc # "idle" ~> col[r].pc = "done"

\* An approval whose resubmission was answered AlreadyRecorded (a success) gets
\* listed, unless the task of the first submission was dropped between its two
\* critical sections.
AcknowledgedGetsListed ==
  \A t \in Tasks : task[t] # Idle /\ task[t].outcome = "AlreadyRecorded" ~>
    task[t] # Idle /\
    \/ task[t].who \in Listed(by_request[task[t].req])
    \/ \E u \in Tasks : /\ task[u].pc = "dropped"
                        /\ task[u].req = task[t].req
                        /\ task[u].who = task[t].who
=============================================================================
