---------------------------- MODULE QuorumProofs ----------------------------
(***************************************************************************)
(* Theorems about the approval store and the collector (modules            *)
(* MemoryApprovalStore and OrchestratingApprover), for any number of       *)
(* requests, approvers and concurrent submissions, and any threshold.      *)
(*                                                                         *)
(* StoreInv says what holds between the two critical sections of           *)
(* record_approval: the task in between owns its row, no other task is     *)
(* about to list that row, and it is not listed yet.                       *)
(***************************************************************************)
EXTENDS OrchestratingApprover, FiniteSetTheorems, TLAPS

\* Task t is between the two critical sections of record_approval.
Between(t) == task[t].pc = "index"

OwnsRow ==
  \A t \in Tasks : Between(t) =>
    /\ inner[task[t].req][task[t].who] = task[t].appr
    /\ task[t].who \notin Listed(by_request[task[t].req])

SoleOwner ==
  \A t, u \in Tasks :
    Between(t) /\ Between(u) /\ task[t].req = task[u].req /\ task[t].who = task[u].who
      => t = u

ListedHasRow ==
  \A r \in Requests : \A i \in DOMAIN by_request[r] : inner[r][by_request[r][i]] # NoApproval

ListedOnce ==
  \A r \in Requests : \A i, j \in DOMAIN by_request[r] :
    by_request[r][i] = by_request[r][j] => i = j

StoreInv == StoreTypeOK /\ OwnsRow /\ SoleOwner /\ ListedHasRow /\ ListedOnce

\* A task's state as a record, once it has called record_approval.
Running ==
  [pc : {"index", "done", "dropped"}, req : Requests, who : Approvers,
   appr : Approvals, outcome : Outcomes]

\* A task that has called record_approval carries its arguments.
LEMMA RunningTask ==
  ASSUME StoreTypeOK, NEW t \in Tasks, task[t] # Idle
  PROVE  task[t] \in Running
  BY DEF StoreTypeOK, TaskStates, Running

\* So does one between the two critical sections.
LEMMA BetweenRuns ==
  ASSUME StoreTypeOK, NEW t \in Tasks, Between(t)
  PROVE  /\ task[t] # Idle /\ task[t] \in Running
         /\ task[t].req \in Requests /\ task[t].who \in Approvers /\ task[t].appr \in Approvals
  <1>1. task[t] # Idle
    BY DEF Between, Idle
  <1> QED
    BY <1>1, RunningTask DEF Running

\* Appending a to a listing adds exactly a to what it names.
LEMMA AppendListed ==
  ASSUME NEW S, NEW s \in Seq(S), NEW a \in S
  PROVE  /\ Append(s, a) \in Seq(S)
         /\ DOMAIN Append(s, a) = DOMAIN s \cup {Len(s) + 1}
         /\ \A i \in DOMAIN s : Append(s, a)[i] = s[i]
         /\ Append(s, a)[Len(s) + 1] = a
         /\ Len(s) + 1 \notin DOMAIN s
         /\ Listed(Append(s, a)) = Listed(s) \cup {a}
  <1>1. /\ Append(s, a) \in Seq(S)
        /\ DOMAIN Append(s, a) = DOMAIN s \cup {Len(s) + 1}
        /\ \A i \in DOMAIN s : Append(s, a)[i] = s[i]
        /\ Append(s, a)[Len(s) + 1] = a
        /\ Len(s) + 1 \notin DOMAIN s
    OBVIOUS
  <1> QED
    BY <1>1 DEF Listed

\* The first critical section (check and insert under `inner`) keeps StoreInv.
LEMMA RecordInnerInv ==
  ASSUME StoreInv, NEW t \in Tasks, NEW r \in Requests, NEW a \in Approvers,
         NEW p \in Approvals, RecordInner(t, r, a, p)
  PROVE  StoreInv'
  <1>0. /\ inner \in [Requests -> [Approvers -> Approvals \cup {NoApproval}]]
        /\ by_request \in [Requests -> Seq(Approvers)]
        /\ task \in [Tasks -> TaskStates]
        /\ by_request' = by_request
    BY DEF StoreInv, StoreTypeOK, RecordInner
  <1>1. CASE /\ inner' = inner
             /\ \E o \in Outcomes : Submitted(t, r, a, p, "done", o)
    <2>1. PICK o \in Outcomes : Submitted(t, r, a, p, "done", o)
      BY <1>1
    <2>2. StoreTypeOK'
      BY <1>0, <1>1, <2>1 DEF StoreTypeOK, Submitted, TaskStates
    <2>3. \A u \in Tasks : Between(u)' => u # t /\ task'[u] = task[u] /\ Between(u)
      BY <1>0, <2>1 DEF Submitted, Between
    <2> QED
      BY <1>0, <1>1, <2>2, <2>3 DEF StoreInv, OwnsRow, SoleOwner, ListedHasRow, ListedOnce, Between
  <1>2. CASE /\ inner[r][a] = NoApproval
             /\ inner' = [inner EXCEPT ![r] = [@ EXCEPT ![a] = p]]
             /\ Submitted(t, r, a, p, "index", "none")
    <2>1. /\ task' = [task EXCEPT ![t] = [pc |-> "index", req |-> r, who |-> a, appr |-> p,
                                          outcome |-> "none"]]
          /\ "none" \in Outcomes
      BY <1>2 DEF Submitted, Outcomes
    <2>2. inner' \in [Requests -> [Approvers -> Approvals \cup {NoApproval}]]
      <3>1. [inner[r] EXCEPT ![a] = p] \in [Approvers -> Approvals \cup {NoApproval}]
        BY <1>0
      <3> QED
        BY <1>0, <1>2, <3>1
    <2>3. StoreTypeOK'
      BY <1>0, <2>1, <2>2 DEF StoreTypeOK, TaskStates
    <2>4. \A q \in Requests, b \in Approvers :
            inner'[q][b] = IF q = r /\ b = a THEN p ELSE inner[q][b]
      BY <1>0, <1>2
    <2>5. p # NoApproval
      BY NoApprovalAssumption
    <2>6. \A u \in Tasks \ {t} : task'[u] = task[u] /\ (Between(u)' <=> Between(u))
      BY <1>0, <2>1 DEF Between
    <2>7. \A u \in Tasks : Between(u) => ~ (task[u].req = r /\ task[u].who = a)
      BY <1>2, BetweenRuns, NoApprovalAssumption DEF StoreInv, OwnsRow
    <2>8. a \notin Listed(by_request[r])
      BY <1>2 DEF StoreInv, ListedHasRow, Listed
    <2>9. /\ Between(t)' /\ task'[t].req = r /\ task'[t].who = a /\ task'[t].appr = p
      BY <1>0, <2>1 DEF Between
    <2>10. OwnsRow'
      <3> SUFFICES ASSUME NEW u \in Tasks, Between(u)'
                   PROVE  /\ inner'[task'[u].req][task'[u].who] = task'[u].appr
                          /\ task'[u].who \notin Listed(by_request[task'[u].req])
        BY <1>0 DEF OwnsRow
      <3>1. CASE u = t
        BY <2>4, <2>8, <2>9, <3>1
      <3>2. CASE u # t
        BY <2>4, <2>6, <2>7, <3>2, BetweenRuns DEF StoreInv, OwnsRow
      <3> QED
        BY <3>1, <3>2
    <2>11. SoleOwner'
      BY <2>6, <2>7, <2>9 DEF StoreInv, SoleOwner
    <2>12. ListedHasRow'
      <3>1. \A q \in Requests : \A i \in DOMAIN by_request[q] : by_request[q][i] \in Approvers
        BY <1>0
      <3> QED
        BY <1>0, <2>4, <2>5, <3>1 DEF StoreInv, ListedHasRow
    <2>13. ListedOnce'
      BY <1>0 DEF StoreInv, ListedOnce
    <2> QED
      BY <2>3, <2>10, <2>11, <2>12, <2>13 DEF StoreInv
  <1> QED
    BY <1>1, <1>2 DEF RecordInner, Outcomes

\* The second critical section (push on the index) keeps StoreInv.
LEMMA RecordIndexInv ==
  ASSUME StoreInv, NEW t \in Tasks, RecordIndex(t)
  PROVE  StoreInv'
  <1> DEFINE r == task[t].req
             a == task[t].who
  <1>0. /\ inner \in [Requests -> [Approvers -> Approvals \cup {NoApproval}]]
        /\ by_request \in [Requests -> Seq(Approvers)]
        /\ task \in [Tasks -> TaskStates] /\ inner' = inner
    BY DEF StoreInv, StoreTypeOK, RecordIndex
  <1>1. Between(t) /\ task[t] \in Running /\ r \in Requests /\ a \in Approvers
    BY BetweenRuns DEF StoreInv, RecordIndex, Between
  <1>2. inner[r][a] # NoApproval /\ a \notin Listed(by_request[r])
    BY <1>1, BetweenRuns, NoApprovalAssumption DEF StoreInv, OwnsRow
  <1>3. by_request' = [by_request EXCEPT ![r] = Append(@, a)]
    BY DEF RecordIndex
  <1>4. [task[t] EXCEPT !.pc = "done", !.outcome = "Inserted"] \in Running
    BY <1>1 DEF Running, Outcomes
  <1>5. task' = [task EXCEPT ![t] = [task[t] EXCEPT !.pc = "done", !.outcome = "Inserted"]]
    BY DEF RecordIndex
  <1>6. StoreTypeOK'
    BY <1>0, <1>1, <1>3, <1>4, <1>5, AppendListed DEF StoreTypeOK, TaskStates, Running
  <1>7. \A u \in Tasks : Between(u)' => u # t /\ task'[u] = task[u] /\ Between(u)
    BY <1>0, <1>4, <1>5 DEF Between, Running
  <1>8. by_request[r] \in Seq(Approvers) /\ by_request'[r] = Append(by_request[r], a)
        /\ \A q \in Requests \ {r} : by_request'[q] = by_request[q]
    BY <1>0, <1>1, <1>3
  <1>9. /\ DOMAIN by_request'[r] = DOMAIN by_request[r] \cup {Len(by_request[r]) + 1}
        /\ \A i \in DOMAIN by_request[r] : by_request'[r][i] = by_request[r][i]
        /\ by_request'[r][Len(by_request[r]) + 1] = a
        /\ Listed(by_request'[r]) = Listed(by_request[r]) \cup {a}
    BY SMTT(60), <1>1, <1>8, AppendListed
  <1>10. OwnsRow'
    <2> SUFFICES ASSUME NEW u \in Tasks, Between(u)'
                 PROVE  /\ inner[task[u].req][task[u].who] = task[u].appr
                        /\ task[u].who \notin Listed(by_request'[task[u].req])
      BY <1>0, <1>7 DEF OwnsRow
    <2>1. /\ inner[task[u].req][task[u].who] = task[u].appr
          /\ task[u].who \notin Listed(by_request[task[u].req])
          /\ u # t /\ Between(u) /\ task[u].req \in Requests
      BY SMTT(60), <1>7, BetweenRuns DEF StoreInv, OwnsRow
    <2>2. CASE task[u].req = r
      <3>1. task[u].who # a
        BY SMTT(60), <1>1, <2>1, <2>2 DEF StoreInv, SoleOwner
      <3> QED
        BY <1>9, <2>1, <2>2, <3>1
    <2>3. CASE task[u].req # r
      BY <1>8, <2>1, <2>3
    <2> QED
      BY <2>1, <2>2, <2>3
  <1>11. SoleOwner'
    BY SMTT(60), <1>7 DEF StoreInv, SoleOwner
  <1>12. ListedHasRow'
    <2> SUFFICES ASSUME NEW q \in Requests, NEW i \in DOMAIN by_request'[q]
                 PROVE  inner[q][by_request'[q][i]] # NoApproval
      BY <1>0 DEF ListedHasRow
    <2>1. CASE q # r
      BY SMTT(60), <1>8, <2>1 DEF StoreInv, ListedHasRow
    <2>2. CASE q = r /\ i \in DOMAIN by_request[r]
      BY SMTT(60), <1>1, <1>9, <2>2 DEF StoreInv, ListedHasRow
    <2>3. CASE q = r /\ i = Len(by_request[r]) + 1
      BY <1>2, <1>9, <2>3
    <2> QED
      BY <1>9, <2>1, <2>2, <2>3
  <1>13. ListedOnce'
    <2>1. \A i \in DOMAIN by_request[r] : by_request[r][i] # a
      BY <1>2 DEF Listed
    <2> SUFFICES ASSUME NEW q \in Requests, NEW i \in DOMAIN by_request'[q],
                        NEW j \in DOMAIN by_request'[q],
                        by_request'[q][i] = by_request'[q][j]
                 PROVE  i = j
      BY DEF ListedOnce
    <2>2. CASE q # r
      BY <1>8, <2>2 DEF StoreInv, ListedOnce
    <2>3. CASE q = r
      <3>1. CASE i \in DOMAIN by_request[r] /\ j \in DOMAIN by_request[r]
        BY SMTT(60), <1>1, <1>9, <2>3, <3>1 DEF StoreInv, ListedOnce
      <3>2. CASE i \notin DOMAIN by_request[r] \/ j \notin DOMAIN by_request[r]
        BY <1>9, <2>1, <2>3, <3>2
      <3> QED
        BY SMTT(60), <3>1, <3>2
    <2> QED
      BY <2>2, <2>3
  <1> QED
    BY <1>6, <1>10, <1>11, <1>12, <1>13 DEF StoreInv

\* Dropping a task between its critical sections leaves its row, unlisted.
LEMMA DropTaskInv ==
  ASSUME StoreInv, NEW t \in Tasks, DropTask(t)
  PROVE  StoreInv'
  <1>0. /\ task \in [Tasks -> TaskStates] /\ inner' = inner /\ by_request' = by_request
        /\ task' = [task EXCEPT ![t] = [task[t] EXCEPT !.pc = "dropped"]]
    BY DEF StoreInv, StoreTypeOK, DropTask
  <1>1. task[t] \in Running
    BY BetweenRuns DEF StoreInv, DropTask, Between
  <1>2. [task[t] EXCEPT !.pc = "dropped"] \in Running
    BY <1>1 DEF Running
  <1>3. StoreTypeOK'
    BY <1>0, <1>2 DEF StoreInv, StoreTypeOK, TaskStates, Running
  <1>4. \A u \in Tasks : Between(u)' => u # t /\ task'[u] = task[u] /\ Between(u)
    BY <1>0, <1>1 DEF Between, Running
  <1> QED
    BY <1>0, <1>3, <1>4 DEF StoreInv, OwnsRow, SoleOwner, ListedHasRow, ListedOnce, Between

\* Nothing but record_approval touches the store.
LEMMA StoreFrame ==
  ASSUME StoreInv, UNCHANGED storeVars
  PROVE  StoreInv'
  BY DEF StoreInv, StoreTypeOK, OwnsRow, SoleOwner, ListedHasRow, ListedOnce, Between,
         storeVars, Listed

\* Every step of the store is one of the three actions above.
LEMMA StoreStep ==
  ASSUME StoreInv, [StoreNext]_storeVars
  PROVE  StoreInv'
  BY SMTT(60), RecordInnerInv, RecordIndexInv, DropTaskInv, StoreFrame DEF StoreNext

\* A step of the collector's specification is a step of the store or leaves it.
LEMMA StoreMoves ==
  ASSUME [Next]_vars
  PROVE  [StoreNext]_storeVars
  BY DEF Next, vars, Submission, Tick, NotifyArrival, StartCollect, Poll, PollFails,
         CheckDeadline, SleepOver, storeVars

\* The empty store satisfies the invariant.
LEMMA StoreInitInv ==
  ASSUME StoreInit
  PROVE  StoreInv
  <1>1. \A t \in Tasks : ~ Between(t)
    BY DEF StoreInit, Idle, Between
  <1>2. StoreTypeOK
    BY DEF StoreInit, StoreTypeOK, TaskStates
  <1> QED
    BY <1>1, <1>2 DEF StoreInv, StoreInit, OwnsRow, SoleOwner, ListedHasRow, ListedOnce

\* StoreInv holds whatever the submissions and the collectors do.
THEOREM StoreInvariance == Spec => []StoreInv
  <1>1. Init => StoreInv
    BY StoreInitInv DEF Init
  <1>2. StoreInv /\ [Next]_vars => StoreInv'
    BY StoreMoves, StoreStep
  <1> QED
    BY <1>1, <1>2, PTL DEF Spec

\* From a state of the invariant each store step is a ledger step or a stutter:
\* inserting a row records it, pushing the index publishes it.
LEMMA StoreStepIsLedgerStep ==
  ASSUME StoreInv, [StoreNext]_storeVars
  PROVE  [Ledger!LedgerNext]_<<inner, by_request>>
  <1>1. ASSUME NEW t \in Tasks, NEW r \in Requests, NEW a \in Approvers, NEW p \in Approvals,
               RecordInner(t, r, a, p)
        PROVE  Ledger!Record(r, a, p) \/ UNCHANGED <<inner, by_request>>
    BY SMTT(60), <1>1 DEF RecordInner, Ledger!Record
  <1>2. ASSUME NEW t \in Tasks, RecordIndex(t)
        PROVE  /\ task[t].req \in Requests /\ task[t].who \in Approvers
               /\ Ledger!Publish(task[t].req, task[t].who)
    <2>1. Between(t)
      BY <1>2 DEF RecordIndex, Between
    <2>2. /\ inner[task[t].req][task[t].who] # NoApproval
          /\ task[t].who \notin Listed(by_request[task[t].req])
          /\ task[t].req \in Requests /\ task[t].who \in Approvers
      BY <2>1, BetweenRuns, NoApprovalAssumption DEF StoreInv, OwnsRow
    <2> QED
      BY <1>2, <2>2 DEF RecordIndex, Ledger!Publish, Ledger!Listed, Listed
  <1>3. ASSUME NEW t \in Tasks, DropTask(t)
        PROVE  UNCHANGED <<inner, by_request>>
    BY <1>3 DEF DropTask
  <1>4. CASE UNCHANGED storeVars
    BY <1>4 DEF storeVars
  <1> QED
    BY <1>1, <1>2, <1>3, <1>4 DEF StoreNext, Ledger!LedgerNext, Ledger!Approvals, Approvals,
       Ledger!Decisions, Decisions

\* The in-memory store implements the ledger every ApprovalStore promises, for
\* any interleaving of any number of record_approval calls, dropped ones
\* included (memory.rs record_approval).
THEOREM StoreImplementsLedger == Spec => StoreIsLedger
  <1>1. Init => Ledger!LedgerInit
    BY DEF Init, StoreInit, Ledger!LedgerInit
  <1>2. StoreInv /\ [Next]_vars => [Ledger!LedgerNext]_<<inner, by_request>>
    BY StoreMoves, StoreStepIsLedgerStep
  <1>3. StoreInv /\ [Next]_vars => [Ledger!LedgerNext]_(Ledger!ledgerVars)
    BY <1>2 DEF Ledger!ledgerVars
  <1> QED
    BY <1>1, <1>3, StoreInvariance, PTL DEF Spec, StoreIsLedger, Ledger!LedgerSpec
-----------------------------------------------------------------------------
\* Rows are never replaced and listings only grow at their end: the two facts
\* about a store step the collector's answers rest on.
Kept ==
  /\ \A r \in Requests, a \in Approvers :
       inner[r][a] # NoApproval => inner'[r][a] = inner[r][a]
  /\ \A r \in Requests : \A i \in DOMAIN by_request[r] :
       i \in DOMAIN by_request'[r] /\ by_request'[r][i] = by_request[r][i]

\* Every store step keeps the rows and the listings it finds.
LEMMA StoreKeeps ==
  ASSUME StoreInv, [StoreNext]_storeVars
  PROVE  Kept
  <1>0. /\ inner \in [Requests -> [Approvers -> Approvals \cup {NoApproval}]]
        /\ by_request \in [Requests -> Seq(Approvers)]
    BY DEF StoreInv, StoreTypeOK
  <1>1. ASSUME NEW t \in Tasks, NEW r \in Requests, NEW a \in Approvers, NEW p \in Approvals,
               RecordInner(t, r, a, p)
        PROVE  Kept
    BY ZenonT(60), <1>0, <1>1 DEF RecordInner, Kept
  <1>2. ASSUME NEW t \in Tasks, RecordIndex(t)
        PROVE  Kept
    <2>1. task[t].req \in Requests /\ task[t].who \in Approvers
      BY <1>2, BetweenRuns DEF RecordIndex, Between, StoreInv
    <2> DEFINE s == by_request[task[t].req]
    <2>2. /\ DOMAIN Append(s, task[t].who) = DOMAIN s \cup {Len(s) + 1}
          /\ \A i \in DOMAIN s : Append(s, task[t].who)[i] = s[i]
      BY <1>0, <2>1, AppendListed
    <2> QED
      BY <1>0, <1>2, <2>1, <2>2 DEF RecordIndex, Kept
  <1>3. ASSUME NEW t \in Tasks, DropTask(t)
        PROVE  Kept
    BY <1>3 DEF DropTask, Kept
  <1>4. CASE UNCHANGED storeVars
    BY <1>4 DEF storeVars, Kept
  <1> QED
    BY <1>1, <1>2, <1>3, <1>4 DEF StoreNext
-----------------------------------------------------------------------------
\* The part of TypeOK that is not about the store.
CollectTypeOK ==
  /\ now \in 0 .. MaxTime
  /\ col \in [Requests -> ColStates]
  /\ counted \in [Requests -> Seq(Approvers)]
  /\ settledAt \in [Requests -> 0 .. Never]
  /\ polledAt \in [Requests -> 0 .. MaxTime]

\* Answering leaves the collector's state well typed.
LEMMA ReturnType ==
  ASSUME CollectTypeOK, NEW r \in Requests, NEW result \in Results,
         NEW s \in Seq(Approvers), Return(r, result, s)
  PROVE  col' \in [Requests -> ColStates] /\ counted' \in [Requests -> Seq(Approvers)]
  <1>1. [col[r] EXCEPT !.pc = "done", !.result = result] \in ColStates
    BY ZenonT(60) DEF CollectTypeOK, ColStates
  <1> QED
    BY <1>1 DEF CollectTypeOK, Return

\* Each step of the collector, the clock and the submissions keeps the types.
LEMMA CollectTypeStep ==
  ASSUME StoreTypeOK, CollectTypeOK, [Next]_vars
  PROVE  CollectTypeOK'
  <1>0. now \in Nat /\ MaxTime \in Nat /\ Timeout \in Nat /\ Backoff \in Nat
    BY CollectAssumption DEF CollectTypeOK
  <1>1. CASE Submission
    BY <1>0, <1>1 DEF Submission, CollectTypeOK, Never
  <1>2. CASE Tick
    BY <1>0, <1>2 DEF Tick, CollectTypeOK
  <1>3. CASE NotifyArrival
    BY ZenonT(60), <1>3 DEF NotifyArrival, CollectTypeOK, ColStates
  <1>4. ASSUME NEW r \in Requests, StartCollect(r)
        PROVE  CollectTypeOK'
    <2>1. [col[r] EXCEPT !.pc = "poll", !.started = now] \in ColStates
      BY DEF CollectTypeOK, ColStates
    <2> QED
      BY <1>4, <2>1 DEF StartCollect, CollectTypeOK
  <1>5. ASSUME NEW r \in Requests, Poll(r)
        PROVE  CollectTypeOK'
    <2>1. ASSUME NEW i \in Rejects(r), Return(r, "rejected", <<by_request[r][i]>>)
          PROVE  col' \in [Requests -> ColStates] /\ counted' \in [Requests -> Seq(Approvers)]
      <3>1. <<by_request[r][i]>> \in Seq(Approvers)
        BY DEF StoreTypeOK, Rejects, ListForRequest
      <3> QED
        BY <2>1, <3>1, ReturnType DEF Results
    <2>2. ASSUME Return(r, "approved", by_request[r])
          PROVE  col' \in [Requests -> ColStates] /\ counted' \in [Requests -> Seq(Approvers)]
      BY <2>2, ReturnType DEF StoreTypeOK, Results
    <2>3. ASSUME col' = [col EXCEPT ![r] = [col[r] EXCEPT !.pc = "check"]], counted' = counted
          PROVE  col' \in [Requests -> ColStates] /\ counted' \in [Requests -> Seq(Approvers)]
      BY ZenonT(60), <2>3 DEF CollectTypeOK, ColStates
    <2> QED
      BY <1>5, <2>1, <2>2, <2>3 DEF Poll, CollectTypeOK
  <1>6. ASSUME NEW r \in Requests, PollFails(r)
        PROVE  CollectTypeOK'
    <2>1. "transport" \in Results /\ <<>> \in Seq(Approvers)
      BY DEF Results
    <2>2. col' \in [Requests -> ColStates] /\ counted' \in [Requests -> Seq(Approvers)]
      BY <1>6, <2>1, ReturnType DEF PollFails
    <2> QED
      BY <1>6, <2>2 DEF PollFails, CollectTypeOK
  <1>7. ASSUME NEW r \in Requests, CheckDeadline(r)
        PROVE  CollectTypeOK'
    <2>1. CASE Return(r, "timeout", <<>>)
      <3>1. "timeout" \in Results /\ <<>> \in Seq(Approvers)
        BY DEF Results
      <3>2. col' \in [Requests -> ColStates] /\ counted' \in [Requests -> Seq(Approvers)]
        BY <2>1, <3>1, ReturnType
      <3> QED
        BY <1>7, <3>2 DEF CheckDeadline, CollectTypeOK
    <2>2. CASE now < Deadline(r) /\ ~ Return(r, "timeout", <<>>)
      <3>1. PICK w \in Nat : col' = [col EXCEPT ![r] = [col[r] EXCEPT !.pc = "sleep", !.wake = w]]
        <4>1. Deadline(r) \in Nat
          BY <1>0 DEF Deadline, CollectTypeOK, ColStates
        <4> DEFINE wait == IF Deadline(r) - now < Backoff THEN Deadline(r) - now ELSE Backoff
        <4>2. now + wait \in Nat
          BY <1>0, <2>2, <4>1
        <4>3. col' = [col EXCEPT ![r] = [col[r] EXCEPT !.pc = "sleep", !.wake = now + wait]]
          BY <1>7, <2>2 DEF CheckDeadline
        <4> QED
          BY <4>2, <4>3
      <3>2. [col[r] EXCEPT !.pc = "sleep", !.wake = w] \in ColStates
        BY DEF CollectTypeOK, ColStates
      <3> QED
        BY <1>7, <2>2, <3>1, <3>2 DEF CheckDeadline, CollectTypeOK
    <2> QED
      BY <1>7, <2>1, <2>2 DEF CheckDeadline
  <1>8. ASSUME NEW r \in Requests, SleepOver(r)
        PROVE  CollectTypeOK'
    BY ZenonT(60), <1>8 DEF SleepOver, CollectTypeOK, ColStates
  <1>9. CASE UNCHANGED vars
    BY <1>9 DEF vars, collectVars, CollectTypeOK
  <1> QED
    BY <1>1, <1>2, <1>3, <1>4, <1>5, <1>6, <1>7, <1>8, <1>9 DEF Next

\* The collector and its store stay well typed: clocks within the bound, one
\* collector state per request, listings that name registered approvers.
THEOREM QuorumTypeCorrect == Spec => []TypeOK
  <1>1. Init => CollectTypeOK
    BY CollectAssumption DEF Init, CollectTypeOK, ColStates, Results, Never
  <1>2. StoreInv /\ CollectTypeOK /\ [Next]_vars => CollectTypeOK'
    BY CollectTypeStep DEF StoreInv
  <1>3. StoreInv /\ CollectTypeOK => TypeOK
    BY SMTT(60) DEF StoreInv, CollectTypeOK, TypeOK
  <1> QED
    BY <1>1, <1>2, <1>3, StoreInvariance, PTL DEF Spec
-----------------------------------------------------------------------------
\* What a finished task may say of the store, and how it survives store steps.
AnswerTrue(t) ==
  LET row == inner[task[t].req][task[t].who] IN
  /\ task[t].outcome = "Inserted" =>
       row = task[t].appr /\ task[t].who \in Listed(by_request[task[t].req])
  /\ task[t].outcome = "AlreadyRecorded" => row # NoApproval /\ row.id = task[t].appr.id
  /\ task[t].outcome = "DuplicateApproval" => row # NoApproval /\ row.id # task[t].appr.id

\* A task that does not move keeps a true answer while the store moves on.
LEMMA AnswerKept ==
  ASSUME StoreInv, Kept, NEW t \in Tasks, task[t] # Idle, task'[t] = task[t], AnswerTrue(t)
  PROVE  AnswerTrue(t)'
  <1>1. task[t].req \in Requests /\ task[t].who \in Approvers /\ task[t].appr # NoApproval
    BY RunningTask, NoApprovalAssumption DEF StoreInv, Running
  <1>2. inner[task[t].req][task[t].who] # NoApproval =>
          inner'[task[t].req][task[t].who] = inner[task[t].req][task[t].who]
    BY <1>1 DEF Kept
  <1>3. task[t].who \in Listed(by_request[task[t].req]) =>
          task[t].who \in Listed(by_request'[task[t].req])
    BY <1>1 DEF Kept, Listed
  <1> QED
    BY <1>1, <1>2, <1>3 DEF AnswerTrue

\* The answer each store step gives is true when it is given.
LEMMA AnswerGiven ==
  ASSUME StoreInv, AnswersStayTrue, [StoreNext]_storeVars
  PROVE  AnswersStayTrue'
  <1>0. /\ Kept /\ task \in [Tasks -> TaskStates]
        /\ inner \in [Requests -> [Approvers -> Approvals \cup {NoApproval}]]
        /\ by_request \in [Requests -> Seq(Approvers)]
    BY SMTT(60), StoreKeeps DEF StoreInv, StoreTypeOK
  <1>1. \A t \in Tasks : task[t] # Idle => AnswerTrue(t)
    BY SMTT(60) DEF AnswersStayTrue, AnswerTrue
  <1> SUFFICES ASSUME NEW u \in Tasks, task'[u] # Idle
               PROVE  AnswerTrue(u)'
    BY DEF AnswersStayTrue, AnswerTrue
  <1>2. CASE task'[u] = task[u]
    BY SMTT(60), <1>0, <1>1, <1>2, AnswerKept
  <1>3. ASSUME NEW r \in Requests, NEW a \in Approvers, NEW p \in Approvals,
               RecordInner(u, r, a, p)
        PROVE  AnswerTrue(u)'
    BY SMTT(60), <1>0, <1>3 DEF RecordInner, Submitted, AnswerTrue
  <1>4. ASSUME RecordIndex(u)
        PROVE  AnswerTrue(u)'
    <2>1. /\ Between(u) /\ task[u] \in Running
          /\ task[u].req \in Requests /\ task[u].who \in Approvers
      BY SMTT(60), <1>4, BetweenRuns DEF RecordIndex, Between, StoreInv
    <2>2. inner[task[u].req][task[u].who] = task[u].appr
      BY <2>1 DEF StoreInv, OwnsRow
    <2>3. /\ task'[u].req = task[u].req /\ task'[u].who = task[u].who
          /\ task'[u].appr = task[u].appr /\ task'[u].outcome = "Inserted"
      BY SMTT(60), <1>0, <1>4, <2>1 DEF RecordIndex, Running
    <2>4. task[u].who \in Listed(by_request'[task[u].req])
      <3>1. by_request'[task[u].req] = Append(by_request[task[u].req], task[u].who)
        BY SMTT(60), <1>0, <1>4, <2>1 DEF RecordIndex
      <3> QED
        BY <1>0, <2>1, <3>1, AppendListed
    <2> QED
      BY <1>4, <2>2, <2>3, <2>4 DEF RecordIndex, AnswerTrue
  <1>5. ASSUME DropTask(u)
        PROVE  AnswerTrue(u)'
    <2>1. task[u] \in Running /\ task[u] # Idle /\ AnswerTrue(u)
      BY <1>1, <1>5, BetweenRuns DEF DropTask, Between, StoreInv
    <2>2. /\ task'[u].req = task[u].req /\ task'[u].who = task[u].who
          /\ task'[u].appr = task[u].appr /\ task'[u].outcome = task[u].outcome
      BY SMTT(60), <1>0, <1>5, <2>1 DEF DropTask, Running
    <2> QED
      BY <1>5, <2>1, <2>2 DEF DropTask, AnswerTrue
  <1>6. ASSUME NEW t \in Tasks \ {u},
               \/ \E r \in Requests, a \in Approvers, p \in Approvals : RecordInner(t, r, a, p)
               \/ RecordIndex(t)
               \/ DropTask(t)
        PROVE  task'[u] = task[u]
    BY <1>0, <1>6 DEF RecordInner, Submitted, RecordIndex, DropTask
  <1>7. CASE UNCHANGED storeVars
    BY <1>2, <1>7 DEF storeVars
  <1> QED
    BY <1>2, <1>3, <1>4, <1>5, <1>6, <1>7 DEF StoreNext

\* What record_approval answered a submitter stays true of the store for ever
\* (memory.rs record_approval; store/mod.rs RecordOutcome).
THEOREM SubmittersAreToldTheTruth == Spec => []AnswersStayTrue
  <1>1. Init => AnswersStayTrue
    BY DEF Init, StoreInit, AnswersStayTrue
  <1>2. StoreInv /\ AnswersStayTrue /\ [Next]_vars => AnswersStayTrue'
    BY StoreMoves, AnswerGiven
  <1> QED
    BY <1>1, <1>2, StoreInvariance, PTL DEF Spec
-----------------------------------------------------------------------------
\* A listing without repetitions names as many approvers as it has entries, so
\* counting approvals counts different approvers.
LEMMA CountIsApprovers ==
  ASSUME StoreInv, NEW r \in Requests,
         NEW S \in SUBSET (DOMAIN by_request[r])
  PROVE  Cardinality(S) <= Cardinality(Listed(by_request[r]))
  <1> DEFINE D == DOMAIN by_request[r]
             L == Listed(by_request[r])
  <1>1. by_request[r] \in Seq(Approvers) /\ D = 1 .. Len(by_request[r])
    BY DEF StoreInv, StoreTypeOK
  <1>2. IsFiniteSet(D) /\ Cardinality(S) <= Cardinality(D)
    BY <1>1, FS_Interval, FS_Subset
  <1>3. by_request[r] \in Bijection(D, L)
    <2>1. by_request[r] \in [D -> L] /\ \A y \in L : \E x \in D : by_request[r][x] = y
      BY <1>1 DEF Listed
    <2>2. \A i, j \in D : by_request[r][i] = by_request[r][j] => i = j
      BY DEF StoreInv, ListedOnce
    <2> QED
      BY <2>1, <2>2 DEF Bijection, Injection, Surjection, IsInjective
  <1>4. Cardinality(L) = Cardinality(D)
    BY SMTT(60), <1>2, <1>3, FS_Bijection DEF ExistsBijection
  <1> QED
    BY <1>2, <1>4

\* One request's half of CollectedQuorum.
QuorumOf(r) ==
  /\ Cardinality(Listed(counted[r])) >= Threshold
  /\ \A i \in DOMAIN counted[r] :
       /\ i \in DOMAIN by_request[r]
       /\ counted[r][i] = by_request[r][i]
       /\ inner[r][counted[r][i]] # NoApproval
       /\ inner[r][counted[r][i]].decision = "Approve"

\* The approved answer of a poll names Threshold different approvers.
LEMMA PollCollectsQuorum ==
  ASSUME StoreInv, NEW r \in Requests, Rejects(r) = {},
         Cardinality(Approves(r)) >= Threshold,
         counted'[r] = by_request[r], UNCHANGED storeVars
  PROVE  QuorumOf(r)'
  <1>1. /\ by_request[r] \in Seq(Approvers)
        /\ inner \in [Requests -> [Approvers -> Approvals \cup {NoApproval}]]
    BY DEF StoreInv, StoreTypeOK
  <1>2. Cardinality(Listed(by_request[r])) >= Threshold
    <2>1. /\ Cardinality(Approves(r)) \in Nat
          /\ Cardinality(Listed(by_request[r])) \in Nat
      <3>1. DOMAIN by_request[r] = 1 .. Len(by_request[r]) /\ Len(by_request[r]) \in Nat
        BY <1>1
      <3>2. IsFiniteSet(DOMAIN by_request[r])
        BY <3>1, FS_Interval
      <3>3. IsFiniteSet(Listed(by_request[r]))
        <4>1. by_request[r] \in Surjection(DOMAIN by_request[r], Listed(by_request[r]))
          BY <1>1 DEF Surjection, Listed
        <4> QED
          BY <3>2, <4>1, FS_Surjection
      <3>4. IsFiniteSet(Approves(r))
        BY <3>2, FS_Subset DEF Approves, ListForRequest
      <3> QED
        BY <3>3, <3>4, FS_CardinalityType
    <2>2. Cardinality(Approves(r)) <= Cardinality(Listed(by_request[r]))
      BY SMTT(60), CountIsApprovers DEF Approves, ListForRequest
    <2> QED
      BY <2>1, <2>2, CollectAssumption
  <1>3. \A i \in DOMAIN by_request[r] :
          /\ inner[r][by_request[r][i]] # NoApproval
          /\ inner[r][by_request[r][i]].decision = "Approve"
    <2> TAKE i \in DOMAIN by_request[r]
    <2>1. inner[r][by_request[r][i]] # NoApproval
      BY DEF StoreInv, ListedHasRow
    <2>2. inner[r][by_request[r][i]] \in Approvals
      BY <1>1, <2>1
    <2>3. i \notin Rejects(r)
      OBVIOUS
    <2> QED
      BY <2>1, <2>2, <2>3 DEF Rejects, ListForRequest, DecisionAt, Approvals, Decisions
  <1> QED
    BY <1>2, <1>3 DEF QuorumOf, storeVars

\* A collected quorum survives every later step of the store.
LEMMA QuorumKept ==
  ASSUME StoreInv, Kept, NEW r \in Requests, QuorumOf(r), counted'[r] = counted[r]
  PROVE  QuorumOf(r)'
  <1>1. by_request[r] \in Seq(Approvers)
    BY DEF StoreInv, StoreTypeOK
  <1>2. \A i \in DOMAIN counted[r] : counted[r][i] \in Approvers
    BY <1>1 DEF QuorumOf
  <1> QED
    BY <1>2 DEF QuorumOf, Kept

\* Only Poll answers "approved".
LEMMA QuorumStep ==
  ASSUME StoreInv, CollectTypeOK, CollectedQuorum, [Next]_vars
  PROVE  CollectedQuorum'
  <1>0. /\ Kept /\ col \in [Requests -> ColStates] /\ DOMAIN counted = Requests
    BY SMTT(60), StoreMoves, StoreKeeps DEF CollectTypeOK
  <1> SUFFICES ASSUME NEW q \in Requests, col'[q].result = "approved"
               PROVE  QuorumOf(q)'
    BY DEF CollectedQuorum, QuorumOf
  <1>1. ASSUME col'[q].result = col[q].result, counted'[q] = counted[q]
        PROVE  QuorumOf(q)'
    <2>1. QuorumOf(q)
      BY <1>1 DEF CollectedQuorum, QuorumOf
    <2> QED
      BY SMTT(60), <1>0, <1>1, <2>1, QuorumKept
  <1>2. CASE Submission \/ Tick \/ UNCHANGED vars
    BY <1>1, <1>2 DEF Submission, Tick, vars, collectVars
  <1>3. CASE NotifyArrival
    BY <1>0, <1>1, <1>3 DEF NotifyArrival, ColStates
  <1>4. ASSUME NEW r \in Requests, NEW result, NEW s, Return(r, result, s), result # "approved"
        PROVE  QuorumOf(q)'
    BY <1>0, <1>1, <1>4 DEF Return, ColStates
  <1>5. ASSUME NEW r \in Requests, StartCollect(r) \/ SleepOver(r)
        PROVE  QuorumOf(q)'
    <2>1. PICK c \in {[col[r] EXCEPT !.pc = "poll", !.started = now],
                      [col[r] EXCEPT !.pc = "poll"]} :
            col' = [col EXCEPT ![r] = c]
      BY <1>5 DEF StartCollect, SleepOver
    <2>2. c.result = col[r].result
      BY ZenonT(60), <1>0 DEF ColStates
    <2>3. counted' = counted
      BY <1>5 DEF StartCollect, SleepOver
    <2> QED
      BY <1>0, <1>1, <2>1, <2>2, <2>3
  <1>6. ASSUME NEW r \in Requests, Poll(r)
        PROVE  QuorumOf(q)'
    <2>1. ASSUME NEW i \in Rejects(r), Return(r, "rejected", <<by_request[r][i]>>)
          PROVE  QuorumOf(q)'
      BY <1>4, <2>1
    <2>2. ASSUME Rejects(r) = {}, Cardinality(Approves(r)) >= Threshold,
                 Return(r, "approved", by_request[r])
          PROVE  QuorumOf(q)'
      <3>1. CASE q = r
        BY <1>0, <1>6, <2>2, <3>1, PollCollectsQuorum DEF Return, Poll
      <3>2. CASE q # r
        BY <1>0, <1>1, <2>2, <3>2 DEF Return
      <3> QED
        BY <3>1, <3>2
    <2>3. ASSUME col' = [col EXCEPT ![r] = [col[r] EXCEPT !.pc = "check"]], counted' = counted
          PROVE  QuorumOf(q)'
      BY SMTT(60), <1>0, <1>1, <2>3 DEF ColStates
    <2> QED
      BY ZenonT(60), <1>6, <2>1, <2>2, <2>3 DEF Poll
  <1>7. ASSUME NEW r \in Requests, PollFails(r) \/ CheckDeadline(r)
        PROVE  QuorumOf(q)'
    <2>1. CASE \E result \in {"transport", "timeout"} : Return(r, result, <<>>)
      BY <1>4, <2>1
    <2>2. CASE \E w : /\ col' = [col EXCEPT ![r] = [col[r] EXCEPT !.pc = "sleep", !.wake = w]]
                      /\ counted' = counted
      BY <1>0, <1>1, <2>2 DEF ColStates
    <2> QED
      BY ZenonT(60), <1>7, <2>1, <2>2 DEF PollFails, CheckDeadline
  <1> QED
    BY <1>2, <1>3, <1>5, <1>6, <1>7 DEF Next

\* An approved collection is a real quorum, for every threshold, every set of
\* approvers and any race of submissions (orchestrating.rs collect_approvals).
THEOREM CollectedQuorumIsReal == Spec => []CollectedQuorum
  <1>1. Init => CollectTypeOK /\ CollectedQuorum
    <2> SUFFICES ASSUME Init PROVE CollectTypeOK /\ CollectedQuorum
      OBVIOUS
    <2>1. CollectTypeOK
      BY CollectAssumption DEF Init, CollectTypeOK, ColStates, Results, Never
    <2>2. \A r \in Requests : col[r].result # "approved"
      BY DEF Init
    <2> QED
      BY <2>1, <2>2 DEF CollectedQuorum
  <1>2. StoreInv /\ CollectTypeOK /\ CollectedQuorum /\ [Next]_vars
          => CollectTypeOK' /\ CollectedQuorum'
    BY CollectTypeStep, QuorumStep DEF StoreInv
  <1> QED
    BY <1>1, <1>2, StoreInvariance, PTL DEF Spec
-----------------------------------------------------------------------------
\* settledAt tells when the listing settled the request, and a collector that
\* has looked and not answered looked before that.
Honest(r) ==
  /\ polledAt[r] <= now
  /\ settledAt[r] # Never => Settled(r)
  /\ col[r].pc = "check" => settledAt[r] >= polledAt[r]
  /\ col[r].result = "timeout" =>
       col[r].pc = "done" /\ now >= Deadline(r) /\ settledAt[r] >= polledAt[r]

HonestInv == \A r \in Requests : Honest(r)

\* Any part of a listing is finite.
LEMMA ListingIsFinite ==
  ASSUME NEW S, NEW s \in Seq(S), NEW T, T \subseteq DOMAIN s
  PROVE  IsFiniteSet(T) /\ Cardinality(T) \in Nat
  <1>1. DOMAIN s = 1 .. Len(s) /\ Len(s) \in Nat
    OBVIOUS
  <1>2. IsFiniteSet(DOMAIN s)
    BY <1>1, FS_Interval
  <1> QED
    BY <1>2, FS_Subset, FS_CardinalityType

\* A request the listing has settled stays settled: listings grow and rows are
\* never replaced.
LEMMA SettledStays ==
  ASSUME StoreInv, StoreTypeOK', Kept, NEW r \in Requests, Settled(r)
  PROVE  Settled(r)'
  <1>0. by_request[r] \in Seq(Approvers) /\ by_request'[r] \in Seq(Approvers)
    BY DEF StoreInv, StoreTypeOK
  <1>1. ASSUME NEW i \in ListForRequest(r)
        PROVE  i \in ListForRequest(r)' /\ DecisionAt(r, i)' = DecisionAt(r, i)
    <2>1. by_request[r][i] \in Approvers
      BY <1>0, <1>1 DEF ListForRequest
    <2> QED
      BY <1>1, <2>1 DEF Kept, ListForRequest, DecisionAt
  <1>2. Rejects(r) \subseteq Rejects(r)' /\ Approves(r) \subseteq Approves(r)'
    BY <1>1 DEF Rejects, Approves
  <1>3. IsFiniteSet(Approves(r)') /\ Cardinality(Approves(r)') \in Nat
    BY <1>0, ListingIsFinite DEF Approves, ListForRequest
  <1>4. Cardinality(Approves(r)) \in Nat
    BY <1>0, ListingIsFinite DEF Approves, ListForRequest
  <1>5. Cardinality(Approves(r)) <= Cardinality(Approves(r)')
    BY <1>2, <1>3, FS_Subset
  <1> QED
    BY <1>2, <1>3, <1>4, <1>5, CollectAssumption DEF Settled

\* Each step keeps HonestInv: a poll that does not answer finds the request
\* unsettled, and a submission that settles it comes no earlier than that poll.
LEMMA HonestStep ==
  ASSUME StoreInv, StoreInv', CollectTypeOK, HonestInv, [Next]_vars
  PROVE  HonestInv'
  <1>0. /\ now \in Nat /\ MaxTime \in Nat /\ Timeout \in Nat /\ Never \in Nat
        /\ col \in [Requests -> ColStates]
        /\ settledAt \in [Requests -> 0 .. Never] /\ polledAt \in [Requests -> 0 .. MaxTime]
        /\ now <= MaxTime /\ Never > MaxTime
    BY CollectAssumption DEF CollectTypeOK, Never
  <1> SUFFICES ASSUME NEW q \in Requests
               PROVE  Honest(q)'
    BY DEF HonestInv
  <1>a. Honest(q)
    BY DEF HonestInv
  <1>b. col[q] \in ColStates /\ col[q].started \in Nat
    BY <1>0 DEF ColStates
  <1>c. Settled(q) => Settled(q)'
    BY SMTT(60), StoreMoves, StoreKeeps, SettledStays DEF StoreInv
  <1>1. CASE Submission
    <2>1. settledAt'[q] = IF settledAt[q] = Never /\ Settled(q)' THEN now ELSE settledAt[q]
      BY <1>1 DEF Submission
    <2>2. UNCHANGED <<now, col, polledAt>>
      BY SMTT(60), <1>1 DEF Submission
    <2>3. settledAt'[q] # Never => Settled(q)'
      BY <1>a, <1>c, <2>1 DEF Honest
    <2>4. settledAt[q] \in Nat /\ polledAt[q] \in Nat
      BY <1>0
    <2>5. settledAt'[q] >= polledAt[q] \/ settledAt'[q] = settledAt[q]
      BY SMTT(60), <1>a, <2>1, <2>4 DEF Honest
    <2> QED
      BY <1>a, <2>2, <2>3, <2>5 DEF Honest, Deadline
  <1>2. CASE Tick
    BY SMTT(60), <1>0, <1>a, <1>b, <1>c, <1>2 DEF Tick, Honest, Deadline
  <1>3. ASSUME UNCHANGED <<now, settledAt, polledAt>>,
               col'[q].pc # "check",
               col'[q].result = "timeout" => col'[q] = col[q]
        PROVE  Honest(q)'
    BY SMTT(60), <1>a, <1>c, <1>3 DEF Honest, Deadline
  <1>4. ASSUME UNCHANGED <<now, settledAt, polledAt>>, col'[q] = col[q]
        PROVE  Honest(q)'
    BY <1>a, <1>c, <1>4 DEF Honest, Deadline
  <1>5. CASE UNCHANGED vars
    BY <1>4, <1>5 DEF vars, collectVars
  <1>6. CASE NotifyArrival
    <2>1. UNCHANGED <<now, settledAt, polledAt>>
      BY <1>6 DEF NotifyArrival
    <2>2. col'[q] = IF col[q].pc = "sleep" THEN [col[q] EXCEPT !.pc = "poll"] ELSE col[q]
      BY SMTT(60), <1>6 DEF NotifyArrival
    <2>3. CASE col[q].pc = "sleep"
      <3>1. col'[q].pc = "poll" /\ col'[q].result = col[q].result
        BY <1>b, <2>2, <2>3 DEF ColStates
      <3> QED
        BY <1>3, <1>a, <2>1, <2>3, <3>1 DEF Honest
    <2> QED
      BY <1>4, <2>1, <2>2, <2>3
  <1>7. ASSUME NEW r \in Requests, StartCollect(r) \/ SleepOver(r)
        PROVE  Honest(q)'
    <2>1. UNCHANGED <<now, settledAt, polledAt>> /\ col[r].pc # "done"
      BY <1>7 DEF StartCollect, SleepOver
    <2>2. PICK c \in {[col[r] EXCEPT !.pc = "poll", !.started = now],
                      [col[r] EXCEPT !.pc = "poll"]} :
            col' = [col EXCEPT ![r] = c]
      BY <1>7 DEF StartCollect, SleepOver
    <2>3. c.pc = "poll" /\ c.result = col[r].result
      BY ZenonT(60), <1>0 DEF ColStates
    <2>4. CASE q = r
      BY <1>0, <1>3, <1>a, <2>1, <2>2, <2>3, <2>4 DEF Honest
    <2>5. CASE q # r
      BY <1>0, <1>4, <2>1, <2>2, <2>5
    <2> QED
      BY <2>4, <2>5
  <1>8. ASSUME NEW r \in Requests, NEW result, NEW s, Return(r, result, s), result # "timeout",
               UNCHANGED <<now, settledAt>>,
               polledAt' = polledAt \/ polledAt' = [polledAt EXCEPT ![r] = now]
        PROVE  Honest(q)'
    <2>1. CASE q = r
      <3>1. col'[q].pc = "done" /\ col'[q].result # "timeout"
        BY SMTT(60), <1>0, <1>8, <2>1 DEF Return, ColStates
      <3>2. polledAt'[q] <= now
        BY SMTT(60), <1>0, <1>8, <1>a, <2>1 DEF Honest
      <3> QED
        BY <1>8, <1>a, <1>c, <3>1, <3>2 DEF Honest
    <2>2. CASE q # r
      <3>1. col'[q] = col[q] /\ polledAt'[q] = polledAt[q]
        BY SMTT(60), <1>0, <1>8, <2>2 DEF Return
      <3> QED
        BY <1>8, <1>a, <1>c, <3>1 DEF Honest, Deadline
    <2> QED
      BY <2>1, <2>2
  <1>9. ASSUME NEW r \in Requests, Poll(r) \/ PollFails(r)
        PROVE  Honest(q)'
    <2>1. CASE \E result, s : Return(r, result, s) /\ result # "timeout"
      BY SMTT(60), <1>8, <1>9, <2>1 DEF Poll, PollFails
    <2>2. CASE /\ ~ Settled(r)
               /\ col' = [col EXCEPT ![r] = [col[r] EXCEPT !.pc = "check"]]
               /\ UNCHANGED <<now, settledAt>>
               /\ polledAt' = [polledAt EXCEPT ![r] = now]
               /\ col[r].pc # "done"
      <3>1. CASE q = r
        <4>1. settledAt[q] = Never
          BY <1>a, <2>2, <3>1 DEF Honest
        <4>2. col'[q].result = col[q].result /\ polledAt'[q] = now
          BY <1>0, <2>2, <3>1 DEF ColStates
        <4> QED
          BY SMTT(60), <1>0, <1>a, <2>2, <3>1, <4>1, <4>2 DEF Honest
      <3>2. CASE q # r
        <4>1. col'[q] = col[q] /\ polledAt'[q] = polledAt[q]
          BY <1>0, <2>2, <3>2
        <4> QED
          BY <1>a, <1>c, <2>2, <4>1 DEF Honest, Deadline
      <3> QED
        BY <3>1, <3>2
    <2>3. CASE Poll(r) /\ ~ Settled(r)
      BY <2>2, <2>3 DEF Poll, Settled
    <2>4. CASE Poll(r) /\ Settled(r)
      <3>1. \/ \E i \in Rejects(r) : Return(r, "rejected", <<by_request[r][i]>>)
            \/ Return(r, "approved", by_request[r])
        BY <2>4 DEF Poll
      <3>2. "rejected" # "timeout" /\ "approved" # "timeout"
        BY SMTT(60)
      <3> QED
        BY Zenon, <2>1, <3>1, <3>2
    <2> QED
      BY <1>9, <2>1, <2>3, <2>4 DEF PollFails
  <1>10. ASSUME NEW r \in Requests, CheckDeadline(r)
         PROVE  Honest(q)'
    <2>1. UNCHANGED <<now, settledAt, polledAt>> /\ col[r].pc = "check"
      BY SMTT(60), <1>10 DEF CheckDeadline
    <2>2. CASE now >= Deadline(r) /\ Return(r, "timeout", <<>>)
      <3>1. CASE q = r
        <4>1. col'[q].pc = "done" /\ col'[q].started = col[q].started
          BY <1>0, <2>2, <3>1 DEF Return, ColStates
        <4> QED
          BY <1>a, <1>c, <2>1, <2>2, <3>1, <4>1 DEF Honest, Deadline
      <3>2. CASE q # r
        BY SMTT(60), <1>0, <1>4, <2>1, <2>2, <3>2 DEF Return
      <3> QED
        BY <3>1, <3>2
    <2>3. ASSUME NEW w, col' = [col EXCEPT ![r] = [col[r] EXCEPT !.pc = "sleep", !.wake = w]]
          PROVE  Honest(q)'
      <3>1. CASE q = r
        <4>1. col'[q].pc = "sleep" /\ col'[q].result = col[q].result
          BY <1>0, <2>3, <3>1 DEF ColStates
        <4> QED
          BY <1>3, <1>a, <2>1, <3>1, <4>1 DEF Honest
      <3>2. CASE q # r
        BY <1>0, <1>4, <2>1, <2>3, <3>2
      <3> QED
        BY <3>1, <3>2
    <2> QED
      BY <1>10, <2>2, <2>3 DEF CheckDeadline
  <1> QED
    BY SMTT(60), <1>1, <1>2, <1>5, <1>6, <1>7, <1>9, <1>10 DEF Next

\* Timeout is never answered for a quorum or a reject that was listed when the
\* collector last looked, nor before the deadline, for every threshold, timeout,
\* backoff and race of submissions (orchestrating.rs collect_approvals).
THEOREM TimeoutsAreHonest == Spec => []TimeoutIsHonest
  <1>1. Init => CollectTypeOK /\ HonestInv
    BY CollectAssumption DEF Init, CollectTypeOK, ColStates, Results, Never, HonestInv, Honest
  <1>2. StoreInv /\ StoreInv' /\ CollectTypeOK /\ HonestInv /\ [Next]_vars
          => CollectTypeOK' /\ HonestInv'
    BY CollectTypeStep, HonestStep DEF StoreInv
  <1>3. HonestInv => TimeoutIsHonest
    BY DEF HonestInv, Honest, TimeoutIsHonest
  <1> QED
    BY <1>1, <1>2, <1>3, StoreInvariance, PTL DEF Spec
=============================================================================
