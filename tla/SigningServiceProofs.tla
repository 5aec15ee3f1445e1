------------------------ MODULE SigningServiceProofs ------------------------
(***************************************************************************)
(* Theorems about WalletService (module SigningService), for any number of *)
(* requests, wallets, approvers and shares, whichever emits fail and       *)
(* wherever calls are dropped.  The inductive invariant says, for every    *)
(* place a sign call can be at, what has been established by then          *)
(* (GateInv), and for every create_wallet call which shares are stored     *)
(* (WalletInv).  The place also tells the last event of the call's trail   *)
(* (TrailInv), so that the log is an AuditTrail, and how many approvals    *)
(* and attempts are in it (ExplainInv), so that the log says why a         *)
(* signature exists and what the caller was told.                          *)
(***************************************************************************)
EXTENDS SigningService, FiniteSetTheorems, TLAPS

\* Most leaves are first-order reasoning about functions and strings.
USE Zenon

QuorumSteps ==
  {"request_approval", "log_notified", "collect", "log_timed_out", "log_approvals",
   "log_threshold"}

\* The steps after the policy, or the quorum it asked for, has approved.
SigningSteps ==
  {"sign_decision", "log_decision_signed", "fetch_shares", "log_attempted", "enclave",
   "log_succeeded", "log_failed"}

AllApprove(r) ==
  \A a \in counted[r] :
    approvals[r][a] # NoApproval /\ approvals[r][a].decision = "Approve"

Authorised(r) ==
  \/ decision[r] = "Allow"
  \/ /\ IsQuorum(decision[r])
     /\ Cardinality(counted[r]) >= Quorum
     /\ AllApprove(r)

GateAt(r) ==
  /\ pc[r] \in QuorumSteps => IsQuorum(decision[r])
  /\ pc[r] = "log_approvals" =>
       /\ todo[r] >= 1
       /\ \A a \in counted[r] : approvals[r][a] # NoApproval
       /\ ~ Rejected(r) => Cardinality(counted[r]) >= Quorum
  /\ pc[r] = "log_threshold" => Cardinality(counted[r]) >= Quorum /\ AllApprove(r)
  /\ pc[r] \in SigningSteps => Authorised(r)
  /\ r \in signatures => pc[r] \in {"log_succeeded", "done", "dropped"} /\ Authorised(r)

GateInv == \A r \in Requests : GateAt(r)

\* Shares stored for w, by how far its create_wallet call has come.
SharesAt(w) ==
  /\ creation[w] = "none" => stored[w] = {}
  /\ creation[w] = "put" => \E n \in 0 .. Total - 1 : stored[w] = 1 .. n
  /\ creation[w] \in {"insert", "log", "created"} => stored[w] = 1 .. Total

\* A wallet that was live once: create_wallet is past its last put.
Stocked(w) == stored[w] = 1 .. Total /\ creation[w] \in {"log", "created", "failed"}

WalletInv ==
  /\ \A w \in Wallets : SharesAt(w)
  /\ \A w \in wallets : Stocked(w)
  /\ \A r \in Requests : pc[r] \in Steps => Stocked(wallet[r])
  /\ \A r \in Requests : answer[r] # "InsufficientShares"

Inv == TypeOK /\ GateInv /\ WalletInv

\* The counter of approvals still to be audited stays positive until the last.
LEMMA OneLess ==
  ASSUME NEW n \in Nat, n >= 1, n # 1
  PROVE  n - 1 >= 1
  BY SMT

-----------------------------------------------------------------------------
\* Approvals on record are a finite set, so counting them gives a number.
LEMMA RecordedFinite ==
  ASSUME NEW r \in Requests
  PROVE  IsFiniteSet(Recorded(r)) /\ Cardinality(Recorded(r)) \in Nat
  <1>1. Recorded(r) \subseteq Approvers
    BY DEF Recorded
  <1>2. IsFiniteSet(Recorded(r))
    BY <1>1, FS_Subset, ServiceAssumption
  <1> QED
    BY <1>2, FS_CardinalityType

\* Appending an event kind keeps every trail a sequence of event kinds.
LEMMA TrailType ==
  ASSUME trail \in [Requests -> Seq(AT!Kinds)], NEW r \in Requests, NEW k \in AT!Kinds,
         Logged(r, k) \/ UNCHANGED trail
  PROVE  trail' \in [Requests -> Seq(AT!Kinds)]
  <1>1. Append(trail[r], k) \in Seq(AT!Kinds)
    BY SMT
  <1> QED
    BY ZenonT(60), <1>1 DEF Logged

\* The ways a step of sign moves on keep pc, answer and trail well-typed.
ControlOK ==
  /\ pc \in [Requests -> Steps \cup {"idle", "done", "dropped"}]
  /\ answer \in [Requests -> Answers]
  /\ trail \in [Requests -> Seq(AT!Kinds)]

\* Moving to another step keeps the types.
LEMMA GotoType ==
  ASSUME ControlOK, NEW r \in Requests, NEW s \in Steps, Goto(r, s)
  PROVE  /\ pc' \in [Requests -> Steps \cup {"idle", "done", "dropped"}]
         /\ answer' \in [Requests -> Answers]
  BY DEF ControlOK, Goto

\* Answering the caller keeps the types.
LEMMA AnswerType ==
  ASSUME ControlOK, NEW r \in Requests, NEW a \in Answers, Answer(r, a)
  PROVE  /\ pc' \in [Requests -> Steps \cup {"idle", "done", "dropped"}]
         /\ answer' \in [Requests -> Answers]
  BY DEF ControlOK, Answer

\* An audit emit followed by the next step, or by its `?`, keeps the types.
LEMMA LogThenType ==
  ASSUME ControlOK, NEW r \in Requests, NEW k \in AT!Kinds, NEW s \in Steps,
         LogThen(r, k, s)
  PROVE  ControlOK'
  <1>1. "Audit" \in Answers
    BY DEF Answers
  <1> QED
    BY <1>1, GotoType, AnswerType, TrailType DEF LogThen, LogFails, ControlOK

\* The last audit emit of a call, followed by its answer, keeps the types.
LEMMA LogLastType ==
  ASSUME ControlOK, NEW r \in Requests, NEW k \in AT!Kinds, NEW a \in Answers,
         LogLast(r, k, a)
  PROVE  ControlOK'
  <1>1. "Audit" \in Answers
    BY DEF Answers
  <1> QED
    BY <1>1, AnswerType, TrailType DEF LogLast, LogFails, ControlOK

\* The steps of sign keep the state well-typed.
LEMMA SignTypeOK ==
  ASSUME Inv, NEW r \in Requests, SignStep(r) \/ Accept(r)
  PROVE  TypeOK'
  <1>0. TypeOK /\ ControlOK
    BY DEF Inv, TypeOK, ControlOK
  <1>k. /\ "SigningRequested" \in AT!Kinds /\ "SigningEvaluated" \in AT!Kinds
        /\ "QuorumNotified" \in AT!Kinds /\ "QuorumTimedOut" \in AT!Kinds
        /\ "QuorumApprovalReceived" \in AT!Kinds /\ "QuorumApprovalRejected" \in AT!Kinds
        /\ "QuorumThresholdReached" \in AT!Kinds /\ "PolicyDecisionSigned" \in AT!Kinds
        /\ "SigningAttempted" \in AT!Kinds /\ "SigningSucceeded" \in AT!Kinds
        /\ "SigningFailed" \in AT!Kinds
    BY DEF AT!Kinds
  <1>a. \A a \in {"WalletNotFound", "Policy", "PolicyDenied", "Quorum", "QuorumTimeout",
                  "Internal", "InsufficientShares", "Store", "Enclave", "Ok"} : a \in Answers
    BY DEF Answers
  <1>p. Approved \in Steps
    BY DEF Approved, Steps
  <1>s. /\ "log_requested" \in Steps /\ "evaluate" \in Steps /\ "log_evaluated" \in Steps
        /\ "request_approval" \in Steps /\ "log_notified" \in Steps /\ "collect" \in Steps
        /\ "log_timed_out" \in Steps /\ "log_approvals" \in Steps
        /\ "log_threshold" \in Steps /\ "log_decision_signed" \in Steps
        /\ "fetch_shares" \in Steps /\ "log_attempted" \in Steps /\ "enclave" \in Steps
        /\ "log_succeeded" \in Steps /\ "log_failed" \in Steps
    BY DEF Steps
  <1> USE <1>0 DEF SignFrame, walletVars, approvalVars
  <1>1. CASE Accept(r)
    BY <1>1, <1>s, <1>a, GotoType, AnswerType DEF TypeOK, Accept
  <1>2. CASE LogRequested(r)
    <2>1. ControlOK'
      BY <1>2, <1>k, <1>s, LogThenType DEF LogRequested
    <2> QED
      BY <1>2, <2>1 DEF TypeOK, LogRequested, ControlOK
  <1>3. CASE Evaluate(r)
    BY ZenonT(60), <1>3, <1>s, <1>a, GotoType, AnswerType DEF TypeOK, Evaluate
  <1>4. CASE LogEvaluated(r)
    <2>1. ControlOK'
      BY <1>4, <1>k, <1>s, <1>a, <1>p, LogThenType, LogLastType DEF LogEvaluated
    <2> QED
      BY <1>4, <2>1 DEF TypeOK, LogEvaluated, ControlOK
  <1>5. CASE RequestApproval(r)
    BY <1>5, <1>s, <1>a, GotoType, AnswerType DEF TypeOK, RequestApproval
  <1>6. CASE LogNotified(r)
    <2>1. ControlOK'
      BY <1>6, <1>k, <1>s, LogThenType DEF LogNotified
    <2> QED
      BY <1>6, <2>1 DEF TypeOK, LogNotified, ControlOK
  <1>7. CASE Collect(r)
    <2>1. /\ Recorded(r) \in SUBSET Approvers
          /\ \A a \in Rejecters(r) : {a} \in SUBSET Approvers
          /\ Cardinality(Recorded(r)) \in Nat
      BY RecordedFinite DEF Recorded, Rejecters
    <2>2. /\ pc' \in [Requests -> Steps \cup {"idle", "done", "dropped"}]
          /\ answer' \in [Requests -> Answers]
      BY <1>7, <1>s, <1>a, GotoType, AnswerType DEF Collect
    <2>3. counted' \in [Requests -> SUBSET Approvers] /\ todo' \in [Requests -> Nat]
      <3>1. counted \in [Requests -> SUBSET Approvers] /\ todo \in [Requests -> Nat]
        BY DEF TypeOK
      <3>2. \/ \E a \in Rejecters(r) : /\ counted' = [counted EXCEPT ![r] = {a}]
                                      /\ todo' = [todo EXCEPT ![r] = 1]
            \/ /\ counted' = [counted EXCEPT ![r] = Recorded(r)]
               /\ todo' = [todo EXCEPT ![r] = Cardinality(Recorded(r))]
            \/ UNCHANGED <<counted, todo>>
        BY <1>7 DEF Collect
      <3> QED
        BY SMT, <2>1, <3>1, <3>2
    <2> QED
      BY <1>7, <2>2, <2>3 DEF TypeOK, Collect
  <1>8. CASE LogTimedOut(r)
    <2>1. ControlOK'
      BY <1>8, <1>k, <1>a, LogLastType DEF LogTimedOut
    <2> QED
      BY <1>8, <2>1 DEF TypeOK, LogTimedOut, ControlOK
  <1>9. CASE LogApproval(r)
    <2>1. ControlOK'
      BY <1>9, <1>k, <1>s, <1>a, LogThenType, LogLastType DEF LogApproval
    <2>2. todo[r] - 1 \in Nat
      BY SMTT(60), <1>9 DEF LogApproval, Inv, GateInv, GateAt, TypeOK
    <2> QED
      BY ZenonT(60), <1>9, <2>1, <2>2 DEF TypeOK, LogApproval, ControlOK
  <1>10. CASE LogThreshold(r)
    <2>1. ControlOK'
      BY <1>10, <1>k, <1>p, LogThenType DEF LogThreshold
    <2> QED
      BY <1>10, <2>1 DEF TypeOK, LogThreshold, ControlOK
  <1>11. CASE SignDecision(r)
    BY <1>11, <1>s, <1>a, GotoType, AnswerType DEF TypeOK, SignDecision
  <1>12. CASE LogDecisionSigned(r)
    <2>1. ControlOK'
      BY <1>12, <1>k, <1>s, LogThenType DEF LogDecisionSigned
    <2> QED
      BY <1>12, <2>1 DEF TypeOK, LogDecisionSigned, ControlOK
  <1>13. CASE FetchShares(r)
    BY <1>13, <1>s, <1>a, GotoType, AnswerType DEF TypeOK, FetchShares
  <1>14. CASE LogAttempted(r)
    <2>1. ControlOK'
      BY <1>14, <1>k, <1>s, LogThenType DEF LogAttempted
    <2> QED
      BY <1>14, <2>1 DEF TypeOK, LogAttempted, ControlOK
  <1>15. CASE EnclaveSign(r)
    BY <1>15, <1>s, <1>a, GotoType, AnswerType DEF TypeOK, EnclaveSign
  <1>16. CASE LogSucceeded(r)
    <2>1. ControlOK'
      BY <1>16, <1>k, <1>a, LogLastType DEF LogSucceeded
    <2> QED
      BY <1>16, <2>1 DEF TypeOK, LogSucceeded, ControlOK
  <1>17. CASE LogFailed(r)
    <2>1. ControlOK'
      BY <1>17, <1>k, <1>a, LogLastType DEF LogFailed
    <2> QED
      BY <1>17, <2>1 DEF TypeOK, LogFailed, ControlOK
  <1> QED
    BY <1>1, <1>2, <1>3, <1>4, <1>5, <1>6, <1>7, <1>8, <1>9, <1>10, <1>11, <1>12,
       <1>13, <1>14, <1>15, <1>16, <1>17 DEF SignStep

\* So do the steps of create_wallet, of a submission and of the environment.
LEMMA OtherTypeOK ==
  ASSUME Inv,
         \/ \E w \in Wallets : GenerateWallet(w) \/ CreateStep(w) \/ CreatorDisconnects(w)
         \/ \E r \in Requests : Disconnect(r)
         \/ \E r \in Requests, a \in Approvers, p \in Approvals : CheckSubmission(r, a, p)
         \/ \E s \in inflight : StoreApproval(s)
         \/ \E a \in Approvers : RevokeApprover(a)
         \/ Crash
         \/ UNCHANGED vars
  PROVE  TypeOK'
  <1> USE DEF Inv, walletVars, approvalVars, callVars, CreationTo
  <1>1. ASSUME NEW w \in Wallets, GenerateWallet(w) PROVE TypeOK'
    BY <1>1 DEF GenerateWallet, TypeOK
  <1>2. ASSUME NEW w \in Wallets, PutShare(w) PROVE TypeOK'
    <2>1. PICK n \in 0 .. Total - 1 : stored[w] = 1 .. n
      BY <1>2 DEF PutShare, WalletInv, SharesAt
    <2>2. n \in Nat /\ Total \in Nat
      BY SMT, <2>1, ServiceAssumption
    <2>3. Cardinality(stored[w]) = n
      BY SMT, <2>1, <2>2, FS_Interval
    <2>4. stored[w] \cup {n + 1} \in SUBSET (1 .. Total)
      BY SMT, <2>1, <2>2
    <2>5. stored' \in [Wallets -> SUBSET (1 .. Total)]
      BY ZenonT(60), <1>2, <2>3, <2>4 DEF PutShare, TypeOK
    <2> QED
      BY ZenonT(60), <1>2, <2>5 DEF PutShare, TypeOK
  <1>3. ASSUME NEW w \in Wallets, InsertWallet(w) PROVE TypeOK'
    BY <1>3 DEF InsertWallet, TypeOK
  <1>4. ASSUME NEW w \in Wallets, LogCreated(w) PROVE TypeOK'
    BY <1>4 DEF LogCreated, TypeOK
  <1>5. ASSUME NEW w \in Wallets, CreatorDisconnects(w) PROVE TypeOK'
    BY <1>5 DEF CreatorDisconnects, TypeOK
  <1>6. ASSUME NEW r \in Requests, Disconnect(r) PROVE TypeOK'
    BY <1>6 DEF Disconnect, TypeOK
  <1>7. ASSUME NEW r \in Requests, NEW a \in Approvers, NEW p \in Approvals,
               CheckSubmission(r, a, p)
        PROVE  TypeOK'
    <2>1. [req |-> r, who |-> a, appr |-> p] \in Submissions
      BY DEF Submissions
    <2> QED
      BY <1>7, <2>1 DEF CheckSubmission, TypeOK
  <1>8. ASSUME NEW s \in inflight, StoreApproval(s) PROVE TypeOK'
    <2>1. s.req \in Requests /\ s.who \in Approvers /\ s.appr \in Approvals
      BY DEF TypeOK, Submissions
    <2>2. approvals' \in [Requests -> [Approvers -> Approvals \cup {NoApproval}]]
      <3>1. approvals \in [Requests -> [Approvers -> Approvals \cup {NoApproval}]]
        BY DEF TypeOK
      <3>2. [approvals[s.req] EXCEPT ![s.who] = s.appr]
              \in [Approvers -> Approvals \cup {NoApproval}]
        BY <2>1, <3>1
      <3> QED
        BY <1>8, <2>1, <3>1, <3>2 DEF StoreApproval
    <2> QED
      BY <1>8, <2>2 DEF StoreApproval, TypeOK
  <1>9. ASSUME NEW a \in Approvers, RevokeApprover(a) PROVE TypeOK'
    BY <1>9 DEF RevokeApprover, TypeOK
  <1>10. CASE Crash
    BY SMT, <1>10, ServiceAssumption DEF Crash, TypeOK
  <1>11. CASE UNCHANGED vars
    BY SMTT(60), <1>11 DEF vars, TypeOK
  <1> QED
    BY <1>1, <1>2, <1>3, <1>4, <1>5, <1>6, <1>7, <1>8, <1>9, <1>10, <1>11 DEF CreateStep

-----------------------------------------------------------------------------
\* What GateAt(q) is about, and it is not disturbed.
SameCall(q) ==
  /\ decision'[q] = decision[q] /\ counted'[q] = counted[q]
  /\ approvals'[q] = approvals[q]

\* A step of call r leaves every other call, the wallets and the approvals alone.
LEMMA SignLeavesOthers ==
  ASSUME TypeOK, NEW r \in Requests, SignStep(r) \/ Accept(r)
  PROVE  /\ walletVars' = walletVars /\ approvals' = approvals /\ wallet' = wallet
         /\ \A q \in Requests \ {r} :
              /\ pc'[q] = pc[q] /\ todo'[q] = todo[q] /\ answer'[q] = answer[q]
              /\ trail'[q] = trail[q] /\ SameCall(q)
              /\ (q \in signatures') <=> (q \in signatures)
  <1> USE DEF TypeOK, SignFrame, walletVars, approvalVars, Goto, Answer, SameCall
  <1>1. CASE Accept(r) \/ Evaluate(r) \/ RequestApproval(r) \/ SignDecision(r) \/ FetchShares(r)
    BY ZenonT(60), <1>1 DEF Accept, Evaluate, RequestApproval, SignDecision, FetchShares
  <1>2. CASE LogRequested(r) \/ LogEvaluated(r) \/ LogNotified(r) \/ LogTimedOut(r)
    BY ZenonT(60), <1>2 DEF LogRequested, LogEvaluated, LogNotified, LogTimedOut,
                LogThen, LogLast, LogFails, Logged
  <1>3. CASE LogApproval(r) \/ LogThreshold(r) \/ LogDecisionSigned(r) \/ LogAttempted(r)
    BY ZenonT(60), <1>3 DEF LogApproval, LogThreshold, LogDecisionSigned, LogAttempted,
                LogThen, LogLast, LogFails, Logged
  <1>4. CASE LogSucceeded(r) \/ LogFailed(r)
    BY <1>4 DEF LogSucceeded, LogFailed, LogLast, LogFails, Logged
  <1>5. CASE Collect(r)
    BY <1>5 DEF Collect
  <1>6. CASE EnclaveSign(r)
    BY <1>6 DEF EnclaveSign
  <1> QED
    BY ZenonT(60), <1>1, <1>2, <1>3, <1>4, <1>5, <1>6 DEF SignStep

-----------------------------------------------------------------------------
\* A step that does not touch what GateAt(q) is about preserves it.
LEMMA GateFrame ==
  ASSUME NEW q \in Requests, GateAt(q), SameCall(q),
         pc'[q] = pc[q], todo'[q] = todo[q], (q \in signatures') <=> (q \in signatures)
  PROVE  GateAt(q)'
  BY DEF GateAt, SameCall, Rejected, Rejecters, Recorded, AllApprove, Authorised, IsQuorum

\* A call that ends keeps the authorisation of a signature it has produced.
LEMMA GateStops ==
  ASSUME NEW q \in Requests, GateAt(q), SameCall(q),
         pc'[q] \in {"done", "dropped"}, (q \in signatures') <=> (q \in signatures)
  PROVE  GateAt(q)'
  BY DEF GateAt, SameCall, AllApprove, Authorised, QuorumSteps, SigningSteps

\* A call that moves between two steps after the gate.
LEMMA GateSigning ==
  ASSUME NEW q \in Requests, GateAt(q), SameCall(q), Authorised(q),
         pc'[q] \in SigningSteps,
         q \in signatures' => pc'[q] = "log_succeeded"
  PROVE  GateAt(q)'
  BY DEF GateAt, SameCall, AllApprove, Authorised, QuorumSteps, SigningSteps

\* A call that is not past the gate has no signature.
LEMMA Unsigned ==
  ASSUME NEW q \in Requests, GateAt(q), pc[q] \notin {"log_succeeded", "done", "dropped"}
  PROVE  q \notin signatures
  BY DEF GateAt

\* The steps of one sign call keep GateAt for it.
LEMMA GateSign ==
  ASSUME Inv, NEW r \in Requests, SignStep(r) \/ Accept(r)
  PROVE  GateAt(r)'
  <1>0. TypeOK /\ GateAt(r)
    BY DEF Inv, GateInv
  <1>t. /\ DOMAIN pc = Requests /\ DOMAIN decision = Requests /\ DOMAIN counted = Requests
        /\ DOMAIN todo = Requests
    BY <1>0 DEF TypeOK
  <1>p. Approved \in {"sign_decision", "fetch_shares"}
    BY DEF Approved
  <1> USE <1>0, <1>t DEF SignFrame, approvalVars, walletVars, Goto, Answer
  <1>1. CASE Accept(r)
    <2>1. r \notin signatures
      BY <1>1, Unsigned DEF Accept
    <2> QED
      BY <1>1, <2>1 DEF Accept, GateAt, QuorumSteps, SigningSteps
  <1>2. CASE LogRequested(r)
    <2>1. r \notin signatures
      BY <1>2, Unsigned DEF LogRequested
    <2> QED
      BY <1>2, <2>1 DEF LogRequested, LogThen, LogFails, GateAt, QuorumSteps, SigningSteps
  <1>3. CASE Evaluate(r)
    <2>1. r \notin signatures
      BY <1>3, Unsigned DEF Evaluate
    <2> QED
      BY <1>3, <2>1 DEF Evaluate, GateAt, QuorumSteps, SigningSteps
  <1>4. CASE LogEvaluated(r)
    <2>1. r \notin signatures /\ r \notin signatures' /\ SameCall(r)
      BY <1>4, Unsigned DEF LogEvaluated, SameCall
    <2>2. CASE pc'[r] = "done"
      BY <2>1, <2>2, GateStops
    <2>3. CASE pc'[r] = "request_approval" /\ IsQuorum(decision[r])
      BY <2>1, <2>3 DEF GateAt, SameCall, QuorumSteps, SigningSteps, IsQuorum
    <2>4. CASE pc'[r] = Approved /\ decision[r] = "Allow"
      BY <1>p, <2>1, <2>4, GateSigning DEF Authorised, SigningSteps
    <2> QED
      BY <1>4, <2>2, <2>3, <2>4 DEF LogEvaluated, LogThen, LogLast, LogFails
  <1>5. CASE RequestApproval(r)
    <2>1. r \notin signatures /\ r \notin signatures' /\ SameCall(r)
      BY <1>5, Unsigned DEF RequestApproval, SameCall
    <2>2. CASE pc'[r] = "done"
      BY <2>1, <2>2, GateStops
    <2>3. CASE pc'[r] = "log_notified"
      BY <1>5, <2>1, <2>3 DEF RequestApproval, GateAt, SameCall, QuorumSteps, SigningSteps, IsQuorum
    <2> QED
      BY <1>5, <2>2, <2>3 DEF RequestApproval
  <1>6. CASE LogNotified(r)
    <2>1. r \notin signatures /\ r \notin signatures' /\ SameCall(r)
      BY <1>6, Unsigned DEF LogNotified, SameCall
    <2>2. CASE pc'[r] = "done"
      BY <2>1, <2>2, GateStops
    <2>3. CASE pc'[r] = "collect"
      BY <1>6, <2>1, <2>3 DEF LogNotified, GateAt, SameCall, QuorumSteps, SigningSteps, IsQuorum
    <2> QED
      BY <1>6, <2>2, <2>3 DEF LogNotified, LogThen, LogFails
  <1>7. CASE Collect(r)
    <2>1. /\ r \notin signatures /\ r \notin signatures'
          /\ decision' = decision /\ approvals' = approvals /\ IsQuorum(decision[r])
      BY <1>7, Unsigned DEF Collect, GateAt, QuorumSteps
    <2>2. CASE pc'[r] \in {"done", "log_timed_out"}
      BY <2>1, <2>2 DEF GateAt, QuorumSteps, SigningSteps, IsQuorum
    <2>3. ASSUME NEW a \in Rejecters(r), counted'[r] = {a}, todo'[r] = 1,
                 pc'[r] = "log_approvals"
          PROVE  GateAt(r)'
      <3>1. Rejected(r)' /\ approvals[r][a] # NoApproval
        BY <2>1, <2>3 DEF Rejected, Rejecters, Recorded
      <3> QED
        BY SMTT(60), <2>1, <2>3, <3>1 DEF GateAt, QuorumSteps, SigningSteps, IsQuorum
    <2>4. CASE /\ counted'[r] = Recorded(r) /\ Cardinality(Recorded(r)) >= Quorum
               /\ todo'[r] = Cardinality(Recorded(r)) /\ pc'[r] = "log_approvals"
      <3>1. todo'[r] >= 1
        BY SMTT(60), <2>4, RecordedFinite, ServiceAssumption
      <3>2. \A a \in counted'[r] : approvals'[r][a] # NoApproval
        BY <2>1, <2>4 DEF Recorded
      <3> QED
        BY <2>1, <2>4, <3>1, <3>2 DEF GateAt, QuorumSteps, SigningSteps, IsQuorum
    <2> QED
      BY <1>7, <2>2, <2>3, <2>4 DEF Collect
  <1>8. CASE LogTimedOut(r)
    <2>1. SameCall(r) /\ signatures' = signatures /\ pc'[r] = "done"
      BY <1>8 DEF LogTimedOut, SameCall, LogLast, LogFails
    <2> QED
      BY <2>1, GateStops
  <1>9. CASE LogApproval(r)
    <2>1. r \notin signatures /\ r \notin signatures' /\ SameCall(r)
      BY <1>9, Unsigned DEF LogApproval, SameCall
    <2>2. CASE pc'[r] = "done"
      BY <2>1, <2>2, GateStops
    <2>3. CASE /\ ~ Rejected(r) /\ todo'[r] = todo[r] - 1
               /\ pc'[r] = IF todo[r] = 1 THEN "log_threshold" ELSE "log_approvals"
      <3>1. /\ IsQuorum(decision[r]) /\ todo[r] >= 1 /\ todo[r] \in Nat
            /\ \A a \in counted[r] : approvals[r][a] # NoApproval
            /\ Cardinality(counted[r]) >= Quorum
        BY <1>9, <2>3 DEF LogApproval, GateAt, QuorumSteps, TypeOK
      <3>2. AllApprove(r)
        <4>1. \A a \in counted[r] : a \in Approvers /\ approvals[r][a] \in Approvals
          BY SMT, <3>1 DEF TypeOK
        <4> QED
          BY <2>3, <3>1, <4>1 DEF AllApprove, Rejected, Rejecters, Recorded, Approvals
      <3>3. CASE pc'[r] = "log_threshold"
        BY SMTT(60), <2>1, <3>1, <3>2, <3>3
           DEF GateAt, SameCall, AllApprove, QuorumSteps, SigningSteps, IsQuorum
      <3>4. CASE pc'[r] = "log_approvals" /\ todo[r] # 1
        <4>1. todo'[r] >= 1
          BY <2>3, <3>1, <3>4, OneLess
        <4> QED
          BY SMTT(60), <2>1, <3>1, <3>4, <4>1
             DEF GateAt, SameCall, QuorumSteps, SigningSteps, IsQuorum
      <3> QED
        BY <2>3, <3>3, <3>4
    <2> QED
      BY <1>9, <2>2, <2>3 DEF LogApproval, LogThen, LogLast, LogFails
  <1>10. CASE LogThreshold(r)
    <2>1. r \notin signatures /\ r \notin signatures' /\ SameCall(r) /\ Authorised(r)
      BY <1>10, Unsigned DEF LogThreshold, SameCall, GateAt, QuorumSteps, Authorised
    <2>2. pc'[r] = "done" \/ pc'[r] \in SigningSteps
      BY <1>10, <1>p DEF LogThreshold, LogThen, LogFails, SigningSteps
    <2> QED
      BY <2>1, <2>2, GateStops, GateSigning
  <1>11. CASE SignDecision(r)
    <2>1. r \notin signatures /\ r \notin signatures' /\ SameCall(r) /\ Authorised(r)
      BY <1>11, Unsigned DEF SignDecision, SameCall, GateAt, SigningSteps
    <2>2. pc'[r] = "done" \/ pc'[r] \in SigningSteps
      BY <1>11 DEF SignDecision, SigningSteps
    <2> QED
      BY <2>1, <2>2, GateStops, GateSigning
  <1>12. CASE LogDecisionSigned(r)
    <2>1. r \notin signatures /\ r \notin signatures' /\ SameCall(r) /\ Authorised(r)
      BY <1>12, Unsigned DEF LogDecisionSigned, SameCall, GateAt, SigningSteps
    <2>2. pc'[r] = "done" \/ pc'[r] \in SigningSteps
      BY <1>12 DEF LogDecisionSigned, SigningSteps, LogThen, LogFails
    <2> QED
      BY <2>1, <2>2, GateStops, GateSigning
  <1>13. CASE FetchShares(r)
    <2>1. r \notin signatures /\ r \notin signatures' /\ SameCall(r) /\ Authorised(r)
      BY <1>13, Unsigned DEF FetchShares, SameCall, GateAt, SigningSteps
    <2>2. pc'[r] = "done" \/ pc'[r] \in SigningSteps
      BY <1>13 DEF FetchShares, SigningSteps
    <2> QED
      BY <2>1, <2>2, GateStops, GateSigning
  <1>14. CASE LogAttempted(r)
    <2>1. r \notin signatures /\ r \notin signatures' /\ SameCall(r) /\ Authorised(r)
      BY <1>14, Unsigned DEF LogAttempted, SameCall, GateAt, SigningSteps
    <2>2. pc'[r] = "done" \/ pc'[r] \in SigningSteps
      BY <1>14 DEF LogAttempted, SigningSteps, LogThen, LogFails
    <2> QED
      BY <2>1, <2>2, GateStops, GateSigning
  <1>15. CASE EnclaveSign(r)
    <2>1. r \notin signatures /\ SameCall(r) /\ Authorised(r)
      BY SMTT(60), <1>15, Unsigned DEF EnclaveSign, SameCall, GateAt, SigningSteps
    <2>2. /\ pc'[r] \in {"log_succeeded", "log_failed"}
          /\ r \in signatures' => pc'[r] = "log_succeeded"
      BY SMTT(60), <1>15, <2>1 DEF EnclaveSign
    <2> QED
      BY SMTT(60), <2>1, <2>2, GateSigning DEF SigningSteps
  <1>16. CASE LogSucceeded(r)
    <2>1. SameCall(r) /\ signatures' = signatures /\ pc'[r] = "done"
      BY <1>16 DEF LogSucceeded, SameCall, LogLast, LogFails
    <2> QED
      BY <2>1, GateStops
  <1>17. CASE LogFailed(r)
    <2>1. SameCall(r) /\ signatures' = signatures /\ pc'[r] = "done"
      BY <1>17 DEF LogFailed, SameCall, LogLast, LogFails
    <2> QED
      BY <2>1, GateStops
  <1> QED
    BY SMTT(60), <1>1, <1>2, <1>3, <1>4, <1>5, <1>6, <1>7, <1>8, <1>9, <1>10, <1>11, <1>12,
       <1>13, <1>14, <1>15, <1>16, <1>17 DEF SignStep

\* Every step keeps GateInv.
LEMMA GateStep ==
  ASSUME Inv, [Next]_vars
  PROVE  GateInv'
  <1> SUFFICES ASSUME NEW q \in Requests PROVE GateAt(q)'
    BY DEF GateInv
  <1>0. TypeOK /\ GateAt(q)
    BY DEF Inv, GateInv
  <1>1. ASSUME NEW r \in Requests, SignStep(r) \/ Accept(r) PROVE GateAt(q)'
    <2>1. CASE q = r
      BY <1>1, <2>1, GateSign
    <2>2. CASE q # r
      BY <1>0, <1>1, <2>2, SignLeavesOthers, GateFrame
    <2> QED
      BY <2>1, <2>2
  <1>2. ASSUME NEW w \in Wallets, GenerateWallet(w) \/ CreateStep(w) \/ CreatorDisconnects(w)
        PROVE  GateAt(q)'
    BY <1>0, <1>2, GateFrame DEF GenerateWallet, CreateStep, PutShare, InsertWallet, LogCreated,
         CreatorDisconnects, SameCall, approvalVars, callVars
  <1>3. ASSUME NEW r \in Requests, Disconnect(r) PROVE GateAt(q)'
    <2>1. SameCall(q) /\ todo' = todo /\ signatures' = signatures
      BY <1>3 DEF Disconnect, SameCall, approvalVars, callVars
    <2>2. pc'[q] = pc[q] \/ pc'[q] = "dropped"
      BY SMTT(60), <1>0, <1>3 DEF Disconnect, TypeOK
    <2> QED
      BY <1>0, <2>1, <2>2, GateFrame, GateStops
  <1>4. ASSUME NEW r \in Requests, NEW a \in Approvers, NEW p \in Approvals,
               CheckSubmission(r, a, p)
        PROVE  GateAt(q)'
    BY SMTT(60), <1>0, <1>4, GateFrame DEF CheckSubmission, SameCall, callVars
  <1>5. ASSUME NEW s \in inflight, StoreApproval(s) PROVE GateAt(q)'
    <2>1. s.req \in Requests /\ s.who \in Approvers /\ s.appr \in Approvals
      BY <1>0 DEF TypeOK, Submissions
    <2>2. \A a \in Approvers : approvals[q][a] # NoApproval => approvals'[q][a] = approvals[q][a]
      <3>1. approvals \in [Requests -> [Approvers -> Approvals \cup {NoApproval}]]
        BY <1>0 DEF TypeOK
      <3>2. \/ approvals' = approvals
            \/ /\ approvals[s.req][s.who] = NoApproval
               /\ approvals' = [approvals EXCEPT ![s.req] = [@ EXCEPT ![s.who] = s.appr]]
        BY <1>5 DEF StoreApproval
      <3> QED
        BY SMT, <2>1, <3>1, <3>2
    <2>3. counted[q] \subseteq Approvers
      BY <1>0 DEF TypeOK
    <2>4. /\ pc' = pc /\ decision' = decision /\ counted' = counted
          /\ todo' = todo /\ signatures' = signatures
      BY <1>5 DEF StoreApproval, callVars
    <2>5. AllApprove(q) => AllApprove(q)'
      BY <2>2, <2>3, <2>4 DEF AllApprove
    <2>6. ASSUME \A a \in counted[q] : approvals[q][a] # NoApproval
          PROVE  /\ \A a \in counted'[q] : approvals'[q][a] # NoApproval
                 /\ Rejected(q) => Rejected(q)'
      BY <2>2, <2>3, <2>4, <2>6 DEF Rejected, Rejecters, Recorded
    <2> QED
      BY <1>0, <2>4, <2>5, <2>6 DEF GateAt, Authorised, IsQuorum
  <1>6. ASSUME NEW a \in Approvers, RevokeApprover(a) PROVE GateAt(q)'
    BY <1>0, <1>6, GateFrame DEF RevokeApprover, SameCall, callVars
  <1>7. CASE Crash
    <2>1. SameCall(q) /\ todo' = todo /\ signatures' = signatures
      BY <1>7 DEF Crash, SameCall, callVars
    <2>2. pc'[q] = pc[q] \/ pc'[q] = "dropped"
      BY <1>0, <1>7 DEF Crash, TypeOK
    <2> QED
      BY <1>0, <2>1, <2>2, GateFrame, GateStops
  <1>8. CASE UNCHANGED vars
    BY <1>0, <1>8, GateFrame DEF vars, SameCall, approvalVars, callVars
  <1> QED
    BY <1>1, <1>2, <1>3, <1>4, <1>5, <1>6, <1>7, <1>8 DEF Next

-----------------------------------------------------------------------------
\* With n of t shares stored the next one is still a share.
LEMMA NextShare ==
  ASSUME NEW t \in Nat, 2 <= t
  PROVE  /\ 0 \in 0 .. t - 1
         /\ \A n \in 0 .. t - 1 : n \in Nat /\ n + 1 \in 1 .. t
  BY SMT

\* No share is the empty range.
LEMMA NoShares == 1 .. 0 = {}
  BY SMT

\* The share after the first n extends their range.
LEMMA OneMoreShare == \A n \in Nat : (1 .. n) \cup {n + 1} = 1 .. n + 1
  BY SMT

\* The number of shares is at least the least threshold.
LEMMA TwoShares == Total \in Nat /\ 2 <= Total
  BY SMT, ServiceAssumption

\* The steps of create_wallet keep SharesAt and what was stocked.
LEMMA CreateKeepsShares ==
  ASSUME Inv, NEW w \in Wallets,
         GenerateWallet(w) \/ CreateStep(w) \/ CreatorDisconnects(w)
  PROVE  /\ \A v \in Wallets : SharesAt(v)'
         /\ \A v \in Wallets : Stocked(v) => Stocked(v)'
         /\ \A v \in wallets' : Stocked(v)'
         /\ pc' = pc /\ wallet' = wallet /\ answer' = answer
  <1> USE DEF CreationTo, approvalVars, callVars
  <1>0. /\ wallets \subseteq Wallets
        /\ stored \in [Wallets -> SUBSET (1 .. Total)]
        /\ creation \in [Wallets -> {"none", "put", "insert", "log", "created", "failed"}]
        /\ \A v \in Wallets : SharesAt(v)
        /\ \A v \in wallets : Stocked(v)
    BY DEF Inv, TypeOK, WalletInv
  <1>1. CASE GenerateWallet(w)
    <2>1. stored[w] = {} /\ stored' = stored /\ wallets' = wallets
      BY <1>0, <1>1 DEF GenerateWallet, SharesAt
    <2>2. 0 \in 0 .. Total - 1 /\ stored[w] = 1 .. 0
      BY <2>1, TwoShares, NextShare, NoShares
    <2> QED
      BY SMTT(30), <1>0, <1>1, <2>1, <2>2 DEF GenerateWallet, SharesAt, Stocked
  <1>2. CASE PutShare(w)
    <2>1. PICK n \in 0 .. Total - 1 : stored[w] = 1 .. n
      BY <1>0, <1>2 DEF PutShare, SharesAt
    <2>2. n \in Nat /\ Total \in Nat /\ n + 1 \in 1 .. Total
      BY <2>1, TwoShares, NextShare
    <2>3. Cardinality(stored[w]) = n
      BY SMT, <2>1, <2>2, FS_Interval
    <2>4. stored[w] \cup {n + 1} = 1 .. n + 1
      BY <2>1, <2>2, OneMoreShare
    <2>5. wallets' = wallets /\ creation[w] = "put"
          /\ pc' = pc /\ wallet' = wallet /\ answer' = answer
      BY <1>2 DEF PutShare
    <2>6. \/ /\ stored' = [stored EXCEPT ![w] = 1 .. n + 1]
             /\ creation' = [creation EXCEPT ![w] = IF n + 1 = Total THEN "insert" ELSE "put"]
          \/ stored' = stored /\ creation' = [creation EXCEPT ![w] = "failed"]
      BY ZenonT(60), <1>2, <2>3, <2>4 DEF PutShare
    <2>7. n + 1 = Total \/ n + 1 \in 0 .. Total - 1
      BY SMT, <2>2
    <2>8. SharesAt(w)'
      BY <1>0, <2>6, <2>7 DEF SharesAt
    <2>9. \A v \in Wallets \ {w} : SharesAt(v)' /\ (Stocked(v) => Stocked(v)')
      BY SMT, <1>0, <2>6 DEF SharesAt, Stocked
    <2> QED
      BY <1>0, <2>5, <2>8, <2>9 DEF Stocked
  <1>3. CASE InsertWallet(w)
    BY <1>0, <1>3 DEF InsertWallet, SharesAt, Stocked
  <1>4. CASE LogCreated(w)
    BY <1>0, <1>4 DEF LogCreated, SharesAt, Stocked
  <1>5. CASE CreatorDisconnects(w)
    BY SMTT(60), <1>0, <1>5 DEF CreatorDisconnects, SharesAt, Stocked
  <1> QED
    BY <1>1, <1>2, <1>3, <1>4, <1>5 DEF CreateStep

\* fetch_shares finds enough shares, so no step answers InsufficientShares.
LEMMA NeverInsufficient ==
  ASSUME Inv, NEW r \in Requests, SignStep(r) \/ Accept(r)
  PROVE  /\ pc'[r] \in Steps => Stocked(wallet[r])
         /\ answer'[r] # "InsufficientShares"
  <1>0. /\ pc[r] \in Steps => Stocked(wallet[r])
        /\ answer[r] # "InsufficientShares"
        /\ DOMAIN answer = Requests /\ DOMAIN pc = Requests
        /\ \A w \in wallets : Stocked(w)
    BY DEF Inv, WalletInv, TypeOK
  <1>d. pc'[r] = "done" => pc'[r] \notin Steps
    BY DEF Steps
  <1> USE DEF Goto, Answer
  <1>1. CASE Accept(r)
    BY <1>0, <1>1, <1>d DEF Accept
  <1>2. CASE FetchShares(r)
    <2>1. Stocked(wallet[r])
      BY <1>0, <1>2 DEF FetchShares, Steps
    <2>2. Cardinality(stored[wallet[r]]) = Total
      BY SMT, <2>1, FS_Interval, ServiceAssumption DEF Stocked
    <2>3. ~ (Cardinality(stored[wallet[r]]) < ShareThreshold)
      BY SMT, <2>2, ServiceAssumption
    <2> QED
      BY <1>0, <1>2, <2>1, <2>3 DEF FetchShares
  <1>3. CASE SignStep(r) /\ ~ FetchShares(r)
    <2>1. pc[r] \in Steps
      BY ZenonT(60), <1>3 DEF SignStep, Steps, LogRequested, Evaluate, LogEvaluated, RequestApproval,
           LogNotified, Collect, LogTimedOut, LogApproval, LogThreshold, SignDecision,
           LogDecisionSigned, LogAttempted, EnclaveSign, LogSucceeded, LogFailed
    <2>2. \E a \in Answers \ {"InsufficientShares"} : answer' = answer \/ answer' = [answer EXCEPT ![r] = a]
      <3>1. \A a \in {"WalletNotFound", "Policy", "PolicyDenied", "Quorum", "QuorumTimeout",
                      "Internal", "Store", "Enclave", "Ok", "Audit"} :
              a \in Answers \ {"InsufficientShares"}
        BY DEF Answers
      <3> QED
        BY ZenonT(60), <1>3, <3>1 DEF SignStep, LogRequested, Evaluate, LogEvaluated, RequestApproval,
             LogNotified, Collect, LogTimedOut, LogApproval, LogThreshold, SignDecision,
             LogDecisionSigned, LogAttempted, EnclaveSign, LogSucceeded, LogFailed,
             LogThen, LogLast, LogFails
    <2> QED
      BY SMTT(60), <1>0, <2>1, <2>2
  <1> QED
    BY <1>1, <1>2, <1>3

\* Every step keeps WalletInv.
LEMMA WalletStep ==
  ASSUME Inv, [Next]_vars
  PROVE  WalletInv'
  <1>0. TypeOK /\ WalletInv
    BY DEF Inv
  <1>1. ASSUME NEW r \in Requests, SignStep(r) \/ Accept(r) PROVE WalletInv'
    <2>1. walletVars' = walletVars /\ wallet' = wallet
      BY <1>0, <1>1, SignLeavesOthers
    <2>2. \A q \in Requests \ {r} : pc'[q] = pc[q] /\ answer'[q] = answer[q]
      BY <1>0, <1>1, SignLeavesOthers
    <2>3. (pc'[r] \in Steps => Stocked(wallet[r])) /\ answer'[r] # "InsufficientShares"
      BY <1>1, NeverInsufficient
    <2>4. stored' = stored /\ creation' = creation /\ wallets' = wallets
      BY <2>1 DEF walletVars
    <2>5. \A w \in Wallets : SharesAt(w)'
      BY <1>0, <2>4 DEF WalletInv, SharesAt
    <2>6. \A w : Stocked(w) => Stocked(w)'
      BY <2>4 DEF Stocked
    <2>7. \A w \in wallets' : Stocked(w)'
      BY <1>0, <2>4, <2>6 DEF WalletInv
    <2>8. \A q \in Requests : pc'[q] \in Steps => Stocked(wallet[q])
      BY <1>0, <2>2, <2>3 DEF WalletInv
    <2>9. \A q \in Requests : pc'[q] \in Steps => Stocked(wallet[q])'
      BY <2>1, <2>6, <2>8
    <2>10. \A q \in Requests : answer'[q] # "InsufficientShares"
      BY SMTT(60), <1>0, <2>2, <2>3 DEF WalletInv
    <2> QED
      BY SMTT(60), <2>5, <2>7, <2>9, <2>10 DEF WalletInv
  <1>2. ASSUME NEW w \in Wallets, GenerateWallet(w) \/ CreateStep(w) \/ CreatorDisconnects(w)
        PROVE  WalletInv'
    <2>1. \A r \in Requests : wallet[r] \in Wallets
      BY <1>0 DEF TypeOK
    <2> QED
      BY <1>0, <1>2, <2>1, CreateKeepsShares DEF WalletInv
  <1>3. ASSUME NEW r \in Requests, Disconnect(r) PROVE WalletInv'
    <2>1. \A q \in Requests : pc'[q] = pc[q] \/ pc'[q] \notin Steps
      BY <1>0, <1>3 DEF Disconnect, TypeOK, Steps
    <2>2. UNCHANGED <<wallets, stored, creation, wallet, answer>>
      BY <1>3 DEF Disconnect, walletVars, callVars
    <2> QED
      BY <1>0, <2>1, <2>2 DEF WalletInv, SharesAt, Stocked
  <1>4. CASE \/ \E r \in Requests, a \in Approvers, p \in Approvals : CheckSubmission(r, a, p)
             \/ \E s \in inflight : StoreApproval(s)
             \/ \E a \in Approvers : RevokeApprover(a)
             \/ UNCHANGED vars
    <2>1. UNCHANGED <<wallets, stored, creation, wallet, answer, pc>>
      BY ZenonT(60), <1>4 DEF CheckSubmission, StoreApproval, RevokeApprover, vars, walletVars, callVars
    <2> QED
      BY SMTT(60), <1>0, <2>1 DEF WalletInv, SharesAt, Stocked
  <1>5. CASE Crash
    <2>1. \A q \in Requests : pc'[q] \notin Steps
      BY <1>0, <1>5 DEF Crash, TypeOK, Steps
    <2>2. stored' = stored /\ answer' = answer /\ wallets' = {}
      BY <1>5 DEF Crash
    <2>3. \A w \in Wallets : creation'[w] = creation[w] \/ creation'[w] = "failed"
      BY <1>0, <1>5 DEF Crash, TypeOK
    <2> QED
      BY <1>0, <2>1, <2>2, <2>3 DEF WalletInv, SharesAt
  <1> QED
    BY <1>1, <1>2, <1>3, <1>4, <1>5 DEF Next

-----------------------------------------------------------------------------
\* The invariant holds when the service starts.
LEMMA InitInv == Init => Inv
  <1> SUFFICES ASSUME Init PROVE Inv
    OBVIOUS
  <1>1. TypeOK
    BY SMT, ServiceAssumption DEF Init, TypeOK, Answers
  <1>2. GateInv
    BY DEF Init, GateInv, GateAt, QuorumSteps, SigningSteps
  <1>3. WalletInv
    BY DEF Init, WalletInv, SharesAt, Steps
  <1> QED
    BY <1>1, <1>2, <1>3 DEF Inv

\* Every step of the service preserves the invariant.
LEMMA NextInv == Inv /\ [Next]_vars => Inv'
  <1> SUFFICES ASSUME Inv, [Next]_vars PROVE Inv'
    OBVIOUS
  <1>1. TypeOK'
    BY SignTypeOK, OtherTypeOK DEF Next
  <1> QED
    BY <1>1, GateStep, WalletStep DEF Inv

\* The invariant the other theorems follow from holds in every reachable state.
THEOREM Invariance == Spec => []Inv
  BY InitInv, NextInv, PTL DEF Spec

\* Type correctness of the service: every variable keeps its type, however the
\* calls interleave, fail, are dropped or crash.
THEOREM TypeCorrect == Spec => []TypeOK
  <1>1. Inv => TypeOK
    BY DEF Inv
  <1> QED
    BY <1>1, Invariance, PTL

\* sign never has a signature produced that the policy, or the quorum it asked
\* for, did not authorise, for any number of concurrent calls and approvers.
THEOREM SigningIsAuthorised == Spec => []SignedOnlyIfAuthorised
  <1>1. Inv => SignedOnlyIfAuthorised
    BY DEF Inv, TypeOK, GateInv, GateAt, Authorised, AllApprove, SignedOnlyIfAuthorised
  <1> QED
    BY <1>1, Invariance, PTL

\* A wallet record exists only for a wallet whose shares are all stored, and no
\* accepted sign call finds too few of them, for any M of N.
THEOREM LiveWalletsAreComplete == Spec => []LiveWalletHasShares
  <1>1. Inv => LiveWalletHasShares
    BY DEF Inv, WalletInv, Stocked, LiveWalletHasShares
  <1> QED
    BY <1>1, Invariance, PTL

-----------------------------------------------------------------------------
(* The trail of a call *)

LastIn(r, kinds) == trail[r] # <<>> /\ trail[r][Len(trail[r])] \in kinds

TrailAt(r) ==
  /\ pc[r] \in {"idle", "log_requested"} => trail[r] = <<>>
  /\ pc[r] \in {"evaluate", "log_evaluated"} => LastIn(r, {"SigningRequested"})
  /\ pc[r] \in {"request_approval", "log_notified"} => LastIn(r, {"SigningEvaluated"})
  /\ pc[r] \in {"collect", "log_timed_out"} => LastIn(r, {"QuorumNotified"})
  /\ pc[r] = "log_approvals" =>
       LastIn(r, IF Rejected(r) THEN {"QuorumNotified"}
                                ELSE {"QuorumNotified", "QuorumApprovalReceived"})
  /\ pc[r] = "log_threshold" => LastIn(r, {"QuorumApprovalReceived"})
  /\ pc[r] \in {"sign_decision", "log_decision_signed"} =>
       LastIn(r, {"SigningEvaluated", "QuorumThresholdReached"})
  /\ pc[r] \in {"fetch_shares", "log_attempted"} =>
       LastIn(r, {"SigningEvaluated", "QuorumThresholdReached", "PolicyDecisionSigned"})
  /\ pc[r] \in {"enclave", "log_succeeded", "log_failed"} => LastIn(r, {"SigningAttempted"})

TrailInv == \A r \in Requests : TrailAt(r)

\* The trail of r is left alone or gets one event that may follow.
TrailMove(r) ==
  \/ trail' = trail
  \/ \E k \in AT!MayFollow(trail[r]) : trail' = [trail EXCEPT ![r] = Append(@, k)]

\* The last entry of an extended trail is the entry just appended.
LEMMA AppendLast ==
  ASSUME NEW S, NEW s \in Seq(S), NEW k \in S
  PROVE  Append(s, k) # <<>> /\ Append(s, k)[Len(Append(s, k))] = k
  BY SMT

\* A kind that may follow every kind in `kinds` may follow a trail ending in one.
LEMMA MayFollowIn ==
  ASSUME NEW r \in Requests, NEW kinds, LastIn(r, kinds), NEW k,
         \A j \in kinds : k \in AT!After(j)
  PROVE  k \in AT!MayFollow(trail[r])
  BY DEF LastIn, AT!MayFollow

\* An emit of an allowed kind is a TrailMove, and the call goes on only when
\* the event is the last of the trail.
LEMMA LogThenTrail ==
  ASSUME TypeOK, NEW r \in Requests, NEW k \in AT!Kinds, k \in AT!MayFollow(trail[r]),
         NEW step, LogThen(r, k, step)
  PROVE  /\ TrailMove(r)
         /\ pc'[r] = "done" \/ (pc'[r] = step /\ LastIn(r, {k})')
  <1>1. trail \in [Requests -> Seq(AT!Kinds)] /\ DOMAIN pc = Requests
    BY DEF TypeOK
  <1>2. CASE Logged(r, k) /\ Goto(r, step)
    <2>1. trail'[r] = Append(trail[r], k)
      BY <1>1, <1>2 DEF Logged
    <2>2. LastIn(r, {k})'
      BY SMT, <1>1, <2>1, AppendLast DEF LastIn
    <2> QED
      BY <1>1, <1>2, <2>2 DEF Logged, Goto, TrailMove
  <1>3. CASE LogFails(r, k)
    BY <1>1, <1>3 DEF LogFails, Logged, Answer, TrailMove
  <1> QED
    BY <1>2, <1>3 DEF LogThen

\* The last emit of a call is a TrailMove, and the call is over.
LEMMA LogLastTrail ==
  ASSUME TypeOK, NEW r \in Requests, NEW k, k \in AT!MayFollow(trail[r]),
         NEW a, LogLast(r, k, a)
  PROVE  TrailMove(r) /\ pc'[r] = "done"
  <1>1. DOMAIN pc = Requests
    BY DEF TypeOK
  <1> QED
    BY <1>1 DEF LogLast, LogFails, Logged, Answer, TrailMove

\* A call that has ended asks nothing of its trail.
LEMMA TrailStops ==
  ASSUME NEW r \in Requests, pc'[r] \in {"done", "dropped"}
  PROVE  TrailAt(r)'
  BY DEF TrailAt

\* A call whose trail does not change.
LEMMA TrailFrame ==
  ASSUME NEW r \in Requests, TrailAt(r), pc'[r] = pc[r], trail'[r] = trail[r],
         pc[r] = "log_approvals" => (Rejected(r)' <=> Rejected(r))
  PROVE  TrailAt(r)'
  BY DEF TrailAt, LastIn

\* The steps of one sign call.
LEMMA SignTrail ==
  ASSUME Inv, TrailInv, NEW r \in Requests, SignStep(r) \/ Accept(r)
  PROVE  TrailMove(r) /\ TrailAt(r)'
  <1>0. TypeOK /\ TrailAt(r) /\ DOMAIN pc = Requests /\ Approved \in {"sign_decision", "fetch_shares"}
    BY DEF Inv, TrailInv, TypeOK, Approved
  <1>1. CASE Accept(r)
    BY <1>1, <1>0 DEF Accept, Goto, Answer, TrailMove, TrailAt, LastIn
  <1>2. CASE LogRequested(r)
    <2>1. "SigningRequested" \in AT!Kinds /\ "SigningRequested" \in AT!MayFollow(trail[r])
      BY <1>2, <1>0 DEF LogRequested, TrailAt, AT!Kinds, AT!MayFollow
    <2>2. TrailMove(r) /\ (pc'[r] = "done" \/ (pc'[r] = "evaluate" /\ LastIn(r, {"SigningRequested"})'))
      BY SMTT(60), <1>2, <1>0, <2>1, LogThenTrail DEF LogRequested
    <2> QED
      BY <2>2, TrailStops DEF TrailAt
  <1>3. CASE Evaluate(r)
    BY <1>3, <1>0 DEF Evaluate, Goto, Answer, TrailMove, TrailAt, LastIn
  <1>4. CASE LogEvaluated(r)
    <2>1. "SigningEvaluated" \in AT!Kinds /\ "SigningEvaluated" \in AT!MayFollow(trail[r])
      BY SMT, <1>4, <1>0, MayFollowIn DEF LogEvaluated, TrailAt, AT!Kinds, AT!After
    <2>2. /\ TrailMove(r)
          /\ \/ pc'[r] = "done"
             \/ /\ pc'[r] \in {"request_approval", "sign_decision", "fetch_shares"}
                /\ LastIn(r, {"SigningEvaluated"})'
      BY SMTT(60), <1>4, <1>0, <2>1, LogThenTrail, LogLastTrail DEF LogEvaluated
    <2> QED
      BY <2>2, TrailStops DEF TrailAt, LastIn
  <1>5. CASE RequestApproval(r)
    BY SMTT(60), <1>5, <1>0 DEF RequestApproval, Goto, Answer, TrailMove, TrailAt, LastIn
  <1>6. CASE LogNotified(r)
    <2>1. "QuorumNotified" \in AT!Kinds /\ "QuorumNotified" \in AT!MayFollow(trail[r])
      BY SMT, <1>6, <1>0, MayFollowIn DEF LogNotified, TrailAt, AT!Kinds, AT!After
    <2>2. TrailMove(r) /\ (pc'[r] = "done" \/ (pc'[r] = "collect" /\ LastIn(r, {"QuorumNotified"})'))
      BY SMTT(60), <1>6, <1>0, <2>1, LogThenTrail DEF LogNotified
    <2> QED
      BY SMTT(60), <1>0, <2>2, TrailStops DEF TrailAt, LastIn
  <1>7. CASE Collect(r)
    BY <1>7, <1>0 DEF Collect, Goto, Answer, TrailMove, TrailAt, LastIn
  <1>8. CASE LogTimedOut(r)
    <2>1. "QuorumTimedOut" \in AT!MayFollow(trail[r])
      BY SMT, <1>8, <1>0, MayFollowIn DEF LogTimedOut, TrailAt, AT!After
    <2> QED
      BY <1>8, <1>0, <2>1, LogLastTrail, TrailStops DEF LogTimedOut
  <1>9. CASE LogApproval(r)
    <2>1. CASE Rejected(r)
      <3>1. "QuorumApprovalRejected" \in AT!MayFollow(trail[r])
        BY SMTT(60), <1>9, <1>0, <2>1, MayFollowIn DEF LogApproval, TrailAt, AT!After
      <3> QED
        BY SMTT(60), <1>9, <1>0, <2>1, <3>1, LogLastTrail, TrailStops DEF LogApproval
    <2>2. CASE ~ Rejected(r)
      <3>1. /\ "QuorumApprovalReceived" \in AT!Kinds
            /\ "QuorumApprovalReceived" \in AT!MayFollow(trail[r])
        BY SMTT(60), <1>9, <1>0, <2>2, MayFollowIn DEF LogApproval, TrailAt, AT!Kinds, AT!After
      <3>2. /\ TrailMove(r)
            /\ \/ pc'[r] = "done"
               \/ /\ pc'[r] \in {"log_threshold", "log_approvals"}
                  /\ LastIn(r, {"QuorumApprovalReceived"})'
        BY <1>9, <1>0, <2>2, <3>1, LogThenTrail DEF LogApproval
      <3>3. ~ Rejected(r)'
        BY <1>9, <2>2 DEF LogApproval, SignFrame, approvalVars, Rejected, Rejecters, Recorded
      <3> QED
        BY <3>2, <3>3, TrailStops DEF TrailAt, LastIn
    <2> QED
      BY <2>1, <2>2
  <1>10. CASE LogThreshold(r)
    <2>1. "QuorumThresholdReached" \in AT!Kinds /\ "QuorumThresholdReached" \in AT!MayFollow(trail[r])
      BY SMTT(60), <1>10, <1>0, MayFollowIn DEF LogThreshold, TrailAt, AT!Kinds, AT!After
    <2>2. TrailMove(r) /\ (pc'[r] = "done" \/ (pc'[r] = Approved /\ LastIn(r, {"QuorumThresholdReached"})'))
      BY SMTT(60), <1>10, <1>0, <2>1, LogThenTrail DEF LogThreshold
    <2> QED
      BY <1>0, <2>2, TrailStops DEF TrailAt, LastIn
  <1>11. CASE SignDecision(r)
    BY SMTT(60), <1>11, <1>0 DEF SignDecision, Goto, Answer, TrailMove, TrailAt, LastIn
  <1>12. CASE LogDecisionSigned(r)
    <2>1. "PolicyDecisionSigned" \in AT!Kinds /\ "PolicyDecisionSigned" \in AT!MayFollow(trail[r])
      BY SMTT(60), <1>12, <1>0, MayFollowIn DEF LogDecisionSigned, TrailAt, AT!Kinds, AT!After
    <2>2. TrailMove(r) /\ (pc'[r] = "done" \/ (pc'[r] = "fetch_shares" /\ LastIn(r, {"PolicyDecisionSigned"})'))
      BY SMTT(60), <1>12, <1>0, <2>1, LogThenTrail DEF LogDecisionSigned
    <2> QED
      BY SMTT(60), <1>0, <2>2, TrailStops DEF TrailAt, LastIn
  <1>13. CASE FetchShares(r)
    BY SMTT(60), <1>13, <1>0 DEF FetchShares, Goto, Answer, TrailMove, TrailAt, LastIn
  <1>14. CASE LogAttempted(r)
    <2>1. "SigningAttempted" \in AT!Kinds /\ "SigningAttempted" \in AT!MayFollow(trail[r])
      BY SMTT(60), <1>14, <1>0, MayFollowIn DEF LogAttempted, TrailAt, AT!Kinds, AT!After
    <2>2. TrailMove(r) /\ (pc'[r] = "done" \/ (pc'[r] = "enclave" /\ LastIn(r, {"SigningAttempted"})'))
      BY ZenonT(60), <1>14, <1>0, <2>1, LogThenTrail DEF LogAttempted
    <2> QED
      BY <1>0, <2>2, TrailStops DEF TrailAt, LastIn
  <1>15. CASE EnclaveSign(r)
    BY <1>15, <1>0 DEF EnclaveSign, Goto, Answer, TrailMove, TrailAt, LastIn
  <1>16. CASE LogSucceeded(r)
    <2>1. "SigningSucceeded" \in AT!MayFollow(trail[r])
      BY SMT, <1>16, <1>0, MayFollowIn DEF LogSucceeded, TrailAt, AT!After
    <2> QED
      BY <1>16, <1>0, <2>1, LogLastTrail, TrailStops DEF LogSucceeded
  <1>17. CASE LogFailed(r)
    <2>1. "SigningFailed" \in AT!MayFollow(trail[r])
      BY SMT, <1>17, <1>0, MayFollowIn DEF LogFailed, TrailAt, AT!After
    <2> QED
      BY SMTT(60), <1>17, <1>0, <2>1, LogLastTrail, TrailStops DEF LogFailed
  <1> QED
    BY SMTT(60), <1>1, <1>2, <1>3, <1>4, <1>5, <1>6, <1>7, <1>8, <1>9, <1>10, <1>11, <1>12,
       <1>13, <1>14, <1>15, <1>16, <1>17 DEF SignStep

\* A collected approval is on record, so a late submission changes nothing
\* about whether the collected approvals hold a reject.
LEMMA StoreKeepsRejected ==
  ASSUME TypeOK, NEW q \in Requests, GateAt(q), pc[q] = "log_approvals",
         NEW s \in inflight, StoreApproval(s)
  PROVE  Rejected(q)' <=> Rejected(q)
  <1>1. \A a \in counted[q] : a \in Approvers /\ approvals[q][a] # NoApproval
    BY DEF GateAt, TypeOK
  <1>2. s.req \in Requests /\ s.who \in Approvers
    BY DEF TypeOK, Submissions
  <1>3. approvals \in [Requests -> [Approvers -> Approvals \cup {NoApproval}]]
    BY DEF TypeOK
  <1>4. \/ approvals' = approvals
        \/ /\ approvals[s.req][s.who] = NoApproval
           /\ approvals' = [approvals EXCEPT ![s.req] = [@ EXCEPT ![s.who] = s.appr]]
    BY DEF StoreApproval
  <1>5. \A a \in counted[q] : approvals'[q][a] = approvals[q][a]
    BY SMTT(60), <1>1, <1>2, <1>3, <1>4
  <1>6. counted' = counted
    BY DEF StoreApproval, callVars
  <1> QED
    BY SMTT(60), <1>1, <1>5, <1>6 DEF Rejected, Rejecters, Recorded

\* Every step keeps TrailInv and maps to a step of AuditTrail or to a stutter.
LEMMA TrailStep ==
  ASSUME Inv, TrailInv, [Next]_vars
  PROVE  TrailInv' /\ [AT!TrailNext]_trail
  <1>0. TypeOK /\ GateInv /\ \A q \in Requests : TrailAt(q)
    BY DEF Inv, TrailInv
  <1>1. ASSUME NEW r \in Requests, SignStep(r) \/ Accept(r)
        PROVE  TrailInv' /\ [AT!TrailNext]_trail
    <2>1. TrailMove(r) /\ TrailAt(r)'
      BY <1>1, SignTrail
    <2>2. ASSUME NEW q \in Requests \ {r} PROVE TrailAt(q)'
      <3>1. /\ pc'[q] = pc[q] /\ trail'[q] = trail[q]
            /\ approvals' = approvals /\ counted'[q] = counted[q]
        BY <1>0, <1>1, SignLeavesOthers DEF SameCall
      <3>2. Rejected(q)' <=> Rejected(q)
        BY <3>1 DEF Rejected, Rejecters, Recorded
      <3> QED
        BY SMTT(60), <1>0, <3>1, <3>2, TrailFrame
    <2> QED
      BY <2>1, <2>2 DEF TrailInv, TrailMove, AT!TrailNext
  <1>2. ASSUME trail' = trail, counted' = counted, approvals' = approvals,
               \A q \in Requests : pc'[q] = pc[q] \/ pc'[q] \in {"done", "dropped"}
        PROVE  TrailInv' /\ [AT!TrailNext]_trail
    <2>1. ASSUME NEW q \in Requests PROVE TrailAt(q)'
      <3>1. Rejected(q)' <=> Rejected(q)
        BY <1>2 DEF Rejected, Rejecters, Recorded
      <3> QED
        BY SMTT(60), <1>0, <1>2, <3>1, TrailFrame, TrailStops
    <2> QED
      BY <1>2, <2>1 DEF TrailInv
  <1>3. CASE \/ \E w \in Wallets : GenerateWallet(w) \/ CreateStep(w) \/ CreatorDisconnects(w)
             \/ \E r \in Requests, a \in Approvers, p \in Approvals : CheckSubmission(r, a, p)
             \/ \E a \in Approvers : RevokeApprover(a)
             \/ UNCHANGED vars
    <2>1. UNCHANGED <<trail, counted, approvals, pc>>
      BY <1>3 DEF GenerateWallet, CreateStep, PutShare, InsertWallet, LogCreated,
           CreatorDisconnects, CheckSubmission, RevokeApprover, vars, approvalVars, callVars
    <2> QED
      BY SMTT(60), <1>2, <2>1
  <1>4. CASE Crash \/ \E r \in Requests : Disconnect(r)
    <2>1. UNCHANGED <<trail, counted, approvals>>
      BY <1>4 DEF Crash, Disconnect, approvalVars, callVars
    <2>2. \A q \in Requests : pc'[q] = pc[q] \/ pc'[q] = "dropped"
      BY <1>0, <1>4 DEF Crash, Disconnect, TypeOK
    <2> QED
      BY SMTT(60), <1>2, <2>1, <2>2
  <1>5. ASSUME NEW s \in inflight, StoreApproval(s)
        PROVE  TrailInv' /\ [AT!TrailNext]_trail
    <2>1. UNCHANGED <<trail, counted, pc>>
      BY <1>5 DEF StoreApproval, callVars
    <2>2. \A q \in Requests : pc[q] = "log_approvals" => (Rejected(q)' <=> Rejected(q))
      BY <1>0, <1>5, StoreKeepsRejected DEF GateInv
    <2>3. TrailInv'
      BY <1>0, <2>1, <2>2, TrailFrame DEF TrailInv
    <2> QED
      BY <2>1, <2>3
  <1> QED
    BY <1>1, <1>3, <1>4, <1>5 DEF Next

\* The service's audit log is an AuditTrail: events of a request appear only in
\* the order the signing flow allows.
THEOREM ServiceWritesOrderedTrail == Spec => TrailIsOrdered
  <1>1. Init => TrailInv /\ AT!TrailInit
    BY DEF Init, TrailInv, TrailAt, AT!TrailInit
  <1>2. Inv /\ TrailInv /\ [Next]_vars => TrailInv' /\ [AT!TrailNext]_trail
    BY TrailStep
  <1> QED
    BY <1>1, <1>2, Invariance, PTL DEF Spec, TrailIsOrdered, AT!TrailSpec

-----------------------------------------------------------------------------
(* The log explains every signature, and agrees with what callers were told. *)

\* Places at which no approval and no quorum can be in the log yet, and places
\* at which the attempt is.
Unannounced ==
  {"idle", "log_requested", "evaluate", "log_evaluated", "request_approval", "log_notified",
   "collect", "log_timed_out"}
Attempted == {"enclave", "log_succeeded", "log_failed"}

Announced(r) ==
  /\ Count(r, "QuorumApprovalReceived") >= Quorum
  /\ Count(r, "QuorumThresholdReached") = 1

\* How often the events that matter are in the log of r.  While the collected
\* approvals are audited, those in the log and those still to be audited are
\* the counted ones.
CountAt(r) ==
  /\ pc[r] \notin Attempted \cup {"done", "dropped"} => Count(r, "SigningAttempted") = 0
  /\ pc[r] \in Attempted => Count(r, "SigningAttempted") = 1
  /\ pc[r] \in Unannounced \cup {"log_approvals", "log_threshold"} =>
       Count(r, "QuorumThresholdReached") = 0
  /\ pc[r] \in Unannounced => Count(r, "QuorumApprovalReceived") = 0
  /\ pc[r] = "log_approvals" /\ ~ Rejected(r) =>
       Count(r, "QuorumApprovalReceived") + todo[r] = Cardinality(counted[r])
  /\ pc[r] = "log_threshold" => Count(r, "QuorumApprovalReceived") >= Quorum
  /\ pc[r] \in SigningSteps /\ IsQuorum(decision[r]) => Announced(r)
  /\ r \in signatures =>
       Count(r, "SigningAttempted") = 1 /\ (IsQuorum(decision[r]) => Announced(r))
  /\ pc[r] = "log_succeeded" => r \in signatures

\* A caller is told something once, when its call is over.
AnswerAt(r) ==
  /\ answer[r] # "none" => pc[r] = "done"
  /\ answer[r] = "Ok" => r \in signatures /\ LastIn(r, {"SigningSucceeded"})
  /\ answer[r] \notin {"none", "Ok", "Audit"} => r \notin signatures
  /\ answer[r] = "Enclave" => LastIn(r, {"SigningFailed"})
  /\ answer[r] = "PolicyDenied" => LastIn(r, {"SigningEvaluated", "QuorumApprovalRejected"})
  /\ answer[r] = "QuorumTimeout" => LastIn(r, {"QuorumTimedOut"})

ExplainInv == \A r \in Requests : CountAt(r) /\ AnswerAt(r)

\* How often a kind occurs in a log.
Tally(s, j) == Cardinality({i \in DOMAIN s : s[i] = j})

\* A tally is a number, and an appended event counts for its own kind only.
LEMMA TallyAppend ==
  ASSUME NEW s \in Seq(AT!Kinds), NEW k \in AT!Kinds, NEW j \in AT!Kinds
  PROVE  /\ Tally(s, j) \in Nat
         /\ Tally(Append(s, k), j) = IF j = k THEN Tally(s, j) + 1 ELSE Tally(s, j)
  <1> DEFINE At == {i \in DOMAIN s : s[i] = j}
             AtNext == {i \in DOMAIN Append(s, k) : Append(s, k)[i] = j}
  <1>1. Len(s) \in Nat /\ DOMAIN s = 1 .. Len(s)
    BY SMT
  <1>2. IsFiniteSet(At) /\ Cardinality(At) \in Nat
    <2>1. IsFiniteSet(1 .. Len(s))
      BY SMT, <1>1, FS_Interval
    <2>2. IsFiniteSet(At)
      BY <1>1, <2>1, FS_Subset
    <2> QED
      BY <2>2, FS_CardinalityType
  <1>3. DOMAIN Append(s, k) = 1 .. Len(s) + 1
    BY SMT, <1>1
  <1>4. AtNext = IF j = k THEN At \cup {Len(s) + 1} ELSE At
    BY SMT, <1>1, <1>3
  <1>5. Len(s) + 1 \notin At
    BY SMT, <1>1
  <1> HIDE DEF At, AtNext
  <1>6. Cardinality(At \cup {Len(s) + 1}) = Cardinality(At) + 1
    BY ZenonT(60), <1>2, <1>5, FS_AddElement
  <1>7. Cardinality(AtNext) = IF j = k THEN Cardinality(At) + 1 ELSE Cardinality(At)
    BY <1>4, <1>6
  <1>8. Tally(s, j) = Cardinality(At) /\ Tally(Append(s, k), j) = Cardinality(AtNext)
    BY ZenonT(60) DEF At, AtNext, Tally
  <1> QED
    BY <1>2, <1>7, <1>8

\* What r's log holds after an event was written, and when nothing was.
Adds(r, k) ==
  \A j \in AT!Kinds : Count(r, j)' = IF j = k THEN Count(r, j) + 1 ELSE Count(r, j)
SameCounts(r) == \A j \in AT!Kinds : Count(r, j)' = Count(r, j)

\* Events are counted in natural numbers.
LEMMA CountType ==
  ASSUME TypeOK, NEW r \in Requests, NEW j \in AT!Kinds
  PROVE  Count(r, j) \in Nat
  <1>1. trail[r] \in Seq(AT!Kinds)
    BY DEF TypeOK
  <1>2. Count(r, j) = Tally(trail[r], j)
    BY DEF Count, Tally
  <1> QED
    BY <1>1, <1>2, TallyAppend

\* An event that is written is counted.
LEMMA LoggedCount ==
  ASSUME TypeOK, NEW r \in Requests, NEW k \in AT!Kinds, Logged(r, k)
  PROVE  Adds(r, k) /\ LastIn(r, {k})'
  <1>1. trail[r] \in Seq(AT!Kinds) /\ trail'[r] = Append(trail[r], k)
    BY DEF TypeOK, Logged
  <1>2. ASSUME NEW j \in AT!Kinds
        PROVE  Count(r, j) = Tally(trail[r], j) /\ Count(r, j)' = Tally(trail'[r], j)
    BY DEF Count, Tally
  <1>3. Adds(r, k)
    BY SMT, <1>1, <1>2, TallyAppend DEF Adds
  <1> QED
    BY ZenonT(60), <1>1, <1>3, AppendLast DEF LastIn

\* A log that is left alone.
LEMMA SameLog ==
  ASSUME NEW r \in Requests, trail'[r] = trail[r]
  PROVE  SameCounts(r)
  BY DEF SameCounts, Count

\* An emit in the middle of a call: it fails and the caller is told, or the
\* event counts and the call goes on.
LEMMA LogThenCounts ==
  ASSUME TypeOK, NEW r \in Requests, NEW k \in AT!Kinds, NEW step, LogThen(r, k, step)
  PROVE  \/ pc'[r] = "done" /\ answer'[r] = "Audit"
         \/ pc'[r] = step /\ answer' = answer /\ Adds(r, k)
  <1>1. DOMAIN pc = Requests /\ DOMAIN answer = Requests
    BY DEF TypeOK
  <1>2. CASE Logged(r, k) /\ Goto(r, step)
    BY <1>1, <1>2, LoggedCount DEF Goto
  <1>3. CASE LogFails(r, k)
    BY <1>1, <1>3 DEF LogFails, Answer
  <1> QED
    BY <1>2, <1>3 DEF LogThen

\* The last emit of a call: whatever becomes of it, at most one event of that
\* kind is new, and unless the emit failed it is the last.
LEMMA LogLastCounts ==
  ASSUME TypeOK, NEW r \in Requests, NEW k \in AT!Kinds, NEW a, LogLast(r, k, a)
  PROVE  /\ pc'[r] = "done"
         /\ Adds(r, k) \/ SameCounts(r)
         /\ answer'[r] = "Audit" \/ (answer'[r] = a /\ LastIn(r, {k})')
  <1>1. DOMAIN pc = Requests /\ DOMAIN answer = Requests
    BY DEF TypeOK
  <1>2. Logged(r, k) \/ UNCHANGED trail
    BY DEF LogLast, LogFails
  <1>3. Adds(r, k) \/ SameCounts(r)
    BY <1>2, LoggedCount, SameLog
  <1>4. pc'[r] = "done" /\ (answer'[r] = "Audit" \/ (answer'[r] = a /\ Logged(r, k)))
    BY <1>1 DEF LogLast, LogFails, Answer
  <1> QED
    BY <1>3, <1>4, LoggedCount

\* A call that ends without a signature, or has not been answered, leaves
\* nothing to explain.
LEMMA EndsUnsigned ==
  ASSUME NEW r \in Requests, r \notin signatures', pc'[r] \in {"done", "dropped"}
  PROVE  CountAt(r)'
  BY DEF CountAt, Attempted, Unannounced, SigningSteps

\* The caller has not been told anything, or only that the log failed.
LEMMA ToldNothing ==
  ASSUME NEW r \in Requests,
         answer'[r] = "none" \/ (answer'[r] = "Audit" /\ pc'[r] = "done")
  PROVE  AnswerAt(r)'
  BY DEF AnswerAt

\* The caller of a call that ended without a signature or an event of its own.
LEMMA ToldRefusal ==
  ASSUME NEW r \in Requests, r \notin signatures', pc'[r] = "done",
         answer'[r] \in {"WalletNotFound", "Policy", "Quorum", "Internal",
                         "InsufficientShares", "Store"}
  PROVE  AnswerAt(r)'
  BY DEF AnswerAt

\* The steps of one sign call keep CountAt and AnswerAt for it.
LEMMA ExplainSign ==
  ASSUME Inv, ExplainInv, NEW r \in Requests, SignStep(r) \/ Accept(r)
  PROVE  CountAt(r)' /\ AnswerAt(r)'
  <1>0. TypeOK /\ GateAt(r) /\ CountAt(r) /\ AnswerAt(r)
    BY DEF Inv, GateInv, ExplainInv
  <1>t. /\ DOMAIN pc = Requests /\ DOMAIN answer = Requests /\ DOMAIN counted = Requests
        /\ DOMAIN todo = Requests /\ DOMAIN decision = Requests
    BY <1>0 DEF TypeOK
  <1>p. Approved \in {"sign_decision", "fetch_shares"}
    BY DEF Approved
  <1>k. /\ "SigningRequested" \in AT!Kinds /\ "SigningEvaluated" \in AT!Kinds
        /\ "QuorumNotified" \in AT!Kinds /\ "QuorumTimedOut" \in AT!Kinds
        /\ "QuorumApprovalReceived" \in AT!Kinds /\ "QuorumApprovalRejected" \in AT!Kinds
        /\ "QuorumThresholdReached" \in AT!Kinds /\ "PolicyDecisionSigned" \in AT!Kinds
        /\ "SigningAttempted" \in AT!Kinds /\ "SigningSucceeded" \in AT!Kinds
        /\ "SigningFailed" \in AT!Kinds
    BY DEF AT!Kinds
  <1>n. answer[r] = "none"
    <2>1. pc[r] # "done"
      BY ZenonT(60) DEF Accept, SignStep, LogRequested, Evaluate, LogEvaluated, RequestApproval,
           LogNotified, Collect, LogTimedOut, LogApproval, LogThreshold, SignDecision,
           LogDecisionSigned, FetchShares, LogAttempted, EnclaveSign, LogSucceeded, LogFailed
    <2> QED
      BY <1>0, <2>1 DEF AnswerAt
  <1>u. pc[r] \notin {"log_succeeded", "done", "dropped"} => r \notin signatures
    BY <1>0, Unsigned
  <1> USE <1>0, <1>t, <1>n
  <1>1. CASE Accept(r)
    <2>1. r \notin signatures' /\ trail' = trail /\ UNCHANGED <<decision, counted, todo>>
      BY <1>1, <1>u DEF Accept
    <2>2. \/ pc'[r] = "log_requested" /\ answer'[r] = "none"
          \/ pc'[r] = "done" /\ answer'[r] = "WalletNotFound"
      BY <1>1 DEF Accept, Goto, Answer
    <2>3. CountAt(r)'
      BY <1>1, <1>k, <2>1, <2>2, SameLog, EndsUnsigned
         DEF Accept, SameCounts, CountAt, Attempted, Unannounced, SigningSteps
    <2> QED
      BY <2>1, <2>2, <2>3, ToldNothing, ToldRefusal
  <1>2. CASE LogRequested(r)
    <2>1. \/ pc'[r] = "done" /\ answer'[r] = "Audit"
          \/ pc'[r] \in {"evaluate"} /\ answer' = answer /\ Adds(r, "SigningRequested")
      BY <1>2, <1>p, <1>k, LogThenCounts DEF LogRequested
    <2>2. r \notin signatures /\ r \notin signatures' /\ UNCHANGED <<decision, counted, todo>>
      BY <1>2, <1>u DEF LogRequested
    <2>3. CountAt(r)'
      BY <1>2, <1>k, <2>1, <2>2, EndsUnsigned
         DEF LogRequested, Adds, CountAt, Attempted, Unannounced, SigningSteps
    <2> QED
      BY <2>1, <2>3, ToldNothing
  <1>3. CASE Evaluate(r)
    <2>1. r \notin signatures' /\ trail' = trail /\ UNCHANGED <<counted, todo>>
      BY <1>3, <1>u DEF Evaluate
    <2>2. \/ pc'[r] = "log_evaluated" /\ answer'[r] = "none"
          \/ pc'[r] = "done" /\ answer'[r] = "Policy"
      BY <1>3 DEF Evaluate, Goto, Answer
    <2>3. CountAt(r)'
      BY <1>3, <1>k, <2>1, <2>2, SameLog, EndsUnsigned
         DEF Evaluate, SameCounts, CountAt, Attempted, Unannounced, SigningSteps
    <2> QED
      BY <2>1, <2>2, <2>3, ToldNothing, ToldRefusal
  <1>4. CASE LogEvaluated(r)
    <2>1. r \notin signatures /\ r \notin signatures' /\ UNCHANGED <<decision, counted, todo>>
      BY <1>4, <1>u DEF LogEvaluated
    <2>2. CASE decision[r] = "Deny" /\ LogLast(r, "SigningEvaluated", "PolicyDenied")
      <3>1. /\ pc'[r] = "done"
            /\ answer'[r] = "Audit" \/ (answer'[r] = "PolicyDenied" /\ LastIn(r, {"SigningEvaluated"})')
        BY <1>k, <2>2, LogLastCounts
      <3>2. AnswerAt(r)'
        BY <2>1, <3>1 DEF AnswerAt, LastIn
      <3> QED
        BY <2>1, <3>1, <3>2, EndsUnsigned
    <2>3. ASSUME NEW step \in {"request_approval", "sign_decision", "fetch_shares"},
                 LogThen(r, "SigningEvaluated", step),
                 step # "request_approval" => decision[r] = "Allow"
          PROVE  CountAt(r)' /\ AnswerAt(r)'
      <3>1. \/ pc'[r] = "done" /\ answer'[r] = "Audit"
            \/ pc'[r] = step /\ answer' = answer /\ Adds(r, "SigningEvaluated")
        BY <1>k, <2>3, LogThenCounts
      <3>2. CountAt(r)'
        BY <1>4, <1>k, <2>1, <2>3, <3>1, EndsUnsigned
           DEF LogEvaluated, Adds, CountAt, Attempted, Unannounced, SigningSteps, IsQuorum
      <3> QED
        BY <3>1, <3>2, ToldNothing
    <2> QED
      BY <1>4, <1>p, <2>2, <2>3 DEF LogEvaluated
  <1>5. CASE RequestApproval(r)
    <2>1. /\ r \notin signatures' /\ trail' = trail
          /\ UNCHANGED <<decision, counted, todo>>
      BY <1>5, <1>u DEF RequestApproval
    <2>2. \/ pc'[r] = "log_notified" /\ answer'[r] = "none"
          \/ pc'[r] = "done" /\ answer'[r] = "Quorum"
      BY <1>5 DEF RequestApproval, Goto, Answer
    <2>3. CountAt(r)'
      BY <1>5, <1>k, <2>1, <2>2, SameLog, EndsUnsigned
         DEF RequestApproval, SameCounts, CountAt, Attempted, Unannounced, SigningSteps
    <2> QED
      BY <2>1, <2>2, <2>3, ToldNothing, ToldRefusal
  <1>6. CASE LogNotified(r)
    <2>1. \/ pc'[r] = "done" /\ answer'[r] = "Audit"
          \/ pc'[r] \in {"collect"} /\ answer' = answer /\ Adds(r, "QuorumNotified")
      BY <1>6, <1>p, <1>k, LogThenCounts DEF LogNotified
    <2>2. r \notin signatures /\ r \notin signatures' /\ UNCHANGED <<decision, counted, todo>>
      BY <1>6, <1>u DEF LogNotified
    <2>3. CountAt(r)'
      BY <1>6, <1>k, <2>1, <2>2, EndsUnsigned
         DEF LogNotified, Adds, CountAt, Attempted, Unannounced, SigningSteps
    <2> QED
      BY <2>1, <2>3, ToldNothing
  <1>7. CASE Collect(r)
    <2>1. /\ r \notin signatures' /\ trail' = trail /\ UNCHANGED <<decision, approvals>>
      BY <1>7, <1>u DEF Collect, SignFrame, approvalVars
    <2>2. CASE pc'[r] = "done" /\ answer'[r] = "Quorum"
      BY <2>1, <2>2, EndsUnsigned, ToldRefusal
    <2>3. CASE pc'[r] = "log_timed_out" /\ answer'[r] = "none"
      BY <1>7, <1>k, <2>1, <2>3, SameLog, ToldNothing
         DEF Collect, SameCounts, CountAt, Attempted, Unannounced, SigningSteps
    <2>4. ASSUME pc'[r] = "log_approvals", answer'[r] = "none",
                 Rejected(r)' \/ todo'[r] = Cardinality(counted'[r]), todo'[r] \in Nat
          PROVE  CountAt(r)' /\ AnswerAt(r)'
      <3>1. CountAt(r)'
        BY SMT, <1>7, <1>k, <2>1, <2>4, SameLog
           DEF Collect, SameCounts, CountAt, Attempted, Unannounced, SigningSteps
      <3> QED
        BY <2>4, <3>1, ToldNothing
    <2>5. ASSUME NEW a \in Rejecters(r), counted' = [counted EXCEPT ![r] = {a}]
          PROVE  Rejected(r)'
      BY <2>1, <2>5 DEF Rejected, Rejecters, Recorded
    <2> QED
      BY SMT, <1>7, <2>2, <2>3, <2>4, <2>5, RecordedFinite DEF Collect, Goto, Answer
  <1>8. CASE LogTimedOut(r)
    <2>1. r \notin signatures'
      BY <1>8, <1>u DEF LogTimedOut
    <2>2. /\ pc'[r] = "done"
          /\ answer'[r] = "Audit" \/ (answer'[r] = "QuorumTimeout" /\ LastIn(r, {"QuorumTimedOut"})')
      BY <1>8, <1>k, LogLastCounts DEF LogTimedOut
    <2>3. AnswerAt(r)'
      BY <2>1, <2>2 DEF AnswerAt
    <2> QED
      BY <2>1, <2>2, <2>3, EndsUnsigned
  <1>9. CASE LogApproval(r)
    <2>1. /\ r \notin signatures /\ r \notin signatures' /\ UNCHANGED <<decision, counted, approvals>>
          /\ pc[r] = "log_approvals" /\ todo'[r] = todo[r] - 1
      BY <1>9, <1>u DEF LogApproval, SignFrame, approvalVars
    <2>2. CASE Rejected(r) /\ LogLast(r, "QuorumApprovalRejected", "PolicyDenied")
      <3>1. /\ pc'[r] = "done"
            /\ \/ answer'[r] = "Audit"
               \/ answer'[r] = "PolicyDenied" /\ LastIn(r, {"QuorumApprovalRejected"})'
        BY <1>k, <2>2, LogLastCounts
      <3>2. AnswerAt(r)'
        BY <2>1, <3>1 DEF AnswerAt, LastIn
      <3> QED
        BY <2>1, <3>1, <3>2, EndsUnsigned
    <2>3. CASE /\ ~ Rejected(r)
               /\ LogThen(r, "QuorumApprovalReceived",
                          IF todo[r] = 1 THEN "log_threshold" ELSE "log_approvals")
      <3>1. \/ pc'[r] = "done" /\ answer'[r] = "Audit"
            \/ /\ pc'[r] = IF todo[r] = 1 THEN "log_threshold" ELSE "log_approvals"
               /\ answer' = answer /\ Adds(r, "QuorumApprovalReceived")
        BY <1>k, <2>3, LogThenCounts
      <3>2. /\ Count(r, "QuorumApprovalReceived") + todo[r] = Cardinality(counted[r])
            /\ Cardinality(counted[r]) >= Quorum /\ todo[r] \in Nat /\ Quorum \in Nat
            /\ Count(r, "QuorumApprovalReceived") \in Nat
        BY <1>k, <2>1, <2>3, CountType, ServiceAssumption DEF CountAt, GateAt, TypeOK
      <3>3. ~ Rejected(r)'
        BY <2>1, <2>3 DEF Rejected, Rejecters, Recorded
      <3>4. CASE pc'[r] # "done"
        <4>1. /\ Count(r, "QuorumApprovalReceived")' = Count(r, "QuorumApprovalReceived") + 1
              /\ Count(r, "QuorumThresholdReached")' = 0 /\ Count(r, "SigningAttempted")' = 0
          BY <1>k, <2>1, <3>1, <3>4 DEF Adds, CountAt, Attempted
        <4>2. Count(r, "QuorumApprovalReceived")' + todo'[r] = Cardinality(counted'[r])
          BY SMT, <2>1, <3>2, <4>1
        <4>3. todo[r] = 1 => Count(r, "QuorumApprovalReceived")' >= Quorum
          BY <3>2, <4>1
        <4> QED
          BY <2>1, <3>1, <3>4, <4>1, <4>2, <4>3, ToldNothing
             DEF CountAt, Attempted, Unannounced, SigningSteps
      <3> QED
        BY <2>1, <3>1, <3>4, EndsUnsigned, ToldNothing
    <2> QED
      BY <1>9, <2>2, <2>3 DEF LogApproval
  <1>10. CASE LogThreshold(r)
    <2>1. \/ pc'[r] = "done" /\ answer'[r] = "Audit"
          \/ /\ pc'[r] \in {"sign_decision", "fetch_shares"} /\ answer' = answer
             /\ Adds(r, "QuorumThresholdReached")
      BY <1>10, <1>p, <1>k, LogThenCounts DEF LogThreshold
    <2>2. r \notin signatures /\ r \notin signatures' /\ UNCHANGED <<decision, counted, todo>>
      BY <1>10, <1>u DEF LogThreshold
    <2>3. CountAt(r)'
      BY SMT, <1>10, <1>k, <2>1, <2>2, EndsUnsigned
         DEF LogThreshold, Adds, CountAt, Announced, Attempted, Unannounced, SigningSteps
    <2> QED
      BY <2>1, <2>3, ToldNothing
  <1>11. CASE SignDecision(r)
    <2>1. r \notin signatures' /\ trail' = trail /\ UNCHANGED <<decision, counted, todo>>
      BY <1>11, <1>u DEF SignDecision
    <2>2. \/ pc'[r] = "log_decision_signed" /\ answer'[r] = "none"
          \/ pc'[r] = "done" /\ answer'[r] \in {"Internal"}
      BY <1>11 DEF SignDecision, Goto, Answer
    <2>3. CountAt(r)'
      BY <1>11, <1>k, <2>1, <2>2, SameLog, EndsUnsigned
         DEF SignDecision, SameCounts, CountAt, Announced, Attempted, Unannounced, SigningSteps, IsQuorum
    <2> QED
      BY <2>1, <2>2, <2>3, ToldNothing, ToldRefusal
  <1>12. CASE LogDecisionSigned(r)
    <2>1. \/ pc'[r] = "done" /\ answer'[r] = "Audit"
          \/ pc'[r] \in {"fetch_shares"} /\ answer' = answer /\ Adds(r, "PolicyDecisionSigned")
      BY <1>12, <1>p, <1>k, LogThenCounts DEF LogDecisionSigned
    <2>2. r \notin signatures /\ r \notin signatures' /\ UNCHANGED <<decision, counted, todo>>
      BY <1>12, <1>u DEF LogDecisionSigned
    <2>3. CountAt(r)'
      BY <1>12, <1>k, <2>1, <2>2, EndsUnsigned
         DEF LogDecisionSigned, Adds, CountAt, Announced, Attempted, Unannounced, SigningSteps, IsQuorum
    <2> QED
      BY <2>1, <2>3, ToldNothing
  <1>13. CASE FetchShares(r)
    <2>1. r \notin signatures' /\ trail' = trail /\ UNCHANGED <<decision, counted, todo>>
      BY <1>13, <1>u DEF FetchShares
    <2>2. \/ pc'[r] = "log_attempted" /\ answer'[r] = "none"
          \/ pc'[r] = "done" /\ answer'[r] \in {"InsufficientShares", "Store"}
      BY <1>13 DEF FetchShares, Goto, Answer
    <2>3. CountAt(r)'
      BY <1>13, <1>k, <2>1, <2>2, SameLog, EndsUnsigned
         DEF FetchShares, SameCounts, CountAt, Announced, Attempted, Unannounced, SigningSteps, IsQuorum
    <2> QED
      BY <2>1, <2>2, <2>3, ToldNothing, ToldRefusal
  <1>14. CASE LogAttempted(r)
    <2>1. \/ pc'[r] = "done" /\ answer'[r] = "Audit"
          \/ pc'[r] \in {"enclave"} /\ answer' = answer /\ Adds(r, "SigningAttempted")
      BY <1>14, <1>p, <1>k, LogThenCounts DEF LogAttempted
    <2>2. r \notin signatures /\ r \notin signatures' /\ UNCHANGED <<decision, counted, todo>>
      BY <1>14, <1>u DEF LogAttempted
    <2>3. CountAt(r)'
      BY SMT, <1>14, <1>k, <2>1, <2>2, EndsUnsigned
         DEF LogAttempted, Adds, CountAt, Announced, Attempted, Unannounced, SigningSteps, IsQuorum
    <2> QED
      BY <2>1, <2>3, ToldNothing
  <1>15. CASE EnclaveSign(r)
    <2>1. trail' = trail /\ UNCHANGED <<decision, counted, todo>> /\ answer'[r] = "none"
      BY <1>15 DEF EnclaveSign, Goto
    <2>2. \/ pc'[r] = "log_succeeded" /\ r \in signatures'
          \/ pc'[r] = "log_failed" /\ r \notin signatures'
      BY <1>15, <1>u DEF EnclaveSign, Goto
    <2>3. CountAt(r)'
      BY <1>15, <1>k, <2>1, <2>2, SameLog
         DEF EnclaveSign, SameCounts, CountAt, Announced, Attempted, Unannounced, SigningSteps, IsQuorum
    <2> QED
      BY <2>1, <2>3, ToldNothing
  <1>16. CASE LogSucceeded(r)
    <2>1. signatures' = signatures /\ r \in signatures /\ decision' = decision
      BY <1>16 DEF LogSucceeded, CountAt
    <2>2. /\ pc'[r] = "done" /\ (Adds(r, "SigningSucceeded") \/ SameCounts(r))
          /\ answer'[r] = "Audit" \/ (answer'[r] = "Ok" /\ LastIn(r, {"SigningSucceeded"})')
      BY <1>16, <1>k, LogLastCounts DEF LogSucceeded
    <2>3. CountAt(r)'
      BY <1>k, <2>1, <2>2
         DEF Adds, SameCounts, CountAt, Announced, Attempted, Unannounced, SigningSteps, IsQuorum
    <2>4. AnswerAt(r)'
      BY <2>1, <2>2 DEF AnswerAt
    <2> QED
      BY <2>3, <2>4
  <1>17. CASE LogFailed(r)
    <2>1. r \notin signatures'
      BY <1>17, <1>u DEF LogFailed
    <2>2. /\ pc'[r] = "done"
          /\ answer'[r] = "Audit" \/ (answer'[r] = "Enclave" /\ LastIn(r, {"SigningFailed"})')
      BY <1>17, <1>k, LogLastCounts DEF LogFailed
    <2>3. AnswerAt(r)'
      BY <2>1, <2>2 DEF AnswerAt
    <2> QED
      BY <2>1, <2>2, <2>3, EndsUnsigned
  <1> QED
    BY SMTT(60), <1>1, <1>2, <1>3, <1>4, <1>5, <1>6, <1>7, <1>8, <1>9, <1>10, <1>11, <1>12,
       <1>13, <1>14, <1>15, <1>16, <1>17 DEF SignStep

\* A call that a step leaves alone.
LEMMA ExplainFrame ==
  ASSUME NEW q \in Requests, CountAt(q), AnswerAt(q), trail'[q] = trail[q],
         pc'[q] = pc[q], todo'[q] = todo[q], decision'[q] = decision[q],
         counted'[q] = counted[q], answer'[q] = answer[q],
         (q \in signatures') <=> (q \in signatures),
         pc[q] = "log_approvals" => (Rejected(q)' <=> Rejected(q))
  PROVE  CountAt(q)' /\ AnswerAt(q)'
  <1>1. \A j \in AT!Kinds : Count(q, j)' = Count(q, j)
    BY SameLog DEF SameCounts
  <1>2. /\ "QuorumApprovalReceived" \in AT!Kinds /\ "QuorumThresholdReached" \in AT!Kinds
        /\ "SigningAttempted" \in AT!Kinds
    BY DEF AT!Kinds
  <1>3. CountAt(q)'
    BY <1>1, <1>2 DEF CountAt, Announced, IsQuorum
  <1> QED
    BY <1>3 DEF AnswerAt, LastIn

\* A call whose task goes away: its log, and a signature it got, stay.
LEMMA ExplainDropped ==
  ASSUME NEW q \in Requests, CountAt(q), AnswerAt(q), trail'[q] = trail[q],
         pc[q] # "done", pc'[q] = "dropped", decision'[q] = decision[q],
         answer'[q] = answer[q], (q \in signatures') <=> (q \in signatures)
  PROVE  CountAt(q)' /\ AnswerAt(q)'
  <1>1. \A j \in AT!Kinds : Count(q, j)' = Count(q, j)
    BY SameLog DEF SameCounts
  <1>2. /\ "QuorumApprovalReceived" \in AT!Kinds /\ "QuorumThresholdReached" \in AT!Kinds
        /\ "SigningAttempted" \in AT!Kinds
    BY DEF AT!Kinds
  <1>3. CountAt(q)'
    BY <1>1, <1>2
       DEF CountAt, Announced, Attempted, Unannounced, SigningSteps, IsQuorum
  <1> QED
    BY <1>3, ToldNothing DEF AnswerAt

\* Every step keeps ExplainInv.
LEMMA ExplainStep ==
  ASSUME Inv, ExplainInv, [Next]_vars
  PROVE  ExplainInv'
  <1> SUFFICES ASSUME NEW q \in Requests PROVE CountAt(q)' /\ AnswerAt(q)'
    BY DEF ExplainInv
  <1>0. TypeOK /\ GateAt(q) /\ CountAt(q) /\ AnswerAt(q)
    BY DEF Inv, GateInv, ExplainInv
  <1>1. CASE SignStep(q) \/ Accept(q)
    BY <1>1, ExplainSign
  <1>5. ASSUME NEW r \in Requests \ {q}, SignStep(r) \/ Accept(r)
        PROVE  CountAt(q)' /\ AnswerAt(q)'
    <2>1. /\ pc'[q] = pc[q] /\ todo'[q] = todo[q] /\ answer'[q] = answer[q]
          /\ trail'[q] = trail[q] /\ ((q \in signatures') <=> (q \in signatures))
          /\ decision'[q] = decision[q] /\ counted'[q] = counted[q] /\ approvals' = approvals
      BY <1>0, <1>5, SignLeavesOthers DEF SameCall
    <2>2. Rejected(q)' <=> Rejected(q)
      BY <2>1 DEF Rejected, Rejecters, Recorded
    <2> QED
      BY <1>0, <2>1, <2>2, ExplainFrame
  <1>2. CASE \/ \E w \in Wallets : GenerateWallet(w) \/ CreateStep(w) \/ CreatorDisconnects(w)
             \/ \E r \in Requests, a \in Approvers, p \in Approvals : CheckSubmission(r, a, p)
             \/ \E a \in Approvers : RevokeApprover(a)
             \/ UNCHANGED vars
    <2>1. UNCHANGED <<trail, counted, approvals, pc, todo, decision, answer, signatures>>
      BY <1>2 DEF GenerateWallet, CreateStep, PutShare, InsertWallet, LogCreated,
           CreatorDisconnects, CheckSubmission, RevokeApprover, vars, approvalVars, callVars
    <2>2. Rejected(q)' <=> Rejected(q)
      BY <2>1 DEF Rejected, Rejecters, Recorded
    <2> QED
      BY <1>0, <2>1, <2>2, ExplainFrame
  <1>3. CASE Crash \/ \E r \in Requests : Disconnect(r)
    <2>1. UNCHANGED <<trail, counted, approvals, todo, decision, answer, signatures>>
      BY <1>3 DEF Crash, Disconnect, approvalVars, callVars
    <2>2. pc'[q] = pc[q] \/ (pc'[q] = "dropped" /\ pc[q] # "done")
      BY <1>0, <1>3 DEF Crash, Disconnect, TypeOK, Steps
    <2>3. Rejected(q)' <=> Rejected(q)
      BY <2>1 DEF Rejected, Rejecters, Recorded
    <2> QED
      BY <1>0, <2>1, <2>2, <2>3, ExplainFrame, ExplainDropped
  <1>4. ASSUME NEW s \in inflight, StoreApproval(s) PROVE CountAt(q)' /\ AnswerAt(q)'
    <2>1. UNCHANGED <<trail, counted, pc, todo, decision, answer, signatures>>
      BY <1>4 DEF StoreApproval, callVars
    <2>2. pc[q] = "log_approvals" => (Rejected(q)' <=> Rejected(q))
      BY <1>0, <1>4, StoreKeepsRejected
    <2> QED
      BY <1>0, <2>1, <2>2, ExplainFrame
  <1> QED
    BY <1>1, <1>2, <1>3, <1>4, <1>5 DEF Next

\* The invariant of the audit log holds in every reachable state.
LEMMA ExplainAlways == Spec => []ExplainInv
  <1>1. Init => ExplainInv
    <2> SUFFICES ASSUME Init, NEW r \in Requests PROVE CountAt(r) /\ AnswerAt(r)
      BY DEF ExplainInv
    <2>1. pc[r] = "idle" /\ answer[r] = "none" /\ trail[r] = << >> /\ signatures = {}
      BY DEF Init
    <2>2. \A j : Count(r, j) = 0
      BY SMT, <2>1, FS_EmptySet DEF Count
    <2> QED
      BY <2>1, <2>2 DEF CountAt, AnswerAt, Attempted, Unannounced, SigningSteps
  <1>2. Inv /\ ExplainInv /\ [Next]_vars => ExplainInv'
    BY ExplainStep
  <1> QED
    BY <1>1, <1>2, Invariance, PTL DEF Spec

\* From the audit log alone one sees why a signature exists: one attempt, and
\* after a quorum at least Quorum approvals and their announcement, whichever
\* emits fail and however many calls run.
THEOREM SignaturesAreExplained == Spec => []SignatureIsExplained
  <1>1. Inv /\ ExplainInv => SignatureIsExplained
    BY DEF Inv, TypeOK, ExplainInv, CountAt, Announced, SignatureIsExplained
  <1> QED
    BY <1>1, Invariance, ExplainAlways, PTL

\* What a caller is told is what the log of its request says last, and whether
\* there is a signature, for any number of calls.
THEOREM AnswersMatchTrail == Spec => []AnswerMatchesTrail
  <1>1. ExplainInv => AnswerMatchesTrail
    BY DEF ExplainInv, AnswerAt, LastIn, AnswerMatchesTrail
  <1> QED
    BY <1>1, ExplainAlways, PTL
=============================================================================
