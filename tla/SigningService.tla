--------------------------- MODULE SigningService ---------------------------
(***************************************************************************)
(* WalletService (qfc-server-wallet/src/service.rs): create_wallet, sign   *)
(* and record_approval, as the concurrent tasks that run them.             *)
(*                                                                         *)
(* Every await is a step of its own: other requests, submissions and       *)
(* revocations run in between, the call behind it can fail, and the task   *)
(* can be dropped there (client gone) or lost with the process (crash).    *)
(* The subsystems appear as what the service sees of them: the policy      *)
(* answers some decision, the collector answers from the approvals on      *)
(* record, the share store and the audit log keep what they acknowledged,  *)
(* the enclave signs or refuses.                                           *)
(*                                                                         *)
(* No code path makes a wallet record Frozen or Revoked, so a record is    *)
(* just present or absent here.                                            *)
(***************************************************************************)
EXTENDS Naturals, Sequences, FiniteSets

CONSTANTS
  Requests,        \* sign calls (each gets a fresh request id)
  Wallets,         \* wallet ids that create_wallet can mint
  Approvers,       \* registered approvers
  NoApproval,      \* "this approver has nothing on record for the request"
  Total,           \* shares per wallet (N)
  ShareThreshold,  \* shares a signature needs (M)
  Quorum,          \* approvals the RequireQuorum decision asks for
  MaxCrashes,      \* bound: process crashes
  MaxInflight      \* bound: submissions between their check and the store

ASSUME ServiceAssumption ==
  /\ Total \in Nat /\ ShareThreshold \in Nat
  /\ 2 <= ShareThreshold /\ ShareThreshold <= Total
  /\ Quorum \in Nat \ {0}
  /\ IsFiniteSet(Approvers)
  /\ MaxCrashes \in Nat /\ MaxInflight \in Nat

\* An approval names the request and the hash of the message the approver
\* signed: the request's own message, or another one.
Approvals == [decision : {"Approve", "Reject"}, message : {"own", "other"}]

ASSUME NoApprovalAssumption == NoApproval \notin Approvals

\* Policy decisions.  A RequireQuorum decision names an approver set that the
\* registry knows or does not know.
PolicyDecisions == {"Allow", "Deny", "RequireQuorum", "RequireQuorumUnknownSet"}

IsQuorum(d) == d \in {"RequireQuorum", "RequireQuorumUnknownSet"}

VARIABLES
  wallets,     \* wallets with a live record
  stored,      \* [Wallets -> share indices acknowledged by the share store]
  creation,    \* [Wallets -> state of the create_wallet call that mints it]
  revoked,     \* approvers whose status is Revoked
  approvals,   \* [Requests -> [Approvers -> approval on record or NoApproval]]
  inflight,    \* submissions that passed their checks and are not stored yet
  pc,          \* [Requests -> where the sign call is]
  wallet,      \* [Requests -> the wallet of the sign call]
  decision,    \* [Requests -> the policy decision, "none" before it]
  counted,     \* [Requests -> approvers whose approvals were collected]
  todo,        \* [Requests -> collected approvals not yet audited]
  answer,      \* [Requests -> what the caller got]
  trail,       \* [Requests -> kinds of its events in the audit log]
  signatures,  \* requests whose signature the enclave returned
  crashes,     \* number of crashes so far
  config       \* how the service was wired at start; never changes

walletVars == <<wallets, stored, creation>>
approvalVars == <<revoked, approvals, inflight>>
callVars == <<wallet, decision, counted, todo>>
vars == <<walletVars, approvalVars, callVars, pc, answer, trail, signatures, crashes, config>>

\* `signer`: a PolicyServiceSigner is configured.  `verifier`: the enclave has
\* no pinned policy-service key ("off"), or one with require_signed_decision
\* unset ("lax") or set ("strict").
Configs == [signer : BOOLEAN, verifier : {"off", "lax", "strict"}]

Steps ==
  {"log_requested", "evaluate", "log_evaluated", "request_approval", "log_notified",
   "collect", "log_timed_out", "log_approvals", "log_threshold", "sign_decision",
   "log_decision_signed", "fetch_shares", "log_attempted", "enclave",
   "log_succeeded", "log_failed"}

Answers ==
  {"none", "WalletNotFound", "Audit", "Policy", "PolicyDenied", "Quorum",
   "QuorumTimeout", "Internal", "InsufficientShares", "Store", "Enclave", "Ok"}

Submissions == [req : Requests, who : Approvers, appr : Approvals]

AT == INSTANCE AuditTrail

TypeOK ==
  /\ wallets \subseteq Wallets
  /\ stored \in [Wallets -> SUBSET (1 .. Total)]
  /\ creation \in [Wallets -> {"none", "put", "insert", "log", "created", "failed"}]
  /\ revoked \subseteq Approvers
  /\ approvals \in [Requests -> [Approvers -> Approvals \cup {NoApproval}]]
  /\ inflight \subseteq Submissions
  /\ pc \in [Requests -> Steps \cup {"idle", "done", "dropped"}]
  /\ wallet \in [Requests -> Wallets]
  /\ decision \in [Requests -> PolicyDecisions \cup {"none"}]
  /\ counted \in [Requests -> SUBSET Approvers]
  /\ todo \in [Requests -> Nat]
  /\ answer \in [Requests -> Answers]
  /\ trail \in [Requests -> Seq(AT!Kinds)]
  /\ signatures \subseteq Requests
  /\ crashes \in 0 .. MaxCrashes
  /\ config \in Configs

Init ==
  /\ wallets = {}
  /\ stored = [w \in Wallets |-> {}]
  /\ creation = [w \in Wallets |-> "none"]
  /\ revoked = {}
  /\ approvals = [r \in Requests |-> [a \in Approvers |-> NoApproval]]
  /\ inflight = {}
  /\ pc = [r \in Requests |-> "idle"]
  /\ wallet \in [Requests -> Wallets]
  /\ decision = [r \in Requests |-> "none"]
  /\ counted = [r \in Requests |-> {}]
  /\ todo = [r \in Requests |-> 0]
  /\ answer = [r \in Requests |-> "none"]
  /\ trail = [r \in Requests |-> <<>>]
  /\ signatures = {}
  /\ crashes = 0
  /\ config \in Configs
-----------------------------------------------------------------------------
(* create_wallet *)

CreationTo(w, state) == creation' = [creation EXCEPT ![w] = state]

\* A fresh wallet id, and the enclave generates the key and its shares.
GenerateWallet(w) ==
  /\ creation[w] = "none"
  /\ CreationTo(w, "put") \/ CreationTo(w, "failed")
  /\ UNCHANGED <<wallets, stored, approvalVars, callVars, pc, answer, trail, signatures, crashes, config>>

\* Mutant: share indices count from zero.
PutShareFromZero(w) ==
  /\ creation[w] = "put"
  /\ stored' = [stored EXCEPT ![w] = @ \cup {Cardinality(@)}]
  /\ CreationTo(w, IF Cardinality(stored[w]) + 1 = Total THEN "insert" ELSE "put")
  /\ UNCHANGED <<wallets, approvalVars, callVars, pc, answer, trail, signatures, crashes, config>>

\* Mutant: the loop stops after the shares a signature needs.
PutShareToThreshold(w) ==
  /\ creation[w] = "put"
  /\ stored' = [stored EXCEPT ![w] = @ \cup {Cardinality(@) + 1}]
  /\ CreationTo(w, IF Cardinality(stored[w]) + 1 = ShareThreshold THEN "insert" ELSE "put")
  /\ UNCHANGED <<wallets, approvalVars, callVars, pc, answer, trail, signatures, crashes, config>>

\* shares.put for the next index; a failure ends the call and leaves the
\* shares already stored.
PutShare(w) ==
  /\ creation[w] = "put"
  /\ \/ /\ stored' = [stored EXCEPT ![w] = @ \cup {Cardinality(@) + 1}]
        /\ CreationTo(w, IF Cardinality(stored[w]) + 1 = Total THEN "insert" ELSE "put")
     \/ /\ CreationTo(w, "failed")
        /\ UNCHANGED stored
  /\ UNCHANGED <<wallets, approvalVars, callVars, pc, answer, trail, signatures, crashes, config>>

InsertWallet(w) ==
  /\ creation[w] = "insert"
  /\ wallets' = wallets \cup {w}
  /\ CreationTo(w, "log")
  /\ UNCHANGED <<stored, approvalVars, callVars, pc, answer, trail, signatures, crashes, config>>

\* WalletCreated is audited last: when that fails the caller gets an error for
\* a wallet that is live.
LogCreated(w) ==
  /\ creation[w] = "log"
  /\ CreationTo(w, "created") \/ CreationTo(w, "failed")
  /\ UNCHANGED <<wallets, stored, approvalVars, callVars, pc, answer, trail, signatures, crashes, config>>
-----------------------------------------------------------------------------
(* Approvals: record_approval and revoke_approver *)

\* get_approver finds the approver active, the identity matches and the
\* signature verifies against the hash the submission itself carries.
CheckSubmission(r, a, p) ==
  /\ a \notin revoked
  /\ Cardinality(inflight) < MaxInflight
  /\ inflight' = inflight \cup {[req |-> r, who |-> a, appr |-> p]}
  /\ UNCHANGED <<revoked, approvals, walletVars, callVars, pc, answer, trail, signatures, crashes, config>>

\* Mutant: the last decision of an approver replaces the earlier ones.
StoreOverwrites(s) ==
  /\ s \in inflight
  /\ inflight' = inflight \ {s}
  /\ approvals' = [approvals EXCEPT ![s.req] = [@ EXCEPT ![s.who] = s.appr]]
  /\ UNCHANGED <<revoked, walletVars, callVars, pc, answer, trail, signatures, crashes, config>>

\* approval_store.record_approval: the first decision of an approver stays.
StoreApproval(s) ==
  /\ s \in inflight
  /\ inflight' = inflight \ {s}
  /\ \/ /\ approvals[s.req][s.who] = NoApproval
        /\ approvals' = [approvals EXCEPT ![s.req] = [@ EXCEPT ![s.who] = s.appr]]
     \/ /\ approvals[s.req][s.who] # NoApproval
        /\ UNCHANGED approvals
  /\ UNCHANGED <<revoked, walletVars, callVars, pc, answer, trail, signatures, crashes, config>>

RevokeApprover(a) ==
  /\ revoked' = revoked \cup {a}
  /\ UNCHANGED <<approvals, inflight, walletVars, callVars, pc, answer, trail, signatures, crashes, config>>
-----------------------------------------------------------------------------
(* sign *)

Goto(r, step) ==
  /\ pc' = [pc EXCEPT ![r] = step]
  /\ UNCHANGED answer

Answer(r, a) ==
  /\ pc' = [pc EXCEPT ![r] = "done"]
  /\ answer' = [answer EXCEPT ![r] = a]

Logged(r, kind) == trail' = [trail EXCEPT ![r] = Append(@, kind)]

\* audit.emit(..).await? failed: the caller gets an Audit error.  The sink may
\* have written the event before it failed (a failed flush or commit).
LogFails(r, kind) ==
  /\ Logged(r, kind) \/ UNCHANGED trail
  /\ Answer(r, "Audit")

\* An event of a call that goes on, and the last event of a call.
LogThen(r, kind, step) == (Logged(r, kind) /\ Goto(r, step)) \/ LogFails(r, kind)
LogLast(r, kind, a) == (Logged(r, kind) /\ Answer(r, a)) \/ LogFails(r, kind)

\* What a step of sign leaves alone.
SignFrame == UNCHANGED <<walletVars, approvalVars, wallet, crashes, config>>

\* Where a call goes once the policy, or the quorum it asked for, has approved.
Approved == IF config.signer THEN "sign_decision" ELSE "fetch_shares"

\* get_wallet.
Accept(r) ==
  /\ pc[r] = "idle"
  /\ \/ wallet[r] \in wallets /\ Goto(r, "log_requested")
     \/ wallet[r] \notin wallets /\ Answer(r, "WalletNotFound")
  /\ SignFrame /\ UNCHANGED <<decision, counted, todo, trail, signatures>>

LogRequested(r) ==
  /\ pc[r] = "log_requested"
  /\ LogThen(r, "SigningRequested", "evaluate")
  /\ SignFrame /\ UNCHANGED <<decision, counted, todo, signatures>>

Evaluate(r) ==
  /\ pc[r] = "evaluate"
  /\ \/ /\ \E d \in PolicyDecisions : decision' = [decision EXCEPT ![r] = d]
        /\ Goto(r, "log_evaluated")
     \/ Answer(r, "Policy") /\ UNCHANGED decision
  /\ SignFrame /\ UNCHANGED <<counted, todo, trail, signatures>>

\* SigningEvaluated, then the match on the decision.
LogEvaluated(r) ==
  /\ pc[r] = "log_evaluated"
  /\ \/ decision[r] = "Deny" /\ LogLast(r, "SigningEvaluated", "PolicyDenied")
     \/ IsQuorum(decision[r]) /\ LogThen(r, "SigningEvaluated", "request_approval")
     \/ decision[r] = "Allow" /\ LogThen(r, "SigningEvaluated", Approved)
  /\ SignFrame /\ UNCHANGED <<decision, counted, todo, signatures>>

\* The members of the set (none when the set is unknown) are looked up and
\* notified.
RequestApproval(r) ==
  /\ pc[r] = "request_approval"
  /\ Goto(r, "log_notified") \/ Answer(r, "Quorum")
  /\ SignFrame /\ UNCHANGED <<decision, counted, todo, trail, signatures>>

LogNotified(r) ==
  /\ pc[r] = "log_notified"
  /\ LogThen(r, "QuorumNotified", "collect")
  /\ SignFrame /\ UNCHANGED <<decision, counted, todo, signatures>>

Recorded(r) == {a \in Approvers : approvals[r][a] # NoApproval}
Rejecters(r) == {a \in Recorded(r) : approvals[r][a].decision = "Reject"}

\* Mutant: the collector has no deadline.
CollectForever(r) ==
  /\ pc[r] = "collect"
  /\ Rejecters(r) = {}
  /\ Cardinality(Recorded(r)) >= Quorum
  /\ counted' = [counted EXCEPT ![r] = Recorded(r)]
  /\ todo' = [todo EXCEPT ![r] = Cardinality(Recorded(r))]
  /\ Goto(r, "log_approvals")
  /\ SignFrame /\ UNCHANGED <<decision, trail, signatures>>

\* quorum.collect_approvals: some reject, all the approves once there are
\* enough of them, a timeout or a transport error (see OrchestratingApprover).
Collect(r) ==
  /\ pc[r] = "collect"
  /\ \/ /\ \E a \in Rejecters(r) : counted' = [counted EXCEPT ![r] = {a}]
        /\ todo' = [todo EXCEPT ![r] = 1]
        /\ Goto(r, "log_approvals")
     \/ /\ Rejecters(r) = {}
        /\ Cardinality(Recorded(r)) >= Quorum
        /\ counted' = [counted EXCEPT ![r] = Recorded(r)]
        /\ todo' = [todo EXCEPT ![r] = Cardinality(Recorded(r))]
        /\ Goto(r, "log_approvals")
     \/ Goto(r, "log_timed_out") /\ UNCHANGED <<counted, todo>>
     \/ Answer(r, "Quorum") /\ UNCHANGED <<counted, todo>>
  /\ SignFrame /\ UNCHANGED <<decision, trail, signatures>>

\* Mutant: a timeout is answered whether or not its event was written.
LogTimedOutBestEffort(r) ==
  /\ pc[r] = "log_timed_out"
  /\ Logged(r, "QuorumTimedOut") \/ UNCHANGED trail
  /\ Answer(r, "QuorumTimeout")
  /\ SignFrame /\ UNCHANGED <<decision, counted, todo, signatures>>

LogTimedOut(r) ==
  /\ pc[r] = "log_timed_out"
  /\ LogLast(r, "QuorumTimedOut", "QuorumTimeout")
  /\ SignFrame /\ UNCHANGED <<decision, counted, todo, signatures>>

\* The collected approvals hold a reject (the records never change).
Rejected(r) == counted[r] \cap Rejecters(r) # {}

\* Mutant: only the first of the collected approvals is audited.
LogFirstApproval(r) ==
  /\ pc[r] = "log_approvals"
  /\ \/ Rejected(r) /\ LogLast(r, "QuorumApprovalRejected", "PolicyDenied")
     \/ ~ Rejected(r) /\ LogThen(r, "QuorumApprovalReceived", "log_threshold")
  /\ todo' = [todo EXCEPT ![r] = @ - 1]
  /\ SignFrame /\ UNCHANGED <<decision, counted, signatures>>

\* Mutant: the quorum is not announced.
LogApprovalNoThreshold(r) ==
  /\ pc[r] = "log_approvals"
  /\ \/ Rejected(r) /\ LogLast(r, "QuorumApprovalRejected", "PolicyDenied")
     \/ ~ Rejected(r) /\ LogThen(r, "QuorumApprovalReceived",
                                 IF todo[r] = 1 THEN Approved ELSE "log_approvals")
  /\ todo' = [todo EXCEPT ![r] = @ - 1]
  /\ SignFrame /\ UNCHANGED <<decision, counted, signatures>>

\* One event per collected approval; after the last one a reject ends the call.
LogApproval(r) ==
  /\ pc[r] = "log_approvals"
  /\ \/ Rejected(r) /\ LogLast(r, "QuorumApprovalRejected", "PolicyDenied")
     \/ ~ Rejected(r) /\ LogThen(r, "QuorumApprovalReceived",
                                 IF todo[r] = 1 THEN "log_threshold" ELSE "log_approvals")
  /\ todo' = [todo EXCEPT ![r] = @ - 1]
  /\ SignFrame /\ UNCHANGED <<decision, counted, signatures>>

LogThreshold(r) ==
  /\ pc[r] = "log_threshold"
  /\ LogThen(r, "QuorumThresholdReached", Approved)
  /\ SignFrame /\ UNCHANGED <<decision, counted, todo, signatures>>

SignDecision(r) ==
  /\ pc[r] = "sign_decision"
  /\ Goto(r, "log_decision_signed") \/ Answer(r, "Internal")
  /\ SignFrame /\ UNCHANGED <<decision, counted, todo, trail, signatures>>

LogDecisionSigned(r) ==
  /\ pc[r] = "log_decision_signed"
  /\ LogThen(r, "PolicyDecisionSigned", "fetch_shares")
  /\ SignFrame /\ UNCHANGED <<decision, counted, todo, signatures>>

\* List the shares and get the first ShareThreshold of them.
FetchShares(r) ==
  /\ pc[r] = "fetch_shares"
  /\ \/ Cardinality(stored[wallet[r]]) >= ShareThreshold /\ Goto(r, "log_attempted")
     \/ Cardinality(stored[wallet[r]]) < ShareThreshold /\ Answer(r, "InsufficientShares")
     \/ Answer(r, "Store")
  /\ SignFrame /\ UNCHANGED <<decision, counted, todo, trail, signatures>>

LogAttempted(r) ==
  /\ pc[r] = "log_attempted"
  /\ LogThen(r, "SigningAttempted", "enclave")
  /\ SignFrame /\ UNCHANGED <<decision, counted, todo, signatures>>

\* The hybrid verifier's checks on the decision.  The request it gets carries
\* no approvals, so it never finds the quorum a RequireQuorum decision asks for.
VerifierRefuses(r) ==
  /\ config.verifier # "off"
  /\ IF config.signer THEN decision[r] = "Deny" \/ IsQuorum(decision[r])
                      ELSE config.verifier = "strict"

\* sign_in_enclave.  It can fail for many other reasons: a stale decision, a
\* ceiling, bad shares, the connection.
EnclaveSign(r) ==
  /\ pc[r] = "enclave"
  /\ \/ /\ ~ VerifierRefuses(r)
        /\ signatures' = signatures \cup {r}
        /\ Goto(r, "log_succeeded")
     \/ /\ Goto(r, "log_failed")
        /\ UNCHANGED signatures
  /\ SignFrame /\ UNCHANGED <<decision, counted, todo, trail>>

LogSucceeded(r) ==
  /\ pc[r] = "log_succeeded"
  /\ LogLast(r, "SigningSucceeded", "Ok")
  /\ SignFrame /\ UNCHANGED <<decision, counted, todo, signatures>>

LogFailed(r) ==
  /\ pc[r] = "log_failed"
  /\ LogLast(r, "SigningFailed", "Enclave")
  /\ SignFrame /\ UNCHANGED <<decision, counted, todo, signatures>>

SignStep(r) ==
  \/ LogRequested(r) \/ Evaluate(r) \/ LogEvaluated(r)
  \/ RequestApproval(r) \/ LogNotified(r) \/ Collect(r) \/ LogTimedOut(r)
  \/ LogApproval(r) \/ LogThreshold(r) \/ SignDecision(r) \/ LogDecisionSigned(r)
  \/ FetchShares(r) \/ LogAttempted(r) \/ EnclaveSign(r)
  \/ LogSucceeded(r) \/ LogFailed(r)

CreateStep(w) == PutShare(w) \/ InsertWallet(w) \/ LogCreated(w)
-----------------------------------------------------------------------------
\* The client goes away and its handler task is dropped at an await.
Disconnect(r) ==
  /\ pc[r] \in Steps
  /\ pc' = [pc EXCEPT ![r] = "dropped"]
  /\ UNCHANGED <<walletVars, approvalVars, callVars, answer, trail, signatures, crashes, config>>

\* The same for create_wallet: what it stored stays.
CreatorDisconnects(w) ==
  /\ creation[w] \in {"put", "insert", "log"}
  /\ CreationTo(w, "failed")
  /\ UNCHANGED <<wallets, stored, approvalVars, callVars, pc, answer, trail, signatures, crashes, config>>

\* The process dies: the wallet records and all calls in flight are gone, what
\* the (durable) share store, audit log, registry and approval store
\* acknowledged is not.
Crash ==
  /\ crashes < MaxCrashes
  /\ crashes' = crashes + 1
  /\ wallets' = {}
  /\ creation' = [w \in Wallets |->
       IF creation[w] \in {"put", "insert", "log"} THEN "failed" ELSE creation[w]]
  /\ inflight' = {}
  /\ pc' = [r \in Requests |-> IF pc[r] \in Steps THEN "dropped" ELSE pc[r]]
  /\ UNCHANGED <<stored, revoked, approvals, callVars, answer, trail, signatures, config>>

Next ==
  \/ \E w \in Wallets : GenerateWallet(w) \/ CreateStep(w) \/ CreatorDisconnects(w)
  \/ \E r \in Requests : Accept(r) \/ SignStep(r) \/ Disconnect(r)
  \/ \E r \in Requests, a \in Approvers, p \in Approvals : CheckSubmission(r, a, p)
  \/ \E s \in inflight : StoreApproval(s)
  \/ \E a \in Approvers : RevokeApprover(a)
  \/ Crash

Spec == Init /\ [][Next]_vars

\* A call in flight is run on: every await is answered or fails, and the
\* collector returns by its deadline (CollectorReturns).
Fairness == \A r \in Requests : WF_vars(SignStep(r))

FairSpec == Spec /\ Fairness
-----------------------------------------------------------------------------
(* Properties *)

\* A signature is backed by an authorisation that still stands: an Allow, or a
\* RequireQuorum with that many approvers on record as approving and none of
\* the counted ones as rejecting, whatever submissions, revocations, dropped
\* calls and crashes came in between.
SignedOnlyIfAuthorised ==
  \A r \in signatures :
    \/ decision[r] = "Allow"
    \/ /\ IsQuorum(decision[r])
       /\ Cardinality(counted[r]) >= Quorum
       /\ \A a \in counted[r] :
            approvals[r][a] # NoApproval /\ approvals[r][a].decision = "Approve"

\* The audit log is a valid trail for every request, whichever emit fails and
\* wherever a call is dropped.
TrailIsOrdered == AT!TrailSpec

Count(r, kind) == Cardinality({i \in DOMAIN trail[r] : trail[r][i] = kind})

\* The log alone shows why a signature exists: the attempt is on record before
\* the enclave signs and, after a quorum, so are at least Quorum approvals and
\* the announcement.
SignatureIsExplained ==
  \A r \in signatures :
    /\ Count(r, "SigningAttempted") = 1
    /\ IsQuorum(decision[r]) =>
         /\ Count(r, "QuorumApprovalReceived") >= Quorum
         /\ Count(r, "QuorumThresholdReached") = 1

\* What the caller is told is what the log says last, except for an Audit
\* error; a caller told Ok has a signature, one told anything but Ok or Audit
\* has none.
AnswerMatchesTrail ==
  \A r \in Requests :
    LET last == IF trail[r] = <<>> THEN "nothing" ELSE trail[r][Len(trail[r])] IN
    /\ (answer[r] = "Ok") => r \in signatures /\ last = "SigningSucceeded"
    /\ (answer[r] \notin {"none", "Ok", "Audit"}) => r \notin signatures
    /\ (answer[r] = "Enclave") => last = "SigningFailed"
    /\ (answer[r] = "PolicyDenied") => last \in {"SigningEvaluated", "QuorumApprovalRejected"}
    /\ (answer[r] = "QuorumTimeout") => last = "QuorumTimedOut"

\* A live wallet has all its shares, so the first M of them: sign on a wallet
\* that get_wallet returned never ends in InsufficientShares, whatever
\* create_wallet calls failed half-way.
LiveWalletHasShares ==
  /\ \A w \in wallets : stored[w] = 1 .. Total
  /\ \A r \in Requests : answer[r] # "InsufficientShares"

\* Every accepted sign call ends: it is answered or its task is gone.
SignReturns ==
  \A r \in Requests : pc[r] # "idle" ~> pc[r] \in {"done", "dropped"}

\* "If the set is unknown, policy still ran - but we can't proceed": a request
\* whose approver set is unknown is never signed.
UnknownSetNeverSigns ==
  \A r \in signatures : decision[r] # "RequireQuorumUnknownSet"

\* record_approval "verifies the embedded signature against the message hash
\* and request id derived from the in-flight request": the approvals counted
\* for a request are approvals of its message.
CountedApprovalsAreForTheMessage ==
  \A r \in Requests : \A a \in counted[r] : approvals[r][a].message = "own"
=============================================================================
