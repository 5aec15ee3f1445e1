----------------------------- MODULE AuditTrail -----------------------------
(***************************************************************************)
(* What the audit log promises about one signing request: the kinds of     *)
(* events it may hold and the order in which they may follow each other.   *)
(* It is what an auditor reads the log by: a request is evaluated before   *)
(* anything is asked of the approvers, a quorum is announced before an     *)
(* attempt, an attempt comes before its outcome, and nothing follows an    *)
(* outcome, a timeout or a rejected approval.                              *)
(***************************************************************************)
EXTENDS Naturals, Sequences

CONSTANT Requests

VARIABLE trail      \* [Requests -> sequence of event kinds]

Kinds ==
  {"SigningRequested", "SigningEvaluated", "QuorumNotified", "QuorumTimedOut",
   "QuorumApprovalReceived", "QuorumApprovalRejected", "QuorumThresholdReached",
   "PolicyDecisionSigned", "SigningAttempted", "SigningSucceeded", "SigningFailed"}

\* The kinds that may come right after k.
After(k) ==
  CASE k = "SigningRequested" -> {"SigningEvaluated"}
    [] k = "SigningEvaluated" ->
         {"QuorumNotified", "PolicyDecisionSigned", "SigningAttempted"}
    [] k = "QuorumNotified" ->
         {"QuorumTimedOut", "QuorumApprovalReceived", "QuorumApprovalRejected"}
    [] k = "QuorumApprovalReceived" ->
         {"QuorumApprovalReceived", "QuorumThresholdReached"}
    [] k = "QuorumThresholdReached" -> {"PolicyDecisionSigned", "SigningAttempted"}
    [] k = "PolicyDecisionSigned" -> {"SigningAttempted"}
    [] k = "SigningAttempted" -> {"SigningSucceeded", "SigningFailed"}
    [] OTHER -> {}

MayFollow(s) ==
  IF s = <<>> THEN {"SigningRequested"} ELSE After(s[Len(s)])

TrailInit == trail = [r \in Requests |-> <<>>]

TrailNext ==
  \E r \in Requests : \E k \in MayFollow(trail[r]) :
    trail' = [trail EXCEPT ![r] = Append(@, k)]

TrailSpec == TrailInit /\ [][TrailNext]_trail
=============================================================================
