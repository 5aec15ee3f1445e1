---------------------------- MODULE ApprovalTypes ----------------------------
(***************************************************************************)
(* The data the approval store and the collector pass around: a signed     *)
(* approval, reduced to its approval id (what the store compares) and its  *)
(* decision (what the collector counts).                                   *)
(***************************************************************************)
EXTENDS Naturals, Sequences

CONSTANTS
  Requests,      \* request ids an approval can be submitted for
  Approvers,     \* approver ids of the registry
  ApprovalIds,   \* approval ids minted by the approver clients
  NoApproval     \* "no row for this (request, approver)"

Decisions == {"Approve", "Reject"}

Approvals == [id : ApprovalIds, decision : Decisions]

ASSUME NoApprovalAssumption == NoApproval \notin Approvals

\* The approvers a listing names.
Listed(list) == {list[i] : i \in DOMAIN list}
=============================================================================
