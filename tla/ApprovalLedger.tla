--------------------------- MODULE ApprovalLedger ---------------------------
(***************************************************************************)
(* What every `ApprovalStore` of qfc-quorum promises (store/mod.rs): per   *)
(* request, at most one decision of each approver is ever recorded, it is  *)
(* never replaced, and list_for_request shows a recorded decision at most  *)
(* once, in an order that only grows at its end.                           *)
(*                                                                         *)
(* `recorded` is the set of persisted rows, `listing` the order in which   *)
(* list_for_request shows them.  A store may record a decision before it   *)
(* lists it, or do both at once.                                           *)
(***************************************************************************)
EXTENDS ApprovalTypes

VARIABLES recorded, listing

ledgerVars == <<recorded, listing>>

LedgerInit ==
  /\ recorded = [r \in Requests |-> [a \in Approvers |-> NoApproval]]
  /\ listing = [r \in Requests |-> <<>>]

\* record_approval for a key that has no row yet.
Record(r, a, p) ==
  /\ recorded[r][a] = NoApproval
  /\ recorded' = [recorded EXCEPT ![r] = [@ EXCEPT ![a] = p]]
  /\ UNCHANGED listing

\* The row becomes visible to list_for_request.
Publish(r, a) ==
  /\ recorded[r][a] # NoApproval
  /\ a \notin Listed(listing[r])
  /\ listing' = [listing EXCEPT ![r] = Append(@, a)]
  /\ UNCHANGED recorded

\* record_approval of a store that lists what it has recorded at once.
RecordListed(r, a, p) ==
  /\ recorded[r][a] = NoApproval
  /\ a \notin Listed(listing[r])
  /\ recorded' = [recorded EXCEPT ![r] = [@ EXCEPT ![a] = p]]
  /\ listing' = [listing EXCEPT ![r] = Append(@, a)]

LedgerNext ==
  \E r \in Requests, a \in Approvers :
    \/ \E p \in Approvals : Record(r, a, p) \/ RecordListed(r, a, p)
    \/ Publish(r, a)

LedgerSpec == LedgerInit /\ [][LedgerNext]_ledgerVars
=============================================================================
