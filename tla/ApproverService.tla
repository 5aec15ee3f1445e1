-------------------------- MODULE ApproverService --------------------------
(***************************************************************************)
(* Approvals as the server takes them in: WalletService::record_approval   *)
(* (qfc-server-wallet/src/service.rs) looks the approver up in the         *)
(* registry, verifies the signed approval (qfc-quorum/src/approval.rs) and *)
(* hands it to the Postgres store, while approvers are revoked and sets    *)
(* created.                                                                *)
(***************************************************************************)
EXTENDS ApproverRegistry, PostgresApprovalStore

CONSTANTS
  MAX_APPROVAL_AGE,   \* seconds
  Ages                \* bound: ages of approvals, in half seconds; -1: in the future

serviceVars == <<registryVars, pgStoreVars>>

ServiceInit == RegistryInit /\ PgStoreInit

\* SignedApproval::verify.  The handlers pass the approval's own request and
\* message hash as the expected ones, so only age and signature can fail.
verify(age, genuine) == age >= 0 /\ age \div 2 <= MAX_APPROVAL_AGE /\ genuine

\* A handler starts; wasRevoked is history.
Submit(t, r, a, p) ==
  /\ submission[t] = NotSubmitted
  /\ submission' = [submission EXCEPT ![t] =
       [pc |-> "lookup", req |-> r, who |-> a, appr |-> p, outcome |-> "none",
        wasRevoked |-> approver[a] = "Revoked"]]
  /\ UNCHANGED <<registryVars, rows, by_commit>>

\* The checks before the store; same: the embedded identity is the registered one.
Admit(a, same, age, genuine) ==
  CASE approver[a] = "absent" -> "Transport"
    [] approver[a] # "absent" /\ ~ same -> "UnknownApprover"
    [] approver[a] = "Revoked" /\ same -> "UnknownApprover"
    [] approver[a] = "Active" /\ same /\ ~ verify(age, genuine) -> "InvalidApproval"
    [] OTHER -> "Ok"

LookUp(t) ==
  /\ submission[t].pc = "lookup"
  /\ \E same, genuine \in BOOLEAN, age \in Ages :
       LET verdict == Admit(submission[t].who, same, age, genuine) IN
       \/ verdict # "Ok" /\ Ends(t, verdict)
       \/ verdict = "Ok" /\ Moves(t, "select")
  /\ UNCHANGED <<registryVars, rows, by_commit>>

StoreStep(t) ==
  /\ SelectRow(t) \/ InsertRow(t) \/ CommitApproval(t) \/ AbandonApproval(t)
  /\ UNCHANGED registryVars

SubmissionNext ==
  \E t \in Submissions :
    \/ \E r \in Requests, a \in Approvers, p \in Approvals : Submit(t, r, a, p)
    \/ LookUp(t) \/ StoreStep(t)

ServiceNext ==
  \/ SubmissionNext
  \/ RegistryNext /\ UNCHANGED pgStoreVars

ServiceSpec == ServiceInit /\ [][ServiceNext]_serviceVars
-----------------------------------------------------------------------------
(* Properties *)

\* A revocation that has returned holds for everything that starts after it: no
\* approval submitted later reaches the store and no set created later has the
\* revoked member.  With Postgres a set's members are active when it is
\* committed, even if the revocation overlaps the call.
RevocationIsRespected ==
  /\ \A t \in Submissions : submission[t].pc \in {"select", "insert", "commit"} =>
       ~ submission[t].wasRevoked
  /\ \A k \in DOMAIN sets : \A i \in DOMAIN sets[k].members :
       sets[k].members[i] \notin sets[k].revoked
  /\ backend = "postgres" => \A k \in DOMAIN sets : sets[k].live
=============================================================================
