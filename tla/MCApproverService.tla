------------------------- MODULE MCApproverService -------------------------
(***************************************************************************)
(* A finite instance of the approver service.  `focus`, chosen at the      *)
(* start, says whether the handlers create sets or submit approvals        *)
(* (approvers come and go in both), or a caller uses the two API surfaces. *)
(***************************************************************************)
EXTENDS ApproverService, ApiSurfaces, Integers

CONSTANTS a1, n1, n2, w1, w2

VARIABLE focus

MCNestedOf == [a \in Approvers |-> CASE a = n1 -> w1 [] a = n2 -> w2 [] OTHER -> NoWallet]
MCAges == {-1, 0, 3, 4}

\* Requests, tasks and approval ids are only compared; the two nested approvers
\* differ in nothing but their wallets.
ServiceSymmetry ==
  Permutations(Calls) \cup Permutations(Submissions) \cup Permutations(ApprovalIds)
    \cup Permutations(Requests)
    \cup {n1 :> n2 @@ n2 :> n1 @@ w1 :> w2 @@ w2 :> w1}

MCInit ==
  /\ ServiceInit
  /\ SurfaceInit
  /\ \/ focus = "sets"
     \/ focus \in {"approvals", "surfaces"} /\ backend = "postgres"

MCNext ==
  /\ \/ focus = "sets" /\ RegistryNext /\ UNCHANGED <<pgStoreVars, exchange>>
     \/ focus = "approvals" /\ SubmissionNext /\ UNCHANGED exchange
     \/ /\ focus = "approvals"
        /\ \E a \in {n1, n2} : AddApprover(a) \/ RevokeApprover(a)
        /\ UNCHANGED <<pgStoreVars, exchange>>
     \/ focus = "surfaces" /\ SurfaceNext /\ UNCHANGED serviceVars
  /\ UNCHANGED focus

MCSpec == MCInit /\ [][MCNext]_<<serviceVars, exchange, focus>>
=============================================================================
