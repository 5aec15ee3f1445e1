--------------------------- MODULE HybridVerifier ---------------------------
(***************************************************************************)
(* What the enclave checks for itself before it touches a share            *)
(* (qfc-enclave/src/hybrid_verifier.rs): the policy service's signed       *)
(* decision (qfc-policy/src/signed_decision.rs, policy_service_signer.rs), *)
(* the approvals when the decision asks for a quorum, and the wallet's     *)
(* ceilings.  A verdict is "Ok" or the name of the first check that fails. *)
(* A digest is the value it is taken of; time is in ticks.                 *)
(***************************************************************************)
EXTENDS TxDecoders, KeySchemes

CONSTANTS
  TicksPerSecond,   \* ticks of the clock (milliseconds) in a second
  MaxDecisionAge,   \* MAX_DECISION_AGE_SECS
  MaxApprovalAge,   \* MAX_APPROVAL_AGE_SECS_VERIFIER
  MaxApprovals      \* MAX_APPROVALS

ASSUME VerifierAssumption ==
  /\ TicksPerSecond \in Nat \ {0}
  /\ {MaxDecisionAge, MaxApprovalAge, MaxApprovals} \subseteq Nat

-----------------------------------------------------------------------------
(* The policy service's signature *)

build_preimage(decision, request_id, wallet_id, signed_at, max_age) ==
  <<"qfc-policy-decision-v1", decision, request_id, wallet_id, signed_at, max_age>>

\* PolicyServiceSigner::sign_decision at time now.
sign_decision(key, decision, request_id, wallet_id, max_age, now) ==
  LET raw == build_preimage(decision, request_id, wallet_id, now, max_age)
  IN  [decision |-> decision, request_id |-> request_id, wallet_id |-> wallet_id,
       signed_at |-> now, max_age |-> max_age, raw_payload |-> raw,
       signature |-> sign("Ed25519", key, raw, "None")]

\* verify_ed25519 under the pinned public key.
verify_ed25519(pk, raw, signature) == verify("Ed25519", pk, raw, signature, "None")

-----------------------------------------------------------------------------
(* Approvals *)

approval_preimage(ap) ==
  <<ap.approval_id, ap.request_id, ap.message_hash, ap.decision, ap.timestamp>>

approval_hash_alg(scheme) == IF scheme \in Secp THEN "Sha256" ELSE "None"

\* The bytes that are approved and signed, by the kind of the payload.
canonical_signing_message(payload) ==
  CASE payload.kind \in {"Raw", "PersonalSign"} -> payload.bytes
    [] payload.kind = "TypedData" -> <<"json", payload.json>>
    [] payload.kind = "VmTransaction" -> payload.raw

\* The checks of one approval.
ApprovalHolds(ap, request, now) ==
  LET age == now - ap.timestamp
  IN  /\ ap.request_id = request.request_id
      /\ ap.message_hash = canonical_signing_message(request.payload)
      /\ age >= 0 /\ age \div TicksPerSecond <= MaxApprovalAge
      /\ ap.decision = "Approve"
      /\ verify(ap.scheme, ap.public_key, approval_preimage(ap), ap.signature,
                approval_hash_alg(ap.scheme))

\* Mutant: an approval that fails a check is passed over and still counted.
SkipBadApprovals(approvals, request, threshold, now) ==
  IF Len(approvals) < threshold THEN "NotEnoughApprovals" ELSE "Ok"

\* check_approvals: one bad approval fails the call; what is counted is
\* approvals, whoever made them.
check_approvals(approvals, request, threshold, now) ==
  IF \E i \in DOMAIN approvals : ~ApprovalHolds(approvals[i], request, now)
  THEN "InvalidApproval"
  ELSE IF Len(approvals) < threshold THEN "NotEnoughApprovals"
  ELSE "Ok"

-----------------------------------------------------------------------------
(* Ceilings *)

IsEvm(payload) == payload.kind = "VmTransaction" /\ payload.vm = "Evm"

ChainRefused(payload, wallet) ==
  /\ wallet.chain_allowlist # {}
  /\ payload.kind = "VmTransaction" /\ payload.chain_id \notin wallet.chain_allowlist

\* A target of another length than 20 bytes is in no allowlist.
TargetRefused(payload, wallet) ==
  /\ wallet.contract_allowlist # {}
  /\ IsEvm(payload) /\ payload.to # None /\ payload.to \notin wallet.contract_allowlist

\* The envelope is decoded again; one that does not decode has no value.
ValueVerdict(payload, wallet) ==
  IF wallet.max_value_per_tx = None \/ ~IsEvm(payload) THEN "Ok"
  ELSE LET tx == decode_evm_tx(payload.raw)
       IN  IF tx = None THEN "InvalidApproval"
           ELSE IF tx.value > wallet.max_value_per_tx THEN "ValueCapExceeded"
           ELSE "Ok"

\* Mutant: the value cap is only applied to an envelope with a target.
CeilingsWithoutCreations(payload, wallet) ==
  IF ChainRefused(payload, wallet) THEN "ChainNotAllowed"
  ELSE IF TargetRefused(payload, wallet) THEN "TargetNotAllowed"
  ELSE IF IsEvm(payload) /\ payload.to = None THEN "Ok"
  ELSE ValueVerdict(payload, wallet)

check_hard_ceilings(payload, wallet) ==
  IF ChainRefused(payload, wallet) THEN "ChainNotAllowed"
  ELSE IF TargetRefused(payload, wallet) THEN "TargetNotAllowed"
  ELSE ValueVerdict(payload, wallet)

-----------------------------------------------------------------------------
(* HybridVerifier::verify *)

Min2(a, b) == IF a < b THEN a ELSE b

\* What is wrong with the decision as such: its bytes, its signature, what it
\* was issued for, its age, and the decision it is.
DecisionVerdict(verifier, signed, request, wallet, now) ==
  LET age == now - signed.signed_at
  IN  IF \/ signed.raw_payload # build_preimage(signed.decision, signed.request_id,
                                   signed.wallet_id, signed.signed_at, signed.max_age)
         \/ signed.raw_payload[1] # "qfc-policy-decision-v1"
      THEN "PolicyDecisionRawPayloadMismatch"
      ELSE IF ~verify_ed25519(verifier.policy_service_pubkey, signed.raw_payload, signed.signature)
      THEN "InvalidPolicyServiceSignature"
      ELSE IF signed.request_id # request.request_id THEN "RequestIdMismatch"
      ELSE IF signed.wallet_id # wallet.wallet_id THEN "WalletIdMismatch"
      ELSE IF age < 0 THEN "DecisionFromTheFuture"
      ELSE IF age \div TicksPerSecond > Min2(signed.max_age, MaxDecisionAge)
      THEN "DecisionStale"
      ELSE IF signed.decision.kind = "Deny" THEN "PolicyDeny"
      ELSE "Ok"

verify_request(verifier, signed, approvals, request, wallet, now) ==
  IF Len(approvals) > MaxApprovals THEN "TooManyApprovals"
  ELSE IF signed = None
  THEN IF verifier.require_signed_decision THEN "MissingPolicyDecision"
       ELSE check_hard_ceilings(request.payload, wallet)
  ELSE LET decision == DecisionVerdict(verifier, signed, request, wallet, now)
           quorum == IF signed.decision.kind = "RequireQuorum"
                     THEN check_approvals(approvals, request, signed.decision.threshold, now)
                     ELSE "Ok"
       IN  IF decision # "Ok" THEN decision
           ELSE IF quorum # "Ok" THEN quorum
           ELSE check_hard_ceilings(request.payload, wallet)
=============================================================================
