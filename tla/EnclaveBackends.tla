-------------------------- MODULE EnclaveBackends --------------------------
(***************************************************************************)
(* The two enclaves: the in-process MockEnclave (enclaves/mock.rs) and the *)
(* boot binary behind the Nitro vsock (enclave/src/main.rs), with the wire *)
(* form the host sends it (enclaves/nitro.rs).  Neither keeps state        *)
(* between calls, so a handler is a function of the request and the clock. *)
(***************************************************************************)
EXTENDS HybridVerifier, Shamir

Error(why) == [kind |-> "Error", why |-> why]

NoCeilings(wallet_id) ==
  [wallet_id |-> wallet_id, chain_allowlist |-> {}, contract_allowlist |-> {},
   max_value_per_tx |-> None]

RawPayload(message) == [kind |-> "Raw", bytes |-> message]

\* derive_signing_key, and the same choice in handle_sign: without a path the
\* first 32 bytes of the seed are the key.
KeyRefused(scheme, seed, path) ==
  IF path = None /\ Len(seed) < KeyLen THEN "InvalidRequest"
  ELSE IF path # None /\ ~Derivable(scheme, path) THEN "Derivation"
  ELSE "none"
derive_signing_key(scheme, seed, path) ==
  IF path = None THEN RawKey(SubSeq(seed, 1, KeyLen)) ELSE derive_classical(scheme, seed, path)

\* Combine the shares, derive, sign, and bind request, wallet, message and
\* signature into the attestation, with what else the backend binds: the part
\* both handlers end with.
SignWithShares(req, more) ==
  LET combined == combine_shares(req.shares)
  IN  IF ~combined.ok THEN Error("Sss")
      ELSE IF KeyRefused(req.scheme, combined.secret, req.hd_path) # "none"
      THEN Error(KeyRefused(req.scheme, combined.secret, req.hd_path))
      ELSE LET key == derive_signing_key(req.scheme, combined.secret, req.hd_path)
               signature == sign(req.scheme, key, req.message, req.hash_alg)
           IN  IF ~SecretAccepted(req.scheme, key) \/ ~HashAccepted(req.scheme, req.hash_alg)
               THEN Error("Signer")
               ELSE [kind |-> "Sign", signature |-> signature,
                     public_key |-> public_key(req.scheme, key),
                     user_data |-> <<req.request_id, req.wallet_id, req.message, signature>> \o more]

\* The mock looks at the shares before it combines them.
check_share_params(shares) ==
  IF shares = << >> \/ Len(shares) < shares[1].params.threshold THEN "NotEnoughShares"
  ELSE IF \/ \E i \in DOMAIN shares : shares[i].params # shares[1].params
          \/ Cardinality({shares[i].index : i \in DOMAIN shares}) # Len(shares)
  THEN "InconsistentShares"
  ELSE "Ok"

\* MockEnclave::sign_in_enclave: verifies only when a policy key is pinned,
\* against the structured payload and the ceilings the host passes; the path is
\* bound into its attestation too.
sign_in_enclave(enclave, req, now) ==
  LET payload == IF req.policy_signing_payload = None THEN RawPayload(req.message)
                 ELSE req.policy_signing_payload
      ceilings == IF req.wallet_ceilings = None THEN NoCeilings(req.wallet_id)
                  ELSE req.wallet_ceilings
      verdict == IF enclave.policy_service_pubkey = None THEN "Ok"
                 ELSE verify_request(enclave, req.policy_decision, req.approvals,
                        [request_id |-> req.request_id, payload |-> payload], ceilings, now)
  IN  IF verdict # "Ok" THEN Error(verdict)
      ELSE IF check_share_params(req.shares) # "Ok" THEN Error(check_share_params(req.shares))
      ELSE SignWithShares(req, <<req.hd_path>>)

\* NitroSignRequest: what of the request crosses the vsock.
NitroSignRequest(req) ==
  [f \in DOMAIN req \ {"wallet_ceilings", "policy_signing_payload"} |-> req[f]]

\* Mutant: the boot binary runs the verifier in its lax form.
HandleSignLax(boot, req, now) ==
  LET verdict == verify_request(
                   [policy_service_pubkey |-> boot.policy_service_pubkey,
                    require_signed_decision |-> FALSE],
                   req.policy_decision, req.approvals,
                   [request_id |-> req.request_id, payload |-> RawPayload(req.message)],
                   NoCeilings(req.wallet_id), now)
  IN  IF verdict # "Ok" THEN Error(verdict) ELSE SignWithShares(req, << >>)

\* handle_sign of the boot binary: always strict, and no ceilings.
handle_sign(boot, req, now) ==
  LET verdict == verify_request(
                   [policy_service_pubkey |-> boot.policy_service_pubkey,
                    require_signed_decision |-> TRUE],
                   req.policy_decision, req.approvals,
                   [request_id |-> req.request_id, payload |-> RawPayload(req.message)],
                   NoCeilings(req.wallet_id), now)
  IN  IF verdict # "Ok" THEN Error(verdict) ELSE SignWithShares(req, << >>)

-----------------------------------------------------------------------------
(* Generating a wallet; the seed and the coefficients are what the random   *)
(* number generator gives.                                                  *)

SeedLen(scheme) == IF is_post_quantum(scheme) THEN KeyLen ELSE 2 * KeyLen

GenerateFrom(req, seed, coeffs) ==
  LET key == derive_signing_key(req.scheme, seed, req.master_hd_path)
      params == [threshold |-> req.threshold, total |-> req.total]
      shares == split_secret(seed, params, coeffs)
      why == KeyRefused(req.scheme, seed, req.master_hd_path)
  IN  IF why # "none" THEN Error(why)
      ELSE IF ~SecretAccepted(req.scheme, key) THEN Error("Signer")
      ELSE IF ~ParamsAreValid(params) \/ seed = <<>> THEN Error("Sss")
      ELSE [kind |-> "GenerateWallet", shares |-> shares,
            master_public_key |-> public_key(req.scheme, key)]

\* MockEnclave::generate_wallet
generate_wallet(req, seed, coeffs) ==
  IF req.threshold < 2 \/ req.threshold > req.total THEN Error("InvalidRequest")
  ELSE IF is_post_quantum(req.scheme) /\ req.master_hd_path # None THEN Error("Derivation")
  ELSE GenerateFrom(req, seed, coeffs)

\* handle_generate of the boot binary: no post-quantum wallets.
handle_generate(req, seed, coeffs) ==
  IF req.threshold < 2 \/ req.threshold > req.total THEN Error("InvalidRequest")
  ELSE IF is_post_quantum(req.scheme) THEN Error("InvalidRequest")
  ELSE GenerateFrom(req, seed, coeffs)
=============================================================================
