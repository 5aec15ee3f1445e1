--------------------------- MODULE MCEnclaveHost ---------------------------
(***************************************************************************)
(* EnclaveHost with both enclaves and the three share stores.              *)
(***************************************************************************)
EXTENDS EnclaveHost, MCAttestation

CONSTANTS w1, r1, r2, m1, Own

MCWallets == {w1}
MCRequests == {r1, r2}
MCSymmetry == Permutations(MCRequests)
PolicySecret == RawKey(<<0>>)

\* An EVM legacy envelope: nonce, gas price, gas limit, to, value, data, v, r, s.
Legacy(to, value) ==
  [first |-> "legacy", trailing |-> FALSE,
   body |-> List(<<Str(0, 0), Str(1, 1), Str(1, 1), IF to = None THEN Str(0, 0) ELSE Str(20, to),
                   Str(1, value), Str(0, 0), Str(1, 37), Str(1, 1), Str(1, 1)>>)]
Transaction(chain, to, value) ==
  [kind |-> "VmTransaction", vm |-> "Evm", chain_id |-> chain, to |-> to, raw |-> Legacy(to, value)]
Alice == [scheme |-> "Ed25519", key |-> RawKey(<<1>>)]
Bob == [scheme |-> "Secp256k1", key |-> RawKey(<<2>>)]
Ballot(approver, payload, decision) ==
  [approver |-> approver, payload |-> payload, decision |-> decision]
Ballots == { Ballot(Alice, RawPayload(m1), "Approve"), Ballot(Bob, RawPayload(m1), "Approve"),
             Ballot(Bob, RawPayload(m1), "Reject") }

Limited == [scheme |-> "Secp256k1", threshold |-> 2, total |-> 3, chain_allowlist |-> {1},
            contract_allowlist |-> {Own}, max_value_per_tx |-> 5]
Unlimited(scheme) == [scheme |-> scheme, threshold |-> 2, total |-> 2, chain_allowlist |-> {},
                      contract_allowlist |-> {}, max_value_per_tx |-> None]

Deployment(enclave, pinned, require, store, attested, wallets, ballots) ==
  [enclave |-> enclave, require_signed_decision |-> require, store |-> store,
   policy_service_pubkey |-> IF pinned THEN public_key("Ed25519", PolicySecret) ELSE None,
   attested |-> attested, wallets |-> wallets, ballots |-> ballots]
MCConfigs ==
  { Deployment("mock", TRUE, TRUE, "mock", TRUE, {Unlimited("Ed25519")}, Ballots),
    Deployment("mock", TRUE, FALSE, "local_fs", TRUE, {Limited}, {}),
    Deployment("mock", TRUE, TRUE, "s3_kms", TRUE, {Limited}, {}),
    Deployment("mock", TRUE, TRUE, "s3_kms", FALSE, {Unlimited("Ed25519")}, {}),
    Deployment("mock", FALSE, TRUE, "mock", TRUE, {Unlimited("MlDsa65")}, {}),
    Deployment("nitro", TRUE, TRUE, "local_fs", TRUE, {Unlimited("MlDsa65"), Limited}, {}),
    Deployment("nitro", TRUE, TRUE, "s3_kms", TRUE, {Unlimited("Ed25519")}, {}) }
MCSeeds == <<{<<2>>}, {<<1, 2>>}>>
MCCoefficients == <<{<<<<7>>>>}, {<<<<4>>, <<10>>>>}>>
MCDecisions == { [kind |-> "Allow"], [kind |-> "Deny"], [kind |-> "RequireQuorum", threshold |-> 2] }

Hard == [hard |-> TRUE]
Ask(payload, path, hash) == [payload |-> payload, hd_path |-> path, hash_alg |-> hash]
MCAsks == { Ask(RawPayload(m1), None, "None"),
            Ask(Transaction(1, Own, 5), << Hard >>, "Sha256"),
            Ask(Transaction(1, None, 6), None, "Sha256"),
            Ask(RawPayload(m1), << Hard, [hard |-> FALSE] >>, "Sha256"),
            Ask(RawPayload(m1), << Hard >>, "None") }
MCMaxAges == {0, 5}

\* A signed decision arrives as it was signed, or with one field changed.
MCAltered(d) ==
  { d, [d EXCEPT !.request_id = IF @ = r1 THEN r2 ELSE r1],
       [d EXCEPT !.decision = [kind |-> "Allow"]],
       [d EXCEPT !.decision = [kind |-> "Allow"],
                 !.raw_payload = build_preimage([kind |-> "Allow"], d.request_id, d.wallet_id,
                                                d.signed_at, d.max_age)] }

-----------------------------------------------------------------------------
(* Properties *)

\* Before anything happens: one state to check what concerns no state.
Fresh == issued = {} /\ creating = None /\ config.store = "mock" /\ \A w \in Wallets : wallet[w].status = "unused"

\* Any shares of a split that are at least the threshold, in any order, give
\* the secret back; fewer, repeated ones or those of another split with other
\* parameters are refused (shamir.rs split_secret and combine_shares).
AnyThresholdReconstructs ==
  Fresh => \A secret \in {<<2>>, <<1, 2>>, <<0, 0>>}, total \in 2..4 : \A t \in 2..total :
    \A a, b \in {0, 5, 10} :
      LET split == split_secret(secret, [threshold |-> t, total |-> total],
                                [c \in 1..2 |-> [k \in 1..(t - 1) |-> (a * k + b * c) % Prime]])
      IN  \A n \in 1..3 : \A pick \in [1..n -> 1..total] :
            LET result == combine_shares([k \in 1..n |-> split[pick[k]]])
            IN  IF n >= t /\ Cardinality({pick[k] : k \in 1..n}) = n
                THEN result = Combined(secret) ELSE ~result.ok

\* An attestation is accepted if and only if it says what a module signed, with
\* a key certified up to the pinned root by certificates that are all valid at
\* that moment, for the expected image and within its age; whatever order,
\* unknown keys or nulls its map has, whatever was damaged or exchanged on the
\* way.  Mock documents are accepted unchanged, and never in production
\* (cose.rs decode_payload_map, verify_attestation.rs verify_attestation_inner
\* and verify_root_chain, verify_mock_attestation).
AttestationIsGenuine == Fresh => AcceptsExactlyGenuine /\ MockDocumentsAreKept
=============================================================================
