---------------------------- MODULE EnclaveHost ----------------------------
(***************************************************************************)
(* The host beside its enclave: creating a wallet and storing its shares   *)
(* (service.rs create_wallet over the three ShareStore implementations of  *)
(* qfc-sss/src/stores), the policy service and the approvers that sign     *)
(* what the enclave checks, and signing over the enclave interface, whose  *)
(* Nitro form is one request and one response per vsock connection.        *)
(*                                                                         *)
(* Wallet records live in memory and are gone after a crash; share files   *)
(* stay, but for a rename that had not reached the directory.              *)
(***************************************************************************)
EXTENDS EnclaveBackends

CONSTANTS
  Wallets,        \* wallet ids
  Requests,       \* request ids
  Configs,        \* deployments: enclave, store, what is pinned, the wallet
                  \* configurations clients ask for and the ballots approvers cast
  Seeds,          \* seeds the generator draws, by their length
  Coefficients,   \* coefficients it draws, by the number of chunks
  Decisions,      \* policy decisions
  Asks,           \* what clients ask to sign: payload, path and hash
  MaxAges,        \* max_age_secs the policy service is asked for
  Altered(_),     \* what a decision can look like when it reaches the enclave
  PolicyKey,      \* the policy service's secret key
  MaxTime,        \* bound on the clock
  MaxIssued,      \* bound on the decisions signed
  MaxApproved,    \* bound on the approvals made
  MaxCalls        \* bound on the requests sent to the enclave

\* An enclave that signs nothing without a signed decision.
Strict(c) == c.enclave = "nitro" \/ (c.policy_service_pubkey # None /\ c.require_signed_decision)

WalletConfigs == UNION {c.wallets : c \in Configs}

\* The seeds a wallet can get, and the ways a seed can be split.
SeedsOf(wc) == Seeds[SeedLen(wc.scheme)]
CoefficientsOf(seed) == Coefficients[Len(Prefixed(seed)) \div ChunkDigits]
Splits(wc, seed) ==
  {split_secret(seed, [threshold |-> wc.threshold, total |-> wc.total], coeffs) :
     coeffs \in CoefficientsOf(seed)}

\* The public key create_wallet reports.
MasterKey(wc, seed) == public_key(wc.scheme, derive_signing_key(wc.scheme, seed, None))

\* What the policy service can have signed.
SignedDecisions ==
  {sign_decision(PolicyKey, d, r, w, age, t) :
     d \in Decisions, r \in Requests, w \in Wallets, age \in MaxAges, t \in 0..MaxTime}

\* The types of configurations and decisions; strict enclaves pin the key of
\* the policy service.
ASSUME HostAssumption ==
  /\ MaxTime \in Nat /\ MaxAges \subseteq Nat
  /\ \A c \in Configs : /\ c.store \in {"local_fs", "s3_kms", "mock"}
                        /\ Strict(c) => c.policy_service_pubkey = public_key("Ed25519", PolicyKey)
  /\ \A wc \in WalletConfigs : wc.threshold \in Nat /\ wc.total \in Nat
  /\ \A d \in Decisions : d.kind = "RequireQuorum" => d.threshold \in Nat

\* Nobody but the policy service makes its signatures: whatever else of a
\* decision is altered, the signature is the one that was made.
ASSUME ForgeryAssumption ==
  \A i \in SignedDecisions : \A d \in Altered(i) : d.signature = i.signature

VARIABLES
  now,       \* the clock
  config,    \* the deployment
  shares,    \* the share store: what is under its final name
  tmp,       \* local_fs: the .bin.tmp files; s3_kms: the data keys issued
  wallet,    \* WalletService::wallets, or why there is none
  creating,  \* the create_wallet call that runs
  issued,    \* every decision the policy service signed
  approved,  \* every approval an approver made
  inflight,  \* requests on their way to the enclave
  waiting,   \* the request the host waits for the answer of
  served     \* every signature the enclave made

vars == <<now, config, shares, tmp, wallet, creating, issued, approved, inflight, waiting, served>>
storeVars == <<shares, tmp>>
signVars == <<issued, approved, inflight, waiting, served>>

Indices == UNION {1..wc.total : wc \in WalletConfigs}
ShareIds == Wallets \X Indices

Init ==
  /\ now = 0 /\ config \in Configs
  /\ shares = [id \in ShareIds |-> None] /\ tmp = [id \in ShareIds |-> None]
  /\ wallet = [w \in Wallets |-> [status |-> "unused"]]
  /\ creating = None
  /\ issued = {} /\ approved = {} /\ inflight = {} /\ waiting = None /\ served = {}

-----------------------------------------------------------------------------
(* create_wallet *)

\* A call of create_wallet that has come to share next.
Creation(w, wc, split, seed, key, next, phase) ==
  [wallet |-> w, config |-> wc, shares |-> split, seed |-> seed, master_public_key |-> key,
   next |-> next, phase |-> phase]

\* The enclave generates; a lost connection or a refusal ends the call.
Generate(w, wc, seed, coeffs) ==
  LET req == [scheme |-> wc.scheme, threshold |-> wc.threshold, total |-> wc.total,
              master_hd_path |-> None]
      answer == IF config.enclave = "nitro" THEN handle_generate(req, seed, coeffs)
                ELSE generate_wallet(req, seed, coeffs)
  IN  /\ creating = None /\ wallet[w].status = "unused"
      /\ \/ /\ answer.kind = "GenerateWallet"
            /\ creating' = Creation(w, wc, answer.shares, seed, answer.master_public_key, 1, "start")
            /\ UNCHANGED wallet
         \/ /\ answer.kind = "Error" \/ config.enclave = "nitro"
            /\ wallet' = [wallet EXCEPT ![w] = [status |-> "failed"]]
            /\ UNCHANGED creating
      /\ UNCHANGED <<now, config, storeVars, signVars>>

\* A share as it is sealed under its id.
StoredShare(id, share) == [whole |-> TRUE, share_id |-> id, share |-> share]

\* The share the loop of create_wallet is at.
Putting == creating # None /\ creating.next <= Len(creating.shares)
CurrentId == <<creating.wallet, creating.next>>
Stored == StoredShare(CurrentId, creating.shares[creating.next])
Partial == [whole |-> FALSE]
Advance == creating' = [creating EXCEPT !.next = @ + 1, !.phase = "start"]

\* Mutant: the file is written under its final name.
PutInPlace ==
  /\ Putting /\ creating.phase = "start" /\ config.store = "local_fs"
  /\ tmp' = [tmp EXCEPT ![CurrentId] = Partial]
  /\ shares' = [shares EXCEPT ![CurrentId] = Partial]
  /\ creating' = [creating EXCEPT !.phase = "created"]

\* LocalFsShareStore::put creates the temporary file.
CreateTmp ==
  /\ Putting /\ creating.phase = "start" /\ config.store = "local_fs"
  /\ tmp' = [tmp EXCEPT ![CurrentId] = Partial]
  /\ creating' = [creating EXCEPT !.phase = "created"]
  /\ UNCHANGED shares

\* write_all, flush and sync_all of the sealed share.
WriteTmp ==
  /\ Putting /\ creating.phase = "created"
  /\ tmp' = [tmp EXCEPT ![CurrentId] = Stored]
  /\ creating' = [creating EXCEPT !.phase = "written"]
  /\ UNCHANGED shares

RenameTmp ==
  /\ Putting /\ creating.phase = "written" /\ config.store = "local_fs"
  /\ shares' = [shares EXCEPT ![CurrentId] = tmp[CurrentId]]
  /\ tmp' = [tmp EXCEPT ![CurrentId] = None]
  /\ Advance

\* S3KmsShareStore::put asks KMS for a data key.
DataKey ==
  /\ Putting /\ creating.phase = "start" /\ config.store = "s3_kms"
  /\ tmp' = [tmp EXCEPT ![CurrentId] = Partial]
  /\ creating' = [creating EXCEPT !.phase = "written"]
  /\ UNCHANGED shares

\* The envelope sealed under the data key is put as one object.
PutObject ==
  /\ Putting /\ creating.phase = "written" /\ config.store = "s3_kms"
  /\ shares' = [shares EXCEPT ![CurrentId] = Stored]
  /\ Advance
  /\ UNCHANGED tmp

\* MockShareStore::put inserts into its map.
PutMock ==
  /\ Putting /\ config.store = "mock"
  /\ shares' = [shares EXCEPT ![CurrentId] = Stored]
  /\ Advance
  /\ UNCHANGED tmp

Put ==
  /\ CreateTmp \/ WriteTmp \/ RenameTmp \/ DataKey \/ PutObject \/ PutMock
  /\ UNCHANGED <<now, config, wallet, signVars>>

\* A put that fails ends create_wallet; the shares already stored stay.
PutFails ==
  /\ Putting /\ config.store # "mock"
  /\ wallet' = [wallet EXCEPT ![creating.wallet] = [status |-> "failed"]]
  /\ creating' = None
  /\ UNCHANGED <<now, config, storeVars, signVars>>

\* The record is inserted once every share is stored.
RecordWallet ==
  /\ creating # None /\ ~Putting
  /\ wallet' = [wallet EXCEPT ![creating.wallet] =
                  [status |-> "Active", config |-> creating.config, seed |-> creating.seed,
                   master_public_key |-> creating.master_public_key]]
  /\ creating' = None
  /\ UNCHANGED <<now, config, storeVars, signVars>>

-----------------------------------------------------------------------------
(* Reading shares back *)

\* list: the files named <index>.bin, or the objects of the wallet.
ListedShares(w) == {i \in Indices : shares[<<w, i>>] # None}

\* get of a share: the file opens and holds the id asked for.
OpensFile(id) == shares[id].whole /\ shares[id].share_id = id
\* KMS decrypts a data key it issued, and refuses without the attestation.
DecryptsDataKey(id) == config.attested /\ tmp[id] # None
OpensObject(id) == DecryptsDataKey(id) /\ shares[id].whole

ReadShare(id) ==
  LET opens == CASE config.store = "local_fs" -> OpensFile(id)
                 [] config.store = "s3_kms" -> OpensObject(id)
                 [] config.store = "mock" -> TRUE
  IN  IF opens THEN shares[id].share ELSE None

\* fetch_shares: the first `threshold` of what is listed, by index.
Fetched(w, threshold) ==
  [k \in 1..threshold |->
     ReadShare(<<w, CHOOSE i \in ListedShares(w) :
                      Cardinality({j \in ListedShares(w) : j <= i}) = k>>)]
FetchFails(w, threshold) ==
  \/ Cardinality(ListedShares(w)) < threshold
  \/ \E k \in 1..threshold : Fetched(w, threshold)[k] = None

-----------------------------------------------------------------------------
(* Decisions, approvals and signing *)

\* The policy service signs a decision for a wallet that exists.
PolicySigns(decision, r, w, max_age) ==
  /\ Cardinality(issued) < MaxIssued /\ wallet[w].status = "Active"
  /\ issued' = issued \cup {sign_decision(PolicyKey, decision, r, w, max_age, now)}
  /\ UNCHANGED <<now, config, storeVars, wallet, creating, approved, inflight, waiting, served>>

\* An approver decides on a message for a request.
Approve(a, r, payload, decision) ==
  LET ap == [approval_id |-> Cardinality(approved), request_id |-> r,
             message_hash |-> canonical_signing_message(payload), decision |-> decision,
             timestamp |-> now, scheme |-> a.scheme, public_key |-> public_key(a.scheme, a.key)]
  IN  /\ Cardinality(approved) < MaxApproved
      /\ \E d \in issued : d.decision.kind = "RequireQuorum" /\ d.request_id = r
      /\ approved' = approved \cup
           {[f \in DOMAIN ap \cup {"signature"} |->
               IF f = "signature" THEN sign(a.scheme, a.key, approval_preimage(ap),
                                            approval_hash_alg(a.scheme))
               ELSE ap[f]]}
      /\ UNCHANGED <<now, config, storeVars, wallet, creating, issued, inflight, waiting, served>>

\* The ceilings of a wallet, and the request for one of its signatures.
Ceilings(w, wc) ==
  [wallet_id |-> w, chain_allowlist |-> wc.chain_allowlist,
   contract_allowlist |-> wc.contract_allowlist, max_value_per_tx |-> wc.max_value_per_tx]
SignRequest(w, wc, shs, r, payload, path, hash, decision, approvals) ==
  [request_id |-> r, wallet_id |-> w, shares |-> shs, scheme |-> wc.scheme,
   hd_path |-> path, hash_alg |-> hash, message |-> canonical_signing_message(payload),
   policy_decision |-> decision, approvals |-> approvals,
   wallet_ceilings |-> Ceilings(w, wc), policy_signing_payload |-> payload]

\* The host fetches the shares and hands the request to the enclave.
SendSign(w, r, payload, path, hash, decision, approvals) ==
  LET wc == wallet[w].config
      req == SignRequest(w, wc, Fetched(w, wc.threshold), r, payload, path, hash,
                         decision, approvals)
  IN  /\ wallet[w].status = "Active" /\ waiting = None
      /\ Cardinality(inflight) + Cardinality(served) < MaxCalls
      /\ ~FetchFails(w, wc.threshold)
      /\ inflight' = inflight \cup {req} /\ waiting' = req
      /\ UNCHANGED <<now, config, storeVars, wallet, creating, issued, approved, served>>

InSomeOrder(S) == CHOOSE f \in [1..Cardinality(S) -> S] : IsInjective(f)

\* A decision as signed or altered, or none; no approvals, which is what the
\* service sends, or, as the request type allows, all of them, or one of them
\* once or twice.
Send ==
  \E w \in Wallets, r \in Requests, ask \in Asks :
    \E d \in (UNION {Altered(i) : i \in issued}) \cup {None} :
      \E aps \in {<< >>, InSomeOrder(approved)} \cup (UNION {{<<a>>, <<a, a>>} : a \in approved}) :
        SendSign(w, r, ask.payload, ask.hd_path, ask.hash_alg, d, aps)

EnclaveAnswer(req) ==
  IF config.enclave = "nitro" THEN handle_sign(config, NitroSignRequest(req), now)
  ELSE sign_in_enclave(config, req, now)

\* The enclave handles a request that reached it, also one the host has given
\* up on; the host gets the answer of the one it waits for.
Serve(req) ==
  LET answer == EnclaveAnswer(req)
  IN  /\ inflight' = inflight \ {req}
      /\ served' = IF answer.kind = "Error" THEN served
                   ELSE served \cup {[req |-> req, answer |-> answer, at |-> now]}
      /\ waiting' = IF waiting = req THEN None ELSE waiting
      /\ UNCHANGED <<now, config, storeVars, wallet, creating, issued, approved>>

\* The connection closes before the answer: an error for the caller, although
\* the enclave may have the request.
Lose ==
  /\ waiting # None /\ config.enclave = "nitro"
  /\ waiting' = None
  /\ UNCHANGED <<now, config, storeVars, wallet, creating, issued, approved, inflight, served>>

-----------------------------------------------------------------------------
Tick ==
  /\ now < MaxTime /\ issued # {} /\ Cardinality(served) < MaxCalls
  /\ now' = now + 1
  /\ UNCHANGED <<config, storeVars, wallet, creating, signVars>>

\* The machine stops: memory is gone, and with it wallets, the mock store and
\* what the in-process enclave was doing; a rename may be undone.
Crash ==
  /\ creating # None \/ \E w \in Wallets : wallet[w].status = "Active"
  /\ \E undone \in SUBSET {id \in ShareIds : config.store = "local_fs" /\ shares[id] # None} :
       /\ shares' = [id \in ShareIds |->
                       IF config.store = "mock" \/ id \in undone THEN None ELSE shares[id]]
       /\ tmp' = [id \in ShareIds |-> IF id \in undone THEN shares[id] ELSE tmp[id]]
  /\ wallet' = [w \in Wallets |->
                  IF wallet[w].status = "Active" \/ (creating # None /\ creating.wallet = w)
                  THEN [status |-> "failed"] ELSE wallet[w]]
  /\ creating' = None /\ waiting' = None
  /\ inflight' = IF config.enclave = "nitro" THEN inflight ELSE {}
  /\ UNCHANGED <<now, config, issued, approved, served>>

Next ==
  \/ \E w \in Wallets, wc \in config.wallets :
       \E seed \in SeedsOf(wc) : \E coeffs \in CoefficientsOf(seed) :
         Generate(w, wc, seed, coeffs)
  \/ Put \/ PutFails \/ RecordWallet
  \/ \E d \in Decisions, r \in Requests, w \in Wallets, age \in MaxAges : PolicySigns(d, r, w, age)
  \/ \E b \in config.ballots, r \in Requests : Approve(b.approver, r, b.payload, b.decision)
  \/ Send
  \/ \E req \in inflight : Serve(req)
  \/ Lose \/ Tick \/ Crash

Spec == Init /\ [][Next]_vars

\* Option::None is no key, no payload, no ceilings, no share, no stored object
\* and no call.
ASSUME NoneAssumption ==
  /\ Partial # None /\ public_key("Ed25519", PolicyKey) # None
  /\ \A ask \in Asks : ask.payload # None
  /\ \A w \in Wallets : \A wc \in WalletConfigs : Ceilings(w, wc) # None
  /\ \A wc \in WalletConfigs : \A seed \in SeedsOf(wc) : \A split \in Splits(wc, seed) :
       \A i \in 1..wc.total :
         split[i] # None /\ \A w \in Wallets : StoredShare(<<w, i>>, split[i]) # None
  /\ \A w \in Wallets : \A wc \in WalletConfigs : \A seed \in SeedsOf(wc) :
       \A split \in Splits(wc, seed), next \in 1..(wc.total + 1) :
         \A phase \in {"start", "created", "written"} :
           Creation(w, wc, split, seed, MasterKey(wc, seed), next, phase) # None

\* Shamir's scheme: the first threshold shares of a split give the seed back.
ASSUME ReconstructAssumption ==
  \A wc \in WalletConfigs : \A seed \in SeedsOf(wc) : \A split \in Splits(wc, seed) :
    2 <= wc.threshold /\ wc.threshold <= wc.total =>
      combine_shares([k \in 1..wc.threshold |-> split[k]]) = Combined(seed)

-----------------------------------------------------------------------------
(* Properties *)

\* Approval ap is of the message that was signed, for this request, by someone
\* who made it within the last hour.
Approves(ap, s) ==
  /\ ap \in approved /\ ap.decision = "Approve" /\ ap.request_id = s.req.request_id
  /\ ap.message_hash = s.answer.signature.message
  /\ s.at - ap.timestamp < (MaxApprovalAge + 1) * TicksPerSecond

\* Decision d is what signature s goes back to.
Authorises(d, s) ==
  /\ d.request_id = s.req.request_id /\ d.wallet_id = s.req.wallet_id
  /\ d.decision.kind # "Deny"
  /\ s.at >= d.signed_at
  /\ \A limit \in {d.max_age, MaxDecisionAge} : s.at - d.signed_at < (limit + 1) * TicksPerSecond
  /\ d.decision.kind = "RequireQuorum" =>
       \E chosen \in SUBSET DOMAIN s.req.approvals :
         /\ Cardinality(chosen) >= d.decision.threshold
         /\ \A i \in chosen : Approves(s.req.approvals[i], s)

\* A signature made by an enclave that insists on a signed decision goes back
\* to a decision the policy service issued for that request and wallet, that
\* is not a denial and not older than its own and the enclave's limit; when it
\* asks for a quorum, to as many approvals of this very message for this
\* request, each made by an approver within the last hour
\* (hybrid_verifier.rs verify, whatever the host passes along).
SignaturesAreAuthorised ==
  Strict(config) => \A s \in served : \E d \in issued : Authorises(d, s)

\* Where an envelope of each type has its value.
ValueField == [legacy |-> 5, eip2930 |-> 6, eip1559 |-> 7, eip4844 |-> 7]

\* A payload is within the ceilings.
WithinCeilings(p, wc) ==
  /\ p.kind = "VmTransaction" /\ wc.chain_allowlist # {} => p.chain_id \in wc.chain_allowlist
  /\ IsEvm(p) =>
       /\ wc.contract_allowlist # {} => p.to \in wc.contract_allowlist \cup {None}
       /\ wc.max_value_per_tx # None /\ p.raw.first \in DOMAIN ValueField =>
            ~(p.raw.body.items[ValueField[p.raw.first]].val > wc.max_value_per_tx)

\* A verifying in-process enclave signs no transaction over a ceiling of its
\* wallet, with or without a decision: the message it signs is the envelope
\* whose fields it checked, against the ceilings in the wallet's record
\* (check_hard_ceilings decodes the envelope again).  The boot binary gets no
\* ceilings.
CeilingsHold ==
  config.enclave = "mock" /\ config.policy_service_pubkey # None =>
    \A s \in served :
      LET p == s.req.policy_signing_payload
          rec == wallet[s.req.wallet_id]
      IN  /\ WithinCeilings(p, s.req.wallet_ceilings)
          /\ s.answer.signature.message = canonical_signing_message(p)
          /\ rec.status = "Active" =>
               s.req.wallet_ceilings = Ceilings(s.req.wallet_id, rec.config)

KeyIsOf(rec, s) ==
  LET pk == IF s.req.hd_path = None THEN rec.master_public_key
            ELSE public_key(rec.config.scheme,
                            HdKey(Family(rec.config.scheme), rec.seed, s.req.hd_path))
  IN  /\ s.answer.public_key = pk
      /\ verify(rec.config.scheme, pk, s.req.message, s.answer.signature, s.req.hash_alg)

\* What the enclave signs with is the key of the seed it generated for this
\* wallet, through splitting, storing, crashes, fetching and combining: without
\* a path the signature verifies under the public key create_wallet reported,
\* with one under the key derived from that seed.
SignedWithTheWalletsKey ==
  \A s \in served : wallet[s.req.wallet_id].status = "Active" =>
    KeyIsOf(wallet[s.req.wallet_id], s)

\* At every moment, a crash in the middle of a put included, a share that list
\* names can be read back whole and is the one that was put under that id
\* (temporary file and rename in local_fs, data key before object in s3_kms).
ListedSharesAreReadable ==
  config.attested => \A w \in Wallets : \A i \in ListedShares(w) :
    ReadShare(<<w, i>>) # None /\ ReadShare(<<w, i>>).index = i

\* An enclave that pins the policy service's key and insists on its decisions.
StrictEnclave ==
  [policy_service_pubkey |-> public_key("Ed25519", PolicyKey), require_signed_decision |-> TRUE]

\* Without ceilings, the strict in-process enclave and the boot binary answer
\* every request alike, refusals included, but for the path that only the
\* former binds into its attestation (mock.rs sign_in_enclave,
\* enclave/src/main.rs handle_sign).
BackendsAgree ==
  \A req \in inflight :
    LET bare == [req EXCEPT !.wallet_ceilings = None]
        mock == sign_in_enclave(StrictEnclave, bare, now)
        boot == handle_sign(StrictEnclave, NitroSignRequest(bare), now)
    IN  boot = IF mock.kind = "Error" THEN mock
               ELSE [mock EXCEPT !.user_data = SubSeq(@, 1, 4)]
=============================================================================
