---------------------------- MODULE EnclaveProofs ----------------------------
(***************************************************************************)
(* Theorems about the host and its enclaves (module EnclaveHost), for any  *)
(* deployments, wallets, seeds, decisions and alterations of decisions.    *)
(*                                                                         *)
(* The invariant follows a seed from its split through the store into the  *)
(* requests (CreatingInv, WalletInv, StoreInv), and a decision and its     *)
(* approvals from those who signed them into the requests (IssuedInv,      *)
(* RequestInv).  What the enclave has signed is then judged by what the    *)
(* request it served carried.                                              *)
(***************************************************************************)
EXTENDS EnclaveHost, FiniteSetTheorems, SequenceTheorems, TLAPS

\* Most leaves are first-order reasoning about functions and strings.
USE Zenon

\* The split a wallet with this configuration and seed was given.
Generated(wc, seed, split) ==
  /\ wc \in WalletConfigs /\ seed \in SeedsOf(wc) /\ split \in Splits(wc, seed)
  /\ 2 <= wc.threshold /\ wc.threshold <= wc.total

\* The store has the shares of w below n, and no other of w.
Holds(w, split, n) ==
  \A i \in Indices : shares[<<w, i>>] = IF i < n THEN StoredShare(<<w, i>>, split[i]) ELSE None

TypeInv ==
  /\ now \in 0..MaxTime /\ config \in Configs
  /\ DOMAIN shares = ShareIds /\ DOMAIN tmp = ShareIds /\ DOMAIN wallet = Wallets

\* The call that creates a wallet, by the share and the phase it is at.
CreatingInv ==
  creating # None =>
    LET wc == creating.config
    IN  /\ creating = Creation(creating.wallet, wc, creating.shares, creating.seed,
                               creating.master_public_key, creating.next, creating.phase)
        /\ creating.wallet \in Wallets /\ wallet[creating.wallet].status = "unused"
        /\ Generated(wc, creating.seed, creating.shares)
        /\ creating.master_public_key = MasterKey(wc, creating.seed)
        /\ creating.next \in 1..(wc.total + 1)
        /\ Holds(creating.wallet, creating.shares, creating.next)
        /\ creating.phase = "created" => config.store = "local_fs"
        /\ creating.phase = "written" =>
             /\ tmp[CurrentId] # None
             /\ config.store = "local_fs" => tmp[CurrentId] = Stored

WalletAt(w) ==
  LET rec == wallet[w]
  IN  /\ rec.status \in {"unused", "Active", "failed"}
      /\ rec.status = "unused" /\ (creating = None \/ creating.wallet # w) => Holds(w, << >>, 0)
      /\ rec.status = "Active" =>
           /\ \E split \in Splits(rec.config, rec.seed) :
                Generated(rec.config, rec.seed, split) /\ Holds(w, split, rec.config.total + 1)
           /\ rec.master_public_key = MasterKey(rec.config, rec.seed)
WalletInv == \A w \in Wallets : WalletAt(w)

\* What is stored under an id is whole, and the share put there.
StoredAt(id) ==
  shares[id] # None =>
    /\ shares[id].whole /\ shares[id].share_id = id
    /\ shares[id].share # None /\ shares[id].share.index = id[2]
    /\ config.store = "s3_kms" => tmp[id] # None
StoreInv == \A id \in ShareIds : StoredAt(id)

IssuedInv ==
  /\ issued \subseteq SignedDecisions
  /\ IsFiniteSet(approved) /\ \A ap \in approved : ap.timestamp \in Nat

\* A request belongs to a wallet, and while the wallet lives is for its key.
OfWallet(req) ==
  LET rec == wallet[req.wallet_id]
  IN  /\ req.wallet_id \in Wallets /\ rec.status # "unused"
      /\ rec.status = "Active" =>
           /\ req.scheme = rec.config.scheme
           /\ req.wallet_ceilings = Ceilings(req.wallet_id, rec.config)
           /\ combine_shares(req.shares) = Combined(rec.seed)

\* What a request carries.
WellFormed(req) ==
  /\ req = [request_id |-> req.request_id, wallet_id |-> req.wallet_id, shares |-> req.shares,
            scheme |-> req.scheme, hd_path |-> req.hd_path, hash_alg |-> req.hash_alg,
            message |-> req.message, policy_decision |-> req.policy_decision,
            approvals |-> req.approvals, wallet_ceilings |-> req.wallet_ceilings,
            policy_signing_payload |-> req.policy_signing_payload]
  /\ req.policy_signing_payload \in {ask.payload : ask \in Asks}
  /\ req.message = canonical_signing_message(req.policy_signing_payload)
  /\ req.wallet_ceilings # None /\ req.wallet_ceilings.wallet_id = req.wallet_id
  /\ check_share_params(req.shares) = "Ok"

\* Decision and approvals come from those who signed them.
Sourced(req) ==
  /\ req.policy_decision \in (UNION {Altered(i) : i \in issued}) \cup {None}
  /\ req.approvals \in Seq(approved)

RequestInv == \A req \in inflight : OfWallet(req) /\ WellFormed(req) /\ Sourced(req)
ServedInv == \A s \in served : OfWallet(s.req)

HostInv ==
  /\ TypeInv /\ CreatingInv /\ WalletInv /\ StoreInv /\ IssuedInv /\ RequestInv /\ ServedInv
  /\ SignaturesAreAuthorised /\ CeilingsHold /\ SignedWithTheWalletsKey

-----------------------------------------------------------------------------
(* What an answer of the enclave tells *)

\* Whole seconds below a limit.
LEMMA WithinLimit ==
  ASSUME NEW age \in Nat, NEW tick \in Nat \ {0}, NEW limit \in Nat, age \div tick <= limit
  PROVE  age < (limit + 1) * tick
  BY SMT

\* verify_request accepts only what every one of its checks accepts.
LEMMA Accepts ==
  ASSUME NEW v, NEW signed, NEW aps, NEW request, NEW wc, NEW t,
         verify_request(v, signed, aps, request, wc, t) = "Ok"
  PROVE  /\ check_hard_ceilings(request.payload, wc) = "Ok"
         /\ signed = None => ~v.require_signed_decision
         /\ signed # None =>
              /\ DecisionVerdict(v, signed, request, wc, t) = "Ok"
              /\ signed.decision.kind = "RequireQuorum" =>
                   check_approvals(aps, request, signed.decision.threshold, t) = "Ok"
  BY DEF verify_request

\* What is signed, when something is signed.
LEMMA Signs ==
  ASSUME NEW req, NEW more, SignWithShares(req, more).kind # "Error"
  PROVE  LET answer == SignWithShares(req, more)
             key == derive_signing_key(req.scheme, combine_shares(req.shares).secret, req.hd_path)
         IN  /\ answer.signature = sign(req.scheme, key, req.message, req.hash_alg)
             /\ answer.public_key = public_key(req.scheme, key)
             /\ HashAccepted(req.scheme, req.hash_alg)
  BY DEF SignWithShares, Error

\* The raw payload of a decision holds all its fields.
LEMMA SamePreimage ==
  ASSUME NEW d1, NEW r1, NEW w1, NEW t1, NEW a1, NEW d2, NEW r2, NEW w2, NEW t2, NEW a2,
         build_preimage(d1, r1, w1, t1, a1) = build_preimage(d2, r2, w2, t2, a2)
  PROVE  d1 = d2 /\ r1 = r2 /\ w1 = w2 /\ t1 = t2 /\ a1 = a2
  BY DEF build_preimage

\* A decision that verifies is the one that was signed, for this request and
\* this wallet, and is neither a denial nor too old.
LEMMA DecisionIsGenuine ==
  ASSUME NEW v, NEW i \in SignedDecisions, NEW d \in Altered(i), NEW request, NEW wc,
         NEW t \in Nat, v.policy_service_pubkey = public_key("Ed25519", PolicyKey),
         DecisionVerdict(v, d, request, wc, t) = "Ok"
  PROVE  /\ d.decision = i.decision
         /\ i.request_id = request.request_id /\ i.wallet_id = wc.wallet_id
         /\ i.decision.kind # "Deny" /\ t >= i.signed_at
         /\ \A limit \in {i.max_age, MaxDecisionAge} :
              t - i.signed_at < (limit + 1) * TicksPerSecond
  <1>1. PICK de \in Decisions, r \in Requests, w \in Wallets, age \in MaxAges, s \in 0..MaxTime :
          i = sign_decision(PolicyKey, de, r, w, age, s)
    BY SMT DEF SignedDecisions
  <1>2. /\ i.decision = de /\ i.request_id = r /\ i.wallet_id = w /\ i.signed_at = s
        /\ i.max_age = age /\ i.raw_payload = build_preimage(de, r, w, s, age)
        /\ i.signature = sign("Ed25519", PolicyKey, i.raw_payload, "None")
    BY <1>1 DEF sign_decision
  <1>3. /\ d.raw_payload = build_preimage(d.decision, d.request_id, d.wallet_id, d.signed_at,
                                          d.max_age)
        /\ verify_ed25519(v.policy_service_pubkey, d.raw_payload, d.signature)
        /\ d.request_id = request.request_id /\ d.wallet_id = wc.wallet_id
        /\ ~(t - d.signed_at < 0)
        /\ ~((t - d.signed_at) \div TicksPerSecond > Min2(d.max_age, MaxDecisionAge))
        /\ d.decision.kind # "Deny"
    BY DEF DecisionVerdict
  <1>4. d.signature = sign("Ed25519", PolicyKey, d.raw_payload, "None")
    BY SMT, <1>3 DEF verify_ed25519, verify, public_key
  <1>5. d.raw_payload = i.raw_payload
    <2>1. sign("Ed25519", PolicyKey, d.raw_payload, "None")
            = sign("Ed25519", PolicyKey, i.raw_payload, "None")
      BY <1>2, <1>4, ForgeryAssumption
    <2> QED
      BY <2>1 DEF sign
  <1>6. d.decision = de /\ d.request_id = r /\ d.wallet_id = w /\ d.signed_at = s /\ d.max_age = age
    BY SMT, <1>2, <1>3, <1>5, SamePreimage
  <1>7. s \in Nat /\ age \in Nat /\ TicksPerSecond \in Nat \ {0} /\ MaxDecisionAge \in Nat
    BY SMT, HostAssumption, VerifierAssumption
  <1>8. t - s \in Nat
    BY SMT, <1>3, <1>6, <1>7
  <1>9. (t - s) \div TicksPerSecond <= age /\ (t - s) \div TicksPerSecond <= MaxDecisionAge
    BY SMT, <1>3, <1>6, <1>7, <1>8 DEF Min2
  <1>10. t - s < (age + 1) * TicksPerSecond /\ t - s < (MaxDecisionAge + 1) * TicksPerSecond
    BY <1>7, <1>8, <1>9, WithinLimit
  <1>11. t >= s
    BY SMT, <1>7, <1>8
  <1> QED
    BY <1>2, <1>3, <1>6, <1>10, <1>11

LEMMA OneTo == \A n \in Nat : IsFiniteSet(1..n) /\ Cardinality(1..n) = n
  BY SMT, FS_Interval

\* Approvals that pass the check are as many as asked for.
LEMMA QuorumIsGenuine ==
  ASSUME \A ap \in approved : ap.timestamp \in Nat, NEW s, s.req.approvals \in Seq(approved),
         s.at \in Nat, NEW request, request.request_id = s.req.request_id,
         canonical_signing_message(request.payload) = s.answer.signature.message,
         NEW n \in Nat, check_approvals(s.req.approvals, request, n, s.at) = "Ok"
  PROVE  \E chosen \in SUBSET DOMAIN s.req.approvals :
           Cardinality(chosen) >= n /\ \A i \in chosen : Approves(s.req.approvals[i], s)
  <1> DEFINE aps == s.req.approvals
  <1>1. /\ \A i \in DOMAIN aps : ApprovalHolds(aps[i], request, s.at)
        /\ ~(Len(aps) < n)
    BY DEF check_approvals
  <1>2. DOMAIN aps = 1..Len(aps) /\ Len(aps) \in Nat /\ \A i \in DOMAIN aps : aps[i] \in approved
    BY SMT
  <1>3. Cardinality(DOMAIN aps) = Len(aps)
    BY <1>2, OneTo
  <1>5. Cardinality(DOMAIN aps) >= n
    BY SMT, <1>1, <1>2, <1>3
  <1>4. ASSUME NEW i \in DOMAIN aps PROVE Approves(aps[i], s)
    <2>1. /\ aps[i].request_id = request.request_id
          /\ aps[i].message_hash = canonical_signing_message(request.payload)
          /\ s.at - aps[i].timestamp >= 0
          /\ (s.at - aps[i].timestamp) \div TicksPerSecond <= MaxApprovalAge
          /\ aps[i].decision = "Approve"
      BY <1>1 DEF ApprovalHolds
    <2>2. aps[i].timestamp \in Nat /\ TicksPerSecond \in Nat \ {0} /\ MaxApprovalAge \in Nat
      BY <1>2, VerifierAssumption
    <2>3. s.at - aps[i].timestamp \in Nat
      BY SMT, <2>1, <2>2
    <2>4. s.at - aps[i].timestamp < (MaxApprovalAge + 1) * TicksPerSecond
      BY <2>1, <2>2, <2>3, WithinLimit
    <2> QED
      BY <1>2, <2>1, <2>4 DEF Approves
  <1> QED
    BY <1>4, <1>5

\* A request a strict verifier accepts is authorised.
LEMMA AcceptedIsAuthorised ==
  ASSUME IssuedInv, NEW s, Sourced(s.req), s.at \in Nat, NEW v, v.require_signed_decision,
         v.policy_service_pubkey = public_key("Ed25519", PolicyKey),
         NEW request, request.request_id = s.req.request_id,
         canonical_signing_message(request.payload) = s.answer.signature.message,
         NEW wc, wc.wallet_id = s.req.wallet_id,
         verify_request(v, s.req.policy_decision, s.req.approvals, request, wc, s.at) = "Ok"
  PROVE  \E d \in issued : Authorises(d, s)
  <1> DEFINE signed == s.req.policy_decision
  <1>1. /\ signed # None
        /\ DecisionVerdict(v, signed, request, wc, s.at) = "Ok"
        /\ signed.decision.kind = "RequireQuorum" =>
             check_approvals(s.req.approvals, request, signed.decision.threshold, s.at) = "Ok"
    BY SMT, Accepts
  <1>2. PICK i \in issued : signed \in Altered(i)
    BY <1>1 DEF Sourced
  <1>3. i \in SignedDecisions
    BY DEF IssuedInv
  <1>4. /\ signed.decision = i.decision
        /\ i.request_id = request.request_id /\ i.wallet_id = wc.wallet_id
        /\ i.decision.kind # "Deny" /\ s.at >= i.signed_at
        /\ \A limit \in {i.max_age, MaxDecisionAge} :
             s.at - i.signed_at < (limit + 1) * TicksPerSecond
    BY <1>1, <1>2, <1>3, DecisionIsGenuine
  <1>5. i.decision.kind = "RequireQuorum" => i.decision.threshold \in Nat
    BY SMT, <1>3, HostAssumption DEF SignedDecisions, sign_decision
  <1>6. ASSUME i.decision.kind = "RequireQuorum"
        PROVE  \E chosen \in SUBSET DOMAIN s.req.approvals :
                 /\ Cardinality(chosen) >= i.decision.threshold
                 /\ \A k \in chosen : Approves(s.req.approvals[k], s)
    BY <1>1, <1>4, <1>5, <1>6, QuorumIsGenuine DEF IssuedInv, Sourced
  <1> QED
    BY <1>4, <1>6 DEF Authorises

-----------------------------------------------------------------------------
(* The two backends *)

\* What the in-process enclave verifies.
MockPayload(req) ==
  IF req.policy_signing_payload = None THEN RawPayload(req.message) ELSE req.policy_signing_payload
MockCeilings(req) ==
  IF req.wallet_ceilings = None THEN NoCeilings(req.wallet_id) ELSE req.wallet_ceilings

LEMMA MockSigns ==
  ASSUME NEW c, NEW req, NEW t, sign_in_enclave(c, req, t).kind # "Error"
  PROVE  /\ sign_in_enclave(c, req, t) = SignWithShares(req, <<req.hd_path>>)
         /\ c.policy_service_pubkey # None =>
              verify_request(c, req.policy_decision, req.approvals,
                [request_id |-> req.request_id, payload |-> MockPayload(req)],
                MockCeilings(req), t) = "Ok"
  BY DEF sign_in_enclave, Error, MockPayload, MockCeilings

\* The boot binary's verifier.
BootVerifier(c) ==
  [policy_service_pubkey |-> c.policy_service_pubkey, require_signed_decision |-> TRUE]

LEMMA BootSigns ==
  ASSUME NEW c, NEW req, NEW t, handle_sign(c, req, t).kind # "Error"
  PROVE  /\ handle_sign(c, req, t) = SignWithShares(req, << >>)
         /\ verify_request(BootVerifier(c), req.policy_decision, req.approvals,
              [request_id |-> req.request_id, payload |-> RawPayload(req.message)],
              NoCeilings(req.wallet_id), t) = "Ok"
  BY DEF handle_sign, Error, BootVerifier

\* What crosses the vsock is unchanged.
LEMMA CrossesVsock ==
  ASSUME NEW req, WellFormed(req)
  PROVE  LET sent == NitroSignRequest(req)
         IN  /\ sent.request_id = req.request_id /\ sent.wallet_id = req.wallet_id
             /\ sent.shares = req.shares /\ sent.scheme = req.scheme
             /\ sent.hd_path = req.hd_path /\ sent.hash_alg = req.hash_alg
             /\ sent.message = req.message /\ sent.policy_decision = req.policy_decision
             /\ sent.approvals = req.approvals
  <1>1. DOMAIN req = {"request_id", "wallet_id", "shares", "scheme", "hd_path", "hash_alg",
                      "message", "policy_decision", "approvals", "wallet_ceilings",
                      "policy_signing_payload"}
    BY DEF WellFormed
  <1> QED
    BY <1>1 DEF NitroSignRequest

\* Whichever backend it is, what is signed is the message of the request, with
\* the key of the seed its shares give.
LEMMA AnswerSigns ==
  ASSUME NEW req, WellFormed(req), EnclaveAnswer(req).kind # "Error"
  PROVE  LET answer == EnclaveAnswer(req)
             key == derive_signing_key(req.scheme, combine_shares(req.shares).secret, req.hd_path)
         IN  /\ answer.signature = sign(req.scheme, key, req.message, req.hash_alg)
             /\ answer.public_key = public_key(req.scheme, key)
             /\ HashAccepted(req.scheme, req.hash_alg)
  <1>1. CASE config.enclave = "nitro"
    <2>1. EnclaveAnswer(req) = SignWithShares(NitroSignRequest(req), << >>)
      BY <1>1, BootSigns DEF EnclaveAnswer
    <2> QED
      BY SMT, <2>1, Signs, CrossesVsock
  <1>2. CASE config.enclave # "nitro"
    <2>1. EnclaveAnswer(req) = SignWithShares(req, <<req.hd_path>>)
      BY <1>2, MockSigns DEF EnclaveAnswer
    <2> QED
      BY <2>1, Signs
  <1> QED
    BY <1>1, <1>2

\* What a strict enclave signs is authorised.
LEMMA AnswerIsAuthorised ==
  ASSUME TypeInv, IssuedInv, NEW req, WellFormed(req), Sourced(req), Strict(config),
         EnclaveAnswer(req).kind # "Error",
         NEW s, s.req = req, s.answer = EnclaveAnswer(req), s.at = now
  PROVE  \E d \in issued : Authorises(d, s)
  <1>1. config.policy_service_pubkey = public_key("Ed25519", PolicyKey) /\ now \in Nat
    BY SMT, HostAssumption DEF TypeInv
  <1>2. s.answer.signature.message = req.message
    <2>1. \E scheme, key, hash : s.answer.signature = sign(scheme, key, req.message, hash)
      BY SMT, AnswerSigns
    <2> QED
      BY SMT, <2>1 DEF sign
  <1>3. \A m : canonical_signing_message(RawPayload(m)) = m
    BY DEF canonical_signing_message, RawPayload
  <1>4. CASE config.enclave = "nitro"
    <2>1. verify_request(BootVerifier(config), req.policy_decision, req.approvals,
            [request_id |-> req.request_id, payload |-> RawPayload(req.message)],
            NoCeilings(req.wallet_id), now) = "Ok"
      BY SMT, <1>4, BootSigns, CrossesVsock DEF EnclaveAnswer
    <2>2. /\ BootVerifier(config).require_signed_decision
          /\ BootVerifier(config).policy_service_pubkey = public_key("Ed25519", PolicyKey)
          /\ NoCeilings(req.wallet_id).wallet_id = req.wallet_id
      BY <1>1 DEF BootVerifier, NoCeilings
    <2> QED
      BY SMT, <1>1, <1>2, <1>3, <2>1, <2>2, AcceptedIsAuthorised
  <1>5. CASE config.enclave # "nitro"
    <2>1. config.policy_service_pubkey # None /\ config.require_signed_decision
      BY <1>5 DEF Strict
    <2>2. sign_in_enclave(config, req, now).kind # "Error"
      BY <1>5 DEF EnclaveAnswer
    <2>4. verify_request(config, req.policy_decision, req.approvals,
            [request_id |-> req.request_id, payload |-> MockPayload(req)],
            MockCeilings(req), now) = "Ok"
      BY ZenonT(60), <2>1, <2>2, MockSigns
    <2>3. /\ canonical_signing_message(MockPayload(req)) = req.message
          /\ MockCeilings(req).wallet_id = req.wallet_id
      BY <1>3 DEF MockPayload, MockCeilings, WellFormed, NoCeilings
    <2> QED
      BY <1>1, <1>2, <2>1, <2>3, <2>4, AcceptedIsAuthorised
  <1> QED
    BY <1>4, <1>5

\* Without ceilings a verifier tells requests apart by their id and message.
LEMMA VerdictsAlike ==
  ASSUME NEW v, NEW signed, NEW aps, NEW q1, NEW q2, NEW w, NEW t,
         q1.request_id = q2.request_id,
         canonical_signing_message(q1.payload) = canonical_signing_message(q2.payload)
  PROVE  verify_request(v, signed, aps, q1, NoCeilings(w), t)
           = verify_request(v, signed, aps, q2, NoCeilings(w), t)
  <1>1. \A p : check_hard_ceilings(p, NoCeilings(w)) = "Ok"
    <2>1. /\ NoCeilings(w).chain_allowlist = {} /\ NoCeilings(w).contract_allowlist = {}
          /\ NoCeilings(w).max_value_per_tx = None
      BY DEF NoCeilings
    <2> QED
      BY <2>1 DEF check_hard_ceilings, ChainRefused, TargetRefused, ValueVerdict
  <1>2. DecisionVerdict(v, signed, q1, NoCeilings(w), t) = DecisionVerdict(v, signed, q2, NoCeilings(w), t)
    BY DEF DecisionVerdict
  <1>3. \A n : check_approvals(aps, q1, n, t) = check_approvals(aps, q2, n, t)
    BY DEF check_approvals, ApprovalHolds
  <1> QED
    BY <1>1, <1>2, <1>3 DEF verify_request

\* An answer without what the in-process enclave binds besides.
LEMMA FirstFour ==
  ASSUME NEW a, NEW b, NEW c, NEW d, NEW e
  PROVE  SubSeq(<<a, b, c, d>> \o <<e>>, 1, 4) = <<a, b, c, d>> \o << >>
  <1> DEFINE four == <<a, b, c, d>>
             S == {a, b, c, d, e}
  <1>1. four \in Seq(S) /\ Len(four) = 4 /\ <<e>> \in Seq(S)
    BY SMT
  <1> HIDE DEF four, S
  <1>2. 1 \in 1..Len(four) /\ 4 \in 1..Len(four)
    BY SMT, <1>1
  <1>3. SubSeq(four \o <<e>>, 1, 4) = SubSeq(four, 1, 4)
    BY <1>1, <1>2, SubSeqOfConcat1
  <1>4. SubSeq(four, 1, 4) = four /\ four \o << >> = four
    BY <1>1, SubSeqFull, ConcatEmptySeq
  <1> QED
    BY <1>3, <1>4 DEF four

\* Both backends sign alike.
LEMMA SignaturesAlike ==
  ASSUME NEW r1, NEW r2, r1.shares = r2.shares, r1.scheme = r2.scheme, r1.hd_path = r2.hd_path,
         r1.message = r2.message, r1.hash_alg = r2.hash_alg, r1.request_id = r2.request_id,
         r1.wallet_id = r2.wallet_id, NEW path
  PROVE  LET mock == SignWithShares(r1, <<path>>)
         IN  SignWithShares(r2, << >>) = IF mock.kind = "Error" THEN mock
                                         ELSE [mock EXCEPT !.user_data = SubSeq(@, 1, 4)]
  <1> DEFINE secret == combine_shares(r1.shares).secret
             key == derive_signing_key(r1.scheme, secret, r1.hd_path)
             signature == sign(r1.scheme, key, r1.message, r1.hash_alg)
             four == <<r1.request_id, r1.wallet_id, r1.message, signature>>
             answer(more) == [kind |-> "Sign", signature |-> signature,
                              public_key |-> public_key(r1.scheme, key), user_data |-> four \o more]
             refused == IF ~combine_shares(r1.shares).ok THEN "Sss"
                        ELSE IF KeyRefused(r1.scheme, secret, r1.hd_path) # "none"
                        THEN KeyRefused(r1.scheme, secret, r1.hd_path)
                        ELSE IF ~SecretAccepted(r1.scheme, key) \/ ~HashAccepted(r1.scheme, r1.hash_alg)
                        THEN "Signer" ELSE "none"
  <1>1. \A more : /\ SignWithShares(r1, more) = IF refused = "none" THEN answer(more) ELSE Error(refused)
                  /\ SignWithShares(r2, more) = IF refused = "none" THEN answer(more) ELSE Error(refused)
    BY DEF SignWithShares, KeyRefused
  <1> HIDE DEF secret, key, signature, refused
  <1>2. SubSeq(four \o <<path>>, 1, 4) = four \o << >>
    BY SMT, FirstFour
  <1> HIDE DEF four
  <1>3. answer(<< >>) = [answer(<<path>>) EXCEPT !.user_data = SubSeq(@, 1, 4)]
    <2> DEFINE pk == public_key(r1.scheme, key)
               u == four \o <<path>>
    <2> HIDE DEF pk, u
    <2>1. answer(<<path>>) = [kind |-> "Sign", signature |-> signature, public_key |-> pk,
                              user_data |-> u]
      BY DEF pk, u
    <2>2. answer(<< >>) = [kind |-> "Sign", signature |-> signature, public_key |-> pk,
                           user_data |-> SubSeq(u, 1, 4)]
      BY <1>2 DEF pk, u
    <2> HIDE DEF answer
    <2>3. [answer(<<path>>) EXCEPT !.user_data = SubSeq(@, 1, 4)]
            = [kind |-> "Sign", signature |-> signature, public_key |-> pk,
               user_data |-> SubSeq(u, 1, 4)]
      BY SMT, <2>1
    <2> QED
      BY <2>2, <2>3
  <1>4. answer(<<path>>).kind # "Error" /\ Error(refused).kind = "Error"
    BY DEF Error
  <1> HIDE DEF answer
  <1> QED
    BY <1>1, <1>3, <1>4

\* Both backends answer a request alike, but for the path.
LEMMA AnswersAlike ==
  ASSUME NEW req, WellFormed(req)
  PROVE  LET bare == [req EXCEPT !.wallet_ceilings = None]
             mock == sign_in_enclave(StrictEnclave, bare, now)
             boot == handle_sign(StrictEnclave, NitroSignRequest(bare), now)
         IN  boot = IF mock.kind = "Error" THEN mock
                    ELSE [mock EXCEPT !.user_data = SubSeq(@, 1, 4)]
  <1> DEFINE bare == [req EXCEPT !.wallet_ceilings = None]
             sent == NitroSignRequest(bare)
             asked(payload) == [request_id |-> req.request_id, payload |-> payload]
             verdict == verify_request(StrictEnclave, req.policy_decision, req.approvals,
                          asked(req.policy_signing_payload), NoCeilings(req.wallet_id), now)
             mock == sign_in_enclave(StrictEnclave, bare, now)
             boot == handle_sign(StrictEnclave, sent, now)
  <1>1. sent = NitroSignRequest(req)
    BY SMT DEF WellFormed, NitroSignRequest
  <1>2. /\ sent.request_id = req.request_id /\ sent.wallet_id = req.wallet_id
        /\ sent.shares = req.shares /\ sent.scheme = req.scheme
        /\ sent.hd_path = req.hd_path /\ sent.hash_alg = req.hash_alg
        /\ sent.message = req.message /\ sent.policy_decision = req.policy_decision
        /\ sent.approvals = req.approvals
    BY <1>1, CrossesVsock
  <1>3. /\ bare.request_id = req.request_id /\ bare.wallet_id = req.wallet_id
        /\ bare.shares = req.shares /\ bare.scheme = req.scheme
        /\ bare.hd_path = req.hd_path /\ bare.hash_alg = req.hash_alg
        /\ bare.message = req.message /\ bare.policy_decision = req.policy_decision
        /\ bare.approvals = req.approvals /\ bare.wallet_ceilings = None
        /\ bare.policy_signing_payload = req.policy_signing_payload
    BY SMT DEF WellFormed
  <1> HIDE DEF sent, bare
  <1>4. /\ StrictEnclave.policy_service_pubkey # None /\ BootVerifier(StrictEnclave) = StrictEnclave
        /\ req.policy_signing_payload # None /\ check_share_params(req.shares) = "Ok"
    BY NoneAssumption DEF StrictEnclave, BootVerifier, WellFormed
  <1>5. mock = IF verdict # "Ok" THEN Error(verdict) ELSE SignWithShares(bare, <<req.hd_path>>)
    BY <1>3, <1>4 DEF sign_in_enclave
  <1>6. verify_request(BootVerifier(StrictEnclave), sent.policy_decision, sent.approvals,
          [request_id |-> sent.request_id, payload |-> RawPayload(sent.message)],
          NoCeilings(sent.wallet_id), now) = verdict
    <2>1. canonical_signing_message(RawPayload(req.message))
            = canonical_signing_message(req.policy_signing_payload)
      BY DEF canonical_signing_message, RawPayload, WellFormed
    <2>2. \A p : asked(p).request_id = req.request_id /\ asked(p).payload = p
      OBVIOUS
    <2> HIDE DEF asked
    <2>3. /\ asked(RawPayload(req.message)).request_id = asked(req.policy_signing_payload).request_id
          /\ canonical_signing_message(asked(RawPayload(req.message)).payload)
               = canonical_signing_message(asked(req.policy_signing_payload).payload)
      BY <2>1, <2>2
    <2>4. verify_request(StrictEnclave, req.policy_decision, req.approvals,
            asked(RawPayload(req.message)), NoCeilings(req.wallet_id), now) = verdict
      BY ONLY <2>3, VerdictsAlike
    <2> QED
      BY <1>2, <1>4, <2>4 DEF asked
  <1>7. boot = IF verdict # "Ok" THEN Error(verdict) ELSE SignWithShares(sent, << >>)
    BY <1>6 DEF handle_sign, BootVerifier
  <1>8. LET made == SignWithShares(bare, <<req.hd_path>>)
        IN  SignWithShares(sent, << >>) = IF made.kind = "Error" THEN made
                                          ELSE [made EXCEPT !.user_data = SubSeq(@, 1, 4)]
    <2>1. /\ bare.shares = sent.shares /\ bare.scheme = sent.scheme /\ bare.hd_path = sent.hd_path
          /\ bare.message = sent.message /\ bare.hash_alg = sent.hash_alg
          /\ bare.request_id = sent.request_id /\ bare.wallet_id = sent.wallet_id
      BY <1>2, <1>3
    <2> QED
      BY ONLY SMT, <2>1, SignaturesAlike
  <1>9. Error(verdict).kind = "Error"
    BY DEF Error
  <1> HIDE DEF verdict, mock, boot
  <1>10. boot = IF mock.kind = "Error" THEN mock ELSE [mock EXCEPT !.user_data = SubSeq(@, 1, 4)]
    BY <1>5, <1>7, <1>8, <1>9
  <1> QED
    BY <1>10 DEF mock, boot, sent, bare

\* The layout of an envelope has its value where ValueField says.
LEMMA LayoutOfValue == \A first \in DOMAIN ValueField : Layout(first).value = ValueField[first]
  <1> SUFFICES ASSUME NEW first \in {"legacy", "eip2930", "eip1559", "eip4844"}
               PROVE  Layout(first).value = ValueField[first]
    BY DEF ValueField
  <1>1. CASE first = "legacy"
    BY <1>1 DEF Layout, decode_legacy, ValueField
  <1>2. CASE first = "eip2930"
    BY <1>2 DEF Layout, decode_eip2930, ValueField
  <1>3. CASE first = "eip1559"
    BY <1>3 DEF Layout, decode_eip1559, ValueField
  <1>4. CASE first = "eip4844"
    BY <1>4 DEF Layout, decode_eip4844, ValueField
  <1> QED
    BY <1>1, <1>2, <1>3, <1>4

\* check_hard_ceilings lets nothing over a ceiling pass.
LEMMA CeilingsAreChecked ==
  ASSUME NEW p, NEW wc, check_hard_ceilings(p, wc) = "Ok"
  PROVE  WithinCeilings(p, wc)
  <1>1. ~ChainRefused(p, wc) /\ ~TargetRefused(p, wc) /\ ValueVerdict(p, wc) = "Ok"
    BY DEF check_hard_ceilings
  <1>2. p.kind = "VmTransaction" /\ wc.chain_allowlist # {} => p.chain_id \in wc.chain_allowlist
    BY <1>1 DEF ChainRefused
  <1>3. IsEvm(p) /\ wc.contract_allowlist # {} => p.to \in wc.contract_allowlist \cup {None}
    BY <1>1 DEF TargetRefused
  <1>4. ASSUME IsEvm(p), wc.max_value_per_tx # None, p.raw.first \in DOMAIN ValueField
        PROVE  ~(p.raw.body.items[ValueField[p.raw.first]].val > wc.max_value_per_tx)
    <2>1. /\ decode_evm_tx(p.raw) # None
          /\ ~(decode_evm_tx(p.raw).value > wc.max_value_per_tx)
      BY <1>1, <1>4 DEF ValueVerdict
    <2>2. decode_evm_tx(p.raw).value = p.raw.body.items[Layout(p.raw.first).value].val
      BY <2>1 DEF decode_evm_tx
    <2> QED
      BY <1>4, <2>1, <2>2, LayoutOfValue
  <1> QED
    BY <1>2, <1>3, <1>4 DEF WithinCeilings

\* What the verifying in-process enclave signs is within the ceilings.
LEMMA AnswerIsWithinCeilings ==
  ASSUME NEW req, WellFormed(req), config.enclave = "mock", config.policy_service_pubkey # None,
         EnclaveAnswer(req).kind # "Error"
  PROVE  WithinCeilings(req.policy_signing_payload, req.wallet_ceilings)
  <1>1. sign_in_enclave(config, req, now).kind # "Error"
    BY DEF EnclaveAnswer
  <1>2. verify_request(config, req.policy_decision, req.approvals,
          [request_id |-> req.request_id, payload |-> MockPayload(req)],
          MockCeilings(req), now) = "Ok"
    BY <1>1, MockSigns
  <1>3. MockPayload(req) = req.policy_signing_payload /\ MockCeilings(req) = req.wallet_ceilings
    BY NoneAssumption DEF MockPayload, MockCeilings, WellFormed
  <1>4. check_hard_ceilings([request_id |-> req.request_id, payload |-> MockPayload(req)].payload,
                            MockCeilings(req)) = "Ok"
    BY ZenonT(60), <1>2, Accepts
  <1> QED
    BY <1>3, <1>4, CeilingsAreChecked

\* While the wallet lives, the answer is made with its key.
LEMMA AnswerHasTheKey ==
  ASSUME WalletInv, NEW req, OfWallet(req), WellFormed(req), EnclaveAnswer(req).kind # "Error",
         wallet[req.wallet_id].status = "Active",
         NEW s, s.req = req, s.answer = EnclaveAnswer(req)
  PROVE  KeyIsOf(wallet[req.wallet_id], s)
  <1> DEFINE rec == wallet[req.wallet_id]
             key == derive_signing_key(rec.config.scheme, rec.seed, req.hd_path)
  <1>1. /\ req.scheme = rec.config.scheme /\ combine_shares(req.shares).secret = rec.seed
        /\ rec.master_public_key = MasterKey(rec.config, rec.seed)
    BY SMT DEF OfWallet, WalletInv, WalletAt, Combined
  <1>2. /\ s.answer.signature = sign(rec.config.scheme, key, req.message, req.hash_alg)
        /\ s.answer.public_key = public_key(rec.config.scheme, key)
        /\ HashAccepted(rec.config.scheme, req.hash_alg)
    BY ZenonT(60), <1>1, AnswerSigns
  <1>3. key = IF req.hd_path = None THEN derive_signing_key(rec.config.scheme, rec.seed, None)
              ELSE HdKey(Family(rec.config.scheme), rec.seed, req.hd_path)
    BY DEF derive_signing_key, derive_classical
  <1>4. public_key(rec.config.scheme, key) =
          IF req.hd_path = None THEN rec.master_public_key
          ELSE public_key(rec.config.scheme,
                          HdKey(Family(rec.config.scheme), rec.seed, req.hd_path))
    BY <1>1, <1>3 DEF MasterKey
  <1>5. verify(rec.config.scheme, public_key(rec.config.scheme, key), req.message,
               s.answer.signature, req.hash_alg)
    BY <1>2 DEF verify, public_key
  <1> QED
    BY <1>2, <1>4, <1>5 DEF KeyIsOf

-----------------------------------------------------------------------------
(* Splits and shares *)

LEMMA SharesHaveIndices ==
  /\ Indices \subseteq Nat \ {0}
  /\ \A wc \in WalletConfigs : \A i \in 1..wc.total : i \in Indices
  <1>1. \A wc \in WalletConfigs : 1..wc.total \subseteq Nat \ {0}
    BY SMT, HostAssumption
  <1> QED
    BY <1>1 DEF Indices

\* The shares of a split are numbered and name its parameters.
LEMMA SplitShape ==
  ASSUME NEW wc, NEW seed, NEW split, Generated(wc, seed, split)
  PROVE  /\ wc.total \in Nat /\ wc.threshold \in Nat
         /\ DOMAIN split = 1..wc.total /\ Len(split) = wc.total
         /\ \A i \in 1..wc.total :
              /\ split[i].index = i
              /\ split[i].params = [threshold |-> wc.threshold, total |-> wc.total]
  <1>1. wc.total \in Nat /\ wc.threshold \in Nat
    BY HostAssumption DEF Generated
  <1> DEFINE params == [threshold |-> wc.threshold, total |-> wc.total]
  <1>2. PICK coeffs : split = split_secret(seed, params, coeffs)
    BY DEF Generated, Splits
  <1>3. \E body : split = [x \in 1..wc.total |->
                             [index |-> x, params |-> params, len |-> Len(seed), body |-> body[x]]]
    <2> DEFINE buf == Prefixed(seed)
               chunks == Len(buf) \div ChunkDigits
               chunk(c) == SubSeq(buf, (c - 1) * ChunkDigits + 1, c * ChunkDigits)
               body == [x \in 1..wc.total |->
                          [c \in 1..chunks |-> ShareOf(scalar_from_bytes(chunk(c)), coeffs[c], x)]]
    <2>1. split = [x \in 1..wc.total |->
                     [index |-> x, params |-> params, len |-> Len(seed), body |-> body[x]]]
      BY <1>2 DEF split_secret
    <2> QED
      BY <2>1
  <1>4. /\ DOMAIN split = 1..wc.total
        /\ \A i \in 1..wc.total : split[i].index = i /\ split[i].params = params
    BY SMT, <1>3
  <1>5. Len(split) = wc.total
    BY SMT, <1>1, <1>4
  <1> QED
    BY <1>1, <1>4, <1>5

LEMMA SharesAreSomething ==
  ASSUME NEW wc, NEW seed, NEW split, Generated(wc, seed, split), NEW i \in 1..wc.total,
         NEW w \in Wallets
  PROVE  split[i] # None /\ StoredShare(<<w, i>>, split[i]) # None
  BY NoneAssumption DEF Generated

LEMMA SharesAreNumbered ==
  ASSUME NEW wc, NEW seed, NEW split, Generated(wc, seed, split), NEW i \in 1..wc.total
  PROVE  split[i].index = i
  <1>1. \A j \in 1..wc.total :
          split[j].index = j /\ split[j].params = [threshold |-> wc.threshold, total |-> wc.total]
    BY SMT, SplitShape
  <1> QED
    BY SMT, <1>1

\* The first threshold shares are what both enclaves accept.
LEMMA FirstShares ==
  ASSUME NEW wc, NEW seed, NEW split, Generated(wc, seed, split)
  PROVE  LET first == [k \in 1..wc.threshold |-> split[k]]
         IN  check_share_params(first) = "Ok" /\ combine_shares(first) = Combined(seed)
  <1> DEFINE first == [k \in 1..wc.threshold |-> split[k]]
             params == [threshold |-> wc.threshold, total |-> wc.total]
  <1>0. wc.total \in Nat /\ wc.threshold \in Nat /\ 2 <= wc.threshold /\ wc.threshold <= wc.total
    BY SplitShape DEF Generated
  <1>1. \A k \in 1..wc.threshold : k \in 1..wc.total
    BY SMT, <1>0
  <1>2. \A k \in 1..wc.threshold : first[k].index = k /\ first[k].params = params
    BY SMT, <1>1, SplitShape
  <1>3. DOMAIN first = 1..wc.threshold /\ Len(first) = wc.threshold /\ first # << >> /\ 1 \in DOMAIN first
    BY SMT, <1>0
  <1>4. first[1].params.threshold = wc.threshold
    BY SMT, <1>2, <1>3
  <1>10. combine_shares(first) = Combined(seed)
    BY ReconstructAssumption DEF Generated
  <1> HIDE DEF first
  <1>5. {first[k].index : k \in DOMAIN first} = 1..wc.threshold
    BY Zenon, <1>2, <1>3
  <1>6. Cardinality({first[k].index : k \in DOMAIN first}) = Len(first)
    <2>1. Cardinality(1..wc.threshold) = Len(first)
      BY <1>0, <1>3, OneTo
    <2> QED
      BY Zenon, <1>5, <2>1
  <1>7. ~(Len(first) < first[1].params.threshold)
    BY SMT, <1>0, <1>3, <1>4
  <1>8. \A k \in DOMAIN first : first[k].params = first[1].params
    BY <1>2, <1>3
  <1>9. check_share_params(first) = "Ok"
    BY <1>3, <1>6, <1>7, <1>8 DEF check_share_params
  <1> QED
    BY <1>9, <1>10 DEF first

\* A live wallet has all its shares, and fetching them gives the first ones.
LEMMA FetchesFirst ==
  ASSUME WalletInv, NEW w \in Wallets, wallet[w].status = "Active",
         ~FetchFails(w, wallet[w].config.threshold)
  PROVE  \E split : /\ Generated(wallet[w].config, wallet[w].seed, split)
                    /\ Fetched(w, wallet[w].config.threshold)
                         = [k \in 1..wallet[w].config.threshold |-> split[k]]
  <1> DEFINE wc == wallet[w].config
  <1>1. PICK split : Generated(wc, wallet[w].seed, split) /\ Holds(w, split, wc.total + 1)
    BY DEF WalletInv, WalletAt
  <1>2. wc.total \in Nat /\ wc.threshold \in Nat /\ wc.threshold <= wc.total /\ wc \in WalletConfigs
    BY <1>1, SplitShape DEF Generated
  <1>3. \A i \in 1..wc.total : /\ i \in Indices /\ i < wc.total + 1
                               /\ shares[<<w, i>>] = StoredShare(<<w, i>>, split[i])
    BY SMT, <1>1, <1>2, SharesHaveIndices DEF Holds
  <1>4. ListedShares(w) = 1..wc.total
    <2>1. \A i \in 1..wc.total : shares[<<w, i>>] # None
      BY <1>1, <1>3, SharesAreSomething
    <2>2. \A i \in Indices : shares[<<w, i>>] # None => i \in 1..wc.total
      <3> SUFFICES ASSUME NEW i \in Indices, shares[<<w, i>>] # None PROVE i \in 1..wc.total
        OBVIOUS
      <3>1. i < wc.total + 1
        BY <1>1 DEF Holds
      <3> QED
        BY SMT, <1>2, <3>1, SharesHaveIndices
    <2> QED
      BY <1>3, <2>1, <2>2 DEF ListedShares
  <1>5. \A k \in 1..wc.threshold :
          (CHOOSE i \in 1..wc.total : Cardinality({j \in 1..wc.total : j <= i}) = k) = k
    <2> SUFFICES ASSUME NEW k \in 1..wc.threshold
                 PROVE  (CHOOSE i \in 1..wc.total :
                           Cardinality({j \in 1..wc.total : j <= i}) = k) = k
      OBVIOUS
    <2>1. k \in 1..wc.total
      BY SMT, <1>2
    <2>2. \A i \in 1..wc.total : {j \in 1..wc.total : j <= i} = 1..i
      BY SMT, <1>2
    <2>3. \A i \in 1..wc.total : Cardinality({j \in 1..wc.total : j <= i}) = i
      <3>1. \A i \in 1..wc.total : Cardinality(1..i) = i
        BY SMT, <1>2, OneTo
      <3> QED
        BY Zenon, <2>2, <3>1
    <2> DEFINE P(i) == Cardinality({j \in 1..wc.total : j <= i}) = k
    <2>4. \A i \in 1..wc.total : P(i) <=> i = k
      BY <2>3
    <2> HIDE DEF P
    <2>5. (CHOOSE i \in 1..wc.total : P(i)) = k
      BY <2>1, <2>4
    <2> QED
      BY <2>5 DEF P
  <1>6. Fetched(w, wc.threshold) = [k \in 1..wc.threshold |-> ReadShare(<<w, k>>)]
    <2> DEFINE at(k) == CHOOSE i \in ListedShares(w) :
                          Cardinality({j \in ListedShares(w) : j <= i}) = k
    <2>1. \A k \in 1..wc.threshold : at(k) = k
      BY <1>4, <1>5
    <2>2. Fetched(w, wc.threshold) = [k \in 1..wc.threshold |-> ReadShare(<<w, at(k)>>)]
      BY DEF Fetched
    <2> HIDE DEF at
    <2> QED
      BY SMT, <2>1, <2>2
  <1>7. \A k \in 1..wc.threshold : ReadShare(<<w, k>>) # None
    BY <1>6 DEF FetchFails
  <1>8. \A k \in 1..wc.threshold : ReadShare(<<w, k>>) = split[k]
    <2> SUFFICES ASSUME NEW k \in 1..wc.threshold PROVE ReadShare(<<w, k>>) = split[k]
      OBVIOUS
    <2>1. k \in 1..wc.total
      BY SMT, <1>2
    <2>2. ReadShare(<<w, k>>) = shares[<<w, k>>].share
      BY <1>7 DEF ReadShare
    <2>3. shares[<<w, k>>] = StoredShare(<<w, k>>, split[k])
      BY <1>3, <2>1
    <2> QED
      BY SMT, <2>2, <2>3 DEF StoredShare
  <1>9. Fetched(w, wc.threshold) = [k \in 1..wc.threshold |-> split[k]]
    BY <1>6, <1>8
  <1> QED
    BY <1>1, <1>9

-----------------------------------------------------------------------------
(* Steps that create wallets *)

Kept == TypeInv /\ CreatingInv /\ WalletInv /\ StoreInv

\* What either enclave generates.
LEMMA GeneratesSplit ==
  ASSUME NEW wc \in WalletConfigs, NEW seed \in SeedsOf(wc), NEW coeffs \in CoefficientsOf(seed),
         NEW req, req = [scheme |-> wc.scheme, threshold |-> wc.threshold, total |-> wc.total,
                         master_hd_path |-> None],
         NEW answer, answer.kind # "Error",
         \/ answer = handle_generate(req, seed, coeffs)
         \/ answer = generate_wallet(req, seed, coeffs)
  PROVE  /\ Generated(wc, seed, answer.shares)
         /\ answer.master_public_key = MasterKey(wc, seed)
  <1>1. /\ ~(wc.threshold < 2) /\ ~(wc.threshold > wc.total)
        /\ answer = GenerateFrom(req, seed, coeffs)
    BY SMT DEF handle_generate, generate_wallet, Error
  <1>2. 2 <= wc.threshold /\ wc.threshold <= wc.total
    BY SMT, <1>1, HostAssumption
  <1>3. /\ answer.shares = split_secret(seed, [threshold |-> wc.threshold, total |-> wc.total], coeffs)
        /\ answer.master_public_key = MasterKey(wc, seed)
    BY <1>1 DEF GenerateFrom, Error, MasterKey
  <1> QED
    BY <1>2, <1>3 DEF Generated, Splits

LEMMA GenerateKeeps ==
  ASSUME Kept, NEW w \in Wallets, NEW wc \in config.wallets, NEW seed \in SeedsOf(wc),
         NEW coeffs \in CoefficientsOf(seed), Generate(w, wc, seed, coeffs)
  PROVE  Kept'
  <1> DEFINE req == [scheme |-> wc.scheme, threshold |-> wc.threshold, total |-> wc.total,
                     master_hd_path |-> None]
             answer == IF config.enclave = "nitro" THEN handle_generate(req, seed, coeffs)
                       ELSE generate_wallet(req, seed, coeffs)
  <1>0. /\ creating = None /\ wallet[w].status = "unused"
        /\ UNCHANGED <<now, config, shares, tmp>> /\ wc \in WalletConfigs
    BY DEF Generate, storeVars, WalletConfigs, Kept, TypeInv
  <1>1. CASE /\ answer.kind = "GenerateWallet"
             /\ creating' = Creation(w, wc, answer.shares, seed, answer.master_public_key,
                                     1, "start")
             /\ UNCHANGED wallet
    <2>1. /\ Generated(wc, seed, answer.shares)
          /\ answer.master_public_key = MasterKey(wc, seed)
      BY <1>0, <1>1, GeneratesSplit
    <2> HIDE DEF answer
    <2>2. 1 \in 1..(wc.total + 1)
      BY SMT, <1>0, HostAssumption
    <2>3. \A sp : Holds(w, << >>, 0) => Holds(w, sp, 1)
      BY SMT, SharesHaveIndices DEF Holds
    <2>4. Holds(w, << >>, 0)
      BY <1>0 DEF Kept, WalletInv, WalletAt
    <2>5. CreatingInv'
      BY <1>0, <1>1, <2>1, <2>2, <2>3, <2>4 DEF CreatingInv, Holds, Creation
    <2>6. WalletInv' /\ StoreInv' /\ TypeInv'
      BY ZenonT(60), <1>0, <1>1 DEF Kept, Creation, WalletInv, WalletAt, StoreInv, StoredAt, TypeInv, Holds
    <2> QED
      BY <2>5, <2>6 DEF Kept
  <1>2. CASE wallet' = [wallet EXCEPT ![w] = [status |-> "failed"]] /\ UNCHANGED creating
    BY ZenonT(60), <1>0, <1>2 DEF Kept, CreatingInv, WalletInv, WalletAt, StoreInv, StoredAt, TypeInv, Holds
  <1> QED
    BY <1>1, <1>2 DEF Generate

\* The share a put is about.
LEMMA PuttingAt ==
  ASSUME Kept, Putting
  PROVE  /\ creating.wallet \in Wallets /\ wallet[creating.wallet].status = "unused"
         /\ Generated(creating.config, creating.seed, creating.shares)
         /\ creating.config.total \in Nat
         /\ creating.next \in 1..creating.config.total /\ creating.next \in Indices
         /\ CurrentId \in ShareIds /\ Stored # None
         /\ Holds(creating.wallet, creating.shares, creating.next)
         /\ Stored.whole /\ Stored.share_id = CurrentId /\ Stored.share # None
         /\ Stored.share.index = creating.next
  <1>1. /\ creating.wallet \in Wallets /\ wallet[creating.wallet].status = "unused"
        /\ Generated(creating.config, creating.seed, creating.shares)
        /\ creating.next \in 1..(creating.config.total + 1)
        /\ creating.next <= Len(creating.shares)
        /\ Holds(creating.wallet, creating.shares, creating.next)
    BY DEF Kept, CreatingInv, Putting
  <1>0. Generated(creating.config, creating.seed, creating.shares)
    BY <1>1
  <1>2. creating.config.total \in Nat /\ Len(creating.shares) = creating.config.total
    BY ONLY Zenon, <1>0, SplitShape
  <1>3. creating.next \in 1..creating.config.total
    BY SMT, <1>1, <1>2
  <1>4. creating.next \in Indices
    BY <1>1, <1>3, SharesHaveIndices DEF Generated
  <1>5. creating.shares[creating.next] # None /\ Stored # None
    BY <1>1, <1>3, SharesAreSomething DEF Stored, CurrentId
  <1>6. creating.shares[creating.next].index = creating.next
    BY SMT, <1>0, <1>3, SharesAreNumbered
  <1> QED
    BY <1>1, <1>2, <1>3, <1>4, <1>5, <1>6 DEF CurrentId, ShareIds, Stored, StoredShare

\* A call that has come to a share or a phase is still one.
LEMMA StillCreating ==
  ASSUME Kept, creating # None, NEW n, n \in 1..(creating.config.total + 1),
         NEW ph \in {"start", "created", "written"},
         \/ creating' = [creating EXCEPT !.next = n, !.phase = ph]
         \/ creating' = [creating EXCEPT !.phase = ph] /\ n = creating.next
  PROVE  /\ creating' = Creation(creating.wallet, creating.config, creating.shares, creating.seed,
                                 creating.master_public_key, n, ph)
         /\ creating'.wallet = creating.wallet /\ creating'.config = creating.config
         /\ creating'.shares = creating.shares /\ creating'.seed = creating.seed
         /\ creating'.master_public_key = creating.master_public_key
         /\ creating'.next = n /\ creating'.phase = ph
         /\ creating' # None
         /\ creating' = Creation(creating.wallet, creating.config, creating.shares, creating.seed,
                                 creating.master_public_key, creating.next, creating.phase)'
  <1>1. creating' = Creation(creating.wallet, creating.config, creating.shares, creating.seed,
                             creating.master_public_key, n, ph)
    BY DEF Kept, CreatingInv, Creation
  <1>2. /\ creating'.wallet = creating.wallet /\ creating'.config = creating.config
        /\ creating'.shares = creating.shares /\ creating'.seed = creating.seed
        /\ creating'.master_public_key = creating.master_public_key
        /\ creating'.next = n /\ creating'.phase = ph
    BY <1>1 DEF Creation
  <1>3. /\ creating.wallet \in Wallets /\ creating.config \in WalletConfigs
        /\ creating.seed \in SeedsOf(creating.config)
        /\ creating.shares \in Splits(creating.config, creating.seed)
        /\ creating.master_public_key = MasterKey(creating.config, creating.seed)
    BY DEF Kept, CreatingInv, Generated
  <1>4. creating' # None
    BY SMT, <1>1, <1>3, NoneAssumption
  <1> QED
    BY <1>1, <1>2, <1>4

\* Up to the last step of a put nothing is under the final name.
LEMMA PutPrepares ==
  ASSUME Kept, Putting, NEW v, v # None, NEW ph \in {"created", "written"},
         tmp' = [tmp EXCEPT ![CurrentId] = v],
         creating' = [creating EXCEPT !.phase = ph],
         UNCHANGED <<now, config, shares, wallet>>,
         ph = "created" => config.store = "local_fs",
         ph = "written" /\ config.store = "local_fs" => v = Stored
  PROVE  Kept'
  <1>0. CurrentId \in ShareIds /\ DOMAIN tmp = ShareIds
    BY PuttingAt DEF Kept, TypeInv
  <1>1. /\ creating # None /\ creating.next \in 1..(creating.config.total + 1)
        /\ creating.master_public_key = MasterKey(creating.config, creating.seed)
    BY DEF Kept, CreatingInv, Putting
  <1>2. /\ creating'.wallet = creating.wallet /\ creating'.config = creating.config
        /\ creating'.shares = creating.shares /\ creating'.seed = creating.seed
        /\ creating'.master_public_key = creating.master_public_key
        /\ creating'.next = creating.next /\ creating'.phase = ph /\ creating' # None
        /\ creating' = Creation(creating.wallet, creating.config, creating.shares, creating.seed,
                                creating.master_public_key, creating.next, creating.phase)'
    BY <1>1, StillCreating
  <1>3. tmp'[CurrentId] = v /\ CurrentId' = CurrentId /\ Stored' = Stored
    BY <1>0, <1>2 DEF CurrentId, Stored, StoredShare
  <1>4. Holds(creating.wallet, creating.shares, creating.next)'
    BY SMT, <1>2, PuttingAt DEF Holds
  <1>5. CreatingInv'
    BY <1>1, <1>2, <1>3, <1>4, PuttingAt DEF CreatingInv
  <1>6. WalletInv'
    BY ZenonT(60), <1>1, <1>2 DEF Kept, WalletInv, WalletAt, Holds
  <1>7. StoreInv' /\ TypeInv'
    BY <1>0 DEF Kept, StoreInv, StoredAt, TypeInv
  <1> QED
    BY <1>5, <1>6, <1>7 DEF Kept

\* The last step of a put puts the share under its final name.
LEMMA PutStores ==
  ASSUME Kept, Putting, shares' = [shares EXCEPT ![CurrentId] = Stored], Advance,
         UNCHANGED <<now, config, wallet>>, DOMAIN tmp' = DOMAIN tmp,
         config.store = "s3_kms" => tmp' = tmp /\ tmp[CurrentId] # None
  PROVE  Kept'
  <1>0. /\ CurrentId \in ShareIds /\ DOMAIN shares = ShareIds /\ creating.wallet \in Wallets
        /\ creating.next \in Indices /\ creating.next \in 1..creating.config.total
        /\ creating.config.total \in Nat
    BY PuttingAt DEF Kept, TypeInv
  <1>1. /\ creating # None
        /\ creating.master_public_key = MasterKey(creating.config, creating.seed)
        /\ creating.next + 1 \in 1..(creating.config.total + 1)
    BY SMT, <1>0 DEF Kept, CreatingInv, Putting
  <1>2. /\ creating'.wallet = creating.wallet /\ creating'.config = creating.config
        /\ creating'.shares = creating.shares /\ creating'.seed = creating.seed
        /\ creating'.master_public_key = creating.master_public_key
        /\ creating'.next = creating.next + 1 /\ creating'.phase = "start" /\ creating' # None
        /\ creating' = Creation(creating.wallet, creating.config, creating.shares, creating.seed,
                                creating.master_public_key, creating.next, creating.phase)'
    BY <1>1, StillCreating DEF Advance
  <1>3. \A w \in Wallets, i \in Indices :
          shares'[<<w, i>>] = IF w = creating.wallet /\ i = creating.next THEN Stored
                              ELSE shares[<<w, i>>]
    BY <1>0 DEF CurrentId, ShareIds
  <1>4. \A i \in Indices :
          shares'[<<creating.wallet, i>>] =
            IF i < creating.next + 1 THEN StoredShare(<<creating.wallet, i>>, creating.shares[i])
            ELSE None
    <2> SUFFICES ASSUME NEW i \in Indices
                 PROVE  shares'[<<creating.wallet, i>>] =
                          IF i < creating.next + 1
                          THEN StoredShare(<<creating.wallet, i>>, creating.shares[i]) ELSE None
      OBVIOUS
    <2>1. i \in Nat /\ creating.next \in Nat
      BY <1>0, SharesHaveIndices
    <2>2. CASE i = creating.next
      BY SMT, <1>0, <1>3, <2>1, <2>2 DEF Stored, CurrentId
    <2>3. CASE i # creating.next
      <3>1. shares'[<<creating.wallet, i>>] = shares[<<creating.wallet, i>>]
        BY <1>0, <1>3, <2>3
      <3>2. i < creating.next + 1 <=> i < creating.next
        BY SMT, <2>1, <2>3
      <3> QED
        BY <3>1, <3>2, PuttingAt DEF Holds
    <2> QED
      BY <2>2, <2>3
  <1>5. Holds(creating.wallet, creating.shares, creating.next)'
    BY <1>2, <1>4 DEF Holds
  <1>6. CreatingInv'
    BY <1>1, <1>2, <1>5, PuttingAt DEF CreatingInv
  <1>7. ASSUME NEW w \in Wallets PROVE WalletAt(w)'
    <2>1. CASE w = creating.wallet
      <3>1. wallet'[w].status = "unused" /\ ~(creating' = None \/ creating'.wallet # w)
        BY ZenonT(60), <1>2, <2>1, PuttingAt
      <3> QED
        BY <3>1 DEF WalletAt
    <2>2. CASE w # creating.wallet
      BY SMT, <1>1, <1>2, <1>3, <2>2 DEF Kept, WalletInv, WalletAt, Holds
    <2> QED
      BY <2>1, <2>2
  <1>8. ASSUME NEW id \in ShareIds PROVE StoredAt(id)'
    <2>1. CASE id = CurrentId
      <3>1. shares'[id] = Stored /\ id[2] = creating.next
        BY <1>0, <2>1 DEF CurrentId
      <3> QED
        BY <2>1, <3>1, PuttingAt DEF StoredAt
    <2>2. CASE id # CurrentId
      BY <1>0, <2>2 DEF Kept, StoreInv, StoredAt
    <2> QED
      BY <2>1, <2>2
  <1>9. TypeInv'
    BY DEF Kept, TypeInv
  <1> QED
    BY <1>6, <1>7, <1>8, <1>9 DEF Kept, WalletInv, StoreInv

LEMMA PutKeeps ==
  ASSUME Kept, Put
  PROVE  Kept'
  <1>0. Putting /\ UNCHANGED <<now, config, wallet>>
    BY DEF Put, CreateTmp, WriteTmp, RenameTmp, DataKey, PutObject, PutMock
  <1>1. /\ Partial # None /\ Stored # None /\ CurrentId \in ShareIds
        /\ DOMAIN tmp = ShareIds /\ config.store \in {"local_fs", "s3_kms", "mock"}
    BY <1>0, PuttingAt, NoneAssumption, HostAssumption DEF Kept, TypeInv
  <1>2. /\ creating.phase = "created" => config.store = "local_fs"
        /\ creating.phase = "written" =>
             tmp[CurrentId] # None /\ (config.store = "local_fs" => tmp[CurrentId] = Stored)
    BY <1>0 DEF Kept, CreatingInv, Putting
  <1>3. CASE CreateTmp
    BY <1>0, <1>1, <1>3, PutPrepares DEF CreateTmp
  <1>4. CASE WriteTmp
    BY <1>0, <1>1, <1>2, <1>4, PutPrepares DEF WriteTmp
  <1>5. CASE DataKey
    BY <1>0, <1>1, <1>5, PutPrepares DEF DataKey
  <1>6. CASE RenameTmp
    <2>1. /\ shares' = [shares EXCEPT ![CurrentId] = Stored] /\ Advance
          /\ DOMAIN tmp' = DOMAIN tmp /\ config.store # "s3_kms"
      BY <1>2, <1>6 DEF RenameTmp
    <2> QED
      BY <1>0, <2>1, PutStores
  <1>7. CASE PutObject
    BY <1>0, <1>2, <1>7, PutStores DEF PutObject
  <1>8. CASE PutMock
    BY <1>0, <1>8, PutStores DEF PutMock
  <1> QED
    BY <1>3, <1>4, <1>5, <1>6, <1>7, <1>8 DEF Put

\* A put that fails takes the wallet with it.
LEMMA PutFailsKeeps ==
  ASSUME Kept, PutFails
  PROVE  Kept'
  <1>1. Putting /\ creating.wallet \in Wallets
    BY PuttingAt DEF PutFails
  <1>2. /\ creating' = None /\ UNCHANGED <<now, config, shares, tmp>>
        /\ wallet' = [wallet EXCEPT ![creating.wallet] = [status |-> "failed"]]
    BY DEF PutFails, storeVars
  <1>3. WalletInv'
    BY <1>1, <1>2 DEF Kept, WalletInv, WalletAt, Holds, TypeInv
  <1>4. CreatingInv' /\ StoreInv' /\ TypeInv'
    BY <1>2 DEF Kept, CreatingInv, StoreInv, StoredAt, TypeInv
  <1> QED
    BY <1>3, <1>4 DEF Kept

\* The record of a wallet is made when the store has all its shares.
LEMMA RecordKeeps ==
  ASSUME Kept, RecordWallet
  PROVE  Kept'
  <1> DEFINE wc == creating.config
  <1>1. /\ creating' = None /\ UNCHANGED <<now, config, shares, tmp>>
        /\ wallet' = [wallet EXCEPT ![creating.wallet] =
                        [status |-> "Active", config |-> wc, seed |-> creating.seed,
                         master_public_key |-> creating.master_public_key]]
    BY DEF RecordWallet, storeVars
  <1>2. /\ creating.wallet \in Wallets /\ Generated(wc, creating.seed, creating.shares)
        /\ creating.master_public_key = MasterKey(wc, creating.seed)
        /\ creating.next \in 1..(wc.total + 1)
        /\ Holds(creating.wallet, creating.shares, creating.next)
        /\ ~(creating.next <= Len(creating.shares))
    BY DEF RecordWallet, Putting, Kept, CreatingInv
  <1>3. Generated(wc, creating.seed, creating.shares)
    BY <1>2
  <1>4. wc.total \in Nat /\ Len(creating.shares) = wc.total
    BY ONLY Zenon, <1>3, SplitShape
  <1>5. creating.next = wc.total + 1
    BY SMT, <1>2, <1>4
  <1>6. ASSUME NEW w \in Wallets PROVE WalletAt(w)'
    <2>1. CASE w = creating.wallet
      <3>1. wallet'[w] = [status |-> "Active", config |-> wc, seed |-> creating.seed,
                          master_public_key |-> creating.master_public_key]
        BY <1>1, <1>2, <2>1 DEF Kept, TypeInv
      <3>2. /\ creating.shares \in Splits(wallet'[w].config, wallet'[w].seed)
            /\ Generated(wallet'[w].config, wallet'[w].seed, creating.shares)
        BY SMT, <1>3, <3>1 DEF Generated
      <3>3. \A i \in Indices : shares'[<<w, i>>] =
              IF i < wallet'[w].config.total + 1 THEN StoredShare(<<w, i>>, creating.shares[i])
              ELSE None
        BY SMT, <1>1, <1>2, <1>5, <2>1, <3>1 DEF Holds
      <3> QED
        BY SMT, <1>2, <3>1, <3>2, <3>3 DEF WalletAt, Holds
    <2>2. CASE w # creating.wallet
      BY <1>1, <2>2 DEF Kept, WalletInv, WalletAt, Holds, TypeInv
    <2> QED
      BY ZenonT(60), <2>1, <2>2
  <1>7. CreatingInv' /\ StoreInv' /\ TypeInv'
    BY <1>1 DEF Kept, CreatingInv, StoreInv, StoredAt, TypeInv
  <1> QED
    BY <1>6, <1>7 DEF Kept, WalletInv

\* A crash leaves no call, no live wallet and no half of a stored share.
LEMMA CrashKeeps ==
  ASSUME Kept, Crash
  PROVE  Kept'
  <1>1. PICK undone \in SUBSET {id \in ShareIds : config.store = "local_fs" /\ shares[id] # None} :
          /\ shares' = [id \in ShareIds |->
                          IF config.store = "mock" \/ id \in undone THEN None ELSE shares[id]]
          /\ tmp' = [id \in ShareIds |-> IF id \in undone THEN shares[id] ELSE tmp[id]]
    BY DEF Crash
  <1>2. /\ creating' = None /\ UNCHANGED <<now, config>>
        /\ wallet' = [w \in Wallets |->
                        IF wallet[w].status = "Active" \/ (creating # None /\ creating.wallet = w)
                        THEN [status |-> "failed"] ELSE wallet[w]]
    BY DEF Crash
  <1>3. \A id \in ShareIds : shares'[id] = shares[id] \/ shares'[id] = None
    BY <1>1
  <1>4. ASSUME NEW w \in Wallets PROVE WalletAt(w)'
    <2>1. CASE wallet[w].status = "Active" \/ (creating # None /\ creating.wallet = w)
      BY <1>2, <2>1 DEF WalletAt
    <2>2. CASE ~(wallet[w].status = "Active" \/ (creating # None /\ creating.wallet = w))
      <3>1. wallet'[w] = wallet[w] /\ wallet[w].status \in {"unused", "failed"}
        BY <1>2, <2>2 DEF Kept, WalletInv, WalletAt
      <3>2. wallet[w].status = "unused" => Holds(w, << >>, 0)
        BY <2>2 DEF Kept, WalletInv, WalletAt
      <3>3. \A i \in Indices : <<w, i>> \in ShareIds /\ ~(i < 0)
        BY SMT, SharesHaveIndices DEF ShareIds
      <3>4. wallet[w].status = "unused" => Holds(w, << >>, 0)'
        BY <1>3, <3>2, <3>3 DEF Holds
      <3> QED
        BY <3>1, <3>4 DEF WalletAt
    <2> QED
      BY <2>1, <2>2
  <1>5. ASSUME NEW id \in ShareIds PROVE StoredAt(id)'
    BY <1>1, <1>2 DEF Kept, StoreInv, StoredAt
  <1>6. CreatingInv' /\ TypeInv'
    BY <1>1, <1>2 DEF Kept, CreatingInv, TypeInv
  <1> QED
    BY <1>4, <1>5, <1>6 DEF Kept, WalletInv, StoreInv

-----------------------------------------------------------------------------
(* Steps that decide, approve and sign *)

Signed ==
  /\ IssuedInv /\ RequestInv /\ ServedInv
  /\ SignaturesAreAuthorised /\ CeilingsHold /\ SignedWithTheWalletsKey

\* More decisions and approvals authorise what was authorised.
LEMMA StillAuthorises ==
  ASSUME approved \subseteq approved', NEW d, NEW s, Authorises(d, s)
  PROVE  Authorises(d, s)'
  BY DEF Authorises, Approves

LEMMA StaysAuthorised ==
  ASSUME issued \subseteq issued', approved \subseteq approved',
         UNCHANGED <<config, served>>, SignaturesAreAuthorised
  PROVE  SignaturesAreAuthorised'
  BY StillAuthorises DEF SignaturesAreAuthorised

\* A step that creates, or a crash, takes a live wallet away at most.
LEMMA SignedStays ==
  ASSUME Signed, UNCHANGED <<config, issued, approved, served>>, inflight' \subseteq inflight,
         \A w \in Wallets : \/ wallet'[w] = wallet[w]
                            \/ wallet[w].status = "unused" \/ wallet'[w].status = "failed"
  PROVE  Signed'
  <1>1. ASSUME NEW req, OfWallet(req)
        PROVE  /\ OfWallet(req)'
               /\ wallet'[req.wallet_id].status = "Active" => wallet'[req.wallet_id] = wallet[req.wallet_id]
    BY <1>1 DEF OfWallet
  <1>2. IssuedInv' /\ RequestInv' /\ ServedInv'
    <2>1. IssuedInv' /\ ServedInv'
      BY <1>1 DEF Signed, IssuedInv, ServedInv
    <2>2. ASSUME NEW req \in inflight' PROVE OfWallet(req)' /\ WellFormed(req)' /\ Sourced(req)'
      <3>1. req \in inflight /\ OfWallet(req) /\ WellFormed(req) /\ Sourced(req)
        BY DEF Signed, RequestInv
      <3>2. OfWallet(req)'
        BY <1>1, <3>1
      <3> QED
        BY <3>1, <3>2 DEF WellFormed, Sourced
    <2> QED
      BY <2>1, <2>2 DEF RequestInv
  <1>3. SignaturesAreAuthorised'
    BY StaysAuthorised DEF Signed
  <1>4. ASSUME NEW s \in served, wallet'[s.req.wallet_id].status = "Active"
        PROVE  wallet'[s.req.wallet_id] = wallet[s.req.wallet_id]
    <2>1. OfWallet(s.req)
      BY DEF Signed, ServedInv
    <2> QED
      BY <1>1, <1>4, <2>1
  <1>5. CeilingsHold'
    <2> SUFFICES ASSUME config.enclave = "mock", config.policy_service_pubkey # None,
                        NEW s \in served
                 PROVE  LET rec == wallet'[s.req.wallet_id]
                        IN  /\ WithinCeilings(s.req.policy_signing_payload, s.req.wallet_ceilings)
                            /\ s.answer.signature.message
                                 = canonical_signing_message(s.req.policy_signing_payload)
                            /\ rec.status = "Active" =>
                                 s.req.wallet_ceilings = Ceilings(s.req.wallet_id, rec.config)
      BY DEF CeilingsHold
    <2> QED
      BY <1>4 DEF Signed, CeilingsHold
  <1>6. SignedWithTheWalletsKey'
    BY <1>4 DEF Signed, SignedWithTheWalletsKey, KeyIsOf
  <1> QED
    BY <1>2, <1>3, <1>5, <1>6 DEF Signed

\* A step that signs leaves wallets and shares alone.
LEMMA KeptStays ==
  ASSUME Kept, UNCHANGED <<config, shares, tmp, wallet, creating>>, now' \in 0..MaxTime
  PROVE  Kept'
  BY DEF Kept, TypeInv, CreatingInv, WalletInv, WalletAt, StoreInv, StoredAt, Holds,
         CurrentId, Stored

LEMMA StaysSourced ==
  ASSUME issued \subseteq issued', approved \subseteq approved', NEW req, Sourced(req)
  PROVE  Sourced(req)'
  <1>1. req.policy_decision \in (UNION {Altered(i) : i \in issued'}) \cup {None}
    BY DEF Sourced
  <1>2. req.approvals \in Seq(approved')
    BY SMT DEF Sourced
  <1> QED
    BY <1>1, <1>2 DEF Sourced

LEMMA PolicySignsKeeps ==
  ASSUME Kept, Signed, NEW d \in Decisions, NEW r \in Requests, NEW w \in Wallets,
         NEW age \in MaxAges, PolicySigns(d, r, w, age)
  PROVE  Signed'
  <1>1. /\ issued' = issued \cup {sign_decision(PolicyKey, d, r, w, age, now)}
        /\ UNCHANGED <<now, config, wallet, approved, inflight, served>>
    BY DEF PolicySigns
  <1>2. sign_decision(PolicyKey, d, r, w, age, now) \in SignedDecisions
    BY SMT DEF SignedDecisions, Kept, TypeInv
  <1>3. IssuedInv'
    BY <1>1, <1>2 DEF Signed, IssuedInv
  <1>4. SignaturesAreAuthorised'
    BY <1>1, StaysAuthorised DEF Signed
  <1>5. ASSUME NEW req \in inflight PROVE Sourced(req)'
    BY <1>1, StaysSourced DEF Signed, RequestInv
  <1>6. RequestInv' /\ ServedInv'
    BY <1>1, <1>5 DEF Signed, RequestInv, ServedInv, OfWallet, WellFormed
  <1>7. CeilingsHold' /\ SignedWithTheWalletsKey'
    BY <1>1 DEF Signed, CeilingsHold, SignedWithTheWalletsKey
  <1> QED
    BY <1>3, <1>4, <1>6, <1>7 DEF Signed

LEMMA ApproveKeeps ==
  ASSUME Kept, Signed, NEW a, NEW r, NEW payload, NEW decision, Approve(a, r, payload, decision)
  PROVE  Signed'
  <1> DEFINE ap == [approval_id |-> Cardinality(approved), request_id |-> r,
                    message_hash |-> canonical_signing_message(payload), decision |-> decision,
                    timestamp |-> now, scheme |-> a.scheme,
                    public_key |-> public_key(a.scheme, a.key)]
             made == [f \in DOMAIN ap \cup {"signature"} |->
                        IF f = "signature" THEN sign(a.scheme, a.key, approval_preimage(ap),
                                                     approval_hash_alg(a.scheme))
                        ELSE ap[f]]
  <1>1. /\ approved' = approved \cup {made}
        /\ UNCHANGED <<now, config, wallet, issued, inflight, served>>
    BY DEF Approve
  <1>2. made.timestamp = now
    <2>1. "timestamp" \in DOMAIN ap \cup {"signature"} /\ ap["timestamp"] = now
      BY SMT
    <2> HIDE DEF ap
    <2> QED
      BY <2>1
  <1> HIDE DEF made
  <1>3. now \in Nat
    BY SMT, HostAssumption DEF Kept, TypeInv
  <1>4. IssuedInv'
    BY <1>1, <1>2, <1>3, FS_AddElement DEF Signed, IssuedInv
  <1>5. SignaturesAreAuthorised'
    BY <1>1, StaysAuthorised DEF Signed
  <1>6. ASSUME NEW req \in inflight PROVE Sourced(req)'
    BY <1>1, StaysSourced DEF Signed, RequestInv
  <1>7. RequestInv' /\ ServedInv'
    BY <1>1, <1>6 DEF Signed, RequestInv, ServedInv, OfWallet, WellFormed
  <1>8. CeilingsHold' /\ SignedWithTheWalletsKey'
    BY <1>1 DEF Signed, CeilingsHold, SignedWithTheWalletsKey
  <1> QED
    BY <1>4, <1>5, <1>7, <1>8 DEF Signed

\* Approvals in some order are a sequence of them.
LEMMA InOrder ==
  ASSUME NEW S, IsFiniteSet(S)
  PROVE  InSomeOrder(S) \in Seq(S)
  <1>1. Cardinality(S) \in Nat /\ ExistsBijection(1..Cardinality(S), S)
    BY FS_CardinalityType
  <1>2. \E f \in [1..Cardinality(S) -> S] : IsInjective(f)
    BY <1>1 DEF ExistsBijection, Bijection, Injection
  <1>3. InSomeOrder(S) \in [1..Cardinality(S) -> S]
    BY <1>2 DEF InSomeOrder
  <1> QED
    BY SMT, <1>1, <1>3

\* The request the host makes of the shares it fetched.
LEMMA RequestIsSound ==
  ASSUME Kept, Signed, NEW w \in Wallets, NEW r, NEW ask \in Asks,
         NEW d \in (UNION {Altered(i) : i \in issued}) \cup {None}, NEW aps \in Seq(approved),
         wallet[w].status = "Active", ~FetchFails(w, wallet[w].config.threshold),
         NEW req, req = SignRequest(w, wallet[w].config, Fetched(w, wallet[w].config.threshold), r,
                                    ask.payload, ask.hd_path, ask.hash_alg, d, aps)
  PROVE  OfWallet(req) /\ WellFormed(req) /\ Sourced(req)
  <1> DEFINE wc == wallet[w].config
             fetched == Fetched(w, wc.threshold)
  <1>1. PICK split : Generated(wc, wallet[w].seed, split)
                     /\ fetched = [k \in 1..wc.threshold |-> split[k]]
    BY FetchesFirst DEF Kept
  <1>2. check_share_params(fetched) = "Ok" /\ combine_shares(fetched) = Combined(wallet[w].seed)
    <2> DEFINE first == [k \in 1..wc.threshold |-> split[k]]
    <2>0. Generated(wc, wallet[w].seed, split)
      BY <1>1
    <2>1. check_share_params(first) = "Ok" /\ combine_shares(first) = Combined(wallet[w].seed)
      BY ONLY Zenon, <2>0, FirstShares
    <2> HIDE DEF first, fetched
    <2>2. fetched = first
      BY <1>1 DEF first, fetched
    <2> QED
      BY <2>1, <2>2
  <1>3. wc \in WalletConfigs
    BY <1>1 DEF Generated
  <1> HIDE DEF fetched
  <1>4. /\ req.request_id = r /\ req.wallet_id = w /\ req.shares = fetched /\ req.scheme = wc.scheme
        /\ req.hd_path = ask.hd_path /\ req.hash_alg = ask.hash_alg
        /\ req.message = canonical_signing_message(ask.payload)
        /\ req.policy_decision = d /\ req.approvals = aps
        /\ req.wallet_ceilings = Ceilings(w, wc) /\ req.policy_signing_payload = ask.payload
    BY DEF SignRequest, fetched
  <1>5. OfWallet(req)
    BY <1>2, <1>4 DEF OfWallet
  <1>6. Ceilings(w, wc) # None /\ Ceilings(w, wc).wallet_id = w
    BY <1>3, NoneAssumption DEF Ceilings
  <1>7. req = [request_id |-> req.request_id, wallet_id |-> req.wallet_id, shares |-> req.shares,
               scheme |-> req.scheme, hd_path |-> req.hd_path, hash_alg |-> req.hash_alg,
               message |-> req.message, policy_decision |-> req.policy_decision,
               approvals |-> req.approvals, wallet_ceilings |-> req.wallet_ceilings,
               policy_signing_payload |-> req.policy_signing_payload]
    BY SMT DEF SignRequest
  <1>8. WellFormed(req)
    BY <1>2, <1>4, <1>6, <1>7 DEF WellFormed
  <1>9. Sourced(req)
    BY <1>4 DEF Sourced
  <1> QED
    BY <1>5, <1>8, <1>9

LEMMA SendKeeps ==
  ASSUME Kept, Signed, Send
  PROVE  Signed'
  <1>1. PICK w \in Wallets, r \in Requests, ask \in Asks :
          \E d \in (UNION {Altered(i) : i \in issued}) \cup {None} :
            \E aps \in {<< >>, InSomeOrder(approved)} \cup (UNION {{<<a>>, <<a, a>>} : a \in approved}) :
              SendSign(w, r, ask.payload, ask.hd_path, ask.hash_alg, d, aps)
    BY DEF Send
  <1>2. PICK d \in (UNION {Altered(i) : i \in issued}) \cup {None},
             aps \in {<< >>, InSomeOrder(approved)} \cup (UNION {{<<a>>, <<a, a>>} : a \in approved}) :
          SendSign(w, r, ask.payload, ask.hd_path, ask.hash_alg, d, aps)
    BY <1>1
  <1>3. aps \in Seq(approved)
    <2>1. InSomeOrder(approved) \in Seq(approved)
      BY InOrder DEF Signed, IssuedInv
    <2>2. \A a \in approved : <<a>> \in Seq(approved) /\ <<a, a>> \in Seq(approved)
      BY SMT
    <2>3. << >> \in Seq(approved)
      BY SMT
    <2> QED
      BY <2>1, <2>2, <2>3
  <1> DEFINE req == SignRequest(w, wallet[w].config, Fetched(w, wallet[w].config.threshold), r,
                                ask.payload, ask.hd_path, ask.hash_alg, d, aps)
  <1>4. /\ wallet[w].status = "Active" /\ ~FetchFails(w, wallet[w].config.threshold)
        /\ inflight' = inflight \cup {req}
        /\ UNCHANGED <<config, wallet, issued, approved, served>>
    BY <1>2 DEF SendSign
  <1>5. OfWallet(req) /\ WellFormed(req) /\ Sourced(req)
    BY <1>3, <1>4, RequestIsSound
  <1> HIDE DEF req
  <1>6. RequestInv' /\ IssuedInv' /\ ServedInv'
    BY ZenonT(60), <1>4, <1>5 DEF Signed, RequestInv, IssuedInv, ServedInv, OfWallet, WellFormed, Sourced
  <1>7. SignaturesAreAuthorised'
    BY <1>4, StaysAuthorised DEF Signed
  <1>8. CeilingsHold' /\ SignedWithTheWalletsKey'
    BY <1>4 DEF Signed, CeilingsHold, SignedWithTheWalletsKey
  <1> QED
    BY <1>6, <1>7, <1>8 DEF Signed

\* What is signed is the message of the request.
LEMMA AnswerIsOfTheMessage ==
  ASSUME NEW req, WellFormed(req), EnclaveAnswer(req).kind # "Error"
  PROVE  EnclaveAnswer(req).signature.message = canonical_signing_message(req.policy_signing_payload)
  <1> DEFINE key == derive_signing_key(req.scheme, combine_shares(req.shares).secret, req.hd_path)
  <1>1. EnclaveAnswer(req).signature = sign(req.scheme, key, req.message, req.hash_alg)
    BY AnswerSigns
  <1> HIDE DEF key
  <1>2. EnclaveAnswer(req).signature.message = req.message
    BY SMT, <1>1 DEF sign
  <1> QED
    BY <1>2 DEF WellFormed

LEMMA ServeKeeps ==
  ASSUME Kept, Signed, NEW req \in inflight, Serve(req)
  PROVE  Signed'
  <1> DEFINE answer == EnclaveAnswer(req)
             made == [req |-> req, answer |-> answer, at |-> now]
  <1>1. /\ inflight' = inflight \ {req}
        /\ served' = IF answer.kind = "Error" THEN served ELSE served \cup {made}
        /\ UNCHANGED <<now, config, wallet, issued, approved>>
    BY DEF Serve
  <1>2. OfWallet(req) /\ WellFormed(req) /\ Sourced(req)
    BY DEF Signed, RequestInv
  <1>3. made.req = req /\ made.answer = answer /\ made.at = now
    OBVIOUS
  <1> HIDE DEF made
  <1>4. RequestInv' /\ IssuedInv' /\ ServedInv'
    <2>1. \A q : OfWallet(q)' <=> OfWallet(q)
      BY <1>1 DEF OfWallet
    <2>2. \A q : (WellFormed(q)' <=> WellFormed(q)) /\ (Sourced(q)' <=> Sourced(q))
      BY <1>1 DEF WellFormed, Sourced
    <2>3. RequestInv' /\ IssuedInv'
      BY <1>1, <2>1, <2>2 DEF Signed, RequestInv, IssuedInv
    <2>4. ServedInv'
      BY <1>1, <1>2, <1>3, <2>1 DEF Signed, ServedInv
    <2> QED
      BY <2>3, <2>4
  <1>5. CASE answer.kind = "Error"
    <2>1. SignaturesAreAuthorised'
      BY <1>1, <1>5, StaysAuthorised DEF Signed
    <2>2. CeilingsHold' /\ SignedWithTheWalletsKey'
      BY <1>1, <1>5 DEF Signed, CeilingsHold, SignedWithTheWalletsKey
    <2> QED
      BY <1>4, <2>1, <2>2 DEF Signed
  <1>6. CASE answer.kind # "Error"
    <2>1. served' = served \cup {made}
      BY <1>1, <1>6
    <2>2. Strict(config) => \E d \in issued : Authorises(d, made)
      BY <1>2, <1>3, <1>6, AnswerIsAuthorised DEF Kept, Signed
    <2>3. \A d, s : Authorises(d, s) => Authorises(d, s)'
      BY <1>1, StillAuthorises
    <2>4. SignaturesAreAuthorised'
      BY <1>1, <2>1, <2>2, <2>3 DEF Signed, SignaturesAreAuthorised
    <2>5. config.enclave = "mock" /\ config.policy_service_pubkey # None =>
            /\ WithinCeilings(req.policy_signing_payload, req.wallet_ceilings)
            /\ answer.signature.message = canonical_signing_message(req.policy_signing_payload)
      BY <1>2, <1>6, AnswerIsWithinCeilings, AnswerIsOfTheMessage
    <2>6. wallet[req.wallet_id].status = "Active" =>
            /\ req.wallet_ceilings = Ceilings(req.wallet_id, wallet[req.wallet_id].config)
            /\ KeyIsOf(wallet[req.wallet_id], made)
      BY <1>2, <1>3, <1>6, AnswerHasTheKey DEF OfWallet, Kept
    <2>7. CeilingsHold'
      BY <1>1, <1>3, <2>1, <2>5, <2>6 DEF Signed, CeilingsHold
    <2>8. SignedWithTheWalletsKey'
      BY <1>1, <1>3, <2>1, <2>6 DEF Signed, SignedWithTheWalletsKey
    <2> QED
      BY <1>4, <2>4, <2>7, <2>8 DEF Signed
  <1> QED
    BY <1>5, <1>6

-----------------------------------------------------------------------------
(* The invariant *)

LEMMA InitEstablishes == Init => HostInv
  <1> SUFFICES ASSUME Init PROVE HostInv
    OBVIOUS
  <1>1. TypeInv
    BY SMT, HostAssumption DEF Init, TypeInv
  <1>2. ASSUME NEW w \in Wallets PROVE WalletAt(w)
    <2>1. wallet[w].status = "unused"
      BY DEF Init
    <2>2. \A i \in Indices : shares[<<w, i>>] = None /\ ~(i < 0)
      BY SMT, SharesHaveIndices DEF Init, ShareIds
    <2> QED
      BY <2>1, <2>2 DEF WalletAt, Holds
  <1>3. CreatingInv /\ StoreInv
    BY DEF Init, CreatingInv, StoreInv, StoredAt
  <1>4. IssuedInv
    BY FS_EmptySet DEF Init, IssuedInv
  <1>5. RequestInv /\ ServedInv
    BY DEF Init, RequestInv, ServedInv
  <1>6. SignaturesAreAuthorised /\ CeilingsHold /\ SignedWithTheWalletsKey
    BY DEF Init, SignaturesAreAuthorised, CeilingsHold, SignedWithTheWalletsKey
  <1> QED
    BY <1>1, <1>2, <1>3, <1>4, <1>5, <1>6 DEF HostInv, WalletInv

\* A step that creates.
LEMMA CreatesKeeps ==
  ASSUME Kept, Signed
  PROVE  /\ \A w \in Wallets, wc \in config.wallets :
              \A seed \in SeedsOf(wc) : \A coeffs \in CoefficientsOf(seed) :
                Generate(w, wc, seed, coeffs) => Kept' /\ Signed'
         /\ Put \/ PutFails \/ RecordWallet \/ Crash => Kept' /\ Signed'
  <1>0. DOMAIN wallet = Wallets
    BY DEF Kept, TypeInv
  <1>1. ASSUME NEW w \in Wallets, NEW wc \in config.wallets, NEW seed \in SeedsOf(wc),
               NEW coeffs \in CoefficientsOf(seed), Generate(w, wc, seed, coeffs)
        PROVE  Kept' /\ Signed'
    <2>1. /\ wallet' = wallet \/ wallet' = [wallet EXCEPT ![w] = [status |-> "failed"]]
          /\ UNCHANGED <<config, issued, approved, served, inflight>>
      BY <1>1 DEF Generate, signVars
    <2>2. \A v \in Wallets : wallet'[v] = wallet[v] \/ wallet'[v].status = "failed"
      BY SMT, <1>0, <2>1
    <2> QED
      BY <1>1, <2>1, <2>2, GenerateKeeps, SignedStays
  <1>2. CASE Put
    <2>1. UNCHANGED <<wallet, config, issued, approved, served, inflight>>
      BY <1>2 DEF Put, signVars
    <2> QED
      BY <1>2, <2>1, PutKeeps, SignedStays
  <1>3. CASE PutFails
    <2>1. /\ wallet' = [wallet EXCEPT ![creating.wallet] = [status |-> "failed"]]
          /\ UNCHANGED <<config, issued, approved, served, inflight>>
      BY <1>3 DEF PutFails, signVars
    <2>2. \A v \in Wallets : wallet'[v] = wallet[v] \/ wallet'[v].status = "failed"
      BY SMT, <1>0, <2>1
    <2> QED
      BY <1>3, <2>1, <2>2, PutFailsKeeps, SignedStays
  <1>4. CASE RecordWallet
    <2>1. /\ \A v \in Wallets : v # creating.wallet => wallet'[v] = wallet[v]
          /\ UNCHANGED <<config, issued, approved, served, inflight>>
      BY <1>0, <1>4 DEF RecordWallet, signVars
    <2>2. wallet[creating.wallet].status = "unused"
      BY <1>4 DEF RecordWallet, Kept, CreatingInv
    <2> QED
      BY <1>4, <2>1, <2>2, RecordKeeps, SignedStays
  <1>5. CASE Crash
    <2>1. /\ \A v \in Wallets : wallet'[v] = wallet[v] \/ wallet'[v].status = "failed"
          /\ UNCHANGED <<config, issued, approved, served>> /\ inflight' \subseteq inflight
      BY <1>5 DEF Crash
    <2> QED
      BY <1>5, <2>1, CrashKeeps, SignedStays
  <1> QED
    BY <1>1, <1>2, <1>3, <1>4, <1>5

\* Every step keeps the invariant.
LEMMA NextKeeps ==
  ASSUME HostInv, [Next]_vars
  PROVE  HostInv'
  <1>0. Kept /\ Signed
    BY DEF HostInv, Kept, Signed
  <1>1. now \in 0..MaxTime
    BY <1>0 DEF Kept, TypeInv
  <1>2. ASSUME NEW w \in Wallets, NEW wc \in config.wallets, NEW seed \in SeedsOf(wc),
               NEW coeffs \in CoefficientsOf(seed), Generate(w, wc, seed, coeffs)
        PROVE  Kept' /\ Signed'
    BY <1>0, <1>2, CreatesKeeps
  <1>3. CASE Put \/ PutFails \/ RecordWallet \/ Crash
    BY <1>0, <1>3, CreatesKeeps DEF HostInv, Kept, Signed
  <1>4. ASSUME NEW d \in Decisions, NEW r \in Requests, NEW w \in Wallets, NEW age \in MaxAges,
               PolicySigns(d, r, w, age)
        PROVE  Kept' /\ Signed'
    <2>1. UNCHANGED <<now, config, shares, tmp, wallet, creating>>
      BY <1>4 DEF PolicySigns, storeVars
    <2> QED
      BY <1>0, <1>1, <1>4, <2>1, KeptStays, PolicySignsKeeps
  <1>5. ASSUME NEW b, NEW r, Approve(b.approver, r, b.payload, b.decision)
        PROVE  Kept' /\ Signed'
    <2>1. UNCHANGED <<now, config, shares, tmp, wallet, creating>>
      BY <1>5 DEF Approve, storeVars
    <2> QED
      BY <1>0, <1>1, <1>5, <2>1, KeptStays, ApproveKeeps
  <1>6. CASE Send
    <2>0. ASSUME NEW w, NEW r, NEW payload, NEW path, NEW hash, NEW d, NEW aps,
                 SendSign(w, r, payload, path, hash, d, aps)
          PROVE  UNCHANGED <<now, config, shares, tmp, wallet, creating>>
      BY <2>0 DEF SendSign, storeVars
    <2>1. UNCHANGED <<now, config, shares, tmp, wallet, creating>>
      BY <1>6, <2>0 DEF Send
    <2> QED
      BY <1>0, <1>1, <1>6, <2>1, KeptStays, SendKeeps DEF HostInv, Kept, Signed
  <1>7. ASSUME NEW req \in inflight, Serve(req)
        PROVE  Kept' /\ Signed'
    <2>1. UNCHANGED <<now, config, shares, tmp, wallet, creating>>
      BY <1>7 DEF Serve, storeVars
    <2> QED
      BY <1>0, <1>1, <1>7, <2>1, KeptStays, ServeKeeps
  <1>8. CASE Lose \/ Tick \/ UNCHANGED vars
    <2>1. UNCHANGED <<config, shares, tmp, wallet, creating, issued, approved, inflight, served>>
      BY <1>8 DEF Lose, Tick, vars, storeVars, signVars
    <2>2. now' \in 0..MaxTime
      BY SMT, <1>1, <1>8, HostAssumption DEF Lose, Tick, vars
    <2> QED
      BY <1>0, <2>1, <2>2, KeptStays, SignedStays DEF HostInv, Kept, Signed
  <1>9. Kept' /\ Signed' => HostInv'
    BY DEF HostInv, Kept, Signed
  <1> QED
    BY <1>2, <1>3, <1>4, <1>5, <1>6, <1>7, <1>8, <1>9 DEF Next

-----------------------------------------------------------------------------
(* Theorems *)

\* The invariant holds in every reachable state of the host and its enclaves.
THEOREM HostInvariance == Spec => []HostInv
  <1>1. Init => HostInv
    BY InitEstablishes
  <1>2. HostInv /\ [Next]_vars => HostInv'
    BY NextKeeps
  <1> QED
    BY <1>1, <1>2, PTL DEF Spec

\* A signature of a strict enclave goes back to a decision the policy service
\* issued for this request and wallet, fresh and not a denial, and to its
\* quorum of approvals of this message (hybrid_verifier.rs verify).
THEOREM EnclaveSignsWhatIsAuthorised == Spec => []SignaturesAreAuthorised
  <1>1. HostInv => SignaturesAreAuthorised
    BY DEF HostInv
  <1> QED
    BY <1>1, HostInvariance, PTL

\* A verifying in-process enclave signs no transaction over a ceiling of its
\* wallet, and the message it signs is the one it checked
\* (hybrid_verifier.rs check_hard_ceilings).
THEOREM EnclaveHoldsCeilings == Spec => []CeilingsHold
  <1>1. HostInv => CeilingsHold
    BY DEF HostInv
  <1> QED
    BY <1>1, HostInvariance, PTL

\* What an enclave signs with is the key of the seed the wallet was created
\* with, through splitting, storing, crashes, fetching and combining.
THEOREM EnclaveSignsWithTheWalletsKey == Spec => []SignedWithTheWalletsKey
  <1>1. HostInv => SignedWithTheWalletsKey
    BY DEF HostInv
  <1> QED
    BY <1>1, HostInvariance, PTL

\* A share that list names is read back whole, under its own index, at every
\* moment (the put of LocalFsShareStore and S3KmsShareStore).
THEOREM StoresListReadableShares == Spec => []ListedSharesAreReadable
  <1>1. ASSUME HostInv PROVE ListedSharesAreReadable
    <2> SUFFICES ASSUME config.attested, NEW w \in Wallets, NEW i \in ListedShares(w)
                 PROVE  ReadShare(<<w, i>>) # None /\ ReadShare(<<w, i>>).index = i
      BY DEF ListedSharesAreReadable
    <2>1. <<w, i>> \in ShareIds /\ shares[<<w, i>>] # None /\ <<w, i>>[2] = i
      BY DEF ListedShares, ShareIds
    <2>2. StoredAt(<<w, i>>) /\ config.store \in {"local_fs", "s3_kms", "mock"}
      BY <1>1, <2>1, HostAssumption DEF HostInv, StoreInv, TypeInv
    <2>3. ReadShare(<<w, i>>) = shares[<<w, i>>].share
      BY <2>1, <2>2 DEF ReadShare, StoredAt, OpensFile, OpensObject, DecryptsDataKey
    <2> QED
      BY <2>1, <2>2, <2>3 DEF StoredAt
  <1> QED
    BY <1>1, HostInvariance, PTL

\* Without ceilings both backends answer every request that is on its way
\* alike (mock.rs sign_in_enclave, enclave/src/main.rs handle_sign).
THEOREM BackendsAnswerAlike == Spec => []BackendsAgree
  <1>1. ASSUME HostInv PROVE BackendsAgree
    BY <1>1, AnswersAlike DEF HostInv, RequestInv, BackendsAgree
  <1> QED
    BY <1>1, HostInvariance, PTL
=============================================================================
