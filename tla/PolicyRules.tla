---------------------------- MODULE PolicyRules ----------------------------
(***************************************************************************)
(* What a policy says of one request: the rule DSL of                      *)
(* qfc-policy/src/rules.rs, its load-time validation and the stages of     *)
(* RuleSetPolicy::evaluate (rule_set_policy.rs), and the older             *)
(* StaticAllowDenyPolicy (static_policy.rs).  The stage that talks to the  *)
(* rate limiter is in RuleSetPolicy.                                       *)
(*                                                                         *)
(* A rule is a record with its kind.  A hex string is its form and the     *)
(* bytes it stands for, a decimal string whether it parses and its number, *)
(* a weekday mask the set of its bits.  A request is a record whose vm,    *)
(* chain_id and to are None for the payloads that are not transactions.    *)
(***************************************************************************)
EXTENDS TxDecoders, FiniteSetsExt

\* normalize_hex: prefix and case do not matter; an empty string, an odd
\* length or another character does.
BadForms == {"empty", "odd", "not-hex"}
normalize_hex(h) == IF h.form \in BadForms THEN None ELSE h.bytes

\* address_in and address_eq: the configured address against raw bytes.
address_eq(h, to) == h.form \notin BadForms /\ normalize_hex(h) = to
address_in(addresses, to) == \E h \in addresses : address_eq(h, to)

RulesOf(rs, kind) == {rs.rules[i] : i \in {j \in DOMAIN rs.rules : rs.rules[j].kind = kind}}

-----------------------------------------------------------------------------
(* Loading *)

IsSelector(h) == h.form \notin BadForms /\ h.len = 4

\* Mutant: the caps of vm_shape rules are not parsed at load time.
RuleIsValidButShape(r) ==
  CASE r.kind \in {"AllowContract", "DenyContract"} ->
         \A h \in r.addresses : h.form \notin BadForms
    [] r.kind = "ValueCap" -> r.max_value.parses
    [] r.kind = "RateLimit" -> r.tokens # 0
    [] OTHER -> TRUE

\* One arm of validate() per kind of rule.
RuleIsValid(r) ==
  CASE r.kind \in {"AllowContract", "DenyContract"} ->
         \A h \in r.addresses : h.form \notin BadForms
    [] r.kind = "AllowMethod" ->
         /\ r.contract # None => r.contract.form \notin BadForms
         /\ \A h \in r.selectors : IsSelector(h)
    [] r.kind = "ValueCap" -> r.max_value.parses
    [] r.kind = "RateLimit" -> r.tokens # 0
    [] r.kind = "TimeWindow" -> 7 \notin r.mask /\ r.start <= 23 /\ r.end <= 24
    [] r.kind = "RequireQuorum" ->
         /\ r.threshold # 0 /\ r.total # 0 /\ r.threshold <= r.total
         /\ r.trigger.kind = "ValueGte" => r.trigger.value.parses
    [] r.kind = "VmShape" ->
         /\ r.max_value # None => r.max_value.parses
         /\ r.selectors # None => \A h \in r.selectors : IsSelector(h)
    [] OTHER -> TRUE

validate(rs) == rs.version = 1 /\ \A i \in DOMAIN rs.rules : RuleIsValid(rs.rules[i])

-----------------------------------------------------------------------------
(* The stages before the rate limiter *)

\* Mutant: the end hour is inside the window.
WindowClosed(req, w) ==
  req.day \in w.mask /\ IF w.end > w.start THEN w.start <= req.hour /\ req.hour <= w.end
                        ELSE w.start <= req.hour \/ req.hour < w.end

\* time_window_contains: the day of the request itself is looked up, also when
\* the window wraps midnight.
time_window_contains(req, w) ==
  req.day \in w.mask /\ IF w.end > w.start THEN w.start <= req.hour /\ req.hour < w.end
                        ELSE w.start <= req.hour \/ req.hour < w.end

\* A field of the decoded transaction, if there is one.
Field(decoded, f) == IF decoded = None THEN None ELSE decoded[f]

Denies(b) == IF b THEN "deny" ELSE "skip"
Filter(applies, passes) == IF ~applies THEN "skip" ELSE IF passes THEN "pass" ELSE "deny"

deny_chain(rs, req) ==
  Denies(req.chain_id # None /\ \E r \in RulesOf(rs, "DenyChain") : req.chain_id \in r.chain_ids)

deny_contract(rs, req) ==
  Denies(req.chain_id # None /\ req.to # None /\ \E r \in RulesOf(rs, "DenyContract") :
           r.chain_id = req.chain_id /\ address_in(r.addresses, req.to))

\* Mutant: an empty list of chains filters nothing.
EmptyListAllows(rs, req) ==
  LET rules == {r \in RulesOf(rs, "AllowChain") : r.chain_ids # {}}
  IN  Filter(rules # {}, req.chain_id # None /\ \E r \in rules : req.chain_id \in r.chain_ids)

\* A payload without a chain fails the filter.
allow_chain(rs, req) ==
  LET rules == RulesOf(rs, "AllowChain")
  IN  Filter(rules # {}, req.chain_id # None /\ \E r \in rules : req.chain_id \in r.chain_ids)

allow_contract(rs, req) ==
  LET rules == {r \in RulesOf(rs, "AllowContract") : r.chain_id = req.chain_id}
  IN  Filter(rules # {}, req.to # None /\ \E r \in rules : address_in(r.addresses, req.to))

\* Rules for this chain and for every contract or for this one; without a
\* decoded selector the filter fails.
allow_method(rs, req, decoded) ==
  LET rules == {r \in RulesOf(rs, "AllowMethod") :
                  /\ r.chain_id = req.chain_id
                  /\ \/ r.contract = None
                     \/ req.to # None /\ address_eq(r.contract, req.to)}
      selector == Field(decoded, "method_selector")
  IN  Filter(rules # {}, selector # None /\ \E r \in rules : address_in(r.selectors, selector))

\* The first of these positions, or 0.
FirstOf(hits) == IF hits = {} THEN 0 ELSE Min(hits)

Exceeds(v, max_value) == v # None /\ v > max_value.number
CapsChain(r, req) == r.kind = "ValueCap" /\ r.chain_id = req.chain_id
CapStops(r, req, v) == CapsChain(r, req) /\ (~r.max_value.parses \/ Exceeds(v, r.max_value))

\* Mutant: the first cap for the chain decides alone.
FirstCapOnly(rs, req, decoded) ==
  LET v == Field(decoded, "value")
      i == FirstOf({j \in DOMAIN rs.rules : CapsChain(rs.rules[j], req)})
  IN  Denies(i # 0 /\ Exceeds(v, rs.rules[i].max_value))

\* A cap that does not parse is an error, in the order of the rules; a value
\* that is not known passes.
value_cap(rs, req, decoded) ==
  LET v == Field(decoded, "value")
      i == FirstOf({j \in DOMAIN rs.rules : CapStops(rs.rules[j], req, v)})
  IN  IF i = 0 THEN "skip" ELSE IF rs.rules[i].max_value.parses THEN "deny" ELSE "error"

time_window(rs, req) ==
  Denies(\E r \in RulesOf(rs, "TimeWindow") : ~time_window_contains(req, r))

Stage(id, reason, verdict) == [id |-> id, reason |-> reason, verdict |-> verdict]

AdmissionStages(rs, req, decoded) ==
  << Stage("deny-chain", "ChainDenied", deny_chain(rs, req)),
     Stage("deny-contract", "contract-denied", deny_contract(rs, req)),
     Stage("allow-chain-filter", "ChainNotAllowed", allow_chain(rs, req)),
     Stage("allow-contract-filter", "contract-not-on-allow-list", allow_contract(rs, req)),
     Stage("allow-method-filter", "method-not-allowed", allow_method(rs, req, decoded)),
     Stage("value-cap", "value-cap-exceeded", value_cap(rs, req, decoded)),
     Stage("time-window", "outside-time-window", time_window(rs, req)) >>

\* The rationale when stage n has been passed: the filters that let it through.
Passed(stages, n) ==
  LET hits == SelectSeq(SubSeq(stages, 1, n), LAMBDA s : s.verdict = "pass")
  IN  [i \in DOMAIN hits |-> hits[i].id]

\* The first stage that denies or fails decides.
RunStages(stages) ==
  LET stop == {n \in DOMAIN stages : stages[n].verdict \in {"deny", "error"}}
      n == Min(stop)
  IN  IF stop = {} THEN [kind |-> "Admitted", rationale |-> Passed(stages, Len(stages))]
      ELSE IF stages[n].verdict = "error" THEN [kind |-> "Misconfiguration"]
      ELSE [kind |-> "Deny", reason |-> stages[n].reason,
            rationale |-> Append(Passed(stages, n), stages[n].id)]

Admission(rs, req, decoded) == RunStages(AdmissionStages(rs, req, decoded))

-----------------------------------------------------------------------------
(* The stages after the rate limiter *)

\* The constraint of a vm_shape rule that is violated first.
ShapeVerdict(r, decoded) ==
  LET gas == Field(decoded, "gas_limit")
      selector == Field(decoded, "method_selector")
  IN  IF r.max_value # None /\ ~r.max_value.parses THEN "error"
      ELSE IF r.max_value # None /\ Exceeds(Field(decoded, "value"), r.max_value)
      THEN "vm-shape-max-value"
      ELSE IF r.max_gas # None /\ gas # None /\ gas > r.max_gas THEN "vm-shape-max-gas"
      ELSE IF r.selectors # None /\ selector # None /\ ~address_in(r.selectors, selector)
      THEN "vm-shape-method"
      ELSE "pass"

TriggerFires(trigger, req, decoded) ==
  CASE trigger.kind = "Always" -> TRUE
    [] trigger.kind = "ValueGte" ->
         /\ req.chain_id = trigger.chain_id /\ Field(decoded, "value") # None
         /\ decoded.value >= trigger.value.number
    [] trigger.kind = "OutsideTimeWindow" -> ~time_window_contains(req, trigger)

\* The rules that end the evaluation in either of these stages.
ShapeStops(r, req, decoded) ==
  r.kind = "VmShape" /\ r.vm = req.vm /\ ShapeVerdict(r, decoded) # "pass"
AsksQuorum(r, req, decoded) ==
  /\ r.kind = "RequireQuorum"
  /\ \/ r.trigger.kind = "ValueGte" /\ ~r.trigger.value.parses
     \/ TriggerFires(r.trigger, req, decoded)

\* VmShape, RequireQuorum, then the default, for a request whose rationale so
\* far is given.
Conclusion(rs, req, decoded, rationale) ==
  LET shape == FirstOf({i \in DOMAIN rs.rules : ShapeStops(rs.rules[i], req, decoded)})
      quorum == FirstOf({i \in DOMAIN rs.rules : AsksQuorum(rs.rules[i], req, decoded)})
      by == rs.rules[quorum]
  IN  CASE shape # 0 /\ ShapeVerdict(rs.rules[shape], decoded) = "error" ->
             [kind |-> "Misconfiguration"]
        [] shape # 0 /\ ShapeVerdict(rs.rules[shape], decoded) # "error" ->
             [kind |-> "Deny", reason |-> "vm-shape-constraint",
              rationale |-> Append(rationale, ShapeVerdict(rs.rules[shape], decoded))]
        [] shape = 0 /\ quorum # 0 ->
             IF by.trigger.kind = "ValueGte" /\ ~by.trigger.value.parses
             THEN [kind |-> "Misconfiguration"]
             ELSE [kind |-> "RequireQuorum", threshold |-> by.threshold, total |-> by.total,
                   approver_set |-> by.approver_set,
                   rationale |-> Append(rationale, "require-quorum")]
        [] shape = 0 /\ quorum = 0 ->
             IF rs.default = "Allow"
             THEN [kind |-> "Allow", rationale |-> Append(rationale, "default-allow")]
             ELSE [kind |-> "Deny", reason |-> "policy-default",
                   rationale |-> Append(rationale, "default-deny")]

\* The decision of a policy whose rate limiter grants every token.
Unlimited(rs, req, decoded) ==
  LET a == Admission(rs, req, decoded)
  IN  IF a.kind = "Admitted" THEN Conclusion(rs, req, decoded, a.rationale) ELSE a

-----------------------------------------------------------------------------
(* The static policy *)

\* requester_key: the variant is part of the key.
requester_key(req) == <<req.requester.variant, req.requester.id>>

\* StaticAllowDenyPolicy::evaluate: chains are only looked at when the payload
\* has one.
StaticDecision(p, req) ==
  LET stages ==
        << Stage("wallet-inactive", "WalletInactive", Denies(p.wallet_inactive)),
           Stage("denied-chain", "ChainDenied",
                 Denies(req.chain_id # None /\ req.chain_id \in p.denied_chains)),
           Stage("chain-not-on-allow-list", "ChainNotAllowed",
                 Denies(/\ req.chain_id # None /\ p.allowed_chains # None
                        /\ req.chain_id \notin p.allowed_chains)),
           Stage("denied-requester", "RequesterNotAllowed",
                 Denies(requester_key(req) \in p.denied_requesters)),
           Stage("requester-not-on-allow-list", "RequesterNotAllowed",
                 Denies(/\ p.allowed_requesters # None
                        /\ requester_key(req) \notin p.allowed_requesters)) >>
      d == RunStages(stages)
  IN  CASE d.kind = "Deny" -> d
        [] d.kind # "Deny" /\ p.default = "Allow" ->
             [kind |-> "Allow", rationale |-> <<"default-allow">>]
        [] d.kind # "Deny" /\ p.default = "Deny" ->
             [kind |-> "Deny", reason |-> "policy-default", rationale |-> <<"default-deny">>]
=============================================================================
