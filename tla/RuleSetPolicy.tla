--------------------------- MODULE RuleSetPolicy ---------------------------
(***************************************************************************)
(* RuleSetPolicy of qfc-policy: a policy is loaded and validated, then     *)
(* concurrent evaluations of it share one rate limiter.  What comes before *)
(* and after the rate limiter is one step each (no await in it); every     *)
(* RateLimit rule is a clock reading and a critical section of its own, so *)
(* evaluations interleave between any two of them, and a caller may drop   *)
(* the future at any of these points.                                      *)
(*                                                                         *)
(* Tokens are counted in parts of 1/Scale.                                 *)
(***************************************************************************)
EXTENDS PolicyRules

CONSTANTS
  Policies,     \* rule sets and decoders an operator may load
  Requests,     \* requests the service may receive
  Tasks,        \* concurrent evaluations, each of one request
  Scale,        \* a multiple of every refill period
  MaxTime,      \* bound: the clock stops here
  Restrictions, \* rules an operator may add to a policy
  Hours,        \* hours a time window may start or end at
  Chains        \* chains on the lists of a static policy

VARIABLES
  policy,    \* the loaded policy, or None
  task,      \* [Tasks -> where its evaluation is]
  bucket,    \* the limiter's map: key -> tokens and last_refill
  now        \* the clock

vars == <<policy, task, bucket, now>>

\* Mutant: the key of a wallet's requester leaves out the wallet.
RateKeyOfRequester(scope, req) ==
  IF scope = "PerWallet" THEN <<"wallet", req.wallet>> ELSE <<"req", requester_key(req)>>

\* rate_limit_key
rate_limit_key(scope, req) ==
  CASE scope = "PerWallet" -> <<"wallet", req.wallet>>
    [] scope = "PerRequester" -> <<"req", requester_key(req)>>
    [] scope = "PerWalletRequester" -> <<"wr", req.wallet, requester_key(req)>>

RateRules(p) == SelectSeq(p.rules, LAMBDA r : r.kind = "RateLimit")

Scopes == {"PerWallet", "PerRequester", "PerWalletRequester"}
RateLimits == [kind : {"RateLimit"}, tokens : Nat, refill : Nat, scope : Scopes]
Restricting == {"DenyChain", "DenyContract", "ValueCap", "TimeWindow", "VmShape"}

\* The types of rules and requests; restrictions are rules that only deny.
ASSUME PolicyAssumption ==
  /\ Scale \in Nat \ {0} /\ MaxTime \in Nat /\ IsFiniteSet(Tasks)
  /\ None \notin Policies /\ Hours \subseteq Nat
  /\ \A p \in Policies :
       /\ p = [version |-> p.version, decoder |-> p.decoder, default |-> p.default,
               rules |-> p.rules]
       /\ p.rules \in Seq({p.rules[i] : i \in DOMAIN p.rules})
       /\ RateRules(p) \in Seq(RateLimits)
  /\ \A req \in Requests :
       /\ req.requester = [variant |-> req.requester.variant, id |-> req.requester.id]
       /\ req.hour \in Nat
  /\ \A r \in Restrictions : r.kind \in Restricting

Decoded(p, req) == IF req.vm = None THEN None ELSE Decode(p.decoder, req.vm, req.raw)

Idle == [pc |-> "idle"]

TypeOK ==
  /\ policy \in Policies \cup {None}
  /\ now \in 0 .. MaxTime
  /\ \A t \in Tasks : task[t] = Idle \/
       /\ task[t].pc \in {"limit", "clocked", "done", "dropped"}
       /\ task[t].req \in Requests
       /\ Len(task[t].paid) <= Len(RateRules(policy))
  /\ \A k \in DOMAIN bucket :
       /\ \E r \in RulesOf(policy, "RateLimit") : bucket[k].tokens \in 0 .. Scale * r.tokens
       /\ bucket[k].last_refill \in 0 .. now

Init ==
  /\ policy = None
  /\ task = [t \in Tasks |-> Idle]
  /\ bucket = << >>
  /\ now = 0

\* RuleSetPolicy::with_components; what validate() refuses is not loaded.
Load ==
  /\ policy = None
  /\ \E p \in Policies : validate(p) /\ policy' = p
  /\ UNCHANGED <<task, bucket, now>>

\* Mutant: the loop over the RateLimit rules stops one early.
ProceedEarly(req, rationale, paid) ==
  IF Len(paid) + 1 < Len(RateRules(policy))
  THEN [pc |-> "limit", req |-> req, rationale |-> rationale, paid |-> paid]
  ELSE [pc |-> "done", req |-> req, paid |-> paid,
        decision |-> Conclusion(policy, req, Decoded(policy, req), rationale)]

\* The evaluation of req, having taken the tokens paid, goes on: to the next
\* RateLimit rule, or to the stages after the last.
Proceed(req, rationale, paid) ==
  IF Len(paid) < Len(RateRules(policy))
  THEN [pc |-> "limit", req |-> req, rationale |-> rationale, paid |-> paid]
  ELSE [pc |-> "done", req |-> req, paid |-> paid,
        decision |-> Conclusion(policy, req, Decoded(policy, req), rationale)]

\* evaluate() up to its first await.
Evaluate(t, req) ==
  /\ policy # None /\ task[t] = Idle
  /\ LET a == Admission(policy, req, Decoded(policy, req))
     IN  task' = [task EXCEPT ![t] =
           IF a.kind = "Admitted" THEN Proceed(req, a.rationale, << >>)
           ELSE [pc |-> "done", req |-> req, paid |-> << >>, decision |-> a]]
  /\ UNCHANGED <<policy, bucket, now>>

\* try_acquire reads the clock before it waits for the mutex.
ReadClock(t) ==
  /\ task[t].pc = "limit"
  /\ task' = [task EXCEPT ![t] = [pc |-> "clocked", req |-> @.req, rationale |-> @.rationale,
                                  paid |-> @.paid, now_ms |-> now]]
  /\ UNCHANGED <<policy, bucket, now>>

\* The bucket of key as this rule leaves it after its refill: a new bucket and
\* the cap of an old one are this rule's capacity, whoever created it.
Refilled(key, rule, now_ms) ==
  LET e == IF key \in DOMAIN bucket THEN bucket[key]
           ELSE [tokens |-> rule.tokens * Scale, last_refill |-> now_ms]
      more == e.tokens + Max({0, now_ms - e.last_refill}) * (Scale \div rule.refill)
  IN  IF rule.refill = 0 THEN e
      ELSE [tokens |-> Min({rule.tokens * Scale, more}), last_refill |-> now_ms]

\* The mutex is held: refill, take a token if there is one, and go on.
Lock(t) ==
  /\ task[t].pc = "clocked"
  /\ LET req == task[t].req
         rule == RateRules(policy)[Len(task[t].paid) + 1]
         key == rate_limit_key(rule.scope, req)
         e == Refilled(key, rule, task[t].now_ms)
         ok == e.tokens >= Scale
         left == IF ok THEN [e EXCEPT !.tokens = @ - Scale] ELSE e
     IN  /\ bucket' = [k \in DOMAIN bucket \cup {key} |-> IF k = key THEN left ELSE bucket[k]]
         /\ task' = [task EXCEPT ![t] =
              IF ok THEN Proceed(req, @.rationale, Append(@.paid, key))
              ELSE [pc |-> "done", req |-> req, paid |-> @.paid,
                    decision |-> [kind |-> "Deny", reason |-> "rate-limited",
                                  rationale |-> Append(@.rationale, "rate-limit")]]]
  /\ UNCHANGED <<policy, now>>

\* The caller gives up while the evaluation is suspended.
Drop(t) ==
  /\ task[t].pc \in {"limit", "clocked"}
  /\ task' = [task EXCEPT ![t] = [pc |-> "dropped", req |-> @.req, paid |-> @.paid]]
  /\ UNCHANGED <<policy, bucket, now>>

Tick == now < MaxTime /\ now' = now + 1 /\ UNCHANGED <<policy, task, bucket>>

Next ==
  \/ Load
  \/ \E t \in Tasks :
       \/ \E req \in Requests : Evaluate(t, req)
       \/ ReadClock(t) \/ Lock(t) \/ Drop(t)
  \/ Tick

Spec == Init /\ [][Next]_vars

-----------------------------------------------------------------------------
(* Properties *)

Done(t) == task[t].pc = "done"
Limited(t) == Done(t) /\ task[t].decision.kind = "Deny" /\ task[t].decision.reason = "rate-limited"

\* validate() is as strict as evaluate(): a policy that was loaded never fails
\* an evaluation with Misconfiguration.
LoadedPolicyNeverFails == \A t \in Tasks : Done(t) => task[t].decision.kind # "Misconfiguration"

\* Tokens are taken for requests that passed the stages before the rate
\* limiter only, in the order of the rules and one per rule; a request that is
\* let through has paid every RateLimit rule and gets the decision it would get
\* without them; one that is rate limited has paid the rules before the one
\* that stopped it.
TokensMatchDecision ==
  \A t \in Tasks : Done(t) =>
    LET d == task[t].decision
        rules == RateRules(policy)
        a == Admission(policy, task[t].req, Decoded(policy, task[t].req))
        n == Len(task[t].paid)
    IN  /\ \A i \in 1 .. n : task[t].paid[i] = rate_limit_key(rules[i].scope, task[t].req)
        /\ a.kind # "Admitted" => n = 0 /\ d = a
        /\ Limited(t) => n < Len(rules)
        /\ a.kind = "Admitted" /\ ~Limited(t) =>
             n = Len(rules) /\ d = Unlimited(policy, task[t].req, Decoded(policy, task[t].req))

\* The subject a scope names is the same for both requests.
SameSubject(scope, r, s) ==
  /\ scope \in {"PerWallet", "PerWalletRequester"} => r.wallet = s.wallet
  /\ scope \in {"PerRequester", "PerWalletRequester"} => r.requester = s.requester

\* Nobody is limited by somebody else's requests: with one RateLimit rule per
\* scope, a request is refused only when requests of the same subject took at
\* least the rule's tokens, however evaluations interleave and whether or not
\* their callers dropped them.
LimitedByOwnRequests ==
  \A t \in Tasks :
    LET rules == RateRules(policy)
        i == Len(task[t].paid) + 1
        paidFor == {u \in Tasks : /\ task[u] # Idle /\ Len(task[u].paid) >= i
                                  /\ SameSubject(rules[i].scope, task[u].req, task[t].req)}
    IN  /\ Limited(t)
        /\ \A j, k \in DOMAIN rules : rules[j].scope = rules[k].scope => j = k
        => Cardinality(paidFor) >= rules[i].tokens

Strictness(d) ==
  CASE d.kind = "Allow" -> 0 [] d.kind = "RequireQuorum" -> 1
    [] d.kind \in {"Deny", "Misconfiguration"} -> 2

\* The policy has been loaded and nothing evaluated: the properties of the
\* rules alone are checked here, for every request.
Fresh == policy # None /\ \A t \in Tasks : task[t] = Idle

\* Adding a restriction to the loaded policy never permits more, wherever it is
\* put among the rules (RuleSetPolicy::evaluate sifts by kind, not by place): no
\* deny, cap, window or shape rule can be hidden by another rule.
StricterRulesNeverPermitMore ==
  Fresh => \A req \in Requests, r \in Restrictions :
    LET decoded == Decoded(policy, req)
    IN  \A rules \in {<<r>> \o policy.rules, Append(policy.rules, r)} :
          Strictness(Unlimited([policy EXCEPT !.rules = rules], req, decoded))
            >= Strictness(Unlimited(policy, req, decoded))

\* A window and the one from its end to its start share no hour and leave out
\* none, across midnight too; a window whose ends are equal is the whole day
\* (time_window_contains).
WindowsPartitionTheDay ==
  Fresh => \A req \in Requests, s, e \in Hours :
    LET In(a, b) == time_window_contains(req, [mask |-> {req.day}, start |-> a, end |-> b])
    IN  IF s = e THEN In(s, e) ELSE In(s, e) # In(e, s)

\* On a payload that has a chain, the chain lists of StaticAllowDenyPolicy say
\* what a rule set with the same lists says, the reason included.
StaticPolicyAgrees ==
  Fresh => \A req \in {r \in Requests : r.chain_id # None}, denied \in SUBSET Chains,
              allowed \in {None} \cup SUBSET Chains, default \in {"Allow", "Deny"} :
    LET static == [wallet_inactive |-> FALSE, denied_chains |-> denied, allowed_chains |-> allowed,
                   denied_requesters |-> {}, allowed_requesters |-> None, default |-> default]
        allow == IF allowed = None THEN << >>
                 ELSE <<[kind |-> "AllowChain", chain_ids |-> allowed]>>
        rs == [version |-> 1, default |-> default,
               rules |-> <<[kind |-> "DenyChain", chain_ids |-> denied]>> \o allow]
        s == StaticDecision(static, req)
        d == Unlimited(rs, req, None)
    IN  s.kind = d.kind /\ (s.kind = "Deny" => s.reason = d.reason)
=============================================================================
