---------------------------- MODULE PolicyProofs ----------------------------
(***************************************************************************)
(* Theorems about rule-set policies (module RuleSetPolicy), for any set of *)
(* policies, requests and concurrent evaluations.  EvalInv says for every  *)
(* place an evaluation can be at which tokens it has taken and what it has *)
(* decided; LimitInv balances the buckets against the evaluations that     *)
(* took from them.  The theorems on rules alone rest on what the stages    *)
(* decide.                                                                 *)
(***************************************************************************)
EXTENDS RuleSetPolicy, WellFoundedInduction, FiniteSetTheorems, TLAPS

-----------------------------------------------------------------------------
(* Least and greatest elements *)

\* Every set of natural numbers that has an element has a least one.
LEMMA LeastExists ==
  ASSUME NEW S, S \subseteq Nat, S # {}
  PROVE  \E x \in S : \A y \in S : x <= y
  <1> DEFINE R == OpToRel(<, Nat)
  <1>1. IsWellFoundedOn(R, Nat)
    BY Zenon, NatLessThanWellFounded
  <1> HIDE DEF R
  <1>2. PICK x \in S : \A y \in S : ~ (<<y, x>> \in R)
    BY Zenon, <1>1, WFMin
  <1>3. ASSUME NEW y \in S PROVE x <= y
    <2>1. ~ (y < x)
      BY Zenon, <1>2 DEF R, OpToRel
    <2> QED
      BY SMT, <2>1
  <1> QED
    BY Zenon, <1>3

\* Min of such a set is its least element.
LEMMA MinIsLeast ==
  ASSUME NEW S, S \subseteq Nat, S # {}
  PROVE  Min(S) \in S /\ \A y \in S : Min(S) <= y
  BY Zenon, LeastExists DEF Min

\* FirstOf is a position of the set, or 0 if there is none.
LEMMA FirstOfHits ==
  ASSUME NEW S, S \subseteq Nat \ {0}
  PROVE  /\ FirstOf(S) = 0 => S = {}
         /\ FirstOf(S) # 0 => FirstOf(S) \in S
         /\ S # {} => FirstOf(S) # 0
  <1>1. CASE S = {}
    BY Zenon, <1>1 DEF FirstOf
  <1>2. CASE S # {}
    BY Zenon, <1>2, MinIsLeast DEF FirstOf
  <1> QED
    BY <1>1, <1>2

LEMMA TwoNumbers ==
  ASSUME NEW x \in Int, NEW y \in Int
  PROVE  /\ Min({x, y}) = IF x <= y THEN x ELSE y
         /\ Max({x, y}) = IF x >= y THEN x ELSE y
  <1>1. \E m \in {x, y} : \A z \in {x, y} : m <= z
    BY SMT
  <1>2. \E m \in {x, y} : \A z \in {x, y} : m >= z
    BY SMT
  <1>3. Min({x, y}) \in {x, y} /\ \A z \in {x, y} : Min({x, y}) <= z
    BY Zenon, <1>1 DEF Min
  <1>4. Max({x, y}) \in {x, y} /\ \A z \in {x, y} : Max({x, y}) >= z
    BY Zenon, <1>2 DEF Max
  <1> HIDE DEF Min, Max
  <1>5. ASSUME NEW m \in {x, y}, \A z \in {x, y} : m <= z PROVE m = IF x <= y THEN x ELSE y
    BY SMT, <1>5
  <1>6. ASSUME NEW m \in {x, y}, \A z \in {x, y} : m >= z PROVE m = IF x >= y THEN x ELSE y
    BY SMT, <1>6
  <1> QED
    BY Zenon, <1>3, <1>4, <1>5, <1>6

-----------------------------------------------------------------------------
(* What the stages decide *)

Numbered(rs) == DOMAIN rs.rules \subseteq Nat \ {0}

\* The stages before the rate limiter that end an evaluation.
Stops(stages) == {n \in DOMAIN stages : stages[n].verdict \in {"deny", "error"}}

\* The stages are passed, or one that stops decides.
LEMMA RunStagesDecides ==
  ASSUME NEW stages, DOMAIN stages \subseteq Nat
  PROVE  /\ Stops(stages) = {} =>
              RunStages(stages) = [kind |-> "Admitted", rationale |-> Passed(stages, Len(stages))]
         /\ Stops(stages) # {} => \E n \in Stops(stages) :
              RunStages(stages) =
                IF stages[n].verdict = "error" THEN [kind |-> "Misconfiguration"]
                ELSE [kind |-> "Deny", reason |-> stages[n].reason,
                      rationale |-> Append(Passed(stages, n), stages[n].id)]
  <1> DEFINE stop == Stops(stages)
  <1>1. CASE stop = {}
    BY Zenon, <1>1 DEF Stops, RunStages
  <1>2. CASE stop # {}
    <2>1. stop \subseteq Nat
      BY Zenon DEF Stops
    <2>2. Min(stop) \in stop
      BY Zenon, <1>2, <2>1, MinIsLeast
    <2> QED
      BY Zenon, <1>2, <2>2 DEF Stops, RunStages
  <1> QED
    BY Zenon, <1>1, <1>2

\* The verdicts of the seven stages.
LEMMA StageVerdicts ==
  ASSUME NEW rs, NEW req, NEW decoded
  PROVE  /\ deny_chain(rs, req) \in {"deny", "skip"}
         /\ deny_contract(rs, req) \in {"deny", "skip"}
         /\ allow_chain(rs, req) \in {"deny", "skip", "pass"}
         /\ allow_contract(rs, req) \in {"deny", "skip", "pass"}
         /\ allow_method(rs, req, decoded) \in {"deny", "skip", "pass"}
         /\ value_cap(rs, req, decoded) \in {"deny", "skip", "error"}
         /\ time_window(rs, req) \in {"deny", "skip"}
  <1>1. \A b : Denies(b) \in {"deny", "skip"}
    BY Zenon DEF Denies
  <1>2. \A a, b : Filter(a, b) \in {"deny", "skip", "pass"}
    BY Zenon DEF Filter
  <1>3. value_cap(rs, req, decoded) \in {"deny", "skip", "error"}
    BY Zenon DEF value_cap
  <1> QED
    BY Zenon, <1>1, <1>2, <1>3
    DEF deny_chain, deny_contract, allow_chain, allow_contract, allow_method, time_window

\* The seven stages, by their number.
LEMMA StagesByNumber ==
  ASSUME NEW rs, NEW req, NEW decoded
  PROVE  LET stages == AdmissionStages(rs, req, decoded) IN
         /\ DOMAIN stages = 1 .. 7
         /\ stages[1].reason = "ChainDenied" /\ stages[1].verdict = deny_chain(rs, req)
         /\ stages[2].reason = "contract-denied" /\ stages[2].verdict = deny_contract(rs, req)
         /\ stages[3].reason = "ChainNotAllowed" /\ stages[3].verdict = allow_chain(rs, req)
         /\ stages[4].reason = "contract-not-on-allow-list"
         /\ stages[4].verdict = allow_contract(rs, req)
         /\ stages[5].reason = "method-not-allowed"
         /\ stages[5].verdict = allow_method(rs, req, decoded)
         /\ stages[6].reason = "value-cap-exceeded"
         /\ stages[6].verdict = value_cap(rs, req, decoded)
         /\ stages[7].reason = "outside-time-window" /\ stages[7].verdict = time_window(rs, req)
  BY SMT DEF AdmissionStages, Stage

\* A stage fails only on a cap that does not parse, and no stage speaks for
\* the rate limiter.
LEMMA StageAt ==
  ASSUME NEW rs, NEW req, NEW decoded, NEW n \in 1 .. 7
  PROVE  LET stage == AdmissionStages(rs, req, decoded)[n] IN
         /\ stage.reason # "rate-limited"
         /\ stage.verdict = "error" => value_cap(rs, req, decoded) = "error"
  BY SMT, StagesByNumber, StageVerdicts

\* validate() has parsed every cap.
LEMMA CapsParse ==
  ASSUME NEW rs, NEW req, NEW decoded, Numbered(rs), validate(rs)
  PROVE  value_cap(rs, req, decoded) # "error"
  <1> DEFINE v == Field(decoded, "value")
             S == {j \in DOMAIN rs.rules : CapStops(rs.rules[j], req, v)}
             i == FirstOf(S)
  <1>1. S \subseteq Nat \ {0}
    BY Zenon DEF Numbered
  <1>2. CASE i = 0
    BY Zenon, <1>2 DEF value_cap
  <1>3. CASE i # 0
    <2>1. i \in S
      BY Zenon, <1>1, <1>3, FirstOfHits
    <2>2. rs.rules[i].kind = "ValueCap" /\ RuleIsValid(rs.rules[i])
      BY Zenon, <2>1 DEF CapStops, CapsChain, validate
    <2>3. rs.rules[i].max_value.parses
      BY Zenon, <2>2 DEF RuleIsValid
    <2> QED
      BY Zenon, <1>3, <2>3 DEF value_cap
  <1> QED
    BY Zenon, <1>2, <1>3

\* What the stages before the rate limiter say, of a policy that was loaded.
LEMMA AdmissionDecides ==
  ASSUME NEW rs, NEW req, NEW decoded, Numbered(rs), validate(rs)
  PROVE  LET a == Admission(rs, req, decoded) IN
         \/ a.kind = "Admitted"
         \/ a.kind = "Deny" /\ a.reason # "rate-limited"
  <1> DEFINE stages == AdmissionStages(rs, req, decoded)
  <1>1. DOMAIN stages = 1 .. 7
    BY SMT, StagesByNumber
  <1>a. DOMAIN stages \subseteq Nat
    BY SMT, <1>1
  <1>2. CASE Stops(stages) = {}
    BY SMT, <1>a, <1>2, RunStagesDecides DEF Admission
  <1>3. CASE Stops(stages) # {}
    <2>1. PICK n \in Stops(stages) : RunStages(stages) =
            IF stages[n].verdict = "error" THEN [kind |-> "Misconfiguration"]
            ELSE [kind |-> "Deny", reason |-> stages[n].reason,
                  rationale |-> Append(Passed(stages, n), stages[n].id)]
      BY Zenon, <1>a, <1>3, RunStagesDecides
    <2>2. n \in 1 .. 7
      BY Zenon, <1>1 DEF Stops
    <2>3. stages[n].reason # "rate-limited" /\ stages[n].verdict # "error"
      BY ZenonT(40), <2>2, StageAt, CapsParse
    <2> QED
      BY SMT, <2>1, <2>3 DEF Admission
  <1> QED
    BY Zenon, <1>2, <1>3

\* What the stages after the rate limiter say.
LEMMA ConclusionDecides ==
  ASSUME NEW rs, NEW req, NEW decoded, NEW rationale, Numbered(rs)
  PROVE  LET c == Conclusion(rs, req, decoded, rationale)
             shapes == {i \in DOMAIN rs.rules : ShapeStops(rs.rules[i], req, decoded)}
             quorums == {i \in DOMAIN rs.rules : AsksQuorum(rs.rules[i], req, decoded)}
         IN  /\ shapes # {} => \/ c.kind = "Deny" /\ c.reason = "vm-shape-constraint"
                               \/ c.kind = "Misconfiguration"
             /\ shapes = {} /\ quorums # {} => c.kind \in {"RequireQuorum", "Misconfiguration"}
             /\ shapes = {} /\ quorums = {} =>
                  IF rs.default = "Allow" THEN c.kind = "Allow"
                  ELSE c.kind = "Deny" /\ c.reason = "policy-default"
             /\ validate(rs) => c.kind # "Misconfiguration"
  <1> DEFINE c == Conclusion(rs, req, decoded, rationale)
             shapes == {i \in DOMAIN rs.rules : ShapeStops(rs.rules[i], req, decoded)}
             quorums == {i \in DOMAIN rs.rules : AsksQuorum(rs.rules[i], req, decoded)}
             shape == FirstOf(shapes)
             quorum == FirstOf(quorums)
             by == rs.rules[quorum]
  <1>1. shapes \subseteq Nat \ {0} /\ quorums \subseteq Nat \ {0}
    BY Zenon DEF Numbered
  <1> DEFINE Claim ==
         /\ shapes # {} => \/ c.kind = "Deny" /\ c.reason = "vm-shape-constraint"
                           \/ c.kind = "Misconfiguration"
         /\ shapes = {} /\ quorums # {} => c.kind \in {"RequireQuorum", "Misconfiguration"}
         /\ shapes = {} /\ quorums = {} =>
              IF rs.default = "Allow" THEN c.kind = "Allow"
              ELSE c.kind = "Deny" /\ c.reason = "policy-default"
         /\ validate(rs) => c.kind # "Misconfiguration"
  <1> SUFFICES Claim
    BY Zenon
  <1> HIDE DEF c, shapes, quorums, shape, quorum, by
  <1>2. /\ shape = 0 <=> shapes = {}
        /\ shape # 0 => shape \in shapes
        /\ quorum = 0 <=> quorums = {}
        /\ quorum # 0 => quorum \in quorums
    BY Zenon, <1>1, FirstOfHits DEF shape, quorum
  <1>3. CASE shape # 0 /\ ShapeVerdict(rs.rules[shape], decoded) = "error"
    <2>1. c = [kind |-> "Misconfiguration"]
      BY Zenon, <1>3 DEF Conclusion, c, shape, quorum, shapes, quorums, by
    <2>2. ~ validate(rs)
      <3>1. rs.rules[shape].kind = "VmShape" /\ shape \in DOMAIN rs.rules
        BY Zenon, <1>2, <1>3 DEF ShapeStops, shapes
      <3>2. rs.rules[shape].max_value # None /\ ~rs.rules[shape].max_value.parses
        BY Zenon, <1>3 DEF ShapeVerdict
      <3> QED
        BY Zenon, <3>1, <3>2 DEF validate, RuleIsValid
    <2> QED
      BY Zenon, <1>2, <1>3, <2>1, <2>2
  <1>4. CASE shape # 0 /\ ShapeVerdict(rs.rules[shape], decoded) # "error"
    <2>1. c = [kind |-> "Deny", reason |-> "vm-shape-constraint",
               rationale |-> Append(rationale, ShapeVerdict(rs.rules[shape], decoded))]
      BY Zenon, <1>4 DEF Conclusion, c, shape, quorum, shapes, quorums, by
    <2> QED
      BY Zenon, <1>2, <1>4, <2>1
  <1>5. CASE shape = 0 /\ quorum # 0
    <2>1. c = IF by.trigger.kind = "ValueGte" /\ ~by.trigger.value.parses
              THEN [kind |-> "Misconfiguration"]
              ELSE [kind |-> "RequireQuorum", threshold |-> by.threshold, total |-> by.total,
                    approver_set |-> by.approver_set,
                    rationale |-> Append(rationale, "require-quorum")]
      BY Zenon, <1>5 DEF Conclusion, c, shape, quorum, shapes, quorums, by
    <2>2. validate(rs) /\ by.trigger.kind = "ValueGte" => by.trigger.value.parses
      <3>1. by.kind = "RequireQuorum" /\ quorum \in DOMAIN rs.rules
        BY Zenon, <1>2, <1>5 DEF AsksQuorum, quorums, by
      <3> QED
        BY Zenon, <3>1 DEF validate, RuleIsValid, by
    <2> QED
      BY Zenon, <1>2, <1>5, <2>1, <2>2
  <1>6. CASE shape = 0 /\ quorum = 0
    <2>1. c = IF rs.default = "Allow"
              THEN [kind |-> "Allow", rationale |-> Append(rationale, "default-allow")]
              ELSE [kind |-> "Deny", reason |-> "policy-default",
                    rationale |-> Append(rationale, "default-deny")]
      BY Zenon, <1>6 DEF Conclusion, c, shape, quorum, shapes, quorums, by
    <2> QED
      BY Zenon, <1>2, <1>6, <2>1
  <1> QED
    BY Zenon, <1>3, <1>4, <1>5, <1>6

-----------------------------------------------------------------------------
(* Evaluations *)

Keys == {rate_limit_key(scope, req) : scope \in Scopes, req \in Requests}

\* What the stages before the rate limiter say of the request of evaluation u of policy p.
Verdict(p, u) == Admission(p, u.req, Decoded(p, u.req))

\* The tokens u has taken are those of the first rules.
PaidInOrder(p, u) ==
  /\ u.req \in Requests /\ u.paid \in Seq(Keys) /\ Len(u.paid) <= Len(RateRules(p))
  /\ \A i \in 1 .. Len(u.paid) : u.paid[i] = rate_limit_key(RateRules(p)[i].scope, u.req)

Suspended(p, u) ==
  /\ u.pc \in {"limit", "clocked"} /\ Len(u.paid) < Len(RateRules(p))
  /\ Verdict(p, u).kind = "Admitted" /\ u.rationale = Verdict(p, u).rationale
  /\ u.pc = "clocked" => u.now_ms \in Nat

Ended(p, u) ==
  /\ u.pc = "done"
  /\ \/ Verdict(p, u).kind # "Admitted" /\ Len(u.paid) = 0 /\ u.decision = Verdict(p, u)
     \/ /\ Verdict(p, u).kind = "Admitted" /\ Len(u.paid) = Len(RateRules(p))
        /\ u.decision = Conclusion(p, u.req, Decoded(p, u.req), Verdict(p, u).rationale)
     \/ /\ Verdict(p, u).kind = "Admitted" /\ Len(u.paid) < Len(RateRules(p))
        /\ u.decision.kind = "Deny" /\ u.decision.reason = "rate-limited"

TaskAt(p, u) ==
  u = Idle \/ (p # None /\ PaidInOrder(p, u) /\ (Suspended(p, u) \/ Ended(p, u) \/ u.pc = "dropped"))

Loaded == policy = None \/ (policy \in Policies /\ validate(policy))
EvalInv == /\ Loaded /\ now \in Nat /\ DOMAIN task = Tasks
           /\ \A t \in Tasks : TaskAt(policy, task[t])

\* An evaluation that goes on is suspended or has ended.
LEMMA ProceedAt ==
  ASSUME policy # None, NEW req \in Requests, NEW paid \in Seq(Keys),
         Len(paid) <= Len(RateRules(policy)),
         \A i \in 1 .. Len(paid) : paid[i] = rate_limit_key(RateRules(policy)[i].scope, req),
         Admission(policy, req, Decoded(policy, req)).kind = "Admitted",
         Len(RateRules(policy)) \in Nat
  PROVE  TaskAt(policy, Proceed(req, Admission(policy, req, Decoded(policy, req)).rationale, paid))
  <1> DEFINE a == Admission(policy, req, Decoded(policy, req))
             rules == RateRules(policy)
             u == Proceed(req, a.rationale, paid)
  <1>1. CASE Len(paid) < Len(rules)
    <2>1. u = [pc |-> "limit", req |-> req, rationale |-> a.rationale, paid |-> paid]
      BY Zenon, <1>1 DEF Proceed
    <2> HIDE DEF u
    <2>2. u.pc = "limit" /\ u.req = req /\ u.rationale = a.rationale /\ u.paid = paid
      BY Zenon, <2>1
    <2>3. Suspended(policy, u) /\ PaidInOrder(policy, u)
      BY Zenon, <1>1, <2>2 DEF Suspended, PaidInOrder, Verdict
    <2> QED
      BY Zenon, <2>3 DEF TaskAt, u
  <1>2. CASE ~ (Len(paid) < Len(rules))
    <2>1. u = [pc |-> "done", req |-> req, paid |-> paid,
               decision |-> Conclusion(policy, req, Decoded(policy, req), a.rationale)]
      BY Zenon, <1>2 DEF Proceed
    <2>2. Len(paid) = Len(rules)
      BY SMT, <1>2
    <2> HIDE DEF u
    <2>3. /\ u.pc = "done" /\ u.req = req /\ u.paid = paid
          /\ u.decision = Conclusion(policy, req, Decoded(policy, req), a.rationale)
      BY Zenon, <2>1
    <2>4. Ended(policy, u) /\ PaidInOrder(policy, u)
      BY Zenon, <2>2, <2>3 DEF Ended, PaidInOrder, Verdict
    <2> QED
      BY Zenon, <2>4 DEF TaskAt, u
  <1> QED
    BY Zenon, <1>1, <1>2

\* The tokens of a loaded policy's RateLimit rules.
LEMMA RulesTyped ==
  ASSUME policy \in Policies
  PROVE  RateRules(policy) \in Seq(RateLimits) /\ Len(RateRules(policy)) \in Nat
  <1>1. RateRules(policy) \in Seq(RateLimits)
    BY Zenon, PolicyAssumption
  <1> QED
    BY SMT, <1>1

LEMMA RuleTyped ==
  ASSUME policy \in Policies
  PROVE  /\ DOMAIN RateRules(policy) \subseteq Nat \ {0}
         /\ \A j \in DOMAIN RateRules(policy) :
              RateRules(policy)[j] \in RateLimits /\ RateRules(policy)[j].scope \in Scopes
  <1> DEFINE rules == RateRules(policy)
  <1>1. rules \in Seq(RateLimits)
    BY Zenon, RulesTyped
  <1> HIDE DEF rules
  <1>2. DOMAIN rules \subseteq Nat \ {0} /\ \A j \in DOMAIN rules : rules[j] \in RateLimits
    BY SMT, <1>1
  <1>3. \A r \in RateLimits : r.scope \in Scopes
    BY SMT DEF RateLimits
  <1> QED
    BY Zenon, <1>2, <1>3 DEF rules

LEMMA PolicyNumbered ==
  ASSUME policy \in Policies
  PROVE  Numbered(policy)
  <1> DEFINE rules == policy.rules
  <1>1. rules \in Seq({rules[i] : i \in DOMAIN rules})
    BY Zenon, PolicyAssumption
  <1> HIDE DEF rules
  <1>2. DOMAIN rules \subseteq Nat \ {0}
    BY SMT, <1>1
  <1> QED
    BY Zenon, <1>2 DEF Numbered, rules

LEMMA IdlePc == Idle.pc = "idle"
  BY Zenon DEF Idle

\* A step of one evaluation.
LEMMA TaskMoves ==
  ASSUME EvalInv, policy' = policy, now' = now, NEW t \in Tasks, NEW u, TaskAt(policy, u),
         task' = [task EXCEPT ![t] = u]
  PROVE  EvalInv'
  BY Zenon DEF EvalInv, Loaded

LEMMA EvaluateKeeps ==
  ASSUME EvalInv, NEW t \in Tasks, NEW req \in Requests, Evaluate(t, req)
  PROVE  EvalInv'
  <1> DEFINE a == Admission(policy, req, Decoded(policy, req))
  <1>1. policy \in Policies /\ policy # None /\ policy' = policy /\ now' = now
    BY Zenon DEF EvalInv, Loaded, Evaluate
  <1>2. << >> \in Seq(Keys) /\ Len(<< >>) = 0 /\ 1 .. 0 = {} /\ 0 <= Len(RateRules(policy))
    BY SMT, <1>1, RulesTyped
  <1>3. CASE a.kind = "Admitted"
    <2>1. TaskAt(policy, Proceed(req, a.rationale, << >>))
      BY Zenon, <1>1, <1>2, <1>3, ProceedAt, RulesTyped
    <2> QED
      BY Zenon, <1>1, <1>3, <2>1, TaskMoves DEF Evaluate
  <1>4. CASE a.kind # "Admitted"
    <2> DEFINE u == [pc |-> "done", req |-> req, paid |-> << >>, decision |-> a]
    <2>1. u.pc = "done" /\ u.req = req /\ u.paid = << >> /\ u.decision = a
      BY Zenon
    <2>2. task' = [task EXCEPT ![t] = u]
      BY Zenon, <1>4 DEF Evaluate
    <2> HIDE DEF u
    <2>3. TaskAt(policy, u)
      BY Zenon, <1>1, <1>2, <1>4, <2>1 DEF TaskAt, PaidInOrder, Ended, Verdict
    <2> QED
      BY Zenon, <1>1, <2>2, <2>3, TaskMoves
  <1> QED
    BY Zenon, <1>3, <1>4

\* The record of a suspended evaluation.
LEMMA ReadClockKeeps ==
  ASSUME EvalInv, NEW t \in Tasks, ReadClock(t)
  PROVE  EvalInv'
  <1> DEFINE v == task[t]
             u == [pc |-> "clocked", req |-> v.req, rationale |-> v.rationale, paid |-> v.paid,
                   now_ms |-> now]
  <1>1. policy' = policy /\ now' = now /\ now \in Nat /\ task' = [task EXCEPT ![t] = u]
    BY Zenon DEF EvalInv, ReadClock
  <1>2. policy # None /\ PaidInOrder(policy, v) /\ Suspended(policy, v)
    BY Zenon, IdlePc DEF EvalInv, ReadClock, TaskAt, Ended
  <1>3. /\ u.pc = "clocked" /\ u.req = v.req /\ u.rationale = v.rationale /\ u.paid = v.paid
        /\ u.now_ms = now
    BY Zenon
  <1> HIDE DEF u
  <1>4. TaskAt(policy, u)
    BY Zenon, <1>1, <1>2, <1>3 DEF TaskAt, PaidInOrder, Suspended, Verdict
  <1> QED
    BY Zenon, <1>1, <1>4, TaskMoves

LEMMA DropKeeps ==
  ASSUME EvalInv, NEW t \in Tasks, Drop(t)
  PROVE  EvalInv'
  <1> DEFINE v == task[t]
             u == [pc |-> "dropped", req |-> v.req, paid |-> v.paid]
  <1>1. policy' = policy /\ now' = now /\ task' = [task EXCEPT ![t] = u]
    BY Zenon DEF Drop
  <1>2. policy # None /\ PaidInOrder(policy, v)
    BY Zenon, IdlePc DEF EvalInv, Drop, TaskAt
  <1>3. u.pc = "dropped" /\ u.req = v.req /\ u.paid = v.paid
    BY Zenon
  <1> HIDE DEF u
  <1>4. TaskAt(policy, u)
    BY Zenon, <1>2, <1>3 DEF TaskAt, PaidInOrder
  <1> QED
    BY Zenon, <1>1, <1>4, TaskMoves

\* The rule a suspended evaluation is at, and its bucket.
RuleOf(u) == RateRules(policy)[Len(u.paid) + 1]
KeyOf(u) == rate_limit_key(RuleOf(u).scope, u.req)

\* An evaluation that holds the mutex.
LEMMA AtTheMutex ==
  ASSUME EvalInv, NEW t \in Tasks, task[t].pc \in {"limit", "clocked"}
  PROVE  LET u == task[t] IN
         /\ policy \in Policies /\ policy # None /\ PaidInOrder(policy, u) /\ Suspended(policy, u)
         /\ RuleOf(u) \in RateLimits /\ KeyOf(u) \in Keys
         /\ Len(u.paid) \in Nat /\ Len(u.paid) + 1 \in DOMAIN RateRules(policy)
  <1> DEFINE u == task[t]
  <1>1. policy \in Policies /\ policy # None /\ PaidInOrder(policy, u) /\ Suspended(policy, u)
    BY Zenon, IdlePc DEF EvalInv, TaskAt, Ended, Loaded
  <1>2. RateRules(policy) \in Seq(RateLimits)
    BY Zenon, <1>1, RulesTyped
  <1>3. u.paid \in Seq(Keys) /\ Len(u.paid) < Len(RateRules(policy)) /\ u.req \in Requests
    BY Zenon, <1>1 DEF PaidInOrder, Suspended
  <1>4. RuleOf(u) \in RateLimits /\ Len(u.paid) \in Nat /\ Len(u.paid) + 1 \in DOMAIN RateRules(policy)
    BY SMT, <1>2, <1>3 DEF RuleOf
  <1>5. RuleOf(u).scope \in Scopes
    BY SMT, <1>4 DEF RateLimits
  <1>6. KeyOf(u) \in Keys
    BY SMT, <1>3, <1>5 DEF KeyOf, Keys
  <1> QED
    BY Zenon, <1>1, <1>4, <1>6

\* The evaluation after it held the mutex.
After(u, ok) ==
  IF ok THEN Proceed(u.req, u.rationale, Append(u.paid, KeyOf(u)))
  ELSE [pc |-> "done", req |-> u.req, paid |-> u.paid,
        decision |-> [kind |-> "Deny", reason |-> "rate-limited",
                      rationale |-> Append(u.rationale, "rate-limit")]]

LEMMA LockEffect ==
  ASSUME NEW t \in Tasks, Lock(t)
  PROVE  LET u == task[t]
             e == Refilled(KeyOf(u), RuleOf(u), u.now_ms)
             ok == e.tokens >= Scale
             left == IF ok THEN [e EXCEPT !.tokens = @ - Scale] ELSE e
         IN  /\ u.pc = "clocked" /\ policy' = policy /\ now' = now
             /\ bucket' = [k \in DOMAIN bucket \cup {KeyOf(u)} |->
                             IF k = KeyOf(u) THEN left ELSE bucket[k]]
             /\ task' = [task EXCEPT ![t] = After(u, ok)]
  BY Zenon DEF Lock, KeyOf, RuleOf, After

LEMMA LockKeeps ==
  ASSUME EvalInv, NEW t \in Tasks, Lock(t)
  PROVE  EvalInv'
  <1> DEFINE u == task[t]
             ok == Refilled(KeyOf(u), RuleOf(u), u.now_ms).tokens >= Scale
  <1>1. u.pc = "clocked" /\ policy' = policy /\ now' = now /\ task' = [task EXCEPT ![t] = After(u, ok)]
    BY Zenon, LockEffect
  <1>2. /\ policy \in Policies /\ policy # None /\ PaidInOrder(policy, u) /\ Suspended(policy, u)
        /\ KeyOf(u) \in Keys /\ Len(u.paid) \in Nat
    BY Zenon, <1>1, AtTheMutex
  <1> HIDE DEF ok
  <1>3. CASE ok
    <2> DEFINE paid == Append(u.paid, KeyOf(u))
    <2>1. u.paid \in Seq(Keys) /\ u.req \in Requests
      BY Zenon, <1>2 DEF PaidInOrder
    <2>2. /\ paid \in Seq(Keys) /\ Len(paid) = Len(u.paid) + 1 /\ paid[Len(u.paid) + 1] = KeyOf(u)
          /\ \A i \in 1 .. Len(u.paid) : paid[i] = u.paid[i]
      BY SMT, <1>2, <2>1
    <2> HIDE DEF paid
    <2>3. Len(RateRules(policy)) \in Nat
      BY Zenon, <1>2, RulesTyped
    <2>4. Len(paid) <= Len(RateRules(policy))
      BY SMT, <1>2, <2>2, <2>3 DEF Suspended
    <2>5. ASSUME NEW i \in 1 .. Len(paid)
          PROVE  paid[i] = rate_limit_key(RateRules(policy)[i].scope, u.req)
      <3>1. i \in 1 .. Len(u.paid) \/ i = Len(u.paid) + 1
        BY SMT, <1>2, <2>2
      <3> QED
        BY Zenon, <1>2, <2>2, <3>1 DEF PaidInOrder, KeyOf, RuleOf
    <2>6. TaskAt(policy, Proceed(u.req, u.rationale, paid))
      BY Zenon, <1>2, <2>1, <2>2, <2>3, <2>4, <2>5, ProceedAt DEF Suspended, Verdict
    <2> QED
      BY Zenon, <1>1, <1>3, <2>6, TaskMoves DEF After, paid
  <1>4. CASE ~ ok
    <2> DEFINE w == After(u, ok)
    <2>1. /\ w.pc = "done" /\ w.req = u.req /\ w.paid = u.paid
          /\ w.decision.kind = "Deny" /\ w.decision.reason = "rate-limited"
      BY Zenon, <1>4 DEF After
    <2> HIDE DEF w
    <2>2. TaskAt(policy, w)
      BY Zenon, <1>2, <2>1 DEF TaskAt, PaidInOrder, Ended, Suspended, Verdict
    <2> QED
      BY Zenon, <1>1, <2>2, TaskMoves DEF w
  <1> QED
    BY Zenon, <1>3, <1>4

\* Every step keeps the invariant of the evaluations.
LEMMA EvalStep == EvalInv /\ [Next]_vars => EvalInv'
  <1> SUFFICES ASSUME EvalInv, [Next]_vars PROVE EvalInv'
    BY Zenon
  <1>1. CASE Load
    <2>1. \A t \in Tasks : task[t] = Idle
      BY Zenon, <1>1 DEF Load, EvalInv, TaskAt
    <2> QED
      BY Zenon, <1>1, <2>1 DEF Load, EvalInv, TaskAt, Loaded
  <1>2. CASE \E t \in Tasks : \/ \E req \in Requests : Evaluate(t, req)
                              \/ ReadClock(t) \/ Lock(t) \/ Drop(t)
    BY Zenon, <1>2, EvaluateKeeps, ReadClockKeeps, LockKeeps, DropKeeps
  <1>3. CASE Tick
    <2>1. now' \in Nat
      BY SMT, <1>3 DEF EvalInv, Tick
    <2> QED
      BY Zenon, <1>3, <2>1 DEF EvalInv, Tick, Loaded
  <1>4. CASE UNCHANGED vars
    BY Zenon, <1>4 DEF EvalInv, vars, Loaded
  <1> QED
    BY Zenon, <1>1, <1>2, <1>3, <1>4 DEF Next

LEMMA EvalAlways == Spec => []EvalInv
  <1>1. Init => EvalInv
    BY SMT DEF Init, EvalInv, Loaded, TaskAt
  <1> QED
    BY <1>1, EvalStep, PTL DEF Spec

-----------------------------------------------------------------------------
(* Decisions *)

\* A policy that validate() let pass never fails an evaluation: the value caps
\* and triggers that evaluate() parses again are those that parsed at load time.
THEOREM LoadedPoliciesNeverFail == Spec => []LoadedPolicyNeverFails
  <1>1. EvalInv => LoadedPolicyNeverFails
    <2> SUFFICES ASSUME EvalInv, NEW t \in Tasks, Done(t)
                 PROVE  task[t].decision.kind # "Misconfiguration"
      BY Zenon DEF LoadedPolicyNeverFails
    <2> DEFINE u == task[t]
               c == Conclusion(policy, u.req, Decoded(policy, u.req), Verdict(policy, u).rationale)
    <2>1. policy \in Policies /\ validate(policy) /\ Ended(policy, u)
      BY Zenon, IdlePc DEF EvalInv, TaskAt, Loaded, Done, Suspended
    <2>2. Numbered(policy)
      BY Zenon, <2>1, PolicyNumbered
    <2>3. Verdict(policy, u).kind \in {"Admitted", "Deny"}
      BY SMT, <2>1, <2>2, AdmissionDecides DEF Verdict
    <2>4. c.kind # "Misconfiguration"
      BY Zenon, <2>1, <2>2, ConclusionDecides
    <2> QED
      BY Zenon, <2>1, <2>3, <2>4 DEF Ended
  <1> QED
    BY <1>1, EvalAlways, PTL

\* Tokens are taken only for requests that passed the stages before the rate
\* limiter, one per RateLimit rule and in order, and evaluate() decides what the
\* tokens taken say, however evaluations interleave between two rules.
THEOREM TokensAndDecisionsMatch == Spec => []TokensMatchDecision
  <1>1. EvalInv => TokensMatchDecision
    <2> SUFFICES ASSUME EvalInv, NEW t \in Tasks, Done(t)
                 PROVE  LET d == task[t].decision
                            rules == RateRules(policy)
                            a == Admission(policy, task[t].req, Decoded(policy, task[t].req))
                            n == Len(task[t].paid)
                        IN  /\ \A i \in 1 .. n :
                                 task[t].paid[i] = rate_limit_key(rules[i].scope, task[t].req)
                            /\ a.kind # "Admitted" => n = 0 /\ d = a
                            /\ Limited(t) => n < Len(rules)
                            /\ a.kind = "Admitted" /\ ~Limited(t) =>
                                 /\ n = Len(rules)
                                 /\ d = Unlimited(policy, task[t].req, Decoded(policy, task[t].req))
      BY Zenon DEF TokensMatchDecision
    <2> DEFINE u == task[t]
               a == Verdict(policy, u)
               c == Conclusion(policy, u.req, Decoded(policy, u.req), a.rationale)
    <2>1. /\ policy \in Policies /\ validate(policy) /\ Ended(policy, u)
          /\ PaidInOrder(policy, u)
      BY Zenon, IdlePc DEF EvalInv, TaskAt, Loaded, Done, Suspended
    <2>2. Numbered(policy) /\ Len(RateRules(policy)) \in Nat
      BY Zenon, <2>1, PolicyNumbered, RulesTyped
    <2>3. a.kind = "Admitted" \/ (a.kind = "Deny" /\ a.reason # "rate-limited")
      BY SMT, <2>1, <2>2, AdmissionDecides DEF Verdict
    <2>4. c.kind # "Deny" \/ c.reason # "rate-limited"
      BY SMT, <2>1, <2>2, ConclusionDecides
    <2>5. a.kind # "Admitted" => Len(u.paid) = 0 /\ u.decision = a /\ ~Limited(t)
      BY Zenon, <2>1, <2>3 DEF Ended, Limited
    <2>6. a.kind = "Admitted" /\ Limited(t) => Len(u.paid) < Len(RateRules(policy))
      BY Zenon, <2>1, <2>4 DEF Ended, Limited
    <2>7. a.kind = "Admitted" /\ ~Limited(t) => Len(u.paid) = Len(RateRules(policy)) /\ u.decision = c
      BY Zenon, <2>1 DEF Ended, Limited
    <2> QED
      BY Zenon, <2>1, <2>5, <2>6, <2>7 DEF PaidInOrder, Verdict, Unlimited
  <1> QED
    BY <1>1, EvalAlways, PTL

-----------------------------------------------------------------------------
(* Buckets *)

\* The evaluations that took the token of rule i from the bucket of key k.
Payers(tasks, i, k) ==
  {u \in Tasks : tasks[u] # Idle /\ Len(tasks[u].paid) >= i /\ tasks[u].paid[i] = k}

OneRulePerScope(p) ==
  \A j, k \in DOMAIN RateRules(p) : RateRules(p)[j].scope = RateRules(p)[k].scope => j = k

BucketInv == /\ policy = None => DOMAIN bucket = {}
             /\ \A k \in DOMAIN bucket : bucket[k] \in [tokens : Nat, last_refill : Nat]

\* The tokens left in a bucket of a rule and those taken from it are at least
\* the rule's capacity.
Covered(i, k) ==
  bucket[k].tokens + Scale * Cardinality(Payers(task, i, k)) >= Scale * RateRules(policy)[i].tokens

CreditInv ==
  \A i \in DOMAIN RateRules(policy), k \in DOMAIN bucket :
    (\E req \in Requests : k = rate_limit_key(RateRules(policy)[i].scope, req)) => Covered(i, k)

IsLimited(u) == u.pc = "done" /\ u.decision.kind = "Deny" /\ u.decision.reason = "rate-limited"

\* Whoever was limited was limited by as many payers as the rule has tokens.
LimitedInv ==
  \A t \in Tasks : IsLimited(task[t]) =>
    Cardinality(Payers(task, Len(task[t].paid) + 1, KeyOf(task[t]))) >= RuleOf(task[t]).tokens

LimitInv == BucketInv /\ (policy # None /\ OneRulePerScope(policy) => CreditInv /\ LimitedInv)

\* Whoever was limited stopped at a rule.
LEMMA StoppedAtARule ==
  ASSUME EvalInv, NEW t \in Tasks, IsLimited(task[t])
  PROVE  /\ policy \in Policies /\ policy # None /\ PaidInOrder(policy, task[t])
         /\ Len(task[t].paid) + 1 \in DOMAIN RateRules(policy)
  <1> DEFINE u == task[t]
             rules == RateRules(policy)
             c == Conclusion(policy, u.req, Decoded(policy, u.req), Verdict(policy, u).rationale)
  <1>1. /\ policy \in Policies /\ policy # None /\ validate(policy)
        /\ PaidInOrder(policy, u) /\ Ended(policy, u)
    BY Zenon, IdlePc DEF EvalInv, Loaded, TaskAt, Suspended, IsLimited
  <1>2. Numbered(policy)
    BY Zenon, <1>1, PolicyNumbered
  <1>3. Verdict(policy, u).kind # "Deny" \/ Verdict(policy, u).reason # "rate-limited"
    BY SMT, <1>1, <1>2, AdmissionDecides DEF Verdict
  <1>4. c.kind # "Deny" \/ c.reason # "rate-limited"
    BY SMT, <1>1, <1>2, ConclusionDecides
  <1>5. u.paid \in Seq(Keys) /\ Len(u.paid) < Len(rules)
    BY Zenon, <1>1, <1>3, <1>4 DEF Ended, IsLimited, PaidInOrder
  <1>6. rules \in Seq(RateLimits)
    BY Zenon, <1>1, RulesTyped
  <1> HIDE DEF rules
  <1>7. Len(u.paid) + 1 \in DOMAIN rules
    BY SMT, <1>5, <1>6
  <1> QED
    BY Zenon, <1>1, <1>7 DEF rules

LEMMA ScaleIsPositive == Scale \in Nat /\ Scale >= 1
  BY SMT, PolicyAssumption

\* A key says which scope it is of and which subject.
LEMMA KeysTellSubjects ==
  ASSUME NEW r \in Requests, NEW q \in Requests, NEW a \in Scopes, NEW b \in Scopes,
         rate_limit_key(a, r) = rate_limit_key(b, q)
  PROVE  a = b /\ SameSubject(a, r, q)
  <1>1. a = b
    BY SMT DEF rate_limit_key, Scopes
  <1>2. a \in {"PerWallet", "PerWalletRequester"} => r.wallet = q.wallet
    BY SMT, <1>1 DEF rate_limit_key, Scopes
  <1>3. a \in {"PerRequester", "PerWalletRequester"} => requester_key(r) = requester_key(q)
    BY SMT, <1>1 DEF rate_limit_key, Scopes
  <1>4. requester_key(r) = requester_key(q) =>
          r.requester.variant = q.requester.variant /\ r.requester.id = q.requester.id
    BY SMT DEF requester_key
  <1>5. requester_key(r) = requester_key(q) => r.requester = q.requester
    BY Zenon, <1>4, PolicyAssumption
  <1> QED
    BY Zenon, <1>1, <1>2, <1>3, <1>5 DEF SameSubject

\* What a refill leaves in the bucket: no fewer tokens than before, or a full
\* bucket.
LEMMA RefillKeeps ==
  ASSUME BucketInv, NEW key, NEW rule \in RateLimits, NEW now_ms \in Nat
  PROVE  LET e == Refilled(key, rule, now_ms) IN
         /\ e \in [tokens : Nat, last_refill : Nat]
         /\ \/ key \in DOMAIN bucket /\ e.tokens >= bucket[key].tokens
            \/ e.tokens = Scale * rule.tokens
  <1> DEFINE old == IF key \in DOMAIN bucket THEN bucket[key]
                    ELSE [tokens |-> rule.tokens * Scale, last_refill |-> now_ms]
             since == Max({0, now_ms - old.last_refill})
             more == old.tokens + since * (Scale \div rule.refill)
             full == rule.tokens * Scale
  <1>1. rule.tokens \in Nat /\ rule.refill \in Nat
    BY SMT DEF RateLimits
  <1>2. full \in Nat /\ full = Scale * rule.tokens
    BY SMT, <1>1, ScaleIsPositive
  <1>3. old \in [tokens : Nat, last_refill : Nat]
    BY SMT, <1>2 DEF BucketInv
  <1>4. key \notin DOMAIN bucket => old.tokens = full
    BY Zenon
  <1>5. key \in DOMAIN bucket => old = bucket[key]
    BY Zenon
  <1> HIDE DEF old
  <1>6. CASE rule.refill = 0
    <2>1. Refilled(key, rule, now_ms) = old
      BY Zenon, <1>6 DEF Refilled, old
    <2> QED
      BY SMT, <1>2, <1>3, <1>4, <1>5, <2>1
  <1>7. CASE rule.refill # 0
    <2>1. Refilled(key, rule, now_ms) = [tokens |-> Min({full, more}), last_refill |-> now_ms]
      BY Zenon, <1>7 DEF Refilled, old
    <2>2. since \in Nat
      <3>1. now_ms - old.last_refill \in Int /\ 0 \in Int
        BY SMT, <1>3
      <3>2. since = IF 0 >= now_ms - old.last_refill THEN 0 ELSE now_ms - old.last_refill
        BY Zenon, <3>1, TwoNumbers
      <3> HIDE DEF since
      <3> QED
        BY SMT, <3>1, <3>2
    <2> HIDE DEF since
    <2>3. Scale \div rule.refill \in Nat
      BY SMT, <1>1, <1>7, ScaleIsPositive
    <2>4. more \in Nat /\ more >= old.tokens
      <3>1. ASSUME NEW x \in Nat, NEW y \in Nat PROVE x * y \in Nat
        BY SMT
      <3>2. since * (Scale \div rule.refill) \in Nat
        BY Zenon, <2>2, <2>3, <3>1
      <3> QED
        BY SMT, <1>3, <3>2
    <2> HIDE DEF more, full
    <2>5. Min({full, more}) = IF full <= more THEN full ELSE more
      BY SMT, <1>2, <2>4, TwoNumbers
    <2>6. Min({full, more}) \in Nat /\ (Min({full, more}) = full \/ Min({full, more}) >= old.tokens)
      BY SMT, <1>2, <2>4, <2>5
    <2> DEFINE m == Min({full, more})
               e == Refilled(key, rule, now_ms)
    <2> HIDE DEF m, e
    <2>7. e \in [tokens : Nat, last_refill : Nat] /\ e.tokens = m
      BY SMT, <2>1, <2>6 DEF m, e
    <2>8. \/ key \in DOMAIN bucket /\ m >= bucket[key].tokens
          \/ m = Scale * rule.tokens
      <3>1. CASE key \in DOMAIN bucket
        BY SMT, <1>2, <1>5, <2>6, <3>1 DEF m
      <3>2. CASE key \notin DOMAIN bucket
        <4>1. m = full
          BY SMT, <1>2, <1>4, <2>4, <2>5, <3>2 DEF m
        <4> QED
          BY Zenon, <1>2, <4>1
      <3> QED
        BY Zenon, <3>1, <3>2
    <2> QED
      BY Zenon, <2>7, <2>8 DEF e
  <1> QED
    BY Zenon, <1>6, <1>7

\* Only the holder of the mutex becomes a payer.
LEMMA PayersKept ==
  ASSUME NEW t \in Tasks, NEW u, DOMAIN task = Tasks, task' = [task EXCEPT ![t] = u], u # Idle,
         \/ task[t] # Idle /\ u.paid = task[t].paid
         \/ task[t] = Idle /\ u.paid = << >>,
         NEW i \in Nat \ {0}, NEW k
  PROVE  Payers(task', i, k) = Payers(task, i, k)
  <1>1. ~ (Len(<< >>) >= i)
    BY SMT
  <1> QED
    BY Zenon, <1>1 DEF Payers

LEMMA PayersFinite ==
  ASSUME NEW tasks, NEW i, NEW k
  PROVE  IsFiniteSet(Payers(tasks, i, k)) /\ Cardinality(Payers(tasks, i, k)) \in Nat
  <1>1. Payers(tasks, i, k) \subseteq Tasks
    BY Zenon DEF Payers
  <1> QED
    BY Zenon, <1>1, PolicyAssumption, FS_Subset, FS_CardinalityType

\* A step that takes no token and limits nobody.
LEMMA NothingTaken ==
  ASSUME EvalInv, LimitInv, policy \in Policies, policy' = policy, bucket' = bucket,
         NEW t \in Tasks, NEW u, task' = [task EXCEPT ![t] = u], u # Idle, ~IsLimited(u),
         \/ task[t] # Idle /\ u.paid = task[t].paid
         \/ task[t] = Idle /\ u.paid = << >>
  PROVE  LimitInv'
  <1>1. DOMAIN task = Tasks /\ \A s \in Tasks : s # t => task'[s] = task[s]
    BY Zenon DEF EvalInv
  <1>2. \A i \in Nat \ {0} : \A k : Payers(task', i, k) = Payers(task, i, k)
    BY Zenon, <1>1, PayersKept
  <1>3. BucketInv'
    BY Zenon DEF LimitInv, BucketInv
  <1>4. ASSUME OneRulePerScope(policy), CreditInv, LimitedInv PROVE CreditInv' /\ LimitedInv'
    <2>1. DOMAIN RateRules(policy) \subseteq Nat \ {0}
      BY SMT, RulesTyped
    <2>2. CreditInv'
      <3>1. ASSUME NEW i \in DOMAIN RateRules(policy), NEW k \in DOMAIN bucket, Covered(i, k)
            PROVE  Covered(i, k)'
        <4>1. Payers(task', i, k) = Payers(task, i, k)
          BY Zenon, <1>2, <2>1
        <4> QED
          BY Zenon, <3>1, <4>1 DEF Covered
      <3> QED
        BY Zenon, <1>4, <3>1 DEF CreditInv
    <2>3. ASSUME NEW s \in Tasks, IsLimited(task'[s])
          PROVE  Cardinality(Payers(task', Len(task'[s].paid) + 1, KeyOf(task[s])))
                   >= RuleOf(task[s]).tokens
      <3>1. s # t /\ task'[s] = task[s]
        BY Zenon, <1>1, <2>3
      <3>2. task[s] # Idle
        BY Zenon, <2>3, <3>1, IdlePc DEF IsLimited
      <3>3. Len(task[s].paid) + 1 \in Nat \ {0}
        <4>1. task[s].paid \in Seq(Keys)
          BY Zenon, <3>2 DEF EvalInv, TaskAt, PaidInOrder
        <4> QED
          BY SMT, <4>1
      <3> QED
        BY Zenon, <1>2, <1>4, <2>3, <3>1, <3>3 DEF LimitedInv
    <2>4. LimitedInv'
      <3>1. ASSUME NEW s \in Tasks, IsLimited(task'[s]) PROVE task'[s] = task[s]
        BY Zenon, <1>1, <3>1
      <3> QED
        BY Zenon, <2>3, <3>1 DEF LimitedInv, IsLimited, KeyOf, RuleOf
    <2> QED
      BY Zenon, <2>2, <2>4
  <1> QED
    BY Zenon, <1>3, <1>4 DEF LimitInv, OneRulePerScope

\* Less than one token is left: the payers took them all.
LEMMA TokensAreGone ==
  ASSUME NEW x \in Nat, NEW c \in Nat, NEW n \in Nat, x < Scale, x + Scale * c >= Scale * n
  PROVE  c >= n
  <1> SUFFICES ASSUME c < n PROVE FALSE
    BY SMT
  <1> DEFINE d == n - c - 1
  <1>1. d \in Nat /\ n = c + 1 + d
    BY SMT
  <1> HIDE DEF d
  <1>2. Scale * n = Scale * c + Scale + Scale * d /\ Scale * d >= 0
    BY SMT, <1>1, ScaleIsPositive
  <1>3. Scale * n \in Nat /\ Scale * c \in Nat /\ Scale * d \in Nat /\ Scale \in Nat
    BY SMT, <1>1, ScaleIsPositive
  <1> QED
    BY SMT, <1>2, <1>3

\* What the evaluation that held the mutex is afterwards.
LEMMA AfterTheMutex ==
  ASSUME EvalInv, NEW t \in Tasks, task[t].pc = "clocked", NEW ok \in BOOLEAN
  PROVE  LET u == task[t] w == After(u, ok) IN
         /\ w # Idle /\ (IsLimited(w) => ~ok) /\ w.req = u.req
         /\ w.paid = IF ok THEN Append(u.paid, KeyOf(u)) ELSE u.paid
  <1> DEFINE u == task[t]
             w == After(u, ok)
             paid == Append(u.paid, KeyOf(u))
             c == Conclusion(policy, u.req, Decoded(policy, u.req), u.rationale)
  <1>1. policy \in Policies /\ validate(policy) /\ Numbered(policy)
    BY ZenonT(40), AtTheMutex, PolicyNumbered DEF EvalInv, Loaded
  <1>2. c.kind # "Deny" \/ c.reason # "rate-limited"
    BY SMT, <1>1, ConclusionDecides
  <1>3. CASE ~ok
    <2>1. w.pc = "done" /\ w.req = u.req /\ w.paid = u.paid
      BY Zenon, <1>3 DEF After
    <2> HIDE DEF w
    <2> QED
      BY Zenon, <1>3, <2>1, IdlePc DEF w
  <1>4. CASE ok /\ Len(paid) < Len(RateRules(policy))
    <2>1. w.pc = "limit" /\ w.req = u.req /\ w.paid = paid
      BY Zenon, <1>4 DEF After, Proceed
    <2> HIDE DEF w
    <2> QED
      BY Zenon, <1>4, <2>1, IdlePc DEF w, IsLimited
  <1>5. CASE ok /\ ~ (Len(paid) < Len(RateRules(policy)))
    <2>1. w.pc = "done" /\ w.req = u.req /\ w.paid = paid /\ w.decision = c
      BY Zenon, <1>5 DEF After, Proceed
    <2> HIDE DEF w
    <2> QED
      BY Zenon, <1>2, <1>5, <2>1, IdlePc DEF w, IsLimited
  <1> QED
    BY Zenon, <1>3, <1>4, <1>5

\* The token is that of rule j from the bucket of key k.
Takes(u, ok, j, k) == ok /\ j = Len(u.paid) + 1 /\ k = KeyOf(u)

\* The payers after the mutex was held: the holder is a new one if it got a token.
LEMMA PayersAfterTheMutex ==
  ASSUME EvalInv, NEW t \in Tasks, task[t].pc = "clocked", NEW ok \in BOOLEAN,
         task' = [task EXCEPT ![t] = After(task[t], ok)], NEW j \in Nat \ {0}, NEW k
  PROVE  /\ Takes(task[t], ok, j, k) =>
              Cardinality(Payers(task', j, k)) = Cardinality(Payers(task, j, k)) + 1
         /\ ~Takes(task[t], ok, j, k) =>
              Cardinality(Payers(task', j, k)) = Cardinality(Payers(task, j, k))
  <1> DEFINE u == task[t]
             w == After(u, ok)
             new == Takes(u, ok, j, k)
  <1>1. u.paid \in Seq(Keys) /\ Len(u.paid) \in Nat /\ KeyOf(u) \in Keys
    BY Zenon, AtTheMutex DEF PaidInOrder
  <1>2. DOMAIN task = Tasks /\ \A s \in Tasks : task'[s] = IF s = t THEN w ELSE task[s]
    BY Zenon DEF EvalInv
  <1>3. w # Idle /\ u # Idle /\ w.paid = IF ok THEN Append(u.paid, KeyOf(u)) ELSE u.paid
    BY Zenon, AfterTheMutex, IdlePc
  <1> HIDE DEF w
  <1>4. Len(w.paid) >= j /\ w.paid[j] = k <=> new \/ (Len(u.paid) >= j /\ u.paid[j] = k)
    <2>1. CASE ok
      <3>1. w.paid = Append(u.paid, KeyOf(u))
        BY Zenon, <1>3, <2>1
      <3> DEFINE p == u.paid
                 q == w.paid
                 x == KeyOf(u)
      <3>2. p \in Seq(Keys) /\ x \in Keys /\ q = Append(p, x)
        BY Zenon, <1>1, <3>1
      <3> HIDE DEF p, q, x
      <3>3. Len(q) >= j /\ q[j] = k <=> (j = Len(p) + 1 /\ k = x) \/ (Len(p) >= j /\ p[j] = k)
        BY SMT, <3>2
      <3> QED
        BY Zenon, <2>1, <3>3 DEF p, q, x, Takes
    <2>2. CASE ~ok
      BY Zenon, <1>3, <2>2 DEF Takes
    <2> QED
      BY Zenon, <2>1, <2>2
  <1>5. new => ~ (Len(u.paid) >= j)
    BY SMT, <1>1 DEF Takes
  <1> HIDE DEF new
  <1>6. ASSUME NEW s
        PROVE  s \in Payers(task', j, k) <=> s \in Payers(task, j, k) \/ (new /\ s = t)
    BY Zenon, <1>2, <1>3, <1>4 DEF Payers
  <1>7. new => t \notin Payers(task, j, k)
    BY Zenon, <1>5 DEF Payers
  <1>8. /\ new => Payers(task', j, k) = Payers(task, j, k) \cup {t}
        /\ ~new => Payers(task', j, k) = Payers(task, j, k)
    BY Zenon, <1>6
  <1>9. new => Cardinality(Payers(task', j, k)) = Cardinality(Payers(task, j, k)) + 1
    BY Zenon, <1>7, <1>8, PayersFinite, FS_AddElement
  <1> QED
    BY Zenon, <1>8, <1>9 DEF new

\* The critical section of try_acquire keeps the books.
LEMMA LockLimits ==
  ASSUME EvalInv, LimitInv, NEW t \in Tasks, Lock(t)
  PROVE  LimitInv'
  <1> DEFINE u == task[t]
             key == KeyOf(u)
             rule == RuleOf(u)
             i == Len(u.paid) + 1
             e == Refilled(key, rule, u.now_ms)
             ok == e.tokens >= Scale
             left == IF ok THEN [e EXCEPT !.tokens = @ - Scale] ELSE e
             rules == RateRules(policy)
             P(j, k) == Cardinality(Payers(task, j, k))
  <1>1. /\ u.pc = "clocked" /\ policy' = policy
        /\ bucket' = [k \in DOMAIN bucket \cup {key} |-> IF k = key THEN left ELSE bucket[k]]
        /\ task' = [task EXCEPT ![t] = After(u, ok)]
    BY Zenon, LockEffect
  <1>2. /\ policy \in Policies /\ policy # None /\ rule \in RateLimits /\ i \in DOMAIN rules
        /\ u.req \in Requests /\ u.now_ms \in Nat
    BY Zenon, <1>1, AtTheMutex DEF PaidInOrder, Suspended
  <1>3. rules \in Seq(RateLimits) /\ DOMAIN rules \subseteq Nat \ {0}
        /\ \A j \in DOMAIN rules : rules[j] \in RateLimits /\ rules[j].scope \in Scopes
    BY Zenon, <1>2, RulesTyped, RuleTyped
  <1>4. rule = rules[i] /\ key = rate_limit_key(rules[i].scope, u.req) /\ rule.tokens \in Nat
    BY SMT, <1>2 DEF RuleOf, KeyOf, RateLimits
  <1>5. /\ e \in [tokens : Nat, last_refill : Nat]
        /\ \/ key \in DOMAIN bucket /\ e.tokens >= bucket[key].tokens
           \/ e.tokens = Scale * rule.tokens
    BY Zenon, <1>2, RefillKeeps DEF LimitInv
  <1> HIDE DEF e
  <1>6. /\ left \in [tokens : Nat, last_refill : Nat]
        /\ left.tokens = IF ok THEN e.tokens - Scale ELSE e.tokens
    BY SMT, <1>5, ScaleIsPositive
  <1>7. ok \in BOOLEAN
    BY SMT, <1>5, ScaleIsPositive
  <1> HIDE DEF left
  <1>8. /\ DOMAIN bucket' = DOMAIN bucket \cup {key} /\ bucket'[key] = left
        /\ \A k \in DOMAIN bucket : k # key => bucket'[k] = bucket[k]
    BY Zenon, <1>1
  <1>9. BucketInv'
    BY Zenon, <1>1, <1>2, <1>6, <1>8 DEF LimitInv, BucketInv
  <1> HIDE DEF ok
  <1>10. ASSUME NEW j \in DOMAIN rules, NEW k
         PROVE  /\ ok /\ j = i /\ k = key => Cardinality(Payers(task', j, k)) = P(j, k) + 1
                /\ ~ (ok /\ j = i /\ k = key) => Cardinality(Payers(task', j, k)) = P(j, k)
    <2>1. u.pc = "clocked" /\ task' = [task EXCEPT ![t] = After(u, ok)] /\ j \in Nat \ {0}
      BY Zenon, <1>1, <1>3
    <2>2. /\ Takes(u, ok, j, k) => Cardinality(Payers(task', j, k)) = P(j, k) + 1
          /\ ~Takes(u, ok, j, k) => Cardinality(Payers(task', j, k)) = P(j, k)
      BY ZenonT(40), <1>7, <2>1, PayersAfterTheMutex
    <2> QED
      BY Zenon, <2>2 DEF Takes
  <1>11. SUFFICES ASSUME OneRulePerScope(policy), CreditInv, LimitedInv
                  PROVE  CreditInv' /\ LimitedInv'
    BY Zenon, <1>1, <1>2, <1>9 DEF LimitInv, OneRulePerScope
  <1>12. e.tokens + Scale * P(i, key) >= Scale * rule.tokens
    <2>1. P(i, key) \in Nat
      BY Zenon, PayersFinite
    <2>2. CASE key \in DOMAIN bucket /\ e.tokens >= bucket[key].tokens
      <3>1. Covered(i, key)
        BY Zenon, <1>2, <1>4, <1>11, <2>2 DEF CreditInv
      <3>2. bucket[key].tokens + Scale * P(i, key) >= Scale * rule.tokens
        BY Zenon, <1>4, <3>1 DEF Covered
      <3>3. bucket[key].tokens \in Nat
        BY SMTT(20), <2>2 DEF LimitInv, BucketInv
      <3> QED
        <4>1. ASSUME NEW a \in Nat, NEW b \in Nat, NEW y \in Nat, NEW z \in Nat, a >= b, b + y >= z
              PROVE  a + y >= z
          BY SMT, <4>1
        <4>2. Scale * P(i, key) \in Nat /\ Scale * rule.tokens \in Nat /\ e.tokens \in Nat
          <5>1. ASSUME NEW x \in Nat, NEW y \in Nat PROVE x * y \in Nat
            BY SMT
          <5>2. e.tokens \in Nat
            BY SMT, <1>5
          <5> QED
            BY Zenon, <1>4, <2>1, <5>1, <5>2, ScaleIsPositive
        <4> QED
          BY Zenon, <2>2, <3>2, <3>3, <4>1, <4>2
    <2>3. CASE e.tokens = Scale * rule.tokens
      BY SMT, <1>4, <2>1, <2>3, ScaleIsPositive
    <2> QED
      BY Zenon, <1>5, <2>2, <2>3
  <1>13. CreditInv'
    <2>1. ASSUME NEW j \in DOMAIN rules, NEW k \in DOMAIN bucket',
                 NEW req \in Requests, k = rate_limit_key(rules[j].scope, req)
          PROVE  bucket'[k].tokens + Scale * Cardinality(Payers(task', j, k))
                   >= Scale * rules[j].tokens
      <3>1. CASE k # key
        <4>1. k \in DOMAIN bucket /\ bucket'[k] = bucket[k]
          BY Zenon, <1>8, <2>1, <3>1
        <4>2. Cardinality(Payers(task', j, k)) = P(j, k)
          BY SMTT(20), <1>10, <3>1, PayersFinite
        <4>3. Covered(j, k)
          BY Zenon, <1>11, <2>1, <4>1 DEF CreditInv
        <4> QED
          BY Zenon, <4>1, <4>2, <4>3 DEF Covered
      <3>2. CASE k = key
        <4>1. rules[j].scope = rules[i].scope
          <5>1. rate_limit_key(rules[j].scope, req) = rate_limit_key(rules[i].scope, u.req)
            BY Zenon, <1>4, <2>1, <3>2
          <5>2. rules[j].scope \in Scopes /\ rules[i].scope \in Scopes
            BY Zenon, <1>2, <1>3
          <5> HIDE DEF rules, i
          <5> QED
            BY SMT, <1>2, <5>1, <5>2, KeysTellSubjects
        <4>2. j = i
          BY Zenon, <1>2, <1>11, <4>1 DEF OneRulePerScope
        <4>3. Cardinality(Payers(task', i, key)) = IF ok THEN P(i, key) + 1 ELSE P(i, key)
          BY ZenonT(40), <1>2, <1>10
        <4>4. P(i, key) \in Nat /\ e.tokens \in Nat
          BY SMT, <1>5, PayersFinite
        <4>5. left.tokens + Scale * (IF ok THEN P(i, key) + 1 ELSE P(i, key))
                = e.tokens + Scale * P(i, key)
          BY SMT, <1>6, <4>4, ScaleIsPositive
        <4> QED
          BY ZenonT(40), <1>4, <1>8, <1>12, <3>2, <4>2, <4>3, <4>5
      <3> QED
        BY Zenon, <3>1, <3>2
    <2> QED
      BY ZenonT(40), <1>1, <2>1 DEF CreditInv, Covered
  <1>14. LimitedInv'
    <2>1. ASSUME NEW s \in Tasks, IsLimited(task'[s])
          PROVE  Cardinality(Payers(task', Len(task'[s].paid) + 1, KeyOf(task'[s])))
                   >= RuleOf(task'[s]).tokens
      <3>1. DOMAIN task = Tasks /\ (s # t => task'[s] = task[s]) /\ (s = t => task'[s] = After(u, ok))
        BY Zenon, <1>1 DEF EvalInv
      <3>2. CASE s = t
        <4>1. ~ok /\ task'[s].req = u.req /\ task'[s].paid = u.paid
          BY ZenonT(40), <1>1, <1>7, <2>1, <3>1, <3>2, AfterTheMutex
        <4>2. e.tokens < Scale
          BY SMTT(20), <1>5, <4>1, ScaleIsPositive DEF ok
        <4>3. P(i, key) >= rule.tokens
          BY SMTT(20), <1>4, <1>5, <1>12, <4>2, PayersFinite, TokensAreGone
        <4>4. Cardinality(Payers(task', i, key)) = P(i, key)
          BY SMT, <1>2, <1>10, <4>1, PayersFinite
        <4>5. KeyOf(task'[s]) = key /\ RuleOf(task'[s]) = rule
          BY Zenon, <4>1 DEF KeyOf, RuleOf
        <4> QED
          BY Zenon, <4>1, <4>3, <4>4, <4>5
      <3>3. CASE s # t
        <4> DEFINE n == Len(task[s].paid) + 1
        <4>1. task'[s] = task[s] /\ IsLimited(task[s])
          BY Zenon, <2>1, <3>1, <3>3
        <4>2. P(n, KeyOf(task[s])) >= RuleOf(task[s]).tokens
          BY Zenon, <1>11, <4>1 DEF LimitedInv
        <4>5. n \in DOMAIN rules
          BY Zenon, <4>1, StoppedAtARule
        <4>6. RuleOf(task[s]).tokens \in Nat
          BY SMT, <1>3, <4>5 DEF RuleOf, RateLimits
        <4>7. P(n, KeyOf(task[s])) \in Nat
          BY Zenon, PayersFinite
        <4> HIDE DEF n, P
        <4>8. Cardinality(Payers(task', n, KeyOf(task[s]))) >= RuleOf(task[s]).tokens
          BY SMT, <1>10, <4>2, <4>5, <4>6, <4>7
        <4> QED
          BY Zenon, <4>1, <4>8 DEF n
      <3> QED
        BY Zenon, <3>2, <3>3
    <2> QED
      BY Zenon, <1>1, <2>1 DEF LimitedInv, IsLimited, KeyOf, RuleOf
  <1> QED
    BY Zenon, <1>13, <1>14

\* evaluate() up to its first await takes no token and limits nobody.
LEMMA EvaluateLimits ==
  ASSUME EvalInv, LimitInv, NEW t \in Tasks, NEW req \in Requests, Evaluate(t, req)
  PROVE  LimitInv'
  <1> DEFINE a == Admission(policy, req, Decoded(policy, req))
             c == Conclusion(policy, req, Decoded(policy, req), a.rationale)
             u == IF a.kind = "Admitted" THEN Proceed(req, a.rationale, << >>)
                  ELSE [pc |-> "done", req |-> req, paid |-> << >>, decision |-> a]
  <1>1. /\ policy \in Policies /\ validate(policy) /\ policy' = policy /\ bucket' = bucket
        /\ task[t] = Idle /\ task' = [task EXCEPT ![t] = u]
    BY Zenon DEF Evaluate, EvalInv, Loaded
  <1>2. /\ a.kind # "Deny" \/ a.reason # "rate-limited"
        /\ c.kind # "Deny" \/ c.reason # "rate-limited"
    BY SMT, <1>1, PolicyNumbered, AdmissionDecides, ConclusionDecides
  <1>3. CASE a.kind # "Admitted"
    <2>1. u.pc = "done" /\ u.paid = << >> /\ u.decision = a
      BY Zenon, <1>3
    <2> HIDE DEF u
    <2>2. u # Idle /\ ~IsLimited(u)
      BY Zenon, <1>2, <2>1, IdlePc DEF IsLimited
    <2> QED
      BY Zenon, <1>1, <2>1, <2>2, NothingTaken
  <1>4. CASE a.kind = "Admitted" /\ Len(<< >>) < Len(RateRules(policy))
    <2>1. u.pc = "limit" /\ u.paid = << >>
      BY Zenon, <1>4 DEF Proceed
    <2> HIDE DEF u
    <2>2. u # Idle /\ ~IsLimited(u)
      BY Zenon, <2>1, IdlePc DEF IsLimited
    <2> QED
      BY Zenon, <1>1, <2>1, <2>2, NothingTaken
  <1>5. CASE a.kind = "Admitted" /\ ~ (Len(<< >>) < Len(RateRules(policy)))
    <2>1. u.pc = "done" /\ u.paid = << >> /\ u.decision = c
      BY Zenon, <1>5 DEF Proceed
    <2> HIDE DEF u
    <2>2. u # Idle /\ ~IsLimited(u)
      BY Zenon, <1>2, <2>1, IdlePc DEF IsLimited
    <2> QED
      BY Zenon, <1>1, <2>1, <2>2, NothingTaken
  <1> QED
    BY Zenon, <1>3, <1>4, <1>5

\* Neither does reading the clock or giving up.
LEMMA WaitLimits ==
  ASSUME EvalInv, LimitInv, NEW t \in Tasks, ReadClock(t) \/ Drop(t)
  PROVE  LimitInv'
  <1> DEFINE v == task[t]
             r == [pc |-> "clocked", req |-> v.req, rationale |-> v.rationale, paid |-> v.paid,
                   now_ms |-> now]
             d == [pc |-> "dropped", req |-> v.req, paid |-> v.paid]
  <1>1. /\ v.pc \in {"limit", "clocked"} /\ policy' = policy /\ bucket' = bucket
        /\ \/ task' = [task EXCEPT ![t] = r]
           \/ task' = [task EXCEPT ![t] = d]
    BY Zenon DEF ReadClock, Drop
  <1>2. policy \in Policies /\ v # Idle
    BY Zenon, <1>1, AtTheMutex, IdlePc
  <1>3. r.pc = "clocked" /\ r.paid = v.paid /\ d.pc = "dropped" /\ d.paid = v.paid
    BY Zenon
  <1> HIDE DEF r, d
  <1>4. r # Idle /\ ~IsLimited(r) /\ d # Idle /\ ~IsLimited(d)
    BY Zenon, <1>3, IdlePc DEF IsLimited
  <1> QED
    BY Zenon, <1>1, <1>2, <1>3, <1>4, NothingTaken

LEMMA LimitStep == EvalInv /\ LimitInv /\ [Next]_vars => LimitInv'
  <1> SUFFICES ASSUME EvalInv, LimitInv, [Next]_vars PROVE LimitInv'
    BY Zenon
  <1>1. CASE Load
    <2>1. /\ policy = None /\ policy' \in Policies /\ task' = task /\ bucket' = bucket
          /\ DOMAIN bucket = {}
      BY Zenon, <1>1 DEF Load, LimitInv, BucketInv
    <2>2. \A t \in Tasks : task[t] = Idle
      BY Zenon, <2>1 DEF EvalInv, TaskAt
    <2>3. \A t \in Tasks : ~IsLimited(task[t])
      BY Zenon, <2>2, IdlePc DEF IsLimited
    <2>4. BucketInv' /\ CreditInv'
      BY Zenon, <2>1 DEF BucketInv, CreditInv
    <2>5. LimitedInv'
      BY Zenon, <2>1, <2>3 DEF LimitedInv, IsLimited
    <2> QED
      BY Zenon, <2>4, <2>5 DEF LimitInv
  <1>2. CASE \E t \in Tasks : \/ \E req \in Requests : Evaluate(t, req)
                              \/ ReadClock(t) \/ Lock(t) \/ Drop(t)
    BY Zenon, <1>2, EvaluateLimits, WaitLimits, LockLimits
  <1>3. CASE Tick \/ UNCHANGED vars
    <2>1. policy' = policy /\ task' = task /\ bucket' = bucket
      BY Zenon, <1>3 DEF Tick, vars
    <2> QED
      BY Zenon, <2>1 DEF LimitInv, BucketInv, OneRulePerScope, CreditInv, Covered, LimitedInv,
                         IsLimited, KeyOf, RuleOf
  <1> QED
    BY Zenon, <1>1, <1>2, <1>3 DEF Next

\* Nobody is limited by the requests of another subject: with one RateLimit
\* rule per scope, try_acquire refuses a request only when evaluations with the
\* same rate_limit_key took all of the rule's tokens.
THEOREM NobodyElseLimits == Spec => []LimitedByOwnRequests
  <1>1. Init => EvalInv /\ LimitInv
    <2>1. Init => BucketInv /\ policy = None
      BY SMT DEF Init, BucketInv
    <2>2. Init => EvalInv
      BY SMT DEF Init, EvalInv, Loaded, TaskAt
    <2> QED
      BY Zenon, <2>1, <2>2 DEF LimitInv
  <1>2. EvalInv /\ LimitInv => LimitedByOwnRequests
    <2> SUFFICES ASSUME EvalInv, LimitInv, NEW t \in Tasks, Limited(t),
                        \A j, k \in DOMAIN RateRules(policy) :
                          RateRules(policy)[j].scope = RateRules(policy)[k].scope => j = k
                 PROVE  LET rules == RateRules(policy)
                            i == Len(task[t].paid) + 1
                            paidFor == {u \in Tasks :
                              /\ task[u] # Idle /\ Len(task[u].paid) >= i
                              /\ SameSubject(rules[i].scope, task[u].req, task[t].req)}
                        IN  Cardinality(paidFor) >= rules[i].tokens
      BY Zenon DEF LimitedByOwnRequests
    <2> DEFINE rules == RateRules(policy)
               i == Len(task[t].paid) + 1
               paidFor == {u \in Tasks : /\ task[u] # Idle /\ Len(task[u].paid) >= i
                                         /\ SameSubject(rules[i].scope, task[u].req, task[t].req)}
               payers == Payers(task, i, KeyOf(task[t]))
    <2>1. IsLimited(task[t])
      BY Zenon DEF IsLimited, Limited, Done
    <2>2. policy \in Policies /\ policy # None /\ PaidInOrder(policy, task[t]) /\ i \in DOMAIN rules
      BY Zenon, <2>1, StoppedAtARule
    <2>3. Cardinality(payers) >= rules[i].tokens
      BY Zenon, <2>1, <2>2 DEF LimitInv, OneRulePerScope, LimitedInv, RuleOf
    <2>4. i \in Nat \ {0} /\ rules[i].scope \in Scopes /\ rules[i] \in RateLimits
      BY Zenon, <2>2, RuleTyped
    <2>5. payers \subseteq paidFor
      <3> SUFFICES ASSUME NEW u \in payers PROVE u \in paidFor
        BY Zenon
      <3>1. u \in Tasks /\ task[u] # Idle /\ Len(task[u].paid) >= i /\ task[u].paid[i] = KeyOf(task[t])
        BY Zenon DEF Payers
      <3>2. PaidInOrder(policy, task[u])
        BY ZenonT(40), <3>1 DEF EvalInv, TaskAt
      <3>3. i \in 1 .. Len(task[u].paid)
        <4>1. task[u].paid \in Seq(Keys)
          BY Zenon, <3>2 DEF PaidInOrder
        <4> QED
          BY SMT, <2>4, <3>1, <4>1
      <3>4. rate_limit_key(rules[i].scope, task[u].req) = rate_limit_key(rules[i].scope, task[t].req)
        BY Zenon, <3>1, <3>2, <3>3 DEF PaidInOrder, KeyOf, RuleOf
      <3>5. task[u].req \in Requests /\ task[t].req \in Requests
        BY Zenon, <2>2, <3>2 DEF PaidInOrder
      <3> HIDE DEF rules, i
      <3>6. SameSubject(rules[i].scope, task[u].req, task[t].req)
        BY SMT, <2>4, <3>4, <3>5, KeysTellSubjects
      <3> QED
        BY Zenon, <3>1, <3>6
    <2>6. IsFiniteSet(paidFor)
      <3>1. paidFor \subseteq Tasks
        BY Zenon
      <3> QED
        BY Zenon, <3>1, PolicyAssumption, FS_Subset
    <2>7. /\ Cardinality(payers) \in Nat /\ Cardinality(paidFor) \in Nat
          /\ Cardinality(payers) <= Cardinality(paidFor)
      BY ZenonT(40), <2>5, <2>6, FS_Subset, FS_CardinalityType
    <2>8. rules[i].tokens \in Nat
      BY SMT, <2>4 DEF RateLimits
    <2> HIDE DEF payers, paidFor, rules, i
    <2>9. Cardinality(paidFor) >= rules[i].tokens
      BY SMT, <2>3, <2>7, <2>8
    <2> QED
      BY Zenon, <2>9 DEF paidFor, rules, i
  <1> QED
    BY <1>1, <1>2, EvalStep, LimitStep, PTL DEF Spec

-----------------------------------------------------------------------------
(* Rules *)

\* A window and the one from its end to its start split the day, for every pair
\* of hours (time_window_contains).
THEOREM WindowsSplitTheDay == Spec => []WindowsPartitionTheDay
  <1>1. ASSUME NEW req \in Requests, NEW s \in Hours, NEW e \in Hours
        PROVE  LET In(a, b) ==
                     time_window_contains(req, [mask |-> {req.day}, start |-> a, end |-> b])
               IN  IF s = e THEN In(s, e) ELSE In(s, e) # In(e, s)
    <2> DEFINE Hour(a, b, h) == IF b > a THEN a <= h /\ h < b ELSE a <= h \/ h < b
               In(a, b) == time_window_contains(req, [mask |-> {req.day}, start |-> a, end |-> b])
    <2>1. ASSUME NEW a, NEW b PROVE In(a, b) <=> Hour(a, b, req.hour)
      BY SMT DEF time_window_contains
    <2>2. req.hour \in Nat /\ s \in Nat /\ e \in Nat
      BY Zenon, PolicyAssumption
    <2>3. ASSUME NEW x \in Nat, NEW y \in Nat, NEW h \in Nat
          PROVE  IF x = y THEN Hour(x, y, h) ELSE ~ (Hour(x, y, h) <=> Hour(y, x, h))
      BY SMT
    <2>4. In(s, e) \in BOOLEAN /\ In(e, s) \in BOOLEAN
      BY Zenon DEF time_window_contains
    <2> HIDE DEF In, Hour
    <2>5. IF s = e THEN In(s, e) ELSE ~ (In(s, e) <=> In(e, s))
      BY Zenon, <2>1, <2>2, <2>3
    <2>6. IF s = e THEN In(s, e) ELSE In(s, e) # In(e, s)
      BY Zenon, <2>4, <2>5
    <2> QED
      BY Zenon, <2>6 DEF In
  <1>2. WindowsPartitionTheDay
    BY Zenon, <1>1 DEF WindowsPartitionTheDay
  <1> QED
    BY <1>2, PTL

\* The first stage that stops decides.
LEMMA FirstStopDecides ==
  ASSUME NEW stages, DOMAIN stages \subseteq Nat, NEW n \in Stops(stages),
         \A m \in Stops(stages) : n <= m
  PROVE  RunStages(stages) =
           IF stages[n].verdict = "error" THEN [kind |-> "Misconfiguration"]
           ELSE [kind |-> "Deny", reason |-> stages[n].reason,
                 rationale |-> Append(Passed(stages, n), stages[n].id)]
  <1> DEFINE stop == Stops(stages)
  <1>1. stop \subseteq Nat /\ stop # {}
    BY Zenon DEF Stops
  <1>2. Min(stop) \in stop /\ \A m \in stop : Min(stop) <= m
    BY Zenon, <1>1, MinIsLeast
  <1>3. Min(stop) = n
    <2> DEFINE x == Min(stop)
    <2>1. x \in Nat /\ n \in Nat /\ x <= n /\ n <= x
      BY Zenon, <1>1, <1>2
    <2> HIDE DEF x
    <2>2. x = n
      BY SMT, <2>1
    <2> QED
      BY Zenon, <2>2 DEF x
  <1> QED
    BY Zenon, <1>1, <1>3 DEF Stops, RunStages

\* A restriction among the rules: it is one more rule, of a kind that no filter
\* and no quorum looks at.
LEMMA AddedRule ==
  ASSUME policy \in Policies, NEW r \in Restrictions,
         NEW rules \in {<<r>> \o policy.rules, Append(policy.rules, r)}
  PROVE  LET p == [policy EXCEPT !.rules = rules]
         IN  /\ Numbered(p) /\ p.rules = rules /\ p.default = policy.default
             /\ \A i \in DOMAIN policy.rules : \E j \in DOMAIN rules : rules[j] = policy.rules[i]
             /\ \A j \in DOMAIN rules :
                  rules[j] = r \/ \E i \in DOMAIN policy.rules : rules[j] = policy.rules[i]
  <1> DEFINE p == [policy EXCEPT !.rules = rules]
             old == policy.rules
             S == {old[i] : i \in DOMAIN old} \cup {r}
  <1>1. old \in Seq({old[i] : i \in DOMAIN old})
    BY Zenon, PolicyAssumption
  <1>2. p.rules = rules /\ p.default = policy.default
    BY SMT, PolicyAssumption
  <1> HIDE DEF old, p
  <1>3. old \in Seq(S) /\ r \in S
    BY SMT, <1>1
  <1> HIDE DEF S
  <1>4. /\ DOMAIN rules \subseteq Nat \ {0}
        /\ \A i \in DOMAIN old : \E j \in DOMAIN rules : rules[j] = old[i]
        /\ \A j \in DOMAIN rules : rules[j] = r \/ \E i \in DOMAIN old : rules[j] = old[i]
    <2>1. CASE rules = <<r>> \o old
      <3>1. /\ DOMAIN rules = 1 .. (Len(old) + 1) /\ Len(old) \in Nat /\ DOMAIN old = 1 .. Len(old)
            /\ rules[1] = r /\ \A i \in 1 .. Len(old) : rules[i + 1] = old[i]
        BY SMT, <1>3, <2>1
      <3>2. DOMAIN rules \subseteq Nat \ {0}
        BY SMT, <3>1
      <3>3. ASSUME NEW i \in DOMAIN old PROVE \E j \in DOMAIN rules : rules[j] = old[i]
        <4>1. i + 1 \in DOMAIN rules /\ rules[i + 1] = old[i]
          BY SMT, <3>1
        <4> QED
          BY Zenon, <4>1
      <3>4. ASSUME NEW j \in DOMAIN rules
            PROVE  rules[j] = r \/ \E i \in DOMAIN old : rules[j] = old[i]
        <4>1. j = 1 \/ (j - 1 \in DOMAIN old /\ rules[j] = old[j - 1])
          BY SMT, <3>1
        <4> QED
          BY Zenon, <3>1, <4>1
      <3> QED
        BY Zenon, <3>2, <3>3, <3>4
    <2>2. CASE rules = Append(old, r)
      <3>1. /\ DOMAIN rules = 1 .. (Len(old) + 1) /\ Len(old) \in Nat /\ DOMAIN old = 1 .. Len(old)
            /\ rules[Len(old) + 1] = r /\ \A i \in 1 .. Len(old) : rules[i] = old[i]
        BY SMT, <1>3, <2>2
      <3>2. DOMAIN rules \subseteq Nat \ {0} /\ DOMAIN old \subseteq DOMAIN rules
        BY SMT, <3>1
      <3>3. ASSUME NEW j \in DOMAIN rules
            PROVE  rules[j] = r \/ \E i \in DOMAIN old : rules[j] = old[i]
        <4>1. j = Len(old) + 1 \/ j \in DOMAIN old
          BY SMT, <3>1
        <4> QED
          BY Zenon, <3>1, <4>1
      <3> QED
        BY Zenon, <3>1, <3>2, <3>3
    <2> QED
      BY Zenon, <2>1, <2>2 DEF old
  <1> QED
    BY Zenon, <1>2, <1>4 DEF Numbered, p, old

\* A request is admitted exactly if no stage stops it.
LEMMA AdmittedByStages ==
  ASSUME NEW rs, NEW req, NEW decoded
  PROVE  LET a == Admission(rs, req, decoded)
             passes == /\ deny_chain(rs, req) # "deny" /\ deny_contract(rs, req) # "deny"
                       /\ allow_chain(rs, req) # "deny" /\ allow_contract(rs, req) # "deny"
                       /\ allow_method(rs, req, decoded) # "deny"
                       /\ value_cap(rs, req, decoded) = "skip"
                       /\ time_window(rs, req) # "deny"
         IN  /\ passes => a.kind = "Admitted"
             /\ ~passes => a.kind \in {"Deny", "Misconfiguration"}
  <1> DEFINE stages == AdmissionStages(rs, req, decoded)
             passes == /\ deny_chain(rs, req) # "deny" /\ deny_contract(rs, req) # "deny"
                       /\ allow_chain(rs, req) # "deny" /\ allow_contract(rs, req) # "deny"
                       /\ allow_method(rs, req, decoded) # "deny"
                       /\ value_cap(rs, req, decoded) = "skip"
                       /\ time_window(rs, req) # "deny"
             a == Admission(rs, req, decoded)
  <1> SUFFICES (passes => a.kind = "Admitted") /\ (~passes => a.kind \in {"Deny", "Misconfiguration"})
    BY Zenon
  <1>1. DOMAIN stages = 1 .. 7 /\ DOMAIN stages \subseteq Nat
    BY SMT, StagesByNumber
  <1>2. Stops(stages) = {} <=> \A n \in 1 .. 7 : stages[n].verdict \notin {"deny", "error"}
    BY ZenonT(40), <1>1 DEF Stops
  <1>3. /\ stages[1].verdict = deny_chain(rs, req) /\ stages[2].verdict = deny_contract(rs, req)
        /\ stages[3].verdict = allow_chain(rs, req) /\ stages[4].verdict = allow_contract(rs, req)
        /\ stages[5].verdict = allow_method(rs, req, decoded)
        /\ stages[6].verdict = value_cap(rs, req, decoded)
        /\ stages[7].verdict = time_window(rs, req)
    BY SMTT(20), StagesByNumber
  <1> HIDE DEF stages
  <1>4. (\A n \in 1 .. 7 : stages[n].verdict \notin {"deny", "error"}) <=> passes
    BY SMT, <1>3, StageVerdicts
  <1> HIDE DEF passes
  <1>5. CASE passes
    <2>1. RunStages(stages) = [kind |-> "Admitted", rationale |-> Passed(stages, Len(stages))]
      BY Zenon, <1>1, <1>2, <1>4, <1>5, RunStagesDecides
    <2>2. RunStages(stages).kind = "Admitted"
      BY SMT, <2>1
    <2> QED
      BY Zenon, <1>5, <2>2 DEF Admission, stages
  <1>6. CASE ~passes
    <2>1. PICK n \in Stops(stages) : RunStages(stages) =
            IF stages[n].verdict = "error" THEN [kind |-> "Misconfiguration"]
            ELSE [kind |-> "Deny", reason |-> stages[n].reason,
                  rationale |-> Append(Passed(stages, n), stages[n].id)]
      BY ZenonT(40), <1>1, <1>2, <1>4, <1>6, RunStagesDecides
    <2>2. RunStages(stages).kind \in {"Deny", "Misconfiguration"}
      BY SMT, <2>1
    <2> QED
      BY Zenon, <1>6, <2>2 DEF Admission, stages
  <1> QED
    BY Zenon, <1>5, <1>6

\* How strict a policy is.
LEMMA UnlimitedDecides ==
  ASSUME NEW rs, NEW req, NEW decoded, Numbered(rs)
  PROVE  LET d == Unlimited(rs, req, decoded)
             admitted == Admission(rs, req, decoded).kind = "Admitted"
             shapes == {i \in DOMAIN rs.rules : ShapeStops(rs.rules[i], req, decoded)}
             quorums == {i \in DOMAIN rs.rules : AsksQuorum(rs.rules[i], req, decoded)}
         IN  /\ Strictness(d) \in 0 .. 2
             /\ ~admitted \/ shapes # {} => Strictness(d) = 2
             /\ admitted /\ shapes = {} /\ quorums # {} =>
                  Strictness(d) >= 1 /\ (validate(rs) => Strictness(d) = 1)
             /\ admitted /\ shapes = {} /\ quorums = {} =>
                  Strictness(d) = IF rs.default = "Allow" THEN 0 ELSE 2
  <1> DEFINE a == Admission(rs, req, decoded)
             c == Conclusion(rs, req, decoded, a.rationale)
             d == Unlimited(rs, req, decoded)
             shapes == {i \in DOMAIN rs.rules : ShapeStops(rs.rules[i], req, decoded)}
             quorums == {i \in DOMAIN rs.rules : AsksQuorum(rs.rules[i], req, decoded)}
  <1>1. ASSUME NEW x
        PROVE  /\ x.kind = "Allow" => Strictness(x) = 0
               /\ x.kind = "RequireQuorum" => Strictness(x) = 1
               /\ x.kind \in {"Deny", "Misconfiguration"} => Strictness(x) = 2
    BY SMT DEF Strictness
  <1>2. /\ a.kind \in {"Admitted", "Deny", "Misconfiguration"}
        /\ a.kind # "Admitted" => d = a
        /\ a.kind = "Admitted" => d = c
    BY Zenon, AdmittedByStages DEF Unlimited
  <1>3. /\ shapes # {} => c.kind \in {"Deny", "Misconfiguration"}
        /\ shapes = {} /\ quorums # {} => c.kind \in {"RequireQuorum", "Misconfiguration"}
        /\ shapes = {} /\ quorums = {} => c.kind = IF rs.default = "Allow" THEN "Allow" ELSE "Deny"
        /\ validate(rs) => c.kind # "Misconfiguration"
    BY ZenonT(40), ConclusionDecides
  <1> DEFINE Claim ==
         /\ Strictness(d) \in 0 .. 2
         /\ a.kind # "Admitted" \/ shapes # {} => Strictness(d) = 2
         /\ a.kind = "Admitted" /\ shapes = {} /\ quorums # {} =>
              Strictness(d) >= 1 /\ (validate(rs) => Strictness(d) = 1)
         /\ a.kind = "Admitted" /\ shapes = {} /\ quorums = {} =>
              Strictness(d) = IF rs.default = "Allow" THEN 0 ELSE 2
  <1> SUFFICES Claim
    BY Zenon
  <1> HIDE DEF a, c, d, shapes, quorums
  <1> QED
    BY SMT, <1>1, <1>2, <1>3

\* Whatever stops a request still does when a restriction is added.
LEMMA RestrictionsAdd ==
  ASSUME policy \in Policies, NEW r \in Restrictions, NEW req, NEW decoded,
         NEW rules \in {<<r>> \o policy.rules, Append(policy.rules, r)}
  PROVE  LET p == [policy EXCEPT !.rules = rules] IN
         /\ Admission(p, req, decoded).kind = "Admitted" =>
              Admission(policy, req, decoded).kind = "Admitted"
         /\ {i \in DOMAIN rules : ShapeStops(rules[i], req, decoded)} = {} =>
              {i \in DOMAIN policy.rules : ShapeStops(policy.rules[i], req, decoded)} = {}
         /\ {i \in DOMAIN rules : AsksQuorum(rules[i], req, decoded)} = {} <=>
              {i \in DOMAIN policy.rules : AsksQuorum(policy.rules[i], req, decoded)} = {}
  <1> DEFINE p == [policy EXCEPT !.rules = rules]
             old == policy.rules
  <1>1. /\ Numbered(p) /\ p.rules = rules
        /\ \A i \in DOMAIN old : \E j \in DOMAIN rules : rules[j] = old[i]
        /\ \A j \in DOMAIN rules : rules[j] = r \/ \E i \in DOMAIN old : rules[j] = old[i]
    BY Zenon, AddedRule
  <1>2. r.kind \in Restricting
    BY Zenon, PolicyAssumption
  <1>3. r.kind \notin {"AllowChain", "AllowContract", "AllowMethod", "RequireQuorum"}
    BY SMT, <1>2 DEF Restricting
  <1> HIDE DEF p, old
  <1>4. ASSUME NEW kind PROVE RulesOf(policy, kind) \subseteq RulesOf(p, kind)
    <2>1. \A i \in DOMAIN policy.rules : \E j \in DOMAIN p.rules : p.rules[j] = policy.rules[i]
      BY Zenon, <1>1 DEF old
    <2> QED
      BY Zenon, <2>1 DEF RulesOf
  <1>5. ASSUME NEW kind, r.kind # kind PROVE RulesOf(p, kind) = RulesOf(policy, kind)
    <2>1. \A j \in DOMAIN p.rules :
            p.rules[j] = r \/ \E i \in DOMAIN policy.rules : p.rules[j] = policy.rules[i]
      BY Zenon, <1>1 DEF old
    <2>2. RulesOf(p, kind) \subseteq RulesOf(policy, kind)
      BY ZenonT(40), <1>5, <2>1 DEF RulesOf
    <2> QED
      BY Zenon, <1>4, <2>2
  <1>6. /\ deny_chain(policy, req) = "deny" => deny_chain(p, req) = "deny"
        /\ deny_contract(policy, req) = "deny" => deny_contract(p, req) = "deny"
        /\ time_window(policy, req) = "deny" => time_window(p, req) = "deny"
    <2>1. \A b : Denies(b) = "deny" <=> b
      BY Zenon DEF Denies
    <2> QED
      BY Zenon, <1>4, <2>1 DEF deny_chain, deny_contract, time_window
  <1>7. /\ allow_chain(p, req) = allow_chain(policy, req)
        /\ allow_contract(p, req) = allow_contract(policy, req)
        /\ allow_method(p, req, decoded) = allow_method(policy, req, decoded)
    <2>1. /\ RulesOf(p, "AllowChain") = RulesOf(policy, "AllowChain")
          /\ RulesOf(p, "AllowContract") = RulesOf(policy, "AllowContract")
          /\ RulesOf(p, "AllowMethod") = RulesOf(policy, "AllowMethod")
      BY Zenon, <1>3, <1>5
    <2> QED
      BY Zenon, <2>1 DEF allow_chain, allow_contract, allow_method
  <1>8. value_cap(p, req, decoded) = "skip" => value_cap(policy, req, decoded) = "skip"
    <2> DEFINE v == Field(decoded, "value")
               S(rs) == {j \in DOMAIN rs.rules : CapStops(rs.rules[j], req, v)}
    <2>1. ASSUME NEW rs, Numbered(rs) PROVE value_cap(rs, req, decoded) = "skip" <=> S(rs) = {}
      <3>1. S(rs) \subseteq Nat \ {0}
        BY Zenon, <2>1 DEF Numbered
      <3>2. FirstOf(S(rs)) = 0 <=> S(rs) = {}
        BY Zenon, <3>1, FirstOfHits
      <3>3. value_cap(rs, req, decoded) = "skip" <=> FirstOf(S(rs)) = 0
        BY Zenon DEF value_cap
      <3> QED
        BY Zenon, <3>2, <3>3
    <2>2. S(p) = {} => S(policy) = {}
      BY Zenon, <1>1 DEF old
    <2>3. Numbered(policy)
      BY Zenon, PolicyNumbered
    <2> HIDE DEF S
    <2> QED
      BY Zenon, <1>1, <2>1, <2>2, <2>3
  <1>9. Admission(p, req, decoded).kind = "Admitted" =>
          Admission(policy, req, decoded).kind = "Admitted"
    BY SMT, <1>6, <1>7, <1>8, AdmittedByStages
  <1>10. {i \in DOMAIN rules : ShapeStops(rules[i], req, decoded)} = {} =>
           {i \in DOMAIN old : ShapeStops(old[i], req, decoded)} = {}
    BY Zenon, <1>1
  <1>11. ~AsksQuorum(r, req, decoded)
    BY Zenon, <1>3 DEF AsksQuorum
  <1>12. {i \in DOMAIN rules : AsksQuorum(rules[i], req, decoded)} = {} <=>
           {i \in DOMAIN old : AsksQuorum(old[i], req, decoded)} = {}
    BY ZenonT(40), <1>1, <1>11
  <1> QED
    BY Zenon, <1>9, <1>10, <1>12 DEF p, old

\* A deny, cap, window or shape rule added to a loaded policy, first or last,
\* never makes evaluate() permit more.
THEOREM RestrictionsOnlyRestrict == Spec => []StricterRulesNeverPermitMore
  <1>1. EvalInv => StricterRulesNeverPermitMore
    <2> SUFFICES ASSUME EvalInv, policy # None, NEW req \in Requests, NEW r \in Restrictions,
                        NEW rules \in {<<r>> \o policy.rules, Append(policy.rules, r)}
                 PROVE  Strictness(Unlimited([policy EXCEPT !.rules = rules], req,
                                             Decoded(policy, req)))
                          >= Strictness(Unlimited(policy, req, Decoded(policy, req)))
      BY Zenon DEF StricterRulesNeverPermitMore, Fresh
    <2> DEFINE decoded == Decoded(policy, req)
               p == [policy EXCEPT !.rules = rules]
               Shapes(rs) == {i \in DOMAIN rs.rules : ShapeStops(rs.rules[i], req, decoded)}
               Quorums(rs) == {i \in DOMAIN rs.rules : AsksQuorum(rs.rules[i], req, decoded)}
               Admits(rs) == Admission(rs, req, decoded).kind = "Admitted"
               X(rs) == Strictness(Unlimited(rs, req, decoded))
    <2>1. policy \in Policies /\ validate(policy) /\ Numbered(policy)
      BY Zenon, PolicyNumbered DEF EvalInv, Loaded
    <2>2. Numbered(p) /\ p.rules = rules /\ p.default = policy.default
      BY Zenon, <2>1, AddedRule
    <2>3. /\ Admits(p) => Admits(policy)
          /\ Shapes(p) = {} => Shapes(policy) = {}
          /\ Quorums(p) = {} <=> Quorums(policy) = {}
      BY ZenonT(40), <2>1, <2>2, RestrictionsAdd
    <2>4. ASSUME NEW rs, Numbered(rs)
          PROVE  /\ X(rs) \in 0 .. 2
                 /\ ~Admits(rs) \/ Shapes(rs) # {} => X(rs) = 2
                 /\ Admits(rs) /\ Shapes(rs) = {} /\ Quorums(rs) # {} =>
                      X(rs) >= 1 /\ (validate(rs) => X(rs) = 1)
                 /\ Admits(rs) /\ Shapes(rs) = {} /\ Quorums(rs) = {} =>
                      X(rs) = IF rs.default = "Allow" THEN 0 ELSE 2
      BY Zenon, <2>4, UnlimitedDecides
    <2> HIDE DEF decoded, p, Shapes, Quorums, Admits, X
    <2>5. X(p) >= X(policy)
      BY SMT, <2>1, <2>2, <2>3, <2>4
    <2> QED
      BY Zenon, <2>5 DEF X, p, decoded
  <1> QED
    BY <1>1, EvalAlways, PTL

\* What chain lists say of a chain.
Says(d, chain, denied, allowed, default) ==
  IF chain \in denied THEN d.kind = "Deny" /\ d.reason = "ChainDenied"
  ELSE IF allowed # None /\ chain \notin allowed THEN d.kind = "Deny" /\ d.reason = "ChainNotAllowed"
  ELSE IF default = "Allow" THEN d.kind = "Allow"
  ELSE d.kind = "Deny" /\ d.reason = "policy-default"

\* The static policy says what its chain lists say.
LEMMA StaticSays ==
  ASSUME NEW req, req.chain_id # None, NEW denied, NEW allowed, NEW default \in {"Allow", "Deny"}
  PROVE  Says(StaticDecision([wallet_inactive |-> FALSE, denied_chains |-> denied,
                              allowed_chains |-> allowed, denied_requesters |-> {},
                              allowed_requesters |-> None, default |-> default], req),
              req.chain_id, denied, allowed, default)
  <1> DEFINE p == [wallet_inactive |-> FALSE, denied_chains |-> denied, allowed_chains |-> allowed,
                   denied_requesters |-> {}, allowed_requesters |-> None, default |-> default]
             chain == req.chain_id
             stages ==
               << Stage("wallet-inactive", "WalletInactive", Denies(p.wallet_inactive)),
                  Stage("denied-chain", "ChainDenied",
                        Denies(req.chain_id # None /\ req.chain_id \in p.denied_chains)),
                  Stage("chain-not-on-allow-list", "ChainNotAllowed",
                        Denies(/\ req.chain_id # None /\ p.allowed_chains # None
                               /\ req.chain_id \notin p.allowed_chains)),
                  Stage("denied-requester", "RequesterNotAllowed",
                        Denies(requester_key(req) \in p.denied_requesters)),
                  Stage("requester-not-on-allow-list", "RequesterNotAllowed",
                        Denies(/\ p.allowed_requesters # None
                               /\ requester_key(req) \notin p.allowed_requesters)) >>
             s == StaticDecision(p, req)
             bad == chain \in denied
             missing == allowed # None /\ chain \notin allowed
             d == RunStages(stages)
  <1>1. /\ p.wallet_inactive = FALSE /\ p.denied_chains = denied /\ p.allowed_chains = allowed
        /\ p.denied_requesters = {} /\ p.allowed_requesters = None /\ p.default = default
    BY Zenon
  <1>2. s = CASE d.kind = "Deny" -> d
              [] d.kind # "Deny" /\ p.default = "Allow" ->
                   [kind |-> "Allow", rationale |-> <<"default-allow">>]
              [] d.kind # "Deny" /\ p.default = "Deny" ->
                   [kind |-> "Deny", reason |-> "policy-default", rationale |-> <<"default-deny">>]
    BY Zenon DEF StaticDecision
  <1> HIDE DEF p
  <1>3. /\ DOMAIN stages = 1 .. 5 /\ stages[2].reason = "ChainDenied"
        /\ stages[3].reason = "ChainNotAllowed"
        /\ stages[1].verdict = Denies(FALSE) /\ stages[4].verdict = Denies(FALSE)
        /\ stages[5].verdict = Denies(FALSE)
        /\ stages[2].verdict = Denies(bad) /\ stages[3].verdict = Denies(missing)
    BY SMT, <1>1 DEF Stage, Denies
  <1> HIDE DEF stages, s, bad, missing
  <1>4. /\ stages[1].verdict = "skip" /\ stages[4].verdict = "skip" /\ stages[5].verdict = "skip"
        /\ stages[2].verdict = IF bad THEN "deny" ELSE "skip"
        /\ stages[3].verdict = IF missing THEN "deny" ELSE "skip"
    BY Zenon, <1>3 DEF Denies
  <1>5. DOMAIN stages \subseteq Nat
    BY SMT, <1>3
  <1>6. \A n \in 1 .. 5 : n = 1 \/ n = 2 \/ n = 3 \/ n = 4 \/ n = 5
    BY SMT
  <1>7. \A n : n \in Stops(stages) <=> (n = 2 /\ bad) \/ (n = 3 /\ missing)
    <2>1. 2 \in 1 .. 5 /\ 3 \in 1 .. 5
      BY SMT
    <2> QED
      BY Zenon, <1>3, <1>4, <1>6, <2>1 DEF Stops
  <1>8. CASE bad
    <2>1. 2 \in Stops(stages) /\ \A m \in Stops(stages) : 2 <= m
      BY SMTT(20), <1>7, <1>8
    <2>2. d = [kind |-> "Deny", reason |-> stages[2].reason,
               rationale |-> Append(Passed(stages, 2), stages[2].id)]
      BY SMTT(20), <1>4, <1>5, <1>8, <2>1, FirstStopDecides
    <2> HIDE DEF d
    <2>3. d.kind = "Deny" /\ d.reason = "ChainDenied"
      BY SMT, <1>3, <2>2
    <2>4. s = d
      BY Zenon, <1>2, <2>3
    <2> QED
      BY Zenon, <1>8, <2>3, <2>4 DEF Says, s, p, bad
  <1>9. CASE ~bad /\ missing
    <2>1. 3 \in Stops(stages) /\ \A m \in Stops(stages) : 3 <= m
      BY SMT, <1>7, <1>9
    <2>2. d = [kind |-> "Deny", reason |-> stages[3].reason,
               rationale |-> Append(Passed(stages, 3), stages[3].id)]
      BY SMTT(20), <1>4, <1>5, <1>9, <2>1, FirstStopDecides
    <2> HIDE DEF d
    <2>3. d.kind = "Deny" /\ d.reason = "ChainNotAllowed"
      BY SMT, <1>3, <2>2
    <2>4. s = d
      BY Zenon, <1>2, <2>3
    <2> QED
      BY Zenon, <1>9, <2>3, <2>4 DEF Says, s, p, bad, missing
  <1>10. CASE ~bad /\ ~missing
    <2>1. Stops(stages) = {}
      BY Zenon, <1>7, <1>10
    <2>2. d.kind = "Admitted"
      BY SMT, <1>5, <2>1, RunStagesDecides
    <2> HIDE DEF d
    <2>3. s = IF default = "Allow" THEN [kind |-> "Allow", rationale |-> <<"default-allow">>]
              ELSE [kind |-> "Deny", reason |-> "policy-default", rationale |-> <<"default-deny">>]
      BY Zenon, <1>1, <1>2, <2>2
    <2>4. IF default = "Allow" THEN s.kind = "Allow" ELSE s.kind = "Deny" /\ s.reason = "policy-default"
      BY SMT, <2>3
    <2> QED
      BY Zenon, <1>10, <2>4 DEF Says, s, p, bad, missing
  <1> QED
    BY Zenon, <1>8, <1>9, <1>10

\* A rule set of chain lists says what the lists say.
LEMMA RulesSay ==
  ASSUME NEW req, req.chain_id # None, NEW denied, NEW allowed, NEW default \in {"Allow", "Deny"}
  PROVE  LET allow == IF allowed = None THEN << >>
                      ELSE <<[kind |-> "AllowChain", chain_ids |-> allowed]>>
             rs == [version |-> 1, default |-> default,
                    rules |-> <<[kind |-> "DenyChain", chain_ids |-> denied]>> \o allow]
         IN  Says(Unlimited(rs, req, None), req.chain_id, denied, allowed, default)
  <1> DEFINE allow == IF allowed = None THEN << >>
                      ELSE <<[kind |-> "AllowChain", chain_ids |-> allowed]>>
             D == [kind |-> "DenyChain", chain_ids |-> denied]
             A == [kind |-> "AllowChain", chain_ids |-> allowed]
             rules == <<D>> \o allow
             rs == [version |-> 1, default |-> default, rules |-> rules]
             chain == req.chain_id
             bad == chain \in denied
             missing == allowed # None /\ chain \notin allowed
             stages == AdmissionStages(rs, req, None)
             a == Admission(rs, req, None)
  <1>1. rs.default = default /\ rs.rules = rules
    BY Zenon
  <1>2. D.kind = "DenyChain" /\ D.chain_ids = denied /\ A.kind = "AllowChain" /\ A.chain_ids = allowed
    BY Zenon
  <1>3. ASSUME NEW x, NEW y
        PROVE  LET one == <<x>> \o << >>
                   two == <<x>> \o <<y>>
               IN  /\ DOMAIN one = 1 .. 1 /\ one[1] = x
                   /\ DOMAIN two = 1 .. 2 /\ two[1] = x /\ two[2] = y
    <2>1. <<x>> \in Seq({x, y}) /\ <<y>> \in Seq({x, y}) /\ << >> \in Seq({x, y})
      BY SMT
    <2> QED
      BY SMT, <2>1
  <1> HIDE DEF D
  <1>4. /\ DOMAIN rules \subseteq Nat \ {0} /\ 1 \in DOMAIN rules /\ rules[1] = D
        /\ \A i \in DOMAIN rules : i = 1 \/ (i = 2 /\ allowed # None /\ rules[i] = A)
        /\ allowed # None => 2 \in DOMAIN rules /\ rules[2] = A
    <2>1. \A i \in 1 .. 1 : i = 1
      BY SMT
    <2>2. \A i \in 1 .. 2 : i = 1 \/ i = 2
      BY SMT
    <2>3. /\ 1 \in 1 .. 1 /\ 1 \in 1 .. 2 /\ 2 \in 1 .. 2
          /\ 1 .. 1 \subseteq Nat \ {0} /\ 1 .. 2 \subseteq Nat \ {0}
      BY SMT
    <2>4. CASE allowed = None
      <3>1. rules = <<D>> \o << >>
        BY Zenon, <2>4
      <3> HIDE DEF rules, A
      <3>2. DOMAIN rules = 1 .. 1 /\ rules[1] = D
        BY Zenon, <1>3, <3>1
      <3> QED
        BY Zenon, <2>1, <2>3, <2>4, <3>2
    <2>5. CASE allowed # None
      <3>1. rules = <<D>> \o <<A>>
        BY Zenon, <2>5
      <3> HIDE DEF rules, A
      <3>2. DOMAIN rules = 1 .. 2 /\ rules[1] = D /\ rules[2] = A
        BY Zenon, <1>3, <3>1
      <3> QED
        BY Zenon, <2>2, <2>3, <2>5, <3>2
    <2> QED
      BY Zenon, <2>4, <2>5
  <1> HIDE DEF A
  <1> HIDE DEF rs, rules
  <1>5. Numbered(rs)
    BY Zenon, <1>1, <1>4 DEF Numbered
  <1>6. \A i \in DOMAIN rules : rules[i].kind \in {"DenyChain", "AllowChain"}
    BY Zenon, <1>2, <1>4
  <1>7. /\ RulesOf(rs, "DenyChain") = {D}
        /\ RulesOf(rs, "AllowChain") = IF allowed = None THEN {} ELSE {A}
        /\ RulesOf(rs, "DenyContract") = {} /\ RulesOf(rs, "AllowContract") = {}
        /\ RulesOf(rs, "AllowMethod") = {} /\ RulesOf(rs, "TimeWindow") = {}
    <2>1. "DenyChain" # "AllowChain"
      BY SMT
    <2>2. RulesOf(rs, "DenyChain") = {D}
      BY Zenon, <1>1, <1>2, <1>4, <2>1 DEF RulesOf
    <2>3. RulesOf(rs, "AllowChain") = IF allowed = None THEN {} ELSE {A}
      <3>1. CASE allowed = None
        BY Zenon, <1>1, <1>2, <1>4, <2>1, <3>1 DEF RulesOf
      <3>2. CASE allowed # None
        <4>1. A \in RulesOf(rs, "AllowChain")
          BY Zenon, <1>1, <1>2, <1>4, <3>2 DEF RulesOf
        <4>2. \A x \in RulesOf(rs, "AllowChain") : x = A
          BY ZenonT(40), <1>1, <1>2, <1>4, <2>1 DEF RulesOf
        <4>3. RulesOf(rs, "AllowChain") = {A}
          BY Zenon, <4>1, <4>2
        <4> QED
          BY Zenon, <3>2, <4>3
      <3> QED
        BY Zenon, <3>1, <3>2
    <2>4. ASSUME NEW kind, kind \notin {"DenyChain", "AllowChain"} PROVE RulesOf(rs, kind) = {}
      BY Zenon, <1>1, <1>6, <2>4 DEF RulesOf
    <2>5. {"DenyContract", "AllowContract", "AllowMethod", "TimeWindow"}
            \cap {"DenyChain", "AllowChain"} = {}
      BY SMT
    <2> QED
      BY Zenon, <2>2, <2>3, <2>4, <2>5
  <1>8. /\ deny_chain(rs, req) = Denies(bad)
        /\ deny_contract(rs, req) = "skip" /\ time_window(rs, req) = "skip"
        /\ allow_contract(rs, req) = "skip" /\ allow_method(rs, req, None) = "skip"
        /\ allow_chain(rs, req) = IF allowed = None THEN "skip" ELSE IF missing THEN "deny" ELSE "pass"
    <2>1. deny_chain(rs, req) = Denies(bad)
      BY Zenon, <1>2, <1>7 DEF deny_chain, Denies
    <2>2. deny_contract(rs, req) = "skip" /\ time_window(rs, req) = "skip"
      BY Zenon, <1>7 DEF deny_contract, time_window, Denies
    <2>3. allow_contract(rs, req) = "skip" /\ allow_method(rs, req, None) = "skip"
      BY Zenon, <1>7 DEF allow_contract, allow_method, Filter
    <2>4. allow_chain(rs, req) = IF allowed = None THEN "skip" ELSE IF missing THEN "deny" ELSE "pass"
      BY Zenon, <1>2, <1>7 DEF allow_chain, Filter
    <2> QED
      BY Zenon, <2>1, <2>2, <2>3, <2>4
  <1>9. value_cap(rs, req, None) = "skip"
    <2>1. "ValueCap" \notin {"DenyChain", "AllowChain"}
      BY SMT
    <2>2. {j \in DOMAIN rs.rules : CapStops(rs.rules[j], req, Field(None, "value"))} = {}
      BY Zenon, <1>1, <1>6, <2>1 DEF CapStops, CapsChain
    <2> QED
      BY Zenon, <2>2 DEF value_cap, FirstOf
  <1>10. /\ {i \in DOMAIN rs.rules : ShapeStops(rs.rules[i], req, None)} = {}
         /\ {i \in DOMAIN rs.rules : AsksQuorum(rs.rules[i], req, None)} = {}
    <2>1. {"VmShape", "RequireQuorum"} \cap {"DenyChain", "AllowChain"} = {}
      BY SMT
    <2> QED
      BY Zenon, <1>1, <1>6, <2>1 DEF ShapeStops, AsksQuorum
  <1>11. /\ DOMAIN stages = 1 .. 7 /\ DOMAIN stages \subseteq Nat
         /\ stages[1].reason = "ChainDenied" /\ stages[3].reason = "ChainNotAllowed"
         /\ stages[1].verdict = Denies(bad)
         /\ stages[3].verdict = IF allowed = None THEN "skip" ELSE IF missing THEN "deny" ELSE "pass"
         /\ \A n \in {2, 4, 5, 6, 7} : stages[n].verdict = "skip"
    BY SMTT(20), <1>8, <1>9, StagesByNumber
  <1> HIDE DEF stages, bad
  <1>12. /\ 1 \in Stops(stages) <=> bad
         /\ 3 \in Stops(stages) <=> missing
         /\ \A n \in Stops(stages) : n = 1 \/ n = 3
    BY SMT, <1>11 DEF Stops, Denies
  <1> HIDE DEF missing
  <1>13. a = RunStages(stages)
    BY Zenon DEF Admission, stages
  <1> HIDE DEF a
  <1>14. CASE bad
    <2>1. 1 \in Stops(stages) /\ \A m \in Stops(stages) : 1 <= m
      BY SMTT(20), <1>12, <1>14
    <2>2. a.kind = "Deny" /\ a.reason = "ChainDenied"
      BY SMTT(20), <1>11, <1>13, <1>14, <2>1, FirstStopDecides DEF Denies
    <2>3. Unlimited(rs, req, None) = a
      BY Zenon, <2>2 DEF Unlimited, a
    <2> QED
      BY Zenon, <1>14, <2>2, <2>3 DEF Says, rs, rules, D, bad
  <1>15. CASE ~bad /\ missing
    <2>1. 3 \in Stops(stages) /\ \A m \in Stops(stages) : 3 <= m
      BY SMTT(20), <1>12, <1>15
    <2>2. a.kind = "Deny" /\ a.reason = "ChainNotAllowed"
      BY SMTT(20), <1>11, <1>13, <1>15, <2>1, FirstStopDecides DEF missing
    <2>3. Unlimited(rs, req, None) = a
      BY Zenon, <2>2 DEF Unlimited, a
    <2> QED
      BY Zenon, <1>15, <2>2, <2>3 DEF Says, rs, rules, D, bad, missing
  <1>16. CASE ~bad /\ ~missing
    <2>1. Stops(stages) = {}
      BY ZenonT(40), <1>12, <1>16
    <2>2. a.kind = "Admitted"
      BY SMTT(20), <1>11, <1>13, <2>1, RunStagesDecides
    <2> DEFINE c == Conclusion(rs, req, None, a.rationale)
    <2>3. Unlimited(rs, req, None) = c
      BY Zenon, <2>2 DEF Unlimited, a
    <2>4. IF default = "Allow" THEN c.kind = "Allow" ELSE c.kind = "Deny" /\ c.reason = "policy-default"
      BY SMTT(20), <1>1, <1>5, <1>10, ConclusionDecides
    <2> HIDE DEF c
    <2> QED
      BY Zenon, <1>16, <2>3, <2>4 DEF Says, rs, rules, D, bad, missing
  <1> QED
    BY Zenon, <1>14, <1>15, <1>16

\* StaticAllowDenyPolicy and RuleSetPolicy agree on chain lists, for every list,
\* every chain and either default.
THEOREM PoliciesAgreeOnChains == Spec => []StaticPolicyAgrees
  <1>1. ASSUME NEW chain, NEW denied, NEW allowed, NEW default, NEW s, NEW d,
               Says(s, chain, denied, allowed, default), Says(d, chain, denied, allowed, default)
        PROVE  s.kind = d.kind /\ (s.kind = "Deny" => s.reason = d.reason)
    BY Zenon, <1>1 DEF Says
  <1>2. StaticPolicyAgrees
    <2> SUFFICES ASSUME NEW req \in {r \in Requests : r.chain_id # None}, NEW denied \in SUBSET Chains,
                        NEW allowed \in {None} \cup SUBSET Chains, NEW default \in {"Allow", "Deny"}
                 PROVE  LET static == [wallet_inactive |-> FALSE, denied_chains |-> denied,
                                       allowed_chains |-> allowed, denied_requesters |-> {},
                                       allowed_requesters |-> None, default |-> default]
                            allow == IF allowed = None THEN << >>
                                     ELSE <<[kind |-> "AllowChain", chain_ids |-> allowed]>>
                            rs == [version |-> 1, default |-> default,
                                   rules |-> <<[kind |-> "DenyChain", chain_ids |-> denied]>> \o allow]
                            s == StaticDecision(static, req)
                            d == Unlimited(rs, req, None)
                        IN  s.kind = d.kind /\ (s.kind = "Deny" => s.reason = d.reason)
      BY Zenon DEF StaticPolicyAgrees
    <2> DEFINE static == [wallet_inactive |-> FALSE, denied_chains |-> denied,
                          allowed_chains |-> allowed, denied_requesters |-> {},
                          allowed_requesters |-> None, default |-> default]
               allow == IF allowed = None THEN << >>
                        ELSE <<[kind |-> "AllowChain", chain_ids |-> allowed]>>
               rs == [version |-> 1, default |-> default,
                      rules |-> <<[kind |-> "DenyChain", chain_ids |-> denied]>> \o allow]
               s == StaticDecision(static, req)
               d == Unlimited(rs, req, None)
    <2>1. Says(s, req.chain_id, denied, allowed, default)
      BY Zenon, StaticSays
    <2>2. Says(d, req.chain_id, denied, allowed, default)
      BY ZenonT(40), RulesSay
    <2> HIDE DEF s, d
    <2>3. s.kind = d.kind /\ (s.kind = "Deny" => s.reason = d.reason)
      BY SMT, <1>1, <2>1, <2>2
    <2> QED
      BY Zenon, <2>3 DEF s, d
  <1> QED
    BY <1>2, PTL
=============================================================================
