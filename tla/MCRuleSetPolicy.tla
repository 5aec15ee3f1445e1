-------------------------- MODULE MCRuleSetPolicy --------------------------
(***************************************************************************)
(* RuleSetPolicy with policies that use every kind of rule, and requests   *)
(* that carry envelopes of every type, well formed and not.                *)
(***************************************************************************)
EXTENDS RuleSetPolicy, TLC

CONSTANTS t1, t2, t3, Own, Other, Selector

MCTasks == {t1, t2, t3}
MCSymmetry == Permutations(MCTasks)
MCHours == {0, 6, 22, 23}
MCChains == {1, 2}

Hex(form, bytes) == [form |-> form, bytes |-> bytes, len |-> 4]
Dec(n) == [parses |-> TRUE, number |-> n]
BadDec == [parses |-> FALSE]

-----------------------------------------------------------------------------
(* The envelopes, encoded by the table of field names that documents evm.rs *)

Fees == {"gas_price", "max_priority_fee_per_gas", "max_fee_per_gas", "max_fee_per_blob_gas"}

EnvelopeFields ==
  [legacy |-> <<"nonce", "gas_price", "gas_limit", "to", "value", "data", "v", "r", "s">>,
   eip2930 |-> <<"chain_id", "nonce", "gas_price", "gas_limit", "to", "value", "data",
                 "access_list", "y_parity", "r", "s">>,
   eip1559 |-> <<"chain_id", "nonce", "max_priority_fee_per_gas", "max_fee_per_gas", "gas_limit",
                 "to", "value", "data", "access_list", "y_parity", "r", "s">>,
   eip4844 |-> <<"chain_id", "nonce", "max_priority_fee_per_gas", "max_fee_per_gas", "gas_limit",
                 "to", "value", "data", "access_list", "max_fee_per_blob_gas",
                 "blob_versioned_hashes", "y_parity", "r", "s">>]

EncodeField(tx, f) ==
  CASE f \in Fees -> Str(9, 77)
    [] f = "nonce" -> Str(0, 0)
    [] f = "chain_id" -> Str(1, tx.chain_id)
    [] f = "v" -> Str(1, 35 + 2 * tx.chain_id)
    [] f = "gas_limit" -> Str(3, tx.gas_limit)
    [] f = "to" -> IF tx.to = None THEN Str(0, 0) ELSE Str(20, tx.to)
    [] f = "value" -> Str(1, tx.value)
    [] f = "data" -> IF tx.method_selector = None THEN Str(3, 0) ELSE Str(36, tx.method_selector)
    [] f = "access_list" -> List(<<List(<<Str(20, Own), List(<<Str(32, 0), Str(32, 1)>>)>>)>>)
    [] f = "blob_versioned_hashes" -> List(<<Str(32, 0)>>)
    [] f \in {"y_parity", "r", "s"} -> Str(1, 1)

Encode(type, tx) ==
  LET names == EnvelopeFields[type]
  IN  [first |-> type, trailing |-> FALSE,
       body |-> List([i \in DOMAIN names |-> EncodeField(tx, names[i])])]

Tx(chain, to, value, gas, selector) ==
  [chain_id |-> chain, to |-> to, value |-> value, gas_limit |-> gas, method_selector |-> selector]

Transfer == Tx(1, Own, 3, 21, None)
Call == Tx(1, Other, 0, 90, Selector)
Create == Tx(2, None, 9, 50, Selector)

SetItem(raw, i, item) == [raw EXCEPT !.body.items[i] = item]

\* An envelope with what it stands for, None when it is malformed.
WellFormed == {[raw |-> Encode(type, tx), tx |-> tx] :
                 type \in DOMAIN EnvelopeFields, tx \in {Transfer, Call, Create}}
Malformed ==
  {[raw |-> raw, tx |-> None] : raw \in
    { [Encode("legacy", Transfer) EXCEPT !.trailing = TRUE],
      [Encode("eip1559", Transfer) EXCEPT !.first = "eip2930"],
      [Encode("eip1559", Transfer) EXCEPT !.first = "unknown"],
      SetItem(Encode("eip2930", Transfer), 4, Str(9, 21)),
      SetItem(Encode("eip1559", Transfer), 7, ZeroLed(Str(2, 3))),
      SetItem(Encode("eip1559", Transfer), 6, Str(19, Own)),
      SetItem(Encode("eip4844", Transfer), 11, List(<<Str(31, 0)>>)),
      SetItem(Encode("eip2930", Transfer), 8, List(<<List(<<Str(20, Own)>>)>>)) }}
Envelopes == WellFormed \cup Malformed

-----------------------------------------------------------------------------
(* Requests *)

Alice == [variant |-> "api", id |-> 1]
Bob == [variant |-> "oauth", id |-> 1]

Evm(wallet, requester, type, tx, hour) ==
  [wallet |-> wallet, requester |-> requester, vm |-> "Evm", chain_id |-> tx.chain_id,
   to |-> tx.to, raw |-> Encode(type, tx), day |-> 6, hour |-> hour]

Message == [wallet |-> 1, requester |-> Alice, vm |-> None, chain_id |-> None, to |-> None,
            raw |-> None, day |-> 0, hour |-> 6]

Qvm(complete, value) ==
  [wallet |-> 2, requester |-> Alice, vm |-> "Qvm", chain_id |-> 2, to |-> Other,
   raw |-> [complete |-> complete, chain_id |-> 2, to |-> Str(32, Other), value |-> value,
            gas_limit |-> 60], day |-> 6, hour |-> 23]

MCRequests ==
  { Evm(1, Alice, "eip1559", Transfer, 23), Evm(2, Alice, "eip2930", Call, 6),
    Evm(1, Bob, "eip4844", Create, 0), Evm(2, Bob, "legacy", Transfer, 22),
    [Evm(1, Alice, "legacy", Transfer, 6) EXCEPT !.raw.trailing = TRUE],
    Message, Qvm(6, Str(33, 0)), Qvm(4, Str(1, 1)) }

-----------------------------------------------------------------------------
(* Policies *)

Policy(decoder, default, rules) ==
  [version |-> 1, decoder |-> decoder, default |-> default, rules |-> rules]
RateLimit(tokens, refill, scope) ==
  [kind |-> "RateLimit", tokens |-> tokens, refill |-> refill, scope |-> scope]
ValueCap(chain, cap) == [kind |-> "ValueCap", chain_id |-> chain, max_value |-> cap]
VmShape(vm, max_value, max_gas, selectors) ==
  [kind |-> "VmShape", vm |-> vm, max_value |-> max_value, max_gas |-> max_gas,
   selectors |-> selectors]
TimeWindow(mask, start, end) == [kind |-> "TimeWindow", mask |-> mask, start |-> start, end |-> end]
RequireQuorum(threshold, total, trigger) ==
  [kind |-> "RequireQuorum", threshold |-> threshold, total |-> total, approver_set |-> total,
   trigger |-> trigger]
Night == [kind |-> "OutsideTimeWindow", mask |-> {0, 6}, start |-> 6, end |-> 22]

MCPolicies ==
  { Policy("evm", "Allow",
      << [kind |-> "AllowChain", chain_ids |-> {1}], [kind |-> "AllowChain", chain_ids |-> {2}],
         ValueCap(1, Dec(5)), ValueCap(2, Dec(8)),
         RateLimit(2, 2, "PerWallet"), RateLimit(1, 0, "PerWalletRequester"),
         RequireQuorum(2, 3, [kind |-> "ValueGte", chain_id |-> 1, value |-> Dec(3)]) >>),
    Policy("evm", "Deny",
      << RequireQuorum(1, 2, Night),
         [kind |-> "AllowContract", chain_id |-> 1,
          addresses |-> {Hex("0x", Own), Hex("upper", Other)}],
         [kind |-> "AllowMethod", chain_id |-> 1, contract |-> Hex("plain", Other),
          selectors |-> {Hex("0x", Selector)}],
         [kind |-> "AllowMethod", chain_id |-> 2, contract |-> None, selectors |-> {}],
         RateLimit(1, 1, "PerRequester"), RequireQuorum(2, 2, [kind |-> "Always"]) >>),
    Policy("qvm", "Allow",
      << [kind |-> "DenyChain", chain_ids |-> {1}], TimeWindow({0, 6}, 22, 7),
         RateLimit(2, 1, "PerWallet"), RateLimit(1, 2, "PerWallet"),
         VmShape("Qvm", Dec(5), 60, None) >>),
    Policy("evm", "Allow",
      << [kind |-> "DenyContract", chain_id |-> 1, addresses |-> {Hex("upper", Own)}],
         TimeWindow({6}, 0, 24), VmShape("Evm", None, 60, {Hex("plain", Selector)}),
         VmShape("Evm", Dec(9), None, {}) >>),
    Policy("none", "Allow", << VmShape("Evm", BadDec, None, None) >>),
    Policy("none", "Allow", << ValueCap(1, Dec(3)), ValueCap(1, BadDec) >>),
    Policy("none", "Allow",
      << RequireQuorum(1, 1, [kind |-> "ValueGte", chain_id |-> 1, value |-> BadDec]) >>),
    Policy("none", "Deny", << RateLimit(0, 1, "PerWallet") >>),
    [Policy("none", "Deny", << >>) EXCEPT !.version = 2] }

MCRestrictions ==
  { [kind |-> "DenyChain", chain_ids |-> {2}],
    [kind |-> "DenyContract", chain_id |-> 1, addresses |-> {Hex("0x", Other)}],
    ValueCap(1, Dec(2)), ValueCap(2, Dec(100)), TimeWindow({6}, 0, 23),
    VmShape("Evm", Dec(8), 55, {}) }

-----------------------------------------------------------------------------
(* Properties over the envelopes *)

\* The EVM decoder accepts exactly the envelopes encoded by the table of field
\* names its module documents, and reads from each the transaction it stands
\* for.
DecoderReadsTheEnvelope ==
  Fresh => \A e \in Envelopes : decode_evm_tx(e.raw) = e.tx
=============================================================================
