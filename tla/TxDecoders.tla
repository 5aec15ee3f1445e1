----------------------------- MODULE TxDecoders -----------------------------
(***************************************************************************)
(* The structural transaction decoders of the policy engine                *)
(* (qfc-policy/src/decoders/evm.rs and qvm.rs).  An RLP item is a byte     *)
(* string of some length or a list of items; the bytes of a string are     *)
(* abstracted to the value they stand for and to whether they start with a *)
(* zero byte.  Every decoding error ends as None, because decode() drops   *)
(* it with .ok(), so an error is only the failure of a predicate.          *)
(***************************************************************************)
EXTENDS Integers, Sequences

CONSTANTS
  None,      \* Option::None
  MaxU256    \* U256::MAX, a small number in the model

ASSUME DecoderAssumption == MaxU256 \in Nat

Str(len, val) == [kind |-> "string", len |-> len, zero |-> FALSE, val |-> val]
ZeroLed(item) == [item EXCEPT !.zero = TRUE]
List(items) == [kind |-> "list", items |-> items]

-----------------------------------------------------------------------------
(* EVM envelopes *)

\* decode_u64 and decode_u256: a string that fits and has no leading zero.
IsUint(item, width) == item.kind = "string" /\ item.len <= width /\ ~item.zero

\* decode_optional_address: empty for a contract creation, or 20 bytes.
IsOptionalAddress(item) == item.kind = "string" /\ item.len \in {0, 20}

decode_optional_address(item) == IF item.len = 0 THEN None ELSE item.val

\* decode_hash_list: a list of strings of 32 bytes.
IsHashList(item) ==
  item.kind = "list" /\ \A i \in DOMAIN item.items :
    item.items[i].kind = "string" /\ item.items[i].len = 32

\* decode_access_list: a list of pairs of an address and a hash list.
IsAccessList(item) ==
  item.kind = "list" /\ \A i \in DOMAIN item.items :
    LET entry == item.items[i]
    IN  /\ entry.kind = "list" /\ Len(entry.items) = 2
        /\ entry.items[1].kind = "string" /\ entry.items[1].len = 20
        /\ IsHashList(entry.items[2])

\* Mutant: the gas limit of a 1559 envelope is read where a 2930 one has it.
Eip1559AtOldOffsets ==
  [fields |-> 12, u64 |-> {1, 2, 5, 10}, u256 |-> {3, 4, 7}, gas_limit |-> 4, to |-> 6,
   value |-> 7, data |-> 8, bytes |-> {8, 11, 12}, access_list |-> {9}, hashes |-> {}]

\* The indices at which each envelope's decoder reads its fields, from 1.
decode_legacy ==
  [fields |-> 9, u64 |-> {1, 3, 7}, u256 |-> {2, 5}, gas_limit |-> 3, to |-> 4,
   value |-> 5, data |-> 6, bytes |-> {6, 8, 9}, access_list |-> {}, hashes |-> {}]
decode_eip2930 ==
  [fields |-> 11, u64 |-> {1, 2, 4, 9}, u256 |-> {3, 6}, gas_limit |-> 4, to |-> 5,
   value |-> 6, data |-> 7, bytes |-> {7, 10, 11}, access_list |-> {8}, hashes |-> {}]
decode_eip1559 ==
  [fields |-> 12, u64 |-> {1, 2, 5, 10}, u256 |-> {3, 4, 7}, gas_limit |-> 5, to |-> 6,
   value |-> 7, data |-> 8, bytes |-> {8, 11, 12}, access_list |-> {9}, hashes |-> {}]
decode_eip4844 ==
  [fields |-> 14, u64 |-> {1, 2, 5, 12}, u256 |-> {3, 4, 7, 10}, gas_limit |-> 5, to |-> 6,
   value |-> 7, data |-> 8, bytes |-> {8, 13, 14}, access_list |-> {9}, hashes |-> {11}]

\* The type byte selects the layout; bytes up to 0x7f other than 1, 2 and 3
\* are unknown types, everything above is taken for a legacy list.
Layout(first) ==
  CASE first = "eip2930" -> decode_eip2930
    [] first = "eip1559" -> decode_eip1559
    [] first = "eip4844" -> decode_eip4844
    [] first = "legacy" -> decode_legacy

\* Every field of the list has the form its decoder insists on.
FieldsDecode(l, items) ==
  /\ Len(items) = l.fields
  /\ \A i \in l.u64 : IsUint(items[i], 8)
  /\ \A i \in l.u256 : IsUint(items[i], 32)
  /\ \A i \in l.bytes : items[i].kind = "string"
  /\ \A i \in l.access_list : IsAccessList(items[i])
  /\ \A i \in l.hashes : IsHashList(items[i])
  /\ IsOptionalAddress(items[l.to])

\* chain_id of a decoded envelope: explicit, or from EIP-155's v, or the
\* sentinel 0 for a legacy transaction without one.
EvmChainId(first, items) ==
  IF first # "legacy" THEN items[1].val
  ELSE IF items[7].val >= 35 THEN (items[7].val - 35) \div 2 ELSE 0

\* first_four
first_four(data) == IF data.len < 4 THEN None ELSE data.val

\* decode_evm_tx followed by the conversion to DecodedTx, or None.
decode_evm_tx(raw) ==
  IF raw.first \in {"empty", "unknown"} \/ raw.trailing \/ raw.body.kind # "list" THEN None
  ELSE LET l == Layout(raw.first)
           items == raw.body.items
       IN  IF ~FieldsDecode(l, items) THEN None
           ELSE [chain_id |-> EvmChainId(raw.first, items),
                 to |-> decode_optional_address(items[l.to]),
                 value |-> items[l.value].val,
                 gas_limit |-> items[l.gas_limit].val,
                 method_selector |-> first_four(items[l.data])]

-----------------------------------------------------------------------------
(* QVM envelopes *)

\* value_bytes_to_u256: wider than 32 bytes saturates.
value_bytes_to_u256(bytes) ==
  IF bytes.len = 0 THEN 0 ELSE IF bytes.len > 32 THEN MaxU256 ELSE bytes.val

\* decode_qvm_tx: tx_type, chain_id, to, value and gas_limit must be there;
\* data is skipped, and an incomplete one is tolerated.
decode_qvm_tx(raw) ==
  IF raw.complete < 5 THEN None
  ELSE [chain_id |-> raw.chain_id,
        to |-> IF raw.to.len = 0 THEN None ELSE raw.to.val,
        value |-> value_bytes_to_u256(raw.value),
        gas_limit |-> raw.gas_limit,
        method_selector |-> None]

\* VmDecoder::decode of the wired decoder: it knows one VM.
Decode(decoder, vm, raw) ==
  CASE decoder = "evm" /\ vm = "Evm" -> decode_evm_tx(raw)
    [] decoder = "qvm" /\ vm = "Qvm" -> decode_qvm_tx(raw)
    [] OTHER -> None
=============================================================================
