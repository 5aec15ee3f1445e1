------------------------ MODULE AttestationVerifier ------------------------
(***************************************************************************)
(* Reading and verifying attestation documents: the COSE envelope and its  *)
(* CBOR payload (qfc-enclave/src/cose.rs), the certificate chain, the PCRs *)
(* and the age (verify_attestation.rs), and the mock documents             *)
(* (attestation.rs).  A byte string is its length and what it stands for;  *)
(* CBOR values carry their type.  A signature is the key it was made with  *)
(* and what it covers, so it verifies for exactly that pair.               *)
(***************************************************************************)
EXTENDS Integers, Sequences, FiniteSets

CONSTANTS
  Missing,        \* Option::None
  FutureSkew      \* the minute a timestamp may be ahead

Text(s) == [type |-> "text", text |-> s]
Integer(i) == [type |-> "integer", int |-> i]
Bytes(b) == [type |-> "bytes", bytes |-> b]
Null == [type |-> "null"]
MapOf(entries) == [type |-> "map", entries |-> entries]
ArrayOf(items) == [type |-> "array", items |-> items]
Empty == [len |-> 0]

-----------------------------------------------------------------------------
(* The payload map *)

RequiredFields == {"module_id", "timestamp", "digest", "pcrs", "certificate", "cabundle"}
OptionalFields == {"public_key", "user_data", "nonce"}

\* decode_pcr_map: every key an integer that fits a byte, every value bytes.
IsPcrMap(v) ==
  v.type = "map" /\ \A i \in DOMAIN v.entries :
    LET e == v.entries[i]
    IN  e[1].type = "integer" /\ e[1].int \in 0..255 /\ e[2].type = "bytes"

\* as_text, as_i64, as_bytes, as_optional_bytes, decode_cabundle.
FieldType(key, v) ==
  CASE key \in {"module_id", "digest"} -> v.type = "text"
    [] key = "timestamp" -> v.type = "integer"
    [] key = "certificate" -> v.type = "bytes"
    [] key = "pcrs" -> IsPcrMap(v)
    [] key = "cabundle" -> v.type = "array" /\ \A i \in DOMAIN v.items : v.items[i].type = "bytes"
    [] key \in OptionalFields -> v.type \in {"bytes", "null"}

\* The last entry with a key wins, in a map as in the loop over the entries.
LastOf(positions) == CHOOSE i \in positions : \A j \in positions : j <= i

decode_pcrs(v) ==
  [idx \in {v.entries[i][1].int : i \in DOMAIN v.entries} |->
     v.entries[LastOf({i \in DOMAIN v.entries : v.entries[i][1].int = idx})][2].bytes]

FieldValue(key, v) ==
  CASE v.type = "text" -> v.text
    [] v.type = "integer" -> v.int
    [] v.type = "bytes" -> v.bytes
    [] v.type = "null" -> Empty
    [] v.type = "map" -> decode_pcrs(v)
    [] v.type = "array" -> [i \in DOMAIN v.items |-> v.items[i].bytes]

\* decode_payload_map: unknown keys and keys that are no text are passed over;
\* Missing stands for every error.
decode_payload_map(v) ==
  LET entries == v.entries
      named(e) == e[1].type = "text" /\ e[1].text \in RequiredFields \cup OptionalFields
      known == {i \in DOMAIN entries : named(entries[i])}
      keys == {entries[i][1].text : i \in known}
      last(key) == entries[LastOf({i \in known : entries[i][1].text = key})][2]
  IN  IF v.type # "map" THEN Missing
      ELSE IF \E i \in known : ~FieldType(entries[i][1].text, entries[i][2]) THEN Missing
      ELSE IF ~(RequiredFields \subseteq keys) THEN Missing
      ELSE [key \in RequiredFields \cup OptionalFields |->
              IF key \in keys THEN FieldValue(key, last(key)) ELSE Empty]

\* encode_payload: the fields in their fixed order, PCRs by index.
encode_payload(p) ==
  LET pcr(i) == <<Integer(i), Bytes(p.pcrs[i])>>
      indices == DOMAIN p.pcrs
      sorted == [k \in 1..Cardinality(indices) |->
                   CHOOSE i \in indices : Cardinality({j \in indices : j <= i}) = k]
  IN  MapOf(<< <<Text("module_id"), Text(p.module_id)>>, <<Text("timestamp"), Integer(p.timestamp)>>,
               <<Text("digest"), Text(p.digest)>>,
               <<Text("pcrs"), MapOf([k \in DOMAIN sorted |-> pcr(sorted[k])])>>,
               <<Text("certificate"), Bytes(p.certificate)>>,
               <<Text("cabundle"), ArrayOf([i \in DOMAIN p.cabundle |-> Bytes(p.cabundle[i])])>>,
               <<Text("public_key"), Bytes(p.public_key)>>,
               <<Text("user_data"), Bytes(p.user_data)>>, <<Text("nonce"), Bytes(p.nonce)>> >>)

-----------------------------------------------------------------------------
(* The envelope *)

\* build_test_envelope and its ES384 form: the signature covers the protected
\* header and the payload, nothing else.
Envelope(alg, payload, key) ==
  [form |-> "tagged", alg |-> alg, payload |-> payload,
   signature |-> [alg |-> alg, key |-> key, over |-> <<alg, payload>>]]

\* parse_cose_sign1 then extract_payload.
extract_payload(envelope) ==
  IF envelope.form \notin {"tagged", "untagged"} \/ envelope.payload = Missing THEN Missing
  ELSE decode_payload_map(envelope.payload)

signature_kind_from_envelope(envelope) ==
  IF envelope.alg = "ES384" THEN "CoseSign1Es384" ELSE "CoseSign1Ed25519"

\* from_cose_sign1: the nonce is 32 bytes or absent, which reads as zeros.
from_cose_sign1(envelope) ==
  LET inner == extract_payload(envelope)
  IN  IF inner = Missing THEN Missing
      ELSE IF inner.nonce.len \notin {0, 32} THEN Missing
      ELSE [cose_sign1 |-> envelope, signature_kind |-> signature_kind_from_envelope(envelope),
            parsed_payload |-> [f \in {"module_id", "timestamp", "pcrs", "public_key", "user_data",
                                       "nonce"} |-> inner[f]],
            leaf_certificate |-> inner.certificate, cabundle |-> inner.cabundle]

\* verify_cose_signature: the leaf field is a raw ed25519 key.
verify_cose_signature(envelope, leaf) ==
  /\ leaf.form = "ed25519"
  /\ envelope.signature.key = leaf.key /\ envelope.signature.over = <<envelope.alg, envelope.payload>>
  /\ envelope.signature.alg # "ES384"

\* verify_cose_signature_es384: the leaf field is a certificate with a P-384 key.
verify_cose_signature_es384(envelope, leaf) ==
  /\ leaf.form = "x509" /\ leaf.curve = "P384"
  /\ envelope.signature.key = leaf.key /\ envelope.signature.over = <<envelope.alg, envelope.payload>>
  /\ envelope.signature.alg = "ES384"

-----------------------------------------------------------------------------
(* The certificate chain *)

\* The to-be-signed part of a certificate.
Tbs(cert) == <<cert.subject, cert.issuer, cert.curve, cert.key, cert.not_before, cert.not_after>>

check_validity(cert, now) == cert.not_before <= now /\ now <= cert.not_after

verify_p384_signature(child, parent) ==
  parent.curve = "P384" /\ child.signature = [key |-> parent.key, over |-> Tbs(child)]

check_pair(child, parent, now) ==
  /\ child.issuer = parent.subject
  /\ check_validity(child, now)
  /\ verify_p384_signature(child, parent)

\* Mutant: the window of the leaf is taken to cover the whole chain.
RootChainLeafWindow(leaf, cabundle, root, now) ==
  LET chain == <<leaf>> \o cabundle \o <<root>>
  IN  /\ \A i \in DOMAIN chain : chain[i].form = "x509"
      /\ check_validity(leaf, now)
      /\ \A i \in 1..(Len(chain) - 1) :
           /\ chain[i].issuer = chain[i + 1].subject
           /\ verify_p384_signature(chain[i], chain[i + 1])
      /\ root.issuer = root.subject /\ verify_p384_signature(root, root)

\* verify_root_chain: from the leaf over the bundle to the root, which signs
\* itself.
verify_root_chain(leaf, cabundle, root, now) ==
  LET chain == <<leaf>> \o cabundle \o <<root>>
  IN  /\ \A i \in DOMAIN chain : chain[i].form = "x509"
      /\ \A i \in 1..(Len(chain) - 1) : check_pair(chain[i], chain[i + 1], now)
      /\ root.issuer = root.subject
      /\ check_validity(root, now)
      /\ verify_p384_signature(root, root)

-----------------------------------------------------------------------------
(* verify_attestation *)

\* PcrConstraint::check: PCRs 0 to 4 that are constrained.
PcrsMatch(expected, observed) ==
  \A idx \in DOMAIN expected : idx \in DOMAIN observed /\ observed[idx] = expected[idx]

\* The parsed mirror against the bytes; of a COSE payload, not the nonce.
RoundTrips(doc) ==
  IF doc.signature_kind = "Mock" THEN doc.cose_sign1.json = doc.parsed_payload
  ELSE LET inner == extract_payload(doc.cose_sign1)
       IN  /\ inner # Missing
           /\ \A f \in {"module_id", "timestamp", "pcrs", "public_key", "user_data"} :
                inner[f] = doc.parsed_payload[f]

SignatureVerifies(doc) ==
  CASE doc.signature_kind = "Mock" ->
         /\ doc.leaf_certificate.form = "ed25519"
         /\ doc.cose_sign1.signature = [key |-> doc.leaf_certificate.key, over |-> doc.cose_sign1.json]
    [] doc.signature_kind = "CoseSign1Ed25519" ->
         verify_cose_signature(doc.cose_sign1, doc.leaf_certificate)
    [] doc.signature_kind = "CoseSign1Es384" ->
         verify_cose_signature_es384(doc.cose_sign1, doc.leaf_certificate)

\* verify_attestation_inner; root is Missing for RootAnchor::None.
verify_attestation_inner(doc, expected, root, now, max_age) ==
  LET ts == doc.parsed_payload.timestamp
  IN  IF ~RoundTrips(doc) THEN "PayloadMismatch"
      ELSE IF ~PcrsMatch(expected, doc.parsed_payload.pcrs) THEN "PcrMismatch"
      ELSE IF ts > now + FutureSkew THEN "FromTheFuture"
      ELSE IF now - ts > max_age THEN "StaleAttestation"
      ELSE IF ~SignatureVerifies(doc) THEN "InvalidSignature"
      ELSE IF doc.cabundle = << >> THEN "CertChain"
      ELSE IF root # Missing /\ ~verify_root_chain(doc.leaf_certificate, doc.cabundle, root, now)
           THEN "CertChainBroken"
      ELSE "Ok"

\* verify_attestation ignores its trust anchor.
verify_attestation(doc, expected, anchor, now, max_age) ==
  verify_attestation_inner(doc, expected, Missing, now, max_age)
verify_attestation_with_root(doc, expected, root, now, max_age) ==
  verify_attestation_inner(doc, expected, root, now, max_age)

-----------------------------------------------------------------------------
(* Mock documents *)

\* MockAttestationKey::sign_attestation: PCRs 0 to 2 are the sentinel.
sign_attestation(key, nonce, user_data, now) ==
  LET payload == [backend |-> "mock", timestamp |-> now, nonce |-> nonce,
                  pcrs |-> [i \in 0..2 |-> "sentinel"],
                  attestation_public_key |-> key, user_data |-> user_data]
  IN  [raw_payload |-> payload, payload |-> payload,
       signature |-> [key |-> key, over |-> payload]]

\* verify_mock_attestation over AttestationDoc::verify.
verify_mock_attestation(doc, enforce_non_production) ==
  /\ ~(enforce_non_production /\ doc.payload.backend = "mock")
  /\ doc.raw_payload = doc.payload
  /\ doc.signature = [key |-> doc.payload.attestation_public_key, over |-> doc.raw_payload]
=============================================================================
