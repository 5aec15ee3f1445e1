--------------------------- MODULE MCAttestation ---------------------------
(***************************************************************************)
(* Attestation documents as modules sign them, as they arrive when a field *)
(* is lost, changed or exchanged on the way, and under chains that hold    *)
(* and do not.                                                             *)
(***************************************************************************)
EXTENDS AttestationVerifier, TLC

Cert(subject, issuer, key, from, to, signer) ==
  LET c == [form |-> "x509", subject |-> subject, issuer |-> issuer, curve |-> "P384", key |-> key,
            not_before |-> from, not_after |-> to]
  IN  [f \in DOMAIN c \cup {"signature"} |->
         IF f = "signature" THEN [key |-> signer, over |-> Tbs(c)] ELSE c[f]]

Root == Cert("root", "root", "kr", 0, 9, "kr")
OtherRoot == Cert("root", "root", "ko", 0, 9, "ko")
Inter == Cert("inter", "root", "ki", 0, 5, "kr")
ShortInter == Cert("inter", "root", "ki", 0, 3, "kr")
Leaf == Cert("leaf", "inter", "kl", 2, 6, "ki")
Elsewhere == Cert("leaf", "other", "kl", 2, 6, "ki")
SelfMade == Cert("leaf", "inter", "kl", 2, 6, "kl")
RawLeaf == [form |-> "ed25519", key |-> "kl"]

\* Who issued what under its own name.
IssuedBy == { <<Root, Root>>, <<Inter, Root>>, <<ShortInter, Root>>,
              <<Leaf, Inter>>, <<Leaf, ShortInter>> }

Facts(image, leaf) ==
  [module_id |-> "m", timestamp |-> 3, digest |-> "SHA384", pcrs |-> (0 :> image @@ 1 :> "kernel"),
   certificate |-> leaf, cabundle |-> <<Inter>>, public_key |-> Empty, user_data |-> Empty,
   nonce |-> [len |-> 32]]

Without(payload, i) == MapOf(SubSeq(payload.entries, 1, i - 1) \o
                             SubSeq(payload.entries, i + 1, Len(payload.entries)))
With(payload, entry) == MapOf(Append(payload.entries, entry))

Plain == encode_payload(Facts("image", Leaf))
\* The same facts in another order of keys, with keys this version does not
\* know and a null for a field that is absent.
Reworded == With(With(With(Without(Plain, 8), <<Text("user_data"), Null>>),
                      <<Text("extension"), Integer(1)>>), <<Integer(7), Null>>)

\* What modules signed: envelope, facts and key.
Attested ==
  { [envelope |-> Envelope("ES384", Plain, "kl"), facts |-> Facts("image", Leaf)],
    [envelope |-> Envelope("ES384", Reworded, "kl"), facts |-> Facts("image", Leaf)],
    [envelope |-> Envelope("ES384", encode_payload(Facts("debug", Leaf)), "kl"),
     facts |-> Facts("debug", Leaf)],
    [envelope |-> Envelope("EdDSA", encode_payload(Facts("image", RawLeaf)), "kl"),
     facts |-> Facts("image", RawLeaf)] }

Damaged ==
  LET signed == Envelope("ES384", Plain, "kl")
  IN  { [signed EXCEPT !.payload = Missing], [signed EXCEPT !.form = "garbage"],
        [signed EXCEPT !.payload.entries[2][2] = Integer(4)],
        [signed EXCEPT !.alg = "EdDSA"],
        Envelope("ES384", Plain, "kx"),
        Envelope("ES384", Without(Plain, 4), "kl"),
        Envelope("ES384", With(Plain, <<Text("pcrs"), MapOf(<< <<Integer(256), Bytes("image")>> >>)>>), "kl"),
        Envelope("ES384", With(Plain, <<Text("nonce"), Bytes([len |-> 16])>>), "kl") }

Envelopes == {a.envelope : a \in Attested} \cup Damaged

\* Documents as parsed, and with the parts a caller holds exchanged.
Parsed == {from_cose_sign1(e) : e \in Envelopes} \ {Missing}
Documents ==
  UNION { {d, [d EXCEPT !.parsed_payload.timestamp = 4],
           [d EXCEPT !.parsed_payload.pcrs[0] = "image"],
           [d EXCEPT !.cose_sign1.form = "untagged"]}
          \cup {[d EXCEPT !.leaf_certificate = leaf, !.cabundle = bundle] :
                  leaf \in {Leaf, Elsewhere, SelfMade, RawLeaf},
                  bundle \in {<< >>, <<Inter>>, <<ShortInter>>, <<Root, Inter>>, <<Inter, Root>>}}
          : d \in Parsed }

MaxAge == 2

\* The document says what a module signed with the leaf's key, for the image
\* expected, no longer ago than allowed, and every certificate from the leaf to
\* the root was issued by the next and is valid now.
Genuine(doc, root, at) ==
  /\ \E a \in Attested :
       /\ [doc.cose_sign1 EXCEPT !.form = "tagged"] = a.envelope
       /\ \A f \in {"module_id", "timestamp", "pcrs", "public_key", "user_data"} :
            doc.parsed_payload[f] = a.facts[f]
       /\ a.facts.certificate = Leaf /\ a.facts.pcrs[0] = "image"
       /\ a.facts.timestamp - FutureSkew <= at /\ at <= a.facts.timestamp + MaxAge
  /\ doc.cabundle # << >>
  /\ LET chain == <<doc.leaf_certificate>> \o doc.cabundle \o <<root>>
     IN  /\ doc.leaf_certificate = Leaf
         /\ \A i \in 1..(Len(chain) - 1) : <<chain[i], chain[i + 1]>> \in IssuedBy
         /\ <<root, root>> \in IssuedBy
         /\ \A i \in DOMAIN chain : chain[i].not_before <= at /\ at <= chain[i].not_after

AcceptsExactlyGenuine ==
  \A doc \in Documents, root \in {Root, OtherRoot}, at \in 0..7 :
    (verify_attestation_with_root(doc, (0 :> "image"), root, at, MaxAge) = "Ok")
      = Genuine(doc, root, at)

\* Mock documents verify as they were signed, with any part changed they do
\* not, and in production none does.
MockDocumentsAreKept ==
  LET doc == sign_attestation("km", "n", "u", 3)
      changed == { [doc EXCEPT !.payload.user_data = "v"], [doc EXCEPT !.raw_payload.nonce = "o"],
                   [doc EXCEPT !.payload.timestamp = 4, !.raw_payload.timestamp = 4] }
  IN  /\ verify_mock_attestation(doc, FALSE)
      /\ \A d \in changed \cup {doc} : ~verify_mock_attestation(d, d = doc)
=============================================================================
