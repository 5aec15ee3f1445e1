----------------------------- MODULE KeySchemes -----------------------------
(***************************************************************************)
(* Signing schemes (qfc-wallet-types/src/scheme.rs), key derivation        *)
(* (qfc-enclave/src/derivation.rs) and the signers behind the Signer trait *)
(* (signer.rs, signers/).  A signature is the record of what it was made   *)
(* with and a public key that of its secret: only the same secret, message *)
(* and hash verify.  KeyLen stands for 32 bytes.                           *)
(***************************************************************************)
EXTENDS Integers, Sequences

CONSTANT KeyLen   \* length of a secret key, in digits of a seed

Secp == {"Secp256k1", "Secp256k1Recoverable"}
Classical == {"Ed25519"} \cup Secp
PostQuantum == {"MlDsa44", "MlDsa65", "MlDsa87"}
is_post_quantum(scheme) == scheme \notin Classical

\* ECDSA signs a digest, the others the message.
prehash(hash) == hash # "None"
require_no_hash(hash) == hash = "None"
HashAccepted(scheme, hash) == IF scheme \in Secp THEN prehash(hash) ELSE require_no_hash(hash)

\* The two secp256k1 schemes have one form of public key.
Family(scheme) == IF scheme \in Secp THEN "Secp256k1" ELSE scheme

RawKey(bits) == [kind |-> "raw", bits |-> bits]
HdKey(curve, seed, path) == [kind |-> "hd", curve |-> curve, seed |-> seed, path |-> path]

\* The secret the curve accepts: 32 bytes, and for ECDSA a scalar that is not 0.
SecretAccepted(scheme, key) ==
  key.kind = "raw" =>
    /\ Len(key.bits) = KeyLen
    /\ scheme \in Secp => \E i \in DOMAIN key.bits : key.bits[i] # 0

public_key(scheme, key) == [family |-> Family(scheme), key |-> key]

sign(scheme, key, message, hash) ==
  [scheme |-> scheme, key |-> key, message |-> message, hash |-> hash]

\* verify: the lengths of key and signature tell the schemes apart.
verify(scheme, pk, message, signature, hash) ==
  /\ HashAccepted(scheme, hash)
  /\ pk.family = Family(scheme)
  /\ signature = sign(scheme, pk.key, message, hash)

\* derive_classical: BIP32 for secp256k1, SLIP-0010 for ed25519, where every
\* segment has to be hardened; no post-quantum scheme derives.
Derivable(scheme, path) ==
  /\ ~is_post_quantum(scheme)
  /\ scheme = "Ed25519" => \A i \in DOMAIN path : path[i].hard
\* Mutant: the path is not used.
DeriveTheMaster(scheme, seed, path) == HdKey(Family(scheme), seed, << >>)

derive_classical(scheme, seed, path) == HdKey(Family(scheme), seed, path)
=============================================================================
