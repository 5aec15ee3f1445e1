------------------------------- MODULE Shamir -------------------------------
(***************************************************************************)
(* Splitting a seed into shares and putting it together again              *)
(* (qfc-sss/src/shamir.rs).  Bytes are digits of a small base, the chunk   *)
(* of 31 bytes is ChunkDigits digits, the four bytes of the length header  *)
(* are one digit, and the scalar field of secp256k1 is the integers modulo *)
(* a small prime.  The coefficients OsRng draws are an argument.           *)
(***************************************************************************)
EXTENDS Integers, Sequences, FiniteSets, Functions

CONSTANTS
  Base,         \* number of values of a byte
  ChunkDigits,  \* CHUNK_DATA_BYTES
  Prime         \* the order of the field

ASSUME ShamirAssumption ==
  /\ Base \in Nat /\ Base > 1 /\ ChunkDigits \in Nat \ {0}
  /\ Prime \in Nat /\ Prime > Base ^ ChunkDigits
  /\ \A d \in 2..(Prime - 1) : Prime % d # 0

\* ShamirParams::validate
ParamsAreValid(params) == params.threshold >= 2 /\ params.threshold <= params.total

\* The secret behind its length, padded to whole chunks.
Prefixed(secret) ==
  LET raw == <<Len(secret)>> \o secret
      pad == (ChunkDigits - (Len(raw) % ChunkDigits)) % ChunkDigits
  IN  raw \o [i \in 1..pad |-> 0]

\* scalar_from_bytes of one chunk, and scalar_to_bytes without its high byte.
scalar_from_bytes(chunk) == SumFunction([i \in DOMAIN chunk |-> chunk[i] * Base ^ (Len(chunk) - i)])
scalar_to_bytes(s) == [i \in 1..ChunkDigits |-> (s \div Base ^ (ChunkDigits - i)) % Base]

\* vsss-rs: the polynomial with this constant term, at one identifier.
ShareOf(scalar, coeffs, x) ==
  (scalar + SumFunction([k \in DOMAIN coeffs |-> coeffs[k] * x ^ k])) % Prime

\* split_secret; coeffs[c] are the coefficients drawn for chunk c.
split_secret(secret, params, coeffs) ==
  LET buf == Prefixed(secret)
      chunks == Len(buf) \div ChunkDigits
      chunk(c) == SubSeq(buf, (c - 1) * ChunkDigits + 1, c * ChunkDigits)
  IN  [x \in 1..params.total |->
         [index |-> x, params |-> params, len |-> Len(secret),
          body |-> [c \in 1..chunks |-> ShareOf(scalar_from_bytes(chunk(c)), coeffs[c], x)]]]

Inv(a) == CHOOSE b \in 1..(Prime - 1) : (a * b) % Prime = 1

\* vsss_combine: Lagrange interpolation at zero over all the shares given.
Lagrange(shares, c) ==
  LET at == [i \in DOMAIN shares |-> shares[i].index]
      times(a, b) == (a * b) % Prime
      weight(i) == FoldFunction(times, 1, [j \in DOMAIN shares \ {i} |->
                                             at[j] * Inv((at[j] - at[i]) % Prime)])
  IN  SumFunction([i \in DOMAIN shares |-> shares[i].body[c] * weight(i)]) % Prime

Failed(why) == [ok |-> FALSE, why |-> why]
Combined(secret) == [ok |-> TRUE, secret |-> secret]

\* Mutant: one share less than the threshold is enough.
RefusedOneLate(shares) ==
  IF shares = << >> THEN "NotEnoughShares"
  ELSE LET p == shares[1].params
       IN  IF Len(shares) + 1 < p.threshold THEN "NotEnoughShares"
           ELSE IF \E i \in DOMAIN shares : shares[i].params # p THEN "parameters mismatch"
           ELSE IF Cardinality({shares[i].index : i \in DOMAIN shares}) # Len(shares)
                THEN "duplicate share indices"
           ELSE "none"

\* The checks of combine_shares before it interpolates, in their order.
SharesRefused(shares) ==
  IF shares = << >> THEN "NotEnoughShares"
  ELSE LET p == shares[1].params
       IN  IF Len(shares) < p.threshold THEN "NotEnoughShares"
           ELSE IF \E i \in DOMAIN shares : shares[i].params # p THEN "parameters mismatch"
           ELSE IF Cardinality({shares[i].index : i \in DOMAIN shares}) # Len(shares)
                THEN "duplicate share indices"
           ELSE IF \E i \in DOMAIN shares : Len(shares[i].body) # Len(shares[1].body)
                THEN "share blob length mismatch"
           ELSE "none"

\* The chunks interpolated one by one, each without its high byte.
Recovered(shares) ==
  LET upTo[c \in 0..Len(shares[1].body)] ==
        IF c = 0 THEN << >> ELSE upTo[c - 1] \o scalar_to_bytes(Lagrange(shares, c))
  IN  upTo[Len(shares[1].body)]

\* combine_shares: the length recovered has to be the length the first share
\* declares, and has to fit.
combine_shares(shares) ==
  LET why == SharesRefused(shares)
  IN  IF why # "none" THEN Failed(why)
      ELSE LET buf == Recovered(shares)
               len == shares[1].len
           IN  IF Len(buf) < len THEN Failed("recovered shorter than declared")
               ELSE IF buf[1] # len THEN Failed("header mismatch on reconstruction")
               ELSE IF 1 + len > Len(buf) THEN Failed("recovered buffer too small")
               ELSE Combined(SubSeq(buf, 2, 1 + len))
=============================================================================
