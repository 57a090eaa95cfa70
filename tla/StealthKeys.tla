---------------------------- MODULE StealthKeys ----------------------------
(***************************************************************************)
(* The lattice arithmetic of a stealth payment: js-client/src/mldsa65.ts,  *)
(* the recipient's key generation (ui/src/lib/keygen.ts) and the sender's  *)
(* derivation of a stealth key (js-client/src/scheme.ts), on the same      *)
(* shapes with smaller numbers: a byte has ByteBits bits, and the code's   *)
(* constants (8; N 256, K 6, L 5, D 13, ETA 4, Q = 2^23 - 2^13 + 1, ROOT   *)
(* of order 2N) keep their relations.  Hash outputs and bytes32 values are *)
(* numbers, XOF is some stream of bytes for each of them.                  *)
(***************************************************************************)
EXTENDS Integers, FiniteSets, SequencesExt

CONSTANTS
  ByteBits, N, K, L, D, ETA, ROOT,
  StreamLen,     \* bound: the groups of bytes read of one stream
  Seeds,         \* the recipient's zeta, and the shared secrets
  MaxPayments,   \* bound
  None

Q_BITS == 3 * ByteBits - 1
T1_BITS == Q_BITS - D
Q == 2^Q_BITS - 2^D + 1

VARIABLES
  zeta, meta,    \* the recipient's seed and published meta-address
  derived        \* the shared secrets paid with and the stealth keys derived

keyVars == <<zeta, meta, derived>>

XOF(seed, nonce, i) == LET x == (seed * 271 + nonce * 53 + i) % 9973 IN ((x * x) % 9973) % 2^ByteBits
-----------------------------------------------------------------------------
(* Polynomials: functions on 0..N-1 to 0..Q-1 *)

Index == 0..N - 1
Sum(f, S) == FoldLeft(LAMBDA acc, i : (acc + f[i]) % Q, 0, SetToSeq(S))
Pow[b \in 0..Q - 1, e \in 0..2 * Q] ==
  IF e = 0 THEN 1
  ELSE LET h == Pow[(b * b) % Q, e \div 2] IN IF e % 2 = 1 THEN (h * b) % Q ELSE h
modpow(b, e) == Pow[b % Q, e]

LogN == CHOOSE l \in 0..N : 2^l = N
bitrev8(x) == FoldLeft(LAMBDA r, i : 2 * r + ((x \div 2^i) % 2), 0, [i \in 1..LogN |-> i - 1])
ZETAS == [i \in Index |-> modpow(ROOT, bitrev8(i))]

(* One layer of the transforms: butterflies at distance len, one zeta for     *)
(* each block, counted up (ntt) or down (invntt).                             *)
NttLayer(a, len) ==
  [i \in Index |->
     LET zeta_ == ZETAS[N \div (2 * len) + i \div (2 * len)] IN
     IF i % (2 * len) < len THEN (a[i] + zeta_ * a[i + len]) % Q
     ELSE ((a[i - len] - ((zeta_ * a[i]) % Q)) + Q) % Q]
ntt(a) == FoldLeft(NttLayer, a, [l \in 1..LogN |-> 2^(LogN - l)])

InvLayer(a, len) ==
  [i \in Index |->
     LET zeta_ == ZETAS[N \div len - 1 - i \div (2 * len)] IN
     IF i % (2 * len) < len THEN (a[i] + a[i + len]) % Q
     ELSE ((((a[i - len] - a[i]) + Q) % Q) * (Q - zeta_)) % Q]
INV256 == modpow(N, Q - 2)
invntt(a) ==
  LET b == FoldLeft(InvLayer, a, [l \in 1..LogN |-> 2^(l - 1)]) IN [i \in Index |-> (b[i] * INV256) % Q]

polyPointwiseAcc(acc, a, b) == [i \in Index |-> (acc[i] + a[i] * b[i]) % Q]

(* Samplers: the first N of the stream that pass, read three bytes at a time  *)
(* with the top bit of the third left out, or half a byte at a time.          *)
FirstN(s, Passes(_)) == LET t == SelectSeq(s, Passes) IN [i \in Index |-> t[i + 1]]

expandA(rho) ==
  [r \in 1..K |-> [s \in 1..L |->
     LET B(i) == XOF(rho, (s - 1) + 2^ByteBits * (r - 1), i)
         groups == [g \in 1..StreamLen |->
                      B(3 * g) + 2^ByteBits * B(3 * g + 1) + 4^ByteBits * (B(3 * g + 2) % 2^(ByteBits - 1))]
     IN  FirstN(groups, LAMBDA z : z < Q)]]

expandS(seed) ==
  LET Half == 2^(ByteBits \div 2)
      samplePoly(nonce) ==
        LET halves == [h \in 1..2 * StreamLen |->
                         LET byte == XOF(seed, nonce, (h - 1) \div 2) IN
                         IF h % 2 = 1 THEN byte % Half ELSE byte \div Half]
            small == FirstN(halves, LAMBDA z : z < 2 * ETA + 1)
        IN  [i \in Index |-> (ETA - small[i] + Q) % Q]
  IN  [s1 |-> [j \in 1..L |-> samplePoly(j - 1)], s2 |-> [j \in 1..K |-> samplePoly(L + j - 1)]]

(* Rounding and packing.  A name ending in _Something is a slip the next      *)
(* definition could have.                                                     *)
power2roundT1_Floor(c) == c \div 2^D
power2roundT1(c) ==
  LET r == c % 2^D
      r0 == IF r > 2^(D - 1) THEN r - 2^D ELSE r
  IN  (c - r0) \div 2^D

(* The accumulator is a machine word of four bytes. *)
Word(v) == v % 2^(4 * ByteBits)

bitPack(values, bits) ==
  LET Put(st, v) ==
        LET acc == Word(st.acc + Word(v * 2^st.accBits))
            full == (st.accBits + bits) \div ByteBits
        IN  [acc |-> acc \div 2^(ByteBits * full), accBits |-> (st.accBits + bits) % ByteBits,
             out |-> st.out \o [i \in 1..full |-> (acc \div 2^(ByteBits * (i - 1))) % 2^ByteBits]]
      st == FoldLeft(Put, [acc |-> 0, accBits |-> 0, out |-> <<>>], values)
  IN  IF st.accBits > 0 THEN Append(st.out, st.acc % 2^ByteBits) ELSE st.out

bitUnpack(data, bits, count) ==
  LET Take(st, i) ==
        LET need == IF st.accBits < bits THEN ((bits - st.accBits) + ByteBits - 1) \div ByteBits ELSE 0
            acc == FoldLeft(LAMBDA a, k : Word(a + Word(data[st.pos + k] * 2^(st.accBits + ByteBits * (k - 1)))),
                            st.acc, [k \in 1..need |-> k])
        IN  [acc |-> acc \div 2^bits, accBits |-> (st.accBits + ByteBits * need) - bits,
             pos |-> st.pos + need, out |-> Append(st.out, acc % 2^bits)]
  IN  FoldLeft(Take, [acc |-> 0, accBits |-> 0, pos |-> 0, out |-> <<>>], [i \in 1..count |-> i]).out

Coeffs(p) == [i \in 1..N |-> p[i - 1]]
packPk(rho, t1) == <<rho>> \o FlattenSeq([r \in 1..K |-> bitPack(Coeffs(t1[r]), T1_BITS)])
-----------------------------------------------------------------------------
(* A * s + e, row by row *)
Zero == [i \in Index |-> 0]
Rows(A, s, e) ==
  LET sHat == [j \in 1..L |-> ntt(s[j])] IN
  [r \in 1..K |->
     LET u == invntt(FoldLeft(LAMBDA acc, j : polyPointwiseAcc(acc, A[r][j], sHat[j]), Zero,
                              [j \in 1..L |-> j]))
     IN  [i \in Index |-> (u[i] + e[r][i]) % Q]]

META_ADDRESS_VERSION == 1

(* Outputs of SHAKE256 *)
Rho(z) == 3 * z + 1
RhoPrime(z) == 3 * z + 2
BlindSeed(ss) == 3 * ss

(* t is published at full precision. *)
deriveMetaAddress(z) ==
  LET secret == expandS(RhoPrime(z))
      t == Rows(expandA(Rho(z)), secret.s1, secret.s2)
      tFlat == [k \in 1..K * N |-> t[(k - 1) \div N + 1][(k - 1) % N]]
  IN  <<META_ADDRESS_VERSION, Rho(z)>> \o bitPack(tFlat, Q_BITS) \o <<<<"ek", z>>>>

TBytes == (K * N * Q_BITS) \div ByteBits

decodeMetaAddress(bytes) ==
  IF Len(bytes) # TBytes + 3 \/ bytes[1] # META_ADDRESS_VERSION THEN None
  ELSE LET coeffs == bitUnpack(SubSeq(bytes, 3, 2 + TBytes), Q_BITS, K * N) IN
       [rho |-> bytes[2], kemEk |-> bytes[3 + TBytes],
        t |-> [r \in 1..K |-> [i \in Index |-> coeffs[(r - 1) * N + i + 1]]]]

deriveStealthPk(rho, t, ss) ==
  LET blind == expandS(BlindSeed(ss))
      u == Rows(expandA(rho), blind.s1, blind.s2) IN
  packPk(rho, [r \in 1..K |-> [i \in Index |-> power2roundT1((u[r][i] + t[r][i]) % Q)]])
-----------------------------------------------------------------------------
Init == zeta = None /\ meta = None /\ derived = {}

Publish(z) == /\ zeta = None /\ zeta' = z /\ meta' = deriveMetaAddress(z)
              /\ UNCHANGED derived

Pay(ss) ==
  LET m == decodeMetaAddress(meta) IN
  /\ meta # None /\ Cardinality(derived) < MaxPayments
  /\ derived' = derived \cup {[ss |-> ss, pk |-> deriveStealthPk(m.rho, m.t, ss)]}
  /\ UNCHANGED <<zeta, meta>>

Next == \E z \in Seeds : Publish(z) \/ Pay(z)

Spec == Init /\ [][Next]_keyVars
-----------------------------------------------------------------------------
(* Reference arithmetic: a transform holds the values at the odd powers of    *)
(* ROOT; polynomials multiply modulo X^N + 1.                                 *)
Point(i) == modpow(ROOT, 2 * bitrev8(i) + 1)
FromValues(v) ==
  [j \in Index |-> (INV256 * Sum([i \in Index |-> (v[i] * modpow(Point(i), 2 * N - j)) % Q], Index)) % Q]
Times(a, b) ==
  [k \in Index |-> Sum([i \in Index |-> IF i <= k THEN (a[i] * b[k - i]) % Q
                                        ELSE (Q - ((a[i] * b[(N + k) - i]) % Q)) % Q], Index)]
Plus(a, b) == [i \in Index |-> (a[i] + b[i]) % Q]
Centred(c) == IF c > Q \div 2 THEN c - Q ELSE c

(* The stealth key that a sender derives from the published bytes alone is    *)
(* the ML-DSA key of the short vectors s1 + s1', s2 + s2' that the recipient  *)
(* knows: what it rounds away of A (s1 + s1') + s2 + s2' is at most half a    *)
(* step, and the sums stay within twice the bound on one.                     *)
StealthKeySpendable ==
  LET A == expandA(Rho(zeta))
      own == expandS(RhoPrime(zeta)) IN
  \A d \in derived :
    LET blind == expandS(BlindSeed(d.ss))
        t1 == bitUnpack(Tail(d.pk), T1_BITS, K * N)
        s == [j \in 1..L |-> Plus(own.s1[j], blind.s1[j])]
        e == [r \in 1..K |-> Plus(own.s2[r], blind.s2[r])] IN
    /\ \A p \in {s[j] : j \in 1..L} \cup {e[r] : r \in 1..K}, i \in Index :
         Centred(p[i]) \in -2 * ETA..2 * ETA
    /\ \A r \in 1..K :
         LET T == FoldLeft(LAMBDA acc, j : Plus(acc, Times(FromValues(A[r][j]), s[j])), e[r],
                           [j \in 1..L |-> j]) IN
         \A i \in Index :
           Centred(((T[i] - t1[(r - 1) * N + i + 1] * 2^D) + Q * 2^D) % Q) \in -(2^(D - 1) - 1)..2^(D - 1)
=============================================================================
