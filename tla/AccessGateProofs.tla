--------------------------- MODULE AccessGateProofs ---------------------------
(***************************************************************************)
(* Proofs about AccessGate, for addresses of any width, any allow-list     *)
(* files, any number of workers and any burst: the mask arithmetic of      *)
(* ip_in_subnet is membership in a range of addresses, a request is let    *)
(* through exactly as the file says that the process read, and no choice   *)
(* of methods and connections gets more requests past a worker's limiter   *)
(* than its burst and what it gave back.  The theorems of CrlStoreProofs   *)
(* hold of the whole gate.                                                 *)
(***************************************************************************)
EXTENDS AccessGate, CrlStoreProofs, FiniteSetTheorems, FunctionTheorems, WellFoundedInduction

-----------------------------------------------------------------------------
(* Numbers.  Induction is by a least counterexample. *)

\* A nonempty set of naturals has a least element.
LEMMA Least ==
    ASSUME NEW T, T \subseteq Nat, T # {}
    PROVE  \E m \in T : \A y \in T : m <= y
<1>. DEFINE R == {ss \in Nat \X Nat : ss[1] < ss[2]}
<1>1. IsWellFoundedOn(R, Nat)
  BY NatLessThanWellFounded DEF OpToRel
<1>2. \E x \in T : \A y \in T : ~ (<<y, x>> \in R)
  <2>. HIDE DEF R
  <2>. QED
    BY <1>1, WFMin
<1>3. PICK x \in T : \A y \in T : ~ (<<y, x>> \in R)
  BY <1>2
<1>4. ASSUME NEW y \in T PROVE x <= y
  <2>1. x \in Nat /\ y \in Nat
    OBVIOUS
  <2>2. <<y, x>>[1] = y /\ <<y, x>>[2] = x
    OBVIOUS
  <2>3. ~ (y < x)
    BY <1>3, <2>1, <2>2
  <2>. QED
    BY <2>1, <2>3
<1>. QED
  BY <1>4

\* Quotient and remainder.
LEMMA DivMod ==
    \A x \in Nat, d \in Nat \ {0} :
        x \div d \in Nat /\ x % d \in 0 .. (d - 1) /\ x = d * (x \div d) + (x % d)
BY SMT

\* They are the only such numbers.
LEMMA DivUnique ==
    \A x \in Nat, d \in Nat \ {0}, q \in Nat : d * q <= x /\ x < d * q + d => x \div d = q
BY SMT

LEMMA ModUnique ==
    \A x \in Nat, d \in Nat \ {0}, q \in Nat :
        d * q <= x /\ x < d * q + d => x % d = x - d * q
<1>. SUFFICES ASSUME NEW x \in Nat, NEW d \in Nat \ {0}, NEW q \in Nat,
                     d * q <= x, x < d * q + d
              PROVE  x % d = x - d * q
  OBVIOUS
<1>1. x \div d = q
  BY DivUnique
<1>2. x % d \in 0 .. (d - 1) /\ x = d * q + (x % d)
  BY <1>1, DivMod
<1>. DEFINE r == x % d
<1>3. r \in Int /\ x = d * q + r /\ d * q \in Int
  BY <1>2
<1>. HIDE DEF r
<1>4. r = x - d * q
  <2>. DEFINE m == d * q
  <2>. HIDE DEF m
  <2>. QED
    BY <1>3 DEF m
<1>. QED
  BY <1>4 DEF r

LEMMA DivTwice ==
    \A x \in Nat, d \in Nat \ {0}, e \in Nat \ {0} : x \div (d * e) = (x \div d) \div e
BY SMT

LEMMA Factor == \A a \in Nat, b \in Nat \ {0} : a <= a * b
BY SMT

\* Equal quotients are the same block of d numbers.
LEMMA SameBlock ==
    \A x \in Nat, y \in Nat, d \in Nat \ {0} :
        x \div d = y \div d <=> x \in (y - (y % d)) .. (y - (y % d) + d - 1)
BY SMT

\* A set of k + 1 elements has twice as many subsets as one of k.
LEMMA Double == ASSUME NEW k \in Nat PROVE 2^k \in Nat \ {0} /\ 2^(k + 1) = 2 * 2^k
<1>. DEFINE S == 1 .. k
            A == SUBSET S
            B == {t \in SUBSET (1 .. (k + 1)) : k + 1 \in t}
            f == [t \in A |-> t \cup {k + 1}]
<1>1. /\ IsFiniteSet(S) /\ Cardinality(S) = k
      /\ IsFiniteSet(1 .. (k + 1)) /\ Cardinality(1 .. (k + 1)) = k + 1
  BY FS_Interval
<1>2. IsFiniteSet(A) /\ Cardinality(A) = 2^k
  BY <1>1, FS_SUBSET
<1>3. Cardinality(SUBSET (1 .. (k + 1))) = 2^(k + 1)
  BY <1>1, FS_SUBSET
<1>4. f \in Bijection(A, B)
  <2>1. f \in [A -> B]
    OBVIOUS
  <2>2. \A t, u \in A : f[t] = f[u] => t = u
    OBVIOUS
  <2>3. \A b \in B : \E t \in A : f[t] = b
    <3>1. ASSUME NEW b \in B PROVE b \ {k + 1} \in A /\ f[b \ {k + 1}] = b
      OBVIOUS
    <3>. QED
      BY <3>1
  <2>. HIDE DEF f, A, B
  <2>. QED
    BY <2>1, <2>2, <2>3 DEF Bijection, Injection, Surjection, IsInjective
<1>5. IsFiniteSet(B) /\ Cardinality(B) = Cardinality(A)
  <2>. HIDE DEF f, A, B
  <2>. QED
    BY <1>2, <1>4, FS_Bijection DEF ExistsBijection
<1>6. SUBSET (1 .. (k + 1)) = A \cup B /\ A \cap B = {}
  OBVIOUS
<1>7. Cardinality({}) = 0
  BY FS_EmptySet
<1>8. Cardinality(A) \in Nat /\ Cardinality(A) > 0
  <2>1. {} \in A
    OBVIOUS
  <2>. HIDE DEF A
  <2>. QED
    BY <2>1, <1>2, FS_CardinalityType, FS_EmptySet
<1>9. Cardinality(A \cup B) = Cardinality(A) + Cardinality(B) - Cardinality(A \cap B)
  <2>. HIDE DEF A, B
  <2>. QED
    BY <1>2, <1>5, FS_Union
<1>. DEFINE n == Cardinality(A)
<1>10. n \in Nat \ {0} /\ Cardinality(SUBSET (1 .. (k + 1))) = 2 * n
  <2>. HIDE DEF A, B, S
  <2>1. Cardinality(A \cup B) = n + n - 0 /\ n \in Nat /\ n > 0
    BY <1>5, <1>6, <1>7, <1>8, <1>9
  <2>2. n + n - 0 = 2 * n /\ n \in Nat \ {0}
    <3>. HIDE DEF n
    <3>. QED
      BY <2>1
  <2>. QED
    BY <2>1, <2>2, <1>6
<1>11. 2^k = n
  BY <1>2
<1>. HIDE DEF n, A, B, S
<1>. QED
  BY <1>3, <1>10, <1>11, Zenon

\* 2^k, its definition out of the provers' sight.
Pow(k) == 2^k

LEMMA PowNext == Pow(0) = 1 /\ \A k \in Nat : Pow(k) \in Nat \ {0} /\ Pow(k + 1) = 2 * Pow(k)
<1>1. Pow(0) = 1
  BY DEF Pow
<1>2. ASSUME NEW k \in Nat PROVE Pow(k) \in Nat \ {0} /\ Pow(k + 1) = 2 * Pow(k)
  BY Double, Zenon DEF Pow
<1>. QED
  BY <1>1, <1>2

LEMMA PowSum == ASSUME NEW a \in Nat, NEW b \in Nat PROVE Pow(a + b) = Pow(a) * Pow(b)
<1>. DEFINE T == {c \in Nat : Pow(a + c) # Pow(a) * Pow(c)}
<1>1. SUFFICES ASSUME T # {} PROVE FALSE
  OBVIOUS
<1>2. PICK c \in T : \A y \in T : c <= y
  <2>1. T \subseteq Nat
    OBVIOUS
  <2>. HIDE DEF T
  <2>. QED
    BY <1>1, <2>1, Least
<1>3. c # 0
  <2>1. a + 0 = a /\ Pow(a) * 1 = Pow(a)
    BY PowNext
  <2>. QED
    BY <2>1, PowNext
<1>. DEFINE k == c - 1
<1>4. k \in Nat /\ c = k + 1 /\ k \notin T
  BY <1>2, <1>3
<1>5. Pow(a + k) = Pow(a) * Pow(k)
  BY <1>4
<1>6. Pow(a + c) = 2 * Pow(a + k)
  <2>1. a + k \in Nat /\ a + c = (a + k) + 1
    BY <1>4
  <2>. QED
    BY <2>1, PowNext
<1>7. Pow(c) = 2 * Pow(k)
  BY <1>4, PowNext
<1>8. 2 * (Pow(a) * Pow(k)) = Pow(a) * (2 * Pow(k))
  <2>1. Pow(a) \in Nat /\ Pow(k) \in Nat
    BY <1>4, PowNext
  <2>. QED
    BY <2>1
<1>9. Pow(a + c) = Pow(a) * Pow(c)
  BY <1>5, <1>6, <1>7, <1>8
<1>. QED
  BY <1>2, <1>9

-----------------------------------------------------------------------------
(* ip_in_subnet *)

\* !0u32 << (32 - p): the ones above the last Width - p bits.
LEMMA MaskIs ==
    ASSUME NEW p \in 0 .. Width
    PROVE  Mask(p) = Pow(Width) - Pow(Width - p)
<1>. DEFINE M == Pow(Width)
            s == Pow(Width - p)
<1>1. Width \in Nat /\ p \in Nat /\ Width - p \in Nat /\ Width = (Width - p) + p
  BY WhitelistAssumption
<1>2. M \in Nat \ {0} /\ s \in Nat \ {0} /\ Pow(p) \in Nat \ {0} /\ M = s * Pow(p)
  BY <1>1, PowNext, PowSum
<1>3. CASE p = 0
  BY <1>1, <1>2, <1>3 DEF Mask
<1>4. CASE p # 0
  <2>1. Mask(p) = ((M - 1) * s) % M
    BY <1>4, Zenon DEF Mask, Pow
  <2>. HIDE DEF M, s
  <2>2. s <= M
    BY <1>2, Factor
  <2>. DEFINE x == (M - 1) * s
              q == s - 1
  <2>3. x \in Nat /\ q \in Nat /\ x = M * q + (M - s)
    BY <1>2
  <2>4. M * q \in Nat
    BY <1>2, <2>3
  <2>. HIDE DEF x, q
  <2>5. M * q <= x /\ x < M * q + M /\ x - M * q = M - s
    <3>. DEFINE m == M * q
    <3>. HIDE DEF m
    <3>. QED
      BY <1>2, <2>2, <2>3, <2>4 DEF m
  <2>6. x % M = x - M * q
    <3>a. x \in Nat /\ M \in Nat \ {0} /\ q \in Nat
      BY <1>2, <2>3
    <3>1. M * q <= x /\ x < M * q + M => x % M = x - M * q
      BY ONLY <3>a, ModUnique
    <3>. QED
      BY <2>5, <3>1, Zenon
  <2>. QED
    BY <2>1, <2>5, <2>6 DEF x, M, s
<1>. QED
  BY <1>3, <1>4

\* The k-th bit.
Bit(x, k) == (x \div Pow(k)) % 2

\* The bits of a mask are the first p of the address.
LEMMA MaskBits ==
    ASSUME NEW p \in 0 .. Width, NEW k \in 0 .. Width - 1
    PROVE  Bit(Mask(p), k) = 1 <=> k >= Width - p
<1>. DEFINE M == Pow(Width)
            s == Pow(Width - p)
            d == Pow(k)
            e == Pow(Width - k - 1)
<1>1. /\ Width \in Nat /\ p \in Nat /\ k \in Nat /\ Width - p \in Nat
      /\ Width - k - 1 \in Nat /\ Width - k \in Nat /\ k < Width
      /\ Width = k + (Width - k) /\ Width - k = (Width - k - 1) + 1
  BY WhitelistAssumption
<1>2. M \in Nat \ {0} /\ s \in Nat \ {0} /\ d \in Nat \ {0} /\ e \in Nat \ {0}
  BY <1>1, PowNext
<1>3. M = d * (2 * e)
  BY <1>1, PowNext, PowSum
<1>4. Mask(p) = M - s
  BY MaskIs
<1>5. CASE k >= Width - p
  <2>1. s <= d
    <3>1. k - (Width - p) \in Nat /\ k = (Width - p) + (k - (Width - p))
      BY <1>1, <1>5
    <3>a. Pow((Width - p) + (k - (Width - p))) = s * Pow(k - (Width - p))
      BY <1>1, <3>1, PowSum
    <3>2. d = s * Pow(k - (Width - p)) /\ Pow(k - (Width - p)) \in Nat \ {0}
      BY <3>1, <3>a, PowNext
    <3>. HIDE DEF d, s
    <3>3. s <= s * Pow(k - (Width - p))
      BY <1>2, <3>2, Factor
    <3>. QED
      BY <3>2, <3>3
  <2>2. (M - s) \div d = 2 * e - 1
    <3>. HIDE DEF M, s, d, e
    <3>. DEFINE x == M - s
                q == 2 * e - 1
    <3>1. q \in Nat /\ d * q = M - d
      BY <1>2, <1>3
    <3>2. x \in Nat /\ d * q <= x /\ x < d * q + d
      <4>1. d <= M
        BY <1>2, <1>3
      <4>. QED
        BY <1>2, <2>1, <3>1, <4>1
    <3>. HIDE DEF x, q
    <3>3. x \div d = q
      BY <1>2, <3>1, <3>2, DivUnique
    <3>. QED
      BY <3>3 DEF x, q
  <2>3. (2 * e - 1) % 2 = 1
    <3>. HIDE DEF e
    <3>. QED
      BY <1>2
  <2>. QED
    BY <1>4, <1>5, <2>2, <2>3 DEF Bit
<1>6. CASE k < Width - p
  <2>. DEFINE g == Pow(Width - p - k - 1)
  <2>1. Width - p - k - 1 \in Nat /\ Width - p = k + ((Width - p - k - 1) + 1)
    BY <1>1, <1>6
  <2>2. g \in Nat \ {0} /\ s = d * (2 * g)
    <3>. DEFINE h == Width - p - k - 1
    <3>1. h + 1 \in Nat /\ g \in Nat \ {0} /\ Pow(h + 1) = 2 * g
      BY <2>1, PowNext
    <3>2. Pow(k + (h + 1)) = d * Pow(h + 1)
      BY <1>1, <3>1, PowSum
    <3>. QED
      BY <2>1, <3>1, <3>2
  <2>3. g <= e
    <3>1. p \in Nat /\ Width - k - 1 = (Width - p - k - 1) + p
      BY <1>1
    <3>2. e = g * Pow(p) /\ Pow(p) \in Nat \ {0}
      BY <2>1, <3>1, PowNext, PowSum
    <3>. HIDE DEF e, g
    <3>3. g <= g * Pow(p)
      BY <2>2, <3>2, Factor
    <3>. QED
      BY <3>2, <3>3
  <2>4. (M - s) \div d = 2 * (e - g)
    <3>. HIDE DEF M, s, d, e, g
    <3>. DEFINE x == M - s
                q == 2 * (e - g)
    <3>1. q \in Nat /\ x = d * q
      BY <1>2, <1>3, <2>2, <2>3
    <3>2. x \in Nat /\ d * q <= x /\ x < d * q + d
      <4>1. d * q \in Nat
        BY <1>2, <3>1
      <4>. HIDE DEF x, q
      <4>. QED
        BY <1>2, <3>1, <4>1
    <3>. HIDE DEF x, q
    <3>3. x \div d = q
      BY <1>2, <3>1, <3>2, DivUnique
    <3>. QED
      BY <3>3 DEF x, q
  <2>5. (2 * (e - g)) % 2 = 0
    <3>. HIDE DEF e, g
    <3>. DEFINE y == e - g
    <3>1. y \in Nat
      BY <1>2, <2>2, <2>3
    <3>. HIDE DEF y
    <3>2. (2 * y) % 2 = 0
      BY <3>1
    <3>. QED
      BY <3>2 DEF y
  <2>6. Bit(Mask(p), k) = 0
    BY <1>4, <2>4, <2>5 DEF Bit
  <2>. QED
    BY <1>1, <1>6, <2>6
<1>. QED
  BY <1>1, <1>5, <1>6

\* A number is its bit k and twice what is above it.
LEMMA BitStep ==
    ASSUME NEW x \in Nat, NEW k \in Nat
    PROVE  x \div Pow(k) = 2 * (x \div Pow(k + 1)) + Bit(x, k)
<1>. DEFINE y == x \div Pow(k)
<1>1. Pow(k) \in Nat \ {0} /\ Pow(k + 1) = Pow(k) * 2
  BY PowNext
<1>2. y \in Nat /\ x \div Pow(k + 1) = y \div 2
  <2>1. 2 \in Nat \ {0}
    OBVIOUS
  <2>2. x \div (Pow(k) * 2) = y \div 2
    BY <1>1, <2>1, DivTwice
  <2>. QED
    BY <1>1, <2>2, DivMod
<1>3. y = 2 * (y \div 2) + (y % 2)
  <2>. HIDE DEF y
  <2>. QED
    BY <1>2, DivMod
<1>. QED
  BY <1>2, <1>3 DEF Bit

\* Two addresses agree in their bits from s on exactly if they agree above s.
LEMMA SameBits ==
    ASSUME NEW s \in 0 .. Width, NEW x \in Addresses, NEW y \in Addresses
    PROVE  (\A k \in s .. Width - 1 : Bit(x, k) = Bit(y, k)) <=> x \div Pow(s) = y \div Pow(s)
<1>1. x \in Nat /\ y \in Nat /\ x < Pow(Width) /\ y < Pow(Width) /\ Pow(Width) \in Nat \ {0}
  <2>1. Width \in Nat /\ Pow(Width) \in Nat \ {0}
    BY WhitelistAssumption, PowNext
  <2>2. Addresses = 0 .. Pow(Width) - 1
    BY Zenon DEF Addresses, Pow
  <2>. QED
    BY <2>1, <2>2
<1>2. ASSUME x \div Pow(s) = y \div Pow(s), NEW k \in s .. Width - 1
      PROVE  Bit(x, k) = Bit(y, k)
  <2>1. s \in Nat /\ k \in Nat /\ k - s \in Nat /\ k = s + (k - s)
    OBVIOUS
  <2>2. Pow(s) \in Nat \ {0} /\ Pow(k - s) \in Nat \ {0} /\ Pow(k) = Pow(s) * Pow(k - s)
    BY <2>1, PowNext, PowSum
  <2>3. x \div Pow(k) = y \div Pow(k)
    BY <1>1, <1>2, <2>2, DivTwice
  <2>. QED
    BY <2>3 DEF Bit
<1>3. ASSUME \A k \in s .. Width - 1 : Bit(x, k) = Bit(y, k)
      PROVE  x \div Pow(s) = y \div Pow(s)
  <2>. DEFINE T == {j \in Nat : j <= Width - s /\ x \div Pow(Width - j) # y \div Pow(Width - j)}
  <2>1. SUFFICES ASSUME T # {} PROVE FALSE
    <3>1. Width - s \in Nat /\ Width - (Width - s) = s
      BY WhitelistAssumption
    <3>2. Width - s \notin T
      BY <2>1
    <3>. QED
      BY <3>1, <3>2
  <2>2. PICK j \in T : \A i \in T : j <= i
    <3>1. T \subseteq Nat
      OBVIOUS
    <3>. HIDE DEF T
    <3>. QED
      BY <2>1, <3>1, Least
  <2>3. j # 0
    <3>1. Width - 0 = Width
      BY WhitelistAssumption
    <3>2. x \div Pow(Width) = 0 /\ y \div Pow(Width) = 0
      <4>1. Pow(Width) * 0 = 0 /\ 0 + Pow(Width) = Pow(Width)
        BY <1>1
      <4>. QED
        BY <1>1, <4>1, DivUnique
    <3>. QED
      BY <3>1, <3>2
  <2>. DEFINE k == Width - j
  <2>4. /\ k \in Nat /\ k \in s .. Width - 1 /\ k + 1 = Width - (j - 1)
        /\ j - 1 \in Nat /\ j - 1 <= Width - s
    BY <2>2, <2>3, WhitelistAssumption
  <2>5. x \div Pow(k + 1) = y \div Pow(k + 1)
    <3>1. j - 1 \notin T
      BY <2>2, <2>4
    <3>. QED
      BY <2>4, <3>1
  <2>6. x \div Pow(k) = y \div Pow(k)
    BY <1>1, <1>3, <2>4, <2>5, BitStep
  <2>. QED
    BY <2>2, <2>6
<1>. QED
  BY <1>2, <1>3

\* What ip_in_subnet computes with its mask is membership in the range of
\* addresses that the network stands for, for every prefix up to the width.
LEMMA MatchIsRange ==
    ASSUME NEW ip \in Addresses, NEW net \in Addresses, NEW p \in 0 .. Width
    PROVE  IpInSubnet(ip, net, p)
             <=> LET size == Pow(Width - p)
                 IN  ip \in (net - (net % size)) .. (net - (net % size) + size - 1)
<1>. DEFINE s == Width - p
<1>1. s \in 0 .. Width /\ s \in Nat /\ Width \in Nat
  BY WhitelistAssumption
<1>2. ASSUME NEW n PROVE Bits(n) = {k \in 0 .. Width - 1 : Bit(n, k) = 1}
  BY Zenon DEF Bits, Bit, Pow
<1>3. Bits(Mask(p)) = s .. Width - 1
  <2>1. Bits(Mask(p)) = {k \in 0 .. Width - 1 : Bit(Mask(p), k) = 1}
    BY <1>2
  <2>2. \A k \in 0 .. Width - 1 : Bit(Mask(p), k) = 1 <=> k >= s
    BY MaskBits
  <2>3. Bits(Mask(p)) = {k \in 0 .. Width - 1 : k >= s}
    BY <2>1, <2>2
  <2>. QED
    BY <1>1, <2>3
<1>4. IpInSubnet(ip, net, p) <=> \A k \in s .. Width - 1 : Bit(ip, k) = 1 <=> Bit(net, k) = 1
  BY <1>1, <1>2, <1>3 DEF IpInSubnet
<1>5. ip \in Nat /\ net \in Nat
  <2>1. Addresses = 0 .. Pow(Width) - 1
    BY Zenon DEF Addresses, Pow
  <2>. QED
    BY <1>1, <2>1, PowNext
<1>6. ASSUME NEW k \in s .. Width - 1, NEW n \in Nat PROVE Bit(n, k) \in 0 .. 1
  <2>1. k \in Nat
    BY <1>1
  <2>2. n \div Pow(k) \in Nat
    BY <2>1, PowNext, DivMod
  <2>. QED
    BY <2>2, DivMod DEF Bit
<1>7. IpInSubnet(ip, net, p) <=> \A k \in s .. Width - 1 : Bit(ip, k) = Bit(net, k)
  BY <1>4, <1>5, <1>6
<1>8. IpInSubnet(ip, net, p) <=> ip \div Pow(s) = net \div Pow(s)
  BY <1>1, <1>7, SameBits
<1>. DEFINE size == Pow(s)
<1>9. size \in Nat \ {0}
  BY <1>1, PowNext
<1>10. ip \div size = net \div size
         <=> ip \in (net - (net % size)) .. (net - (net % size) + size - 1)
  <2>. HIDE DEF size
  <2>. QED
    BY <1>5, <1>9, SameBlock
<1>. QED
  BY <1>8, <1>10

-----------------------------------------------------------------------------
(* The allow list *)

\* Of an entry that parsed, is_allowed lets in exactly the addresses it stands for.
LEMMA EntryMatches ==
    ASSUME NEW e \in Entries, e.kind # "host", e.kind = "cidr" => e.prefix <= Width,
           NEW i \in Addresses
    PROVE  (CASE e.kind = "cidr" -> IpInSubnet(i, e.addr, e.prefix) [] OTHER -> i = e.addr)
             <=> i \in RangeOf(e)
<1>1. e.kind \in {"ip", "cidr"} /\ e.addr \in Addresses /\ e.prefix \in 0 .. 255
  BY DEF Entries
<1>2. CASE e.kind = "ip"
  BY <1>2 DEF RangeOf
<1>3. CASE e.kind = "cidr"
  <2>. DEFINE size == Pow(Width - e.prefix)
  <2>1. e.prefix \in 0 .. Width
    BY <1>1, <1>3, WhitelistAssumption
  <2>2. IpInSubnet(i, e.addr, e.prefix)
          <=> i \in (e.addr - (e.addr % size)) .. (e.addr - (e.addr % size) + size - 1)
    BY <1>1, <2>1, MatchIsRange
  <2>3. 2^(Width - e.prefix) = size
    BY Zenon DEF Pow
  <2>4. RangeOf(e) = (e.addr - (e.addr % size)) .. (e.addr - (e.addr % size) + size - 1)
    BY <1>3, <2>3 DEF RangeOf
  <2>. QED
    BY <1>3, <2>2, <2>4
<1>. QED
  BY <1>1, <1>2, <1>3

FileOK(f) == \A e \in f.entries : e \in Entries

\* What the list in memory decides, in terms of the file it was loaded from.
LEMMA ListDecides ==
    ASSUME NEW f, FileOK(f), NEW m \in Loaded(f), NEW i \in Addresses
    PROVE  /\ IsAllowed(m, i) => ~ ParseFails(f) /\ \E e \in f.entries : i \in RangeOf(e)
           /\ ~ IsAllowed(m, i) =>
                 \/ ParseFails(f)
                 \/ ~ \E e \in f.entries : e.kind # "host" /\ i \in RangeOf(e)
<1>1. CASE ParseFails(f)
  BY <1>1 DEF Loaded, IsAllowed
<1>2. CASE ~ ParseFails(f)
  <2>. DEFINE fixed == {e \in f.entries : e.kind # "host"}
              Lets(e) == CASE e.kind = "cidr" -> IpInSubnet(i, e.addr, e.prefix)
                           [] OTHER -> i = e.addr
  <2>1. ASSUME NEW e \in fixed PROVE Lets(e) <=> i \in RangeOf(e)
    <3>1. e \in Entries /\ e.kind # "host" /\ (e.kind = "cidr" => ~ (e.prefix > Width))
      BY <1>2 DEF ParseFails, FileOK
    <3>2. e.prefix \in Int
      BY <3>1 DEF Entries
    <3>3. e.kind = "cidr" => e.prefix <= Width
      BY <3>1, <3>2, WhitelistAssumption
    <3>. QED
      BY <3>1, <3>3, EntryMatches
  <2>2. /\ fixed \subseteq m
        /\ \A e \in m \ fixed :
              /\ e.kind = "host" /\ e.addr \in HostAddrs
              /\ \E h \in f.entries : h.kind = "host"
    <3>1. m \in Parsed(f)
      BY <1>2 DEF Loaded
    <3>2. \A a : /\ [HostEntry EXCEPT !.addr = a].kind = "host"
                 /\ [HostEntry EXCEPT !.addr = a].addr = a
      BY DEF HostEntry
    <3>3. CASE fixed = f.entries
      BY <3>1, <3>3 DEF Parsed
    <3>4. CASE fixed # f.entries
      <4>1. \E h \in f.entries : h.kind = "host"
        BY <3>4
      <4>2. m = fixed \/ \E a \in HostAddrs : m = fixed \cup {[HostEntry EXCEPT !.addr = a]}
        BY <3>1, <3>4 DEF Parsed
      <4>. QED
        BY <3>2, <4>1, <4>2
    <3>. QED
      BY <3>3, <3>4
  <2>3. IsAllowed(m, i) <=> \E e \in m : Lets(e)
    BY DEF IsAllowed
  <2>. HIDE DEF Lets
  <2>4. ASSUME IsAllowed(m, i) PROVE \E e \in f.entries : i \in RangeOf(e)
    <3>1. PICK e \in m : Lets(e)
      BY <2>3, <2>4
    <3>2. CASE e \in fixed
      BY <2>1, <3>1, <3>2
    <3>3. CASE e \notin fixed
      <4>1. e.kind = "host" /\ e.addr \in HostAddrs
        BY <2>2, <3>3
      <4>2. PICK h \in f.entries : h.kind = "host"
        BY <2>2, <3>3
      <4>3. RangeOf(h) = HostAddrs
        BY <4>2 DEF RangeOf
      <4>4. i = e.addr
        BY <3>1, <4>1 DEF Lets
      <4>. QED
        BY <4>1, <4>2, <4>3, <4>4
    <3>. QED
      BY <3>2, <3>3
  <2>5. ASSUME NEW e \in f.entries, e.kind # "host", i \in RangeOf(e) PROVE IsAllowed(m, i)
    BY <2>1, <2>2, <2>3, <2>5
  <2>. QED
    BY <1>2, <2>4, <2>5
<1>. QED
  BY <1>1, <1>2

-----------------------------------------------------------------------------
(* The invariants *)

\* While the process is up its list is what the file it read says; a request
\* is forgotten with the process that answered it.
ListInv ==
    /\ FileOK(wlFile) /\ FileOK(wlSeen)
    /\ phase # "down" => wlMem \in Loaded(wlSeen)
    /\ phase = "down" => last = NoRequest

ConnInv ==
    /\ conns \in [Workers -> [open : BOOLEAN, ip : Peers \cup {0}]]
    /\ \A w \in Workers : conns[w].open => conns[w].ip \in Peers

\* Every destructive request beyond the cells given back has taken a token that
\* the bucket of its worker and address still lacks.
TokenInv ==
    /\ tokens \in [Workers -> [DOMAIN Burst -> [Peers -> Nat]]]
    /\ \A w \in Workers, t \in DOMAIN Burst, i \in Peers : tokens[w][t][i] <= Burst[t]
    /\ excess \in [Workers -> [Peers -> Nat]]
    /\ LimitsEnabled => \A w \in Workers, i \in Peers :
          excess[w][i] + tokens[w]["destructive"][i] <= Burst["destructive"]

GateInv == ListInv /\ ConnInv /\ TokenInv /\ GateMatchesList

-----------------------------------------------------------------------------
(* The steps *)

\* No step of the tasks of the list starts or ends the process.
LEMMA PhaseKept == ASSUME CrlOther PROVE phase' = "down" <=> phase = "down"
<1>1. CASE FetchFresh \/ FetchCached
  BY <1>1 DEF FetchFresh, FetchCached, Answers
<1>2. CASE FetchFails
  BY <1>2 DEF FetchFails, RefreshErr, Spawn, Sleep
<1>3. CASE RefreshStep
  BY <1>3 DEF RefreshStep, CreateTmp, WriteTmp, RenameTmp, StoreList, RefreshOk, Spawn, Sleep
<1>4. CASE IoFails
  BY <1>4 DEF IoFails, RefreshErr, Spawn, Sleep
<1>5. CASE Wake \/ HealthCheck \/ Tick
  BY <1>5 DEF Wake, HealthCheck, Tick
<1>6. CASE \E c \in Clients : Revoke(c)
  BY <1>6 DEF Revoke
<1>7. CASE \E f \in {Missing, Unreadable} : Damage(f)
  BY <1>7 DEF Damage
<1>8. CASE Renew
  BY <1>8 DEF Renew
<1>. QED
  BY <1>1, <1>2, <1>3, <1>4, <1>5, <1>6, <1>7, <1>8 DEF CrlOther

\* An event of the gate leaves the list alone.
LEMMA SpendKeeps == ASSUME NEW event, Spend(event) PROVE UNCHANGED listVars
BY DEF Spend, listVars

LEMMA ListStep == ASSUME ListInv, [Next]_vars PROVE ListInv'
<1>1. CASE StartServer
  <2>1. /\ phase = "down" /\ wlMem' \in Loaded(wlFile) /\ wlSeen' = wlFile
        /\ wlFile' = wlFile /\ last' = last
    BY <1>1 DEF StartServer, Start
  <2>. QED
    BY <2>1 DEF ListInv
<1>2. CASE ServerDies
  <2>1. phase' = "down" /\ last' = NoRequest /\ wlFile' = wlFile /\ wlSeen' = wlSeen
    BY <1>2 DEF ServerDies, Dies
  <2>. QED
    BY <2>1 DEF ListInv
<1>3. CASE CrlOther /\ UNCHANGED gateVars
  BY <1>3, PhaseKept DEF ListInv, gateVars
<1>4. ASSUME NEW w \in Workers, NEW c \in Clients, NEW i \in Peers, Connect(w, c, i)
      PROVE  ListInv'
  BY <1>4 DEF Connect, Spend, ListInv
<1>5. ASSUME NEW w \in Workers, Close(w) PROVE ListInv'
  BY <1>5 DEF Close, crlVars, ListInv
<1>6. ASSUME NEW w \in Workers, NEW m \in Methods, NEW p \in Paths, NEW r \in BOOLEAN,
             Request(w, m, p, r)
      PROVE  ListInv'
  <2>1. phase = "up" /\ UNCHANGED <<phase, wlFile, wlMem, wlSeen>>
    BY <1>6 DEF Request, Spend
  <2>. QED
    BY <2>1 DEF ListInv
<1>7. ASSUME NEW w \in Workers, NEW t \in DOMAIN Burst, NEW i \in Peers, Replenish(w, t, i)
      PROVE  ListInv'
  BY <1>7 DEF Replenish, crlVars, ListInv
<1>8. CASE EditFile
  <2>1. FileOK(LaterFile)
    BY GateAssumption DEF FileOK
  <2>. QED
    BY <1>8, <2>1 DEF EditFile, Spend, ListInv
<1>9. CASE UNCHANGED vars
  BY <1>9 DEF vars, crlVars, gateVars, ListInv
<1>. QED
  BY <1>1, <1>2, <1>3, <1>4, <1>5, <1>6, <1>7, <1>8, <1>9 DEF Next

LEMMA ConnStep == ASSUME ConnInv, [Next]_vars PROVE ConnInv'
<1>0. Closed \in [open : BOOLEAN, ip : Peers \cup {0}] /\ Closed.open = FALSE
  BY DEF Closed
<1>1. ASSUME UNCHANGED conns PROVE ConnInv'
  BY <1>1 DEF ConnInv
<1>2. CASE ServerDies
  <2>1. conns' = [w \in Workers |-> Closed]
    BY <1>2 DEF ServerDies
  <2>. QED
    BY <1>0, <2>1 DEF ConnInv
<1>3. ASSUME NEW w \in Workers, NEW c \in Clients, NEW i \in Peers, Connect(w, c, i)
      PROVE  ConnInv'
  <2>1. conns' = [conns EXCEPT ![w] = [open |-> TRUE, ip |-> i]]
    BY <1>3 DEF Connect
  <2>. QED
    BY <2>1 DEF ConnInv
<1>4. ASSUME NEW w \in Workers, Close(w) PROVE ConnInv'
  <2>1. conns' = [conns EXCEPT ![w] = Closed]
    BY <1>4 DEF Close
  <2>. QED
    BY <1>0, <2>1 DEF ConnInv
<1>. QED
  BY <1>1, <1>2, <1>3, <1>4 DEF Next, StartServer, gateVars, vars, Request, Replenish, EditFile

\* A request is answered as the list in memory says, and so as the file.
LEMMA MatchesStep == ASSUME ListInv, ConnInv, GateMatchesList, [Next]_vars PROVE GateMatchesList'
<1>1. ASSUME UNCHANGED <<last, wlSeen>> PROVE GateMatchesList'
  BY <1>1 DEF GateMatchesList
<1>2. ASSUME last' = NoRequest PROVE GateMatchesList'
  BY <1>2 DEF GateMatchesList, NoRequest, Exempt
<1>3. CASE StartServer
  BY <1>2, <1>3 DEF StartServer, Start, ListInv
<1>4. CASE ServerDies
  BY <1>2, <1>4 DEF ServerDies
<1>5. ASSUME NEW w \in Workers, NEW m \in Methods, NEW p \in Paths, NEW r \in BOOLEAN,
             Request(w, m, p, r)
      PROVE  GateMatchesList'
  <2>. DEFINE i == conns[w].ip
              o == Outcome(w, m, p, r)
  <2>1. /\ phase = "up" /\ conns[w].open /\ wlSeen' = wlSeen
        /\ last' = [path |-> p, ip |-> i, outcome |-> o]
    BY <1>5 DEF Request
  <2>2. i \in Addresses /\ FileOK(wlSeen) /\ wlMem \in Loaded(wlSeen)
    BY <2>1, GateAssumption DEF ListInv, ConnInv
  <2>3. /\ o = "handled" => Allowed(p, i)
        /\ o = "forbidden" => ~ Allowed(p, i)
    BY DEF Outcome
  <2>4. /\ IsAllowed(wlMem, i) =>
              ~ ParseFails(wlSeen) /\ \E e \in wlSeen.entries : i \in RangeOf(e)
        /\ ~ IsAllowed(wlMem, i) =>
              \/ ParseFails(wlSeen)
              \/ ~ \E e \in wlSeen.entries : e.kind # "host" /\ i \in RangeOf(e)
    BY <2>2, ListDecides
  <2>5. last'.path = p /\ last'.ip = i /\ last'.outcome = o
    BY <2>1
  <2>. HIDE DEF i, o
  <2>. QED
    BY <2>1, <2>3, <2>4, <2>5 DEF GateMatchesList, Allowed
<1>. QED
  BY <1>1, <1>3, <1>4, <1>5 DEF Next, Connect, Close, gateVars, vars, Replenish, EditFile

-----------------------------------------------------------------------------
(* The limiters *)

\* The bursts are numbers.
LEMMA BurstNat ==
    /\ DOMAIN Burst = {"destructive", "read"}
    /\ \A t \in DOMAIN Burst : Burst[t] \in Nat
BY GateAssumption

\* Full buckets, nothing in excess.
LEMMA TokensFull ==
    ASSUME NEW tk, NEW ex, tk = FullBuckets, ex = NoExcess
    PROVE  /\ tk \in [Workers -> [DOMAIN Burst -> [Peers -> Nat]]]
           /\ \A w \in Workers, t \in DOMAIN Burst, i \in Peers : tk[w][t][i] <= Burst[t]
           /\ ex \in [Workers -> [Peers -> Nat]]
           /\ \A w \in Workers, i \in Peers :
                 ex[w][i] + tk[w]["destructive"][i] <= Burst["destructive"]
<1>1. /\ tk \in [Workers -> [DOMAIN Burst -> [Peers -> Nat]]]
      /\ \A w \in Workers, t \in DOMAIN Burst, i \in Peers : tk[w][t][i] = Burst[t]
  BY BurstNat DEF FullBuckets
<1>2. /\ ex \in [Workers -> [Peers -> Nat]]
      /\ \A w \in Workers, i \in Peers : ex[w][i] = 0
  BY DEF NoExcess
<1>. QED
  BY <1>1, <1>2, BurstNat

\* One bucket and the excess of its address change together.
LEMMA TokenWrite ==
    ASSUME TokenInv, NEW w \in Workers, NEW t \in DOMAIN Burst, NEW i \in Peers,
           NEW n \in Nat, n <= Burst[t], NEW x \in Nat,
           tokens' = [tokens EXCEPT ![w][t][i] = n],
           excess' = [excess EXCEPT ![w][i] = x],
           LimitsEnabled => IF t = "destructive" THEN x + n <= Burst[t]
                                                 ELSE x = excess[w][i]
    PROVE  TokenInv'
<1>1. /\ tokens' \in [Workers -> [DOMAIN Burst -> [Peers -> Nat]]]
      /\ \A v \in Workers, u \in DOMAIN Burst, j \in Peers :
            tokens'[v][u][j] = IF v = w /\ u = t /\ j = i THEN n ELSE tokens[v][u][j]
  BY DEF TokenInv
<1>2. /\ excess' \in [Workers -> [Peers -> Nat]]
      /\ \A v \in Workers, j \in Peers :
            excess'[v][j] = IF v = w /\ j = i THEN x ELSE excess[v][j]
  BY DEF TokenInv
<1>3. \A v \in Workers, u \in DOMAIN Burst, j \in Peers : tokens'[v][u][j] <= Burst[u]
  BY <1>1 DEF TokenInv
<1>4. ASSUME LimitsEnabled, NEW v \in Workers, NEW j \in Peers
      PROVE  excess'[v][j] + tokens'[v]["destructive"][j] <= Burst["destructive"]
  <2>1. excess[v][j] + tokens[v]["destructive"][j] <= Burst["destructive"]
    BY <1>4 DEF TokenInv
  <2>2. "destructive" \in DOMAIN Burst
    BY BurstNat
  <2>3. CASE v = w /\ j = i /\ t = "destructive"
    BY <1>1, <1>2, <1>4, <2>2, <2>3
  <2>4. CASE v = w /\ j = i /\ t # "destructive"
    BY <1>1, <1>2, <1>4, <2>1, <2>2, <2>4
  <2>5. CASE ~ (v = w /\ j = i)
    BY <1>1, <1>2, <2>1, <2>2, <2>5
  <2>. QED
    BY <2>3, <2>4, <2>5
<1>. QED
  BY <1>1, <1>2, <1>3, <1>4 DEF TokenInv

\* A request takes a token of its worker, tier and address before it is handled.
LEMMA TokenRequest ==
    ASSUME TokenInv, ConnInv, NEW w \in Workers, NEW m \in Methods, NEW p \in Paths,
           NEW r \in BOOLEAN, Request(w, m, p, r)
    PROVE  TokenInv'
<1>. DEFINE i == conns[w].ip
            t == Tier(m)
            o == Outcome(w, m, p, r)
            n == tokens[w][t][i]
            x == excess[w][i]
            Changes == o = "handled" /\ p \notin Exempt /\ m \in {"POST", "PUT", "DELETE"}
<1>1. /\ tokens' = IF Limited(p) /\ n > 0 THEN [tokens EXCEPT ![w][t][i] = n - 1] ELSE tokens
      /\ excess' = IF Changes THEN [excess EXCEPT ![w][i] = x + 1] ELSE excess
      /\ conns[w].open
  BY DEF Request
<1>2. i \in Peers /\ t \in DOMAIN Burst
  BY <1>1, BurstNat DEF ConnInv, Tier
<1>3. n \in Nat /\ n <= Burst[t] /\ Burst[t] \in Nat /\ x \in Nat
  BY <1>2, BurstNat DEF TokenInv
<1>4. /\ Changes => t = "destructive" /\ p \notin Exempt /\ (Limited(p) => n > 0)
      /\ ~ LimitsEnabled => ~ Limited(p)
      /\ LimitsEnabled /\ p \notin Exempt => Limited(p)
  BY <1>3 DEF Outcome, Tier, Limited
<1>5. LimitsEnabled /\ t = "destructive" => x + n <= Burst[t]
  BY <1>2 DEF TokenInv
<1>6. /\ tokens = [tokens EXCEPT ![w][t][i] = n]
      /\ excess = [excess EXCEPT ![w][i] = x]
  BY <1>2 DEF TokenInv
<1>. HIDE DEF i, t, o, n, x, Changes
<1>7. CASE Limited(p) /\ n > 0
  <2>1. n - 1 \in Nat /\ n - 1 <= Burst[t] /\ x + 1 \in Nat
    BY <1>3, <1>7
  <2>2. tokens' = [tokens EXCEPT ![w][t][i] = n - 1]
    BY <1>1, <1>7
  <2>3. CASE Changes
    <3>1. excess' = [excess EXCEPT ![w][i] = x + 1]
      BY <1>1, <2>3
    <3>2. LimitsEnabled => x + 1 + (n - 1) <= Burst[t]
      BY <1>3, <1>4, <1>5, <2>3
    <3>. QED
      BY <1>2, <1>4, <2>1, <2>2, <2>3, <3>1, <3>2, TokenWrite
  <2>4. CASE ~ Changes
    <3>1. excess' = [excess EXCEPT ![w][i] = x]
      BY <1>1, <1>6, <2>4
    <3>2. LimitsEnabled /\ t = "destructive" => x + (n - 1) <= Burst[t]
      BY <1>3, <1>5
    <3>3. x = excess[w][i]
      BY DEF x
    <3>. QED
      BY <1>2, <1>3, <2>1, <2>2, <3>1, <3>2, <3>3, TokenWrite
  <2>. QED
    BY <2>3, <2>4
<1>8. CASE ~ (Limited(p) /\ n > 0)
  <2>1. tokens' = tokens
    BY <1>1, <1>8
  <2>2. CASE Changes
    <3>1. ~ LimitsEnabled
      BY <1>4, <1>8, <2>2
    <3>2. excess' = [excess EXCEPT ![w][i] = x + 1] /\ x + 1 \in Nat
      BY <1>1, <1>3, <2>2
    <3>. QED
      BY <1>2, <1>3, <1>6, <2>1, <3>1, <3>2, TokenWrite
  <2>3. CASE ~ Changes
    BY <1>1, <2>1, <2>3 DEF TokenInv
  <2>. QED
    BY <2>2, <2>3
<1>. QED
  BY <1>7, <1>8

\* A cell that comes back to a bucket takes the excess down with it.
LEMMA TokenReplenish ==
    ASSUME TokenInv, NEW w \in Workers, NEW t \in DOMAIN Burst, NEW i \in Peers,
           Replenish(w, t, i)
    PROVE  TokenInv'
<1>. DEFINE n == tokens[w][t][i]
            x == excess[w][i]
            y == IF t = "destructive" /\ x > 0 THEN x - 1 ELSE x
<1>1. n \in Nat /\ x \in Nat /\ Burst[t] \in Nat /\ n < Burst[t]
  BY BurstNat DEF TokenInv, Replenish
<1>2. excess = [excess EXCEPT ![w][i] = x]
  BY DEF TokenInv
<1>3. /\ tokens' = [tokens EXCEPT ![w][t][i] = n + 1]
      /\ excess' = [excess EXCEPT ![w][i] = y]
  BY <1>2 DEF Replenish
<1>4. LimitsEnabled /\ t = "destructive" => x + n <= Burst[t]
  BY DEF TokenInv
<1>5. n + 1 \in Nat /\ n + 1 <= Burst[t] /\ y \in Nat
  BY <1>1
<1>6. LimitsEnabled => IF t = "destructive" THEN y + (n + 1) <= Burst[t] ELSE y = excess[w][i]
  BY <1>1, <1>4
<1>. HIDE DEF n, y
<1>. QED
  BY <1>3, <1>5, <1>6, TokenWrite

LEMMA TokenStep == ASSUME TokenInv, ConnInv, [Next]_vars PROVE TokenInv'
<1>1. ASSUME UNCHANGED <<tokens, excess>> PROVE TokenInv'
  BY <1>1 DEF TokenInv
<1>2. CASE StartServer
  BY <1>2, TokensFull DEF StartServer, TokenInv
<1>. QED
  BY <1>1, <1>2, TokenRequest, TokenReplenish
  DEF Next, Connect, Close, ServerDies, gateVars, vars, EditFile

-----------------------------------------------------------------------------
(* The theorems *)

LEMMA GateInitInv == Init => GateInv
<1>. SUFFICES ASSUME Init PROVE GateInv
  OBVIOUS
<1>1. ListInv
  BY GateAssumption DEF Init, CrlInit, ListInv, FileOK
<1>2. ConnInv
  BY DEF Init, ConnInv, Closed
<1>3. GateMatchesList
  BY DEF Init, GateMatchesList, NoRequest, Exempt
<1>4. TokenInv
  BY TokensFull DEF Init, TokenInv
<1>. QED
  BY <1>1, <1>2, <1>3, <1>4 DEF GateInv

LEMMA GateInvHolds == Spec => []GateInv
<1>1. GateInv /\ [Next]_vars => GateInv'
  BY ListStep, ConnStep, MatchesStep, TokenStep DEF GateInv
<1>. QED
  BY <1>1, GateInitInv, PTL DEF Spec

\* Whatever file an administrator writes and whenever the process restarts, a
\* request is let in only if a range of the file that this process read names its
\* address, and kept out only if none (but that of a name) does; a file that does
\* not parse lets nobody in.
THEOREM RequestsMatchTheList == Spec => []GateMatchesList
<1>1. GateInv => GateMatchesList
  BY DEF GateInv
<1>. QED
  BY <1>1, GateInvHolds, PTL

\* For any burst, any number of workers, and cells that come back one by one at
\* any pace: over no stretch of time does a worker handle more destructive
\* requests of an address than destructive_burst and the cells given back in it.
THEOREM LimitersBound == Spec => []DestructiveBound
<1>1. GateInv => DestructiveBound
  <2>. SUFFICES ASSUME TokenInv, LimitsEnabled, NEW w \in Workers, NEW i \in Peers
                PROVE  excess[w][i] <= Burst["destructive"]
    BY DEF GateInv, DestructiveBound
  <2>1. /\ excess[w][i] \in Nat /\ tokens[w]["destructive"][i] \in Nat
        /\ Burst["destructive"] \in Nat
        /\ excess[w][i] + tokens[w]["destructive"][i] <= Burst["destructive"]
    BY BurstNat DEF TokenInv
  <2>. QED
    BY <2>1
<1>. QED
  BY <1>1, GateInvHolds, PTL

\* The gate's handshakes and requests leave the revocation list alone: every
\* behaviour of the gate is one of CrlStore.
LEMMA GateKeepsList == Spec => CrlSpec
<1>1. Init => CrlInit
  BY DEF Init
<1>2. ASSUME [Next]_vars PROVE [CrlNext]_listVars
  <2>1. ASSUME UNCHANGED crlVars PROVE UNCHANGED listVars
    BY <2>1 DEF crlVars, worldVars, listVars
  <2>2. CASE StartServer \/ ServerDies
    BY <2>2 DEF StartServer, ServerDies, CrlNext
  <2>3. CASE CrlOther
    BY <2>3 DEF CrlOther, CrlNext
  <2>4. ASSUME NEW w \in Workers, NEW c \in Clients, NEW i \in Peers, Connect(w, c, i)
        PROVE  UNCHANGED listVars
    BY <2>4, SpendKeeps DEF Connect
  <2>5. ASSUME NEW w \in Workers, Close(w) PROVE UNCHANGED listVars
    BY <2>1, <2>5 DEF Close
  <2>6. ASSUME NEW w \in Workers, NEW m \in Methods, NEW p \in Paths, NEW r \in BOOLEAN,
               Request(w, m, p, r)
        PROVE  UNCHANGED listVars
    BY <2>6, SpendKeeps DEF Request
  <2>7. ASSUME NEW w \in Workers, NEW t \in DOMAIN Burst, NEW i \in Peers, Replenish(w, t, i)
        PROVE  UNCHANGED listVars
    BY <2>1, <2>7 DEF Replenish
  <2>8. CASE EditFile
    BY <2>8, SpendKeeps DEF EditFile
  <2>9. CASE UNCHANGED vars
    BY <2>1, <2>9 DEF vars
  <2>. QED
    BY <1>2, <2>2, <2>3, <2>4, <2>5, <2>6, <2>7, <2>8, <2>9 DEF Next
<1>. QED
  BY <1>1, <1>2, PTL DEF Spec, CrlSpec

\* Behind the whole gate, too, the revocation list never locks everybody out ...
THEOREM GateNeverLocksOut == Spec => []NeverLocksOut
BY GateKeepsList, ListNeverLocksOut, PTL

\* ... and a client that a list in use revoked stays out.
THEOREM GateKeepsRevokedOut == Spec => []RevokedStaysOut
BY GateKeepsList, RevokedAlwaysStaysOut, PTL

=============================================================================
