----------------------------- MODULE OrderLemmas -----------------------------
(* Two things the proofs of this project keep needing: the least-element   *)
(* principle, which stands in for induction, and the arithmetic of timers  *)
(* and tokens that wrap.                                                   *)
EXTENDS Integers, WellFoundedInduction, TLAPS

\* A non-empty set of naturals has a smallest element.
LEMMA SmallestElement ==
  ASSUME NEW S, S \subseteq Nat, S # {}
  PROVE  \E m \in S : \A j \in S : m <= j
<1> DEFINE R == {ss \in Nat \X Nat : ss[1] < ss[2]}
<1>1. OpToRel(<, Nat) = R
  BY Zenon DEF OpToRel
<1>2. IsWellFoundedOn(R, Nat)
  BY <1>1, NatLessThanWellFounded, Zenon
<1>3. \E m \in S : \A j \in S : ~(<<j, m>> \in R)
  <2> HIDE DEF R
  <2> QED BY <1>2, WFMin
<1>4. PICK m \in S : \A j \in S : ~(<<j, m>> \in R)
  BY <1>3, Zenon
<1>5. ASSUME NEW j \in S PROVE m <= j
  <2>1. <<j, m>> \notin R
    BY <1>4
  <2>2. j \in Nat /\ m \in Nat
    OBVIOUS
  <2> QED BY <2>1, <2>2
<1> QED BY <1>5

\* Induction up to a bound: a set that holds 0 and, with every number, the next
\* one up to n, holds all of them.
LEMMA UpTo ==
  ASSUME NEW n \in Nat, NEW G, 0 \in G, \A j \in 1 .. n : j - 1 \in G => j \in G
  PROVE  \A j \in 0 .. n : j \in G
<1> DEFINE S == {j \in 0 .. n : j \notin G}
<1>1. SUFFICES ASSUME S # {} PROVE FALSE
  OBVIOUS
<1>2. S \subseteq Nat
  OBVIOUS
<1>3. PICK m \in S : \A j \in S : m <= j
  <2> HIDE DEF S
  <2> QED BY <1>1, <1>2, SmallestElement
<1>4. m \in 1 .. n /\ m - 1 \in 0 .. n /\ m - 1 \notin S
  BY <1>3
<1> QED BY <1>3, <1>4

-----------------------------------------------------------------------------
(* Remainders.                                                             *)

\* Division with remainder.
LEMMA ModSplit ==
  ASSUME NEW M \in Nat \ {0}, NEW a \in Int
  PROVE  a % M \in 0 .. M - 1 /\ \E k \in Int : a = k * M + (a % M)
<1>1. a \div M \in Int /\ a = M * (a \div M) + (a % M) /\ a % M \in 0 .. M - 1
  OBVIOUS
<1>2. a = (a \div M) * M + (a % M)
  BY <1>1
<1> QED BY <1>1, <1>2

\* The remainder is the only one.
LEMMA ModUnique ==
  ASSUME NEW M \in Nat \ {0}, NEW a \in Int, NEW r \in 0 .. M - 1,
         NEW k \in Int, a = k * M + r
  PROVE  a % M = r
<1>1. PICK q \in Int : a = q * M + (a % M)
  BY ModSplit
<1>2. a % M \in 0 .. M - 1
  BY ModSplit
<1>3. (k - q) * M = (a % M) - r
  BY <1>1, <1>2
<1>4. k - q = 0
  <2>1. CASE k - q >= 1
    <3>1. (k - q) * M >= M
      BY <2>1
    <3> QED BY <3>1, <1>3, <1>2
  <2>2. CASE k - q <= -1
    <3>1. (k - q) * M <= -M
      BY <2>2
    <3> QED BY <3>1, <1>3, <1>2
  <2> QED BY <2>1, <2>2
<1> QED BY <1>3, <1>4, <1>2

\* Adding a reduced term, or a multiple of the modulus, changes nothing.
LEMMA ModAdd ==
  ASSUME NEW M \in Nat \ {0}, NEW a \in Int, NEW b \in Int
  PROVE  ((a % M) + b) % M = (a + b) % M
<1> DEFINE c == a + b
           r == a % M
           s == c % M
<1>0. c \in Int
  OBVIOUS
<1>1. PICK k \in Int : a = k * M + r
  BY ModSplit
<1>2. PICK q \in Int : c = q * M + s
  <2> HIDE DEF c
  <2> QED BY <1>0, ModSplit
<1>3. r \in Int /\ s \in 0 .. M - 1
  <2> HIDE DEF c
  <2> QED BY <1>0, ModSplit
<1>4. r + b = (q - k) * M + s
  <2>1. (q - k) * M = q * M - k * M
    OBVIOUS
  <2>2. q * M \in Int /\ k * M \in Int
    OBVIOUS
  <2> HIDE DEF r, s
  <2> QED BY <1>1, <1>2, <1>3, <2>1, <2>2
<1>5. r + b \in Int /\ q - k \in Int
  BY <1>3
<1>6. (r + b) % M = s
  <2> HIDE DEF r, s
  <2> QED BY <1>3, <1>4, <1>5, ModUnique
<1> QED BY <1>6

\* A number is its own remainder, or differs from it by the modulus.
LEMMA ModNear ==
  ASSUME NEW M \in Nat \ {0}, NEW a \in Int
  PROVE  /\ 0 <= a /\ a < M => a % M = a
         /\ -M <= a /\ a < 0 => a % M = a + M
<1>1. ASSUME 0 <= a, a < M PROVE a % M = a
  <2>1. a = 0 * M + a /\ a \in 0 .. M - 1
    BY <1>1
  <2> QED BY <2>1, ModUnique
<1>2. ASSUME -M <= a, a < 0 PROVE a % M = a + M
  <2>1. a = (-1) * M + (a + M) /\ a + M \in 0 .. M - 1
    BY <1>2
  <2> QED BY <2>1, ModUnique
<1> QED BY <1>1, <1>2
=============================================================================
