------------------------ MODULE MixedRadixFF1Proofs ------------------------
(***************************************************************************)
(* Decryption undoes encryption, for every key and round function, every   *)
(* even number of rounds, every shape and every limit on the walks.  First *)
(* the codes of mixed_radix.py, which are recursive: a recursion has a     *)
(* function (Recursion), and what it computes is shown place by place, by  *)
(* induction over sets of numbers (Upward, Downward).  Then the covering   *)
(* domain, and the rounds and walks.                                       *)
(***************************************************************************)
EXTENDS MixedRadixFF1, FiniteSetTheorems, TLAPS
-----------------------------------------------------------------------------
(* Arithmetic *)

\* The one multiple of m between -m and m.
LEMMA SmallMultiple ==
    ASSUME NEW m \in Nat \ {0}, NEW k \in Int, -m < m * k, m * k < m
    PROVE  k = 0
  OBVIOUS

LEMMA Division ==
    ASSUME NEW m \in Nat \ {0}, NEW x \in Int
    PROVE  /\ x = m * (x \div m) + (x % m)
           /\ x % m \in 0..(m - 1)
           /\ x \div m \in Int
  OBVIOUS

\* Quotient and remainder are unique.
LEMMA DivisionUnique ==
    ASSUME NEW m \in Nat \ {0}, NEW q \in Int, NEW r \in 0..(m - 1)
    PROVE  (m * q + r) % m = r /\ (m * q + r) \div m = q
  <1> DEFINE x == m * q + r
             p == x \div m
             s == x % m
  <1>1. x \in Int
    OBVIOUS
  <1>2. x = m * p + s /\ s \in 0..(m - 1) /\ p \in Int
    BY <1>1, Division
  <1>3. m * (q - p) = s - r
    BY <1>2, <1>1
  <1>4. q - p = 0
    <2> HIDE DEF p, s
    <2>1. p \in Int /\ s \in 0..(m - 1)
      BY <1>2 DEF p, s
    <2>2. -m < m * (q - p) /\ m * (q - p) < m
      BY <1>3, <2>1
    <2> QED
      BY <2>1, <2>2, SmallMultiple
  <1> QED
    BY <1>3, <1>4, <1>2

\* One Feistel round and its inverse ("(NUM(a) + y) mod radix^m" and "(NUM(b) - y) mod
\* radix^m" in ff1.py).
LEMMA RoundUndone ==
    ASSUME NEW m \in Nat \ {0}, NEW h \in 0..(m - 1), NEW y \in Nat
    PROVE  (((h + y) % m) - y) % m = h
  <1> DEFINE x == h + y
             c == x % m
             q == x \div m
  <1>1. x \in Int
    OBVIOUS
  <1>2. x = m * q + c /\ c \in 0..(m - 1) /\ q \in Int
    BY <1>1, Division
  <1>3. c - y = m * (-q) + h
    <2> HIDE DEF c, q
    <2> QED BY <1>2
  <1>4. -q \in Int
    <2> HIDE DEF q
    <2> QED BY <1>2
  <1>5. (m * (-q) + h) % m = h
    <2> HIDE DEF q
    <2> QED BY <1>4, DivisionUnique
  <1> QED
    BY <1>3, <1>5

\* Joining two halves and splitting the result.
LEMMA SplitJoined ==
    ASSUME NEW l \in Nat \ {0}, NEW m \in Nat \ {0},
           NEW h1 \in 0..(l - 1), NEW h2 \in 0..(m - 1)
    PROVE  /\ (h1 * m + h2) \div m = h1
           /\ (h1 * m + h2) % m = h2
           /\ h1 * m + h2 \in Nat
  <1>1. h1 \in Int /\ h1 * m = m * h1
    OBVIOUS
  <1>2. (m * h1 + h2) % m = h2 /\ (m * h1 + h2) \div m = h1
    BY <1>1, DivisionUnique
  <1>3. m * h1 \in Nat
    OBVIOUS
  <1> QED
    BY <1>1, <1>2, <1>3

\* Splitting a point of the covering domain, and joining the halves.
LEMMA JoinSplit ==
    ASSUME NEW l \in Nat \ {0}, NEW m \in Nat \ {0}, NEW x \in Nat, x < l * m
    PROVE  /\ x \div m \in 0..(l - 1)
           /\ x % m \in 0..(m - 1)
           /\ (x \div m) * m + (x % m) = x
  <1> DEFINE q == x \div m
             r == x % m
  <1>1. x = m * q + r /\ r \in 0..(m - 1) /\ q \in Int
    BY Division
  <1> HIDE DEF q, r
  <1>2. q >= 0
    <2> SUFFICES ASSUME q <= -1 PROVE FALSE
      BY <1>1
    <2>1. m * q <= -m
      BY <1>1
    <2> QED
      BY <2>1, <1>1
  <1>3. q < l
    <2> SUFFICES ASSUME q >= l PROVE FALSE
      BY <1>1
    <2>1. m * q >= m * l
      BY <1>1
    <2> QED
      BY <2>1, <1>1
  <1> QED
    BY <1>1, <1>2, <1>3 DEF q, r

\* Quotients of numbers, and of what is below a product.
LEMMA QuotientNat ==
    ASSUME NEW m \in Nat \ {0}, NEW x \in Nat
    PROVE  x \div m \in Nat
  <1>1. x + 1 \in Nat \ {0} /\ x < (x + 1) * m
    OBVIOUS
  <1> QED
    BY <1>1, JoinSplit

\* All of it for numbers, in a form the provers find.
LEMMA Remainder ==
    \A m \in Nat \ {0}, x \in Nat :
        /\ x = m * (x \div m) + (x % m)
        /\ x % m \in 0..(m - 1)
        /\ x \div m \in Int
        /\ x < m => x % m = x
<1> TAKE m \in Nat \ {0}, x \in Nat
<1>1. x \in 0..(m - 1) => (m * 0 + x) % m = x
  BY DivisionUnique
<1>2. m * 0 + x = x
  OBVIOUS
<1>3. x < m => x % m = x
  BY <1>1, <1>2
<1> QED
  BY <1>3, Division

LEMMA QuotientBelow ==
    ASSUME NEW m \in Nat \ {0}, NEW l \in Nat, NEW x \in Nat, x < l * m
    PROVE  x \div m < l
  <1>1. l \in Nat \ {0}
    OBVIOUS
  <1> QED
    BY <1>1, JoinSplit
-----------------------------------------------------------------------------
Radixes == Seq(Nat \ {0})

(* Induction, by the least element of a set of numbers *)

\* Every set of numbers that is not empty has a least element.
LEMMA LeastNatural ==
    ASSUME NEW S \in SUBSET Nat, S # {}
    PROVE  \E m \in S : \A k \in S : m <= k
<1> DEFINE T == {0..k : k \in S}
<1>1. T \subseteq FiniteSubsetsOf(Nat)
  <2>1. \A k \in S : IsFiniteSet(0..k) /\ 0..k \subseteq Nat
    BY FS_Interval
  <2> QED
    BY <2>1 DEF FiniteSubsetsOf
<1>2. PICK x \in T : \A y \in T : <<y, x>> \notin StrictSubsetOrdering(Nat)
  <2>1. T # {}
    OBVIOUS
  <2> HIDE DEF T
  <2> QED
    BY <1>1, <2>1, FS_StrictSubsetOrderingWellFounded, WFMin
<1>3. PICK m \in S : x = 0..m
  OBVIOUS
<1>4. ASSUME NEW k \in S, k < m PROVE FALSE
  <2>1. 0..k \in T /\ 0..k \subseteq 0..m /\ 0..k # 0..m
    BY <1>4
  <2>2. 0..k \subseteq Nat /\ 0..m \subseteq Nat
    OBVIOUS
  <2>3. <<0..k, x>> \in StrictSubsetOrdering(Nat)
    BY <1>3, <2>1, <2>2 DEF StrictSubsetOrdering
  <2> QED
    BY <1>2, <2>1, <2>3
<1> QED
  BY <1>4

\* Induction up to m and down from m, over a set of numbers.
LEMMA Upward ==
    ASSUME NEW m \in Nat, NEW S, 0 \in S, \A n \in 1..m : n - 1 \in S => n \in S
    PROVE  0..m \subseteq S
<1> DEFINE Missed == (0..m) \ S
<1> SUFFICES ASSUME Missed # {} PROVE FALSE
  OBVIOUS
<1>1. PICK n \in Missed : \A k \in Missed : n <= k
  <2>1. Missed \in SUBSET Nat
    OBVIOUS
  <2> HIDE DEF Missed
  <2> QED
    BY <2>1, LeastNatural
<1>2. n \in 1..m /\ n - 1 \in 0..m /\ n - 1 \notin Missed
  BY <1>1
<1> QED
  BY <1>2

LEMMA Downward ==
    ASSUME NEW m \in Nat, NEW S, m \in S, \A n \in 1..m : n \in S => n - 1 \in S
    PROVE  0..m \subseteq S
<1> DEFINE Mirror == {m - n : n \in S \cap (0..m)}
<1>1. 0 \in Mirror
  OBVIOUS
<1>2. ASSUME NEW n \in 1..m, n - 1 \in Mirror PROVE n \in Mirror
  <2>1. PICK k \in S \cap (0..m) : n - 1 = m - k
    BY <1>2
  <2>2. k \in 1..m /\ n = m - (k - 1) /\ k - 1 \in 0..m
    BY <2>1
  <2>3. k - 1 \in S
    BY <2>2
  <2> QED
    BY <2>2, <2>3
<1>3. 0..m \subseteq Mirror
  <2> HIDE DEF Mirror
  <2> QED
    BY <1>1, <1>2, Upward
<1>4. ASSUME NEW n \in 0..m PROVE n \in S
  <2>1. m - n \in Mirror
    BY <1>3
  <2>2. PICK k \in S \cap (0..m) : m - n = m - k
    BY <2>1
  <2> QED
    BY <2>2
<1> QED
  BY <1>4

\* There is a function on 0..n with a given first value and a given step.
LEMMA Recursion ==
    ASSUME NEW n \in Nat, NEW first \in Nat, NEW step \in [Nat \X (1..n) -> Nat]
    PROVE  \E f \in [0..n -> Nat] :
              f[0] = first /\ \A i \in 1..n : f[i] = step[<<f[i - 1], i>>]
<1> DEFINE Solves(f, k) == f[0] = first /\ \A i \in 1..k : f[i] = step[<<f[i - 1], i>>]
           Solved == {k \in 0..n : \E f \in [0..n -> Nat] : Solves(f, k)}
<1>1. 0 \in Solved
  <2> DEFINE f == [i \in 0..n |-> first]
  <2>1. f \in [0..n -> Nat] /\ Solves(f, 0)
    OBVIOUS
  <2> HIDE DEF f, Solves
  <2> QED
    BY <2>1
<1>2. ASSUME NEW k \in 1..n, k - 1 \in Solved PROVE k \in Solved
  <2>1. PICK f \in [0..n -> Nat] : Solves(f, k - 1)
    <3> HIDE DEF Solves
    <3> QED
      BY <1>2
  <2> DEFINE g == [i \in 0..n |-> IF i = k THEN step[<<f[k - 1], k>>] ELSE f[i]]
  <2>2. g \in [0..n -> Nat]
    OBVIOUS
  <2>3. \A i \in 0..n : i # k => g[i] = f[i]
    OBVIOUS
  <2>4. g[k] = step[<<f[k - 1], k>>] /\ g[0] = first
    BY <2>1
  <2> HIDE DEF g
  <2>5. ASSUME NEW i \in 1..k PROVE g[i] = step[<<g[i - 1], i>>]
    <3>1. i - 1 \in 0..n /\ i - 1 # k /\ g[i - 1] = f[i - 1]
      BY <2>3
    <3>2. CASE i = k
      BY <3>1, <3>2, <2>4
    <3>3. CASE i # k
      <4>1. i \in 1..(k - 1) /\ i \in 0..n
        BY <3>3
      <4> QED
        BY <4>1, <3>1, <3>3, <2>1, <2>3
    <3> QED
      BY <3>2, <3>3
  <2>6. Solves(g, k)
    BY <2>4, <2>5
  <2>7. k \in 0..n
    OBVIOUS
  <2> HIDE DEF Solves
  <2> QED
    BY <2>2, <2>6, <2>7
<1>3. n \in Solved
  <2> HIDE DEF Solved
  <2> QED
    BY <1>1, <1>2, Upward
<1> HIDE DEF Solves
<1>4. \E f \in [0..n -> Nat] : Solves(f, n)
  BY <1>3
<1> QED
  BY <1>4 DEF Solves
-----------------------------------------------------------------------------
(* The recursions of the codes *)

SizeOf(r) ==
    CHOOSE size : size = [i \in 0..Len(r) |-> IF i = 0 THEN 1 ELSE size[i - 1] * r[i]]

ValueOf(s, r) ==
    CHOOSE value : value =
        [i \in 0..Len(r) |-> IF i = 0 THEN 0 ELSE value[i - 1] * r[i] + s[i]]

RestOf(x, r) ==
    CHOOSE rest : rest =
        [i \in 1..Len(r) |-> IF i = Len(r) THEN x ELSE rest[i + 1] \div r[i + 1]]

LEMMA CodesAre ==
    /\ \A r : DomainSize(r) = SizeOf(r)[Len(r)]
    /\ \A s, r : Encode(s, r) = ValueOf(s, r)[Len(r)]
    /\ \A x, r : Decode(x, r) = [i \in 1..Len(r) |-> RestOf(x, r)[i] % r[i]]
  BY DEF DomainSize, Encode, Decode, SizeOf, ValueOf, RestOf

LEMMA RadixFacts ==
    ASSUME NEW r \in Radixes
    PROVE  Len(r) \in Nat /\ \A i \in 1..Len(r) : r[i] \in Nat \ {0}
  BY DEF Radixes

LEMMA SizeEquation ==
    ASSUME NEW r \in Radixes
    PROVE  /\ SizeOf(r)[0] = 1
           /\ \A i \in 1..Len(r) : SizeOf(r)[i] = SizeOf(r)[i - 1] * r[i]
           /\ \A i \in 0..Len(r) : SizeOf(r)[i] \in Nat \ {0}
<1> DEFINE n == Len(r)
           step == [p \in Nat \X (1..n) |-> p[1] * r[p[2]]]
           Extend(g) == [i \in 0..n |-> IF i = 0 THEN 1 ELSE g[i - 1] * r[i]]
<1>1. n \in Nat /\ \A i \in 1..n : r[i] \in Nat \ {0}
  BY RadixFacts
<1> HIDE DEF n
<1>2. step \in [Nat \X (1..n) -> Nat]
  BY <1>1
<1>3. \A v \in Nat, i \in 1..n : step[<<v, i>>] = v * r[i]
  OBVIOUS
<1> HIDE DEF step
<1>4. PICK f \in [0..n -> Nat] : f[0] = 1 /\ \A i \in 1..n : f[i] = step[<<f[i - 1], i>>]
  <2>1. 1 \in Nat
    OBVIOUS
  <2>2. n \in Nat
    BY <1>1
  <2>3. \E f \in [0..n -> Nat] : f[0] = 1 /\ \A i \in 1..n : f[i] = step[<<f[i - 1], i>>]
    BY <1>2, <2>1, <2>2, Recursion, ZenonT(30)
  <2> QED
    BY <2>3
<1>5. ASSUME NEW i \in 1..n PROVE i - 1 \in 0..n /\ f[i] = f[i - 1] * r[i]
  <2>1. i - 1 \in 0..n
    BY <1>1
  <2>2. f[i - 1] \in Nat
    BY <2>1
  <2> QED
    BY <2>1, <2>2, <1>3, <1>4
<1>6. f = Extend(f)
  BY <1>4, <1>5
<1>7. SizeOf(r) = Extend(SizeOf(r))
  BY <1>6 DEF SizeOf, n
<1> DEFINE size == SizeOf(r)
<1> HIDE DEF size
<1>8. size = Extend(size)
  BY <1>7 DEF size
<1>9. size[0] = 1 /\ \A i \in 1..n : size[i] = size[i - 1] * r[i]
  BY <1>1, <1>8
<1> DEFINE Positive == {i \in 0..n : size[i] \in Nat \ {0}}
<1>10. 0 \in Positive
  BY <1>1, <1>9
<1>11. ASSUME NEW i \in 1..n, i - 1 \in Positive PROVE i \in Positive
  <2>1. size[i] = size[i - 1] * r[i] /\ size[i - 1] \in Nat \ {0} /\ r[i] \in Nat \ {0}
    BY <1>1, <1>9, <1>11
  <2>2. size[i] \in Nat \ {0}
    BY <2>1
  <2> QED
    BY <2>2
<1>12. 0..n \subseteq Positive
  <2> HIDE DEF Positive
  <2> QED
    BY <1>1, <1>10, <1>11, Upward
<1> QED
  BY <1>9, <1>12 DEF n, size

LEMMA ValueEquation ==
    ASSUME NEW r \in Radixes, NEW s \in [1..Len(r) -> Nat]
    PROVE  /\ ValueOf(s, r)[0] = 0
           /\ \A i \in 1..Len(r) : ValueOf(s, r)[i] = ValueOf(s, r)[i - 1] * r[i] + s[i]
           /\ \A i \in 0..Len(r) : ValueOf(s, r)[i] \in Nat
<1> DEFINE n == Len(r)
           step == [p \in Nat \X (1..n) |-> p[1] * r[p[2]] + s[p[2]]]
           Extend(g) == [i \in 0..n |-> IF i = 0 THEN 0 ELSE g[i - 1] * r[i] + s[i]]
<1>1. n \in Nat /\ \A i \in 1..n : r[i] \in Nat \ {0} /\ s[i] \in Nat
  BY RadixFacts
<1> HIDE DEF n
<1>2. step \in [Nat \X (1..n) -> Nat]
  <2>1. \A p \in Nat \X (1..n) : p[1] * r[p[2]] \in Nat /\ s[p[2]] \in Nat
    BY <1>1
  <2>2. \A p \in Nat \X (1..n) : p[1] * r[p[2]] + s[p[2]] \in Nat
    BY <2>1
  <2> QED
    BY <2>2
<1>3. \A v \in Nat, i \in 1..n : step[<<v, i>>] = v * r[i] + s[i]
  BY DEF step
<1> HIDE DEF step
<1>4. PICK f \in [0..n -> Nat] : f[0] = 0 /\ \A i \in 1..n : f[i] = step[<<f[i - 1], i>>]
  <2>1. 0 \in Nat
    OBVIOUS
  <2>2. n \in Nat
    BY <1>1
  <2>3. \E f \in [0..n -> Nat] : f[0] = 0 /\ \A i \in 1..n : f[i] = step[<<f[i - 1], i>>]
    BY <1>2, <2>1, <2>2, Recursion, ZenonT(30)
  <2> QED
    BY <2>3
<1>5. ASSUME NEW i \in 1..n PROVE i - 1 \in 0..n /\ f[i] = f[i - 1] * r[i] + s[i]
  <2>1. i - 1 \in 0..n
    BY <1>1
  <2>2. f[i - 1] \in Nat
    BY <2>1
  <2> QED
    BY <2>1, <2>2, <1>3, <1>4
<1>6. f = Extend(f)
  BY <1>4, <1>5
<1>7. ValueOf(s, r) = Extend(ValueOf(s, r))
  BY <1>6 DEF ValueOf, n
<1> DEFINE value == ValueOf(s, r)
<1> HIDE DEF value
<1>8. value = Extend(value)
  BY <1>7 DEF value
<1>9. value[0] = 0 /\ \A i \in 1..n : value[i] = value[i - 1] * r[i] + s[i]
  BY <1>1, <1>8, SMTT(30)
<1> DEFINE Natural == {i \in 0..n : value[i] \in Nat}
<1>10. 0 \in Natural
  BY <1>1, <1>9
<1>11. ASSUME NEW i \in 1..n, i - 1 \in Natural PROVE i \in Natural
  <2>1. /\ value[i] = value[i - 1] * r[i] + s[i]
        /\ value[i - 1] \in Nat /\ r[i] \in Nat /\ s[i] \in Nat
    BY <1>1, <1>9, <1>11
  <2>2. value[i] \in Nat
    BY <2>1, SMTT(30)
  <2> QED
    BY <2>2
<1>12. 0..n \subseteq Natural
  <2> HIDE DEF Natural
  <2> QED
    BY <1>1, <1>10, <1>11, Upward
<1> QED
  BY <1>9, <1>12 DEF n, value

\* The quotients are found from the last place to the first.
LEMMA RestEquation ==
    ASSUME NEW r \in Radixes, NEW x \in Nat
    PROVE  /\ Len(r) > 0 => RestOf(x, r)[Len(r)] = x
           /\ \A i \in 1..(Len(r) - 1) : RestOf(x, r)[i] = RestOf(x, r)[i + 1] \div r[i + 1]
           /\ \A i \in 1..Len(r) : RestOf(x, r)[i] \in Nat
<1> DEFINE n == Len(r)
           step == [p \in Nat \X (1..n) |-> p[1] \div r[n - p[2] + 1]]
           Extend(g) == [i \in 1..n |-> IF i = n THEN x ELSE g[i + 1] \div r[i + 1]]
<1>1. n \in Nat /\ \A i \in 1..n : r[i] \in Nat \ {0}
  BY RadixFacts
<1> HIDE DEF n
<1>2. step \in [Nat \X (1..n) -> Nat]
  <2>1. \A v \in Nat, i \in 1..n : v \div r[n - i + 1] \in Nat
    <3> TAKE v \in Nat, i \in 1..n
    <3>1. n - i + 1 \in 1..n
      BY <1>1
    <3>2. r[n - i + 1] \in Nat \ {0}
      BY <1>1, <3>1
    <3> QED
      BY <3>2, QuotientNat
  <2> QED
    BY <2>1
<1>3. \A v \in Nat, i \in 1..n : step[<<v, i>>] = v \div r[n - i + 1]
  OBVIOUS
<1> HIDE DEF step
<1>4. PICK f \in [0..n -> Nat] : f[0] = x /\ \A i \in 1..n : f[i] = step[<<f[i - 1], i>>]
  <2>1. n \in Nat
    BY <1>1
  <2>2. \E f \in [0..n -> Nat] : f[0] = x /\ \A i \in 1..n : f[i] = step[<<f[i - 1], i>>]
    BY <1>2, <2>1, Recursion, ZenonT(30)
  <2> QED
    BY <2>2
<1> DEFINE g == [i \in 1..n |-> f[n - i]]
<1>5. ASSUME NEW i \in 1..n, i # n PROVE g[i] = g[i + 1] \div r[i + 1]
  <2>1. /\ n - i \in 1..n /\ n - (i + 1) = (n - i) - 1 /\ n - (n - i) + 1 = i + 1
        /\ i + 1 \in 1..n /\ (n - i) - 1 \in 0..n
    BY <1>1, <1>5
  <2>2. f[n - i] = f[(n - i) - 1] \div r[i + 1]
    BY <2>1, <1>3, <1>4, ZenonT(30)
  <2> QED
    BY <2>1, <2>2
<1>6. n > 0 => g[n] = x
  BY <1>1, <1>4
<1>7. \A i \in 1..n : g[i] \in Nat
  BY <1>1
<1>8. g = Extend(g)
  <2>1. DOMAIN g = 1..n
    OBVIOUS
  <2>2. \A i \in 1..n : g[i] = Extend(g)[i]
    <3> HIDE DEF g
    <3> QED
      BY <1>1, <1>5, <1>6
  <2>3. g = [i \in 1..n |-> g[i]]
    OBVIOUS
  <2> HIDE DEF g
  <2> QED
    BY <2>2, <2>3
<1> HIDE DEF g
<1>9. RestOf(x, r) = Extend(RestOf(x, r))
  BY <1>8 DEF RestOf, n
<1> DEFINE rest == RestOf(x, r)
<1> HIDE DEF rest
<1>10. rest = Extend(rest)
  BY <1>9 DEF rest
<1>11. n > 0 => rest[n] = x
  BY <1>1, <1>10
<1>12. \A i \in 1..(n - 1) : rest[i] = rest[i + 1] \div r[i + 1]
  <2> TAKE i \in 1..(n - 1)
  <2>1. i \in 1..n /\ i # n
    BY <1>1
  <2>2. rest[i] = Extend(rest)[i]
    BY <1>10
  <2> QED
    BY <2>1, <2>2
<1> DEFINE Natural == {i \in 0..n : i = 0 \/ rest[i] \in Nat}
<1>13. n \in Natural
  BY <1>1, <1>11
<1>14. ASSUME NEW i \in 1..n, i \in Natural PROVE i - 1 \in Natural
  <2>1. CASE i = 1
    BY <2>1, <1>1
  <2>2. CASE i # 1
    <3>1. i - 1 \in 1..(n - 1) /\ (i - 1) + 1 = i /\ i - 1 \in 0..n
      BY <1>1, <2>2
    <3>2. rest[i - 1] = rest[i] \div r[i] /\ rest[i] \in Nat /\ r[i] \in Nat \ {0}
      BY <1>1, <1>12, <1>14, <3>1
    <3>3. rest[i - 1] \in Nat
      BY <3>2, QuotientNat
    <3> QED
      BY <3>1, <3>3
  <2> QED
    BY <2>1, <2>2
<1>15. 0..n \subseteq Natural
  <2> HIDE DEF Natural
  <2> QED
    BY <1>1, <1>13, <1>14, Downward
<1>16. \A i \in 1..n : rest[i] \in Nat
  BY <1>1, <1>15
<1> QED
  BY <1>11, <1>12, <1>16 DEF n, rest
-----------------------------------------------------------------------------
(* The codes *)

\* Symbols are numbers below their radixes.
LEMMA SymbolsTyped ==
    ASSUME NEW r \in Radixes, NEW s \in SymbolLists(r)
    PROVE  s \in [1..Len(r) -> Nat] /\ \A i \in 1..Len(r) : s[i] \in 0..(r[i] - 1)
<1>1. Len(r) \in Nat /\ \A i \in 1..Len(r) : r[i] \in Nat \ {0}
  BY RadixFacts
<1>2. /\ s \in [1..Len(r) -> 0..(DomainSize(r) - 1)]
      /\ \A i \in 1..Len(r) : s[i] < r[i]
  BY DEF SymbolLists
<1>3. \A i \in 1..Len(r) : s[i] \in Nat
  <2>1. DomainSize(r) \in Nat
    BY <1>1, SizeEquation, CodesAre
  <2> QED
    BY <1>2, <2>1
<1>4. s \in [1..Len(r) -> Nat]
  <2> DEFINE D == 1..Len(r)
             T == 0..(DomainSize(r) - 1)
  <2>1. s \in [D -> T] /\ \A i \in D : s[i] \in Nat
    BY <1>2, <1>3
  <2> HIDE DEF D, T
  <2>2. s \in [D -> Nat]
    BY <2>1
  <2> QED
    BY <2>2 DEF D
<1> QED
  BY <1>1, <1>2, <1>3, <1>4

\* The first i symbols make a number below the size of the first i places.
LEMMA ValueBounded ==
    ASSUME NEW r \in Radixes, NEW s \in [1..Len(r) -> Nat],
           \A i \in 1..Len(r) : s[i] \in 0..(r[i] - 1)
    PROVE  \A i \in 0..Len(r) : ValueOf(s, r)[i] < SizeOf(r)[i]
<1> DEFINE n == Len(r)
           value == ValueOf(s, r)
           size == SizeOf(r)
           Bounded == {i \in 0..n : value[i] < size[i]}
<1>1. n \in Nat /\ \A i \in 1..n : r[i] \in Nat \ {0} /\ s[i] \in 0..(r[i] - 1)
  BY RadixFacts
<1>2. /\ value[0] = 0
      /\ \A i \in 1..n : value[i] = value[i - 1] * r[i] + s[i]
      /\ \A i \in 0..n : value[i] \in Nat
  BY ValueEquation
<1>3. /\ size[0] = 1
      /\ \A i \in 1..n : size[i] = size[i - 1] * r[i]
      /\ \A i \in 0..n : size[i] \in Nat \ {0}
  BY SizeEquation
<1> HIDE DEF n, value, size
<1>4. 0 \in Bounded
  BY <1>1, <1>2, <1>3
<1>5. ASSUME NEW i \in 1..n, i - 1 \in Bounded PROVE i \in Bounded
  <2>1. i - 1 \in 0..n /\ i \in 0..n
    BY <1>1
  <2> DEFINE v == value[i - 1]
             z == size[i - 1]
             m == r[i]
             d == s[i]
  <2>2. v \in Nat /\ z \in Nat /\ v < z /\ m \in Nat \ {0} /\ d \in 0..(m - 1)
    BY <1>1, <1>2, <1>3, <1>5, <2>1
  <2>3. value[i] = v * m + d /\ size[i] = z * m
    BY <1>2, <1>3
  <2> HIDE DEF v, z, m, d
  <2>4. v * m <= (z - 1) * m
    BY <2>2
  <2>5. (z - 1) * m = z * m - m
    BY <2>2
  <2>6. v * m + d < z * m
    <3>1. v * m \in Nat /\ z * m \in Nat
      BY <2>2
    <3> QED
      BY <2>2, <2>4, <2>5, <3>1
  <2> QED
    BY <2>1, <2>3, <2>6
<1>6. 0..n \subseteq Bounded
  <2> HIDE DEF Bounded
  <2> QED
    BY <1>1, <1>4, <1>5, Upward
<1> QED
  BY <1>6 DEF n, value, size

\* "decode(encode(x, radixes), radixes) == x" (mixed_radix.py), for every list of radixes.
THEOREM DecodeUndoesEncode ==
    ASSUME NEW r \in Seq(Nat \ {0}), NEW s \in SymbolLists(r)
    PROVE  /\ Encode(s, r) \in 0..(DomainSize(r) - 1)
           /\ Decode(Encode(s, r), r) = s
<1> DEFINE n == Len(r)
           value == ValueOf(s, r)
           x == Encode(s, r)
           rest == RestOf(x, r)
           Same == {i \in 0..n : i = 0 \/ rest[i] = value[i]}
<1>0. r \in Radixes
  BY DEF Radixes
<1>1. /\ n \in Nat
      /\ \A i \in 1..n : r[i] \in Nat \ {0} /\ s[i] \in 0..(r[i] - 1)
      /\ s \in [1..n -> Nat]
  BY <1>0, RadixFacts, SymbolsTyped
<1>2. /\ \A i \in 1..n : value[i] = value[i - 1] * r[i] + s[i]
      /\ \A i \in 0..n : value[i] \in Nat
  BY <1>0, <1>1, ValueEquation
<1>3. x = value[n] /\ x \in Nat
  BY <1>1, <1>2, CodesAre
<1>4. x < DomainSize(r) /\ DomainSize(r) \in Nat
  <2>1. n \in 0..n
    BY <1>1
  <2>2. value[n] < SizeOf(r)[n]
    BY <1>0, <1>1, <2>1, ValueBounded
  <2>3. SizeOf(r)[n] \in Nat
    BY <1>0, <2>1, SizeEquation
  <2> QED
    BY <1>3, <2>2, <2>3, CodesAre
<1>5. /\ n > 0 => rest[n] = x
      /\ \A i \in 1..(n - 1) : rest[i] = rest[i + 1] \div r[i + 1]
  <2> HIDE DEF x
  <2> QED
    BY <1>0, <1>3, RestEquation
<1>6. Decode(x, r) = [i \in 1..n |-> rest[i] % r[i]]
  BY CodesAre
<1> HIDE DEF n, value, rest
<1>7. \A i \in 1..n : (value[i - 1] * r[i] + s[i]) \div r[i] = value[i - 1]
                   /\ (value[i - 1] * r[i] + s[i]) % r[i] = s[i]
  <2> TAKE i \in 1..n
  <2>1. i - 1 \in 0..n
    BY <1>1
  <2> DEFINE v == value[i - 1]
             m == r[i]
             d == s[i]
  <2>2. v \in Int /\ m \in Nat \ {0} /\ d \in 0..(m - 1)
    BY <1>1, <1>2, <2>1
  <2> HIDE DEF v, m, d
  <2>3. v * m + d = m * v + d
    BY <2>2
  <2>4. (m * v + d) % m = d /\ (m * v + d) \div m = v
    BY <2>2, DivisionUnique
  <2> QED
    BY <2>3, <2>4 DEF v, m, d
<1>8. n \in Same
  BY <1>1, <1>3, <1>5
<1>9. ASSUME NEW i \in 1..n, i \in Same PROVE i - 1 \in Same
  <2>1. i - 1 \in 0..n
    BY <1>1
  <2>2. CASE i = 1
    BY <2>1, <2>2
  <2>3. CASE i # 1
    <3>1. i - 1 \in 1..(n - 1) /\ (i - 1) + 1 = i
      BY <1>1, <2>3
    <3>2. rest[i - 1] = rest[i] \div r[i]
      BY <1>5, <3>1
    <3>3. rest[i] = value[i - 1] * r[i] + s[i]
      BY <1>1, <1>2, <1>9
    <3>4. rest[i - 1] = value[i - 1]
      BY <1>7, <3>2, <3>3
    <3> QED
      BY <2>1, <3>4
  <2> QED
    BY <2>2, <2>3
<1>10. 0..n \subseteq Same
  <2> HIDE DEF Same
  <2> QED
    BY <1>1, <1>8, <1>9, Downward
<1>11. \A i \in 1..n : rest[i] % r[i] = s[i]
  <2> TAKE i \in 1..n
  <2>1. i \in 0..n /\ i # 0
    BY <1>1
  <2>2. rest[i] = value[i - 1] * r[i] + s[i]
    BY <1>2, <1>10, <2>1
  <2> QED
    BY <1>7, <2>2
<1>12. s = [i \in 1..n |-> s[i]]
  BY <1>1
<1> HIDE DEF x
<1>13. Decode(x, r) = s
  BY <1>6, <1>11, <1>12
<1>14. x \in 0..(DomainSize(r) - 1)
  BY <1>3, <1>4
<1> QED
  BY <1>13, <1>14 DEF x

\* Every number below the size of the domain is the code of its symbols.
THEOREM EncodeUndoesDecode ==
    ASSUME NEW r \in Seq(Nat \ {0}), NEW x \in 0..(DomainSize(r) - 1)
    PROVE  /\ Decode(x, r) \in SymbolLists(r)
           /\ Encode(Decode(x, r), r) = x
<1> DEFINE n == Len(r)
           rest == RestOf(x, r)
           size == SizeOf(r)
           s == Decode(x, r)
           value == ValueOf(s, r)
           Below == {i \in 0..n : i = 0 \/ rest[i] < size[i]}
           Same == {i \in 0..n : i = 0 \/ value[i] = rest[i]}
<1>0. r \in Radixes
  BY DEF Radixes
<1>1. n \in Nat /\ \A i \in 1..n : r[i] \in Nat \ {0}
  BY <1>0, RadixFacts
<1>2. /\ size[0] = 1
      /\ \A i \in 1..n : size[i] = size[i - 1] * r[i]
      /\ \A i \in 0..n : size[i] \in Nat \ {0}
  BY <1>0, SizeEquation
<1>3. x \in Nat /\ x < size[n] /\ DomainSize(r) = size[n]
  <2>1. DomainSize(r) = size[n] /\ n \in 0..n
    BY <1>1, CodesAre
  <2>2. DomainSize(r) \in Nat
    BY <1>2, <2>1
  <2> QED
    BY <2>1, <2>2
<1>4. /\ n > 0 => rest[n] = x
      /\ \A i \in 1..(n - 1) : rest[i] = rest[i + 1] \div r[i + 1]
      /\ \A i \in 1..n : rest[i] \in Nat
  BY <1>0, <1>3, RestEquation
<1>5. s = [i \in 1..n |-> rest[i] % r[i]]
  BY CodesAre
<1>6. \A i \in 1..n : s[i] = rest[i] % r[i] /\ s[i] \in 0..(r[i] - 1)
  <2> HIDE DEF n, rest, s
  <2> TAKE i \in 1..n
  <2>1. r[i] \in Nat \ {0} /\ rest[i] \in Nat /\ s[i] = rest[i] % r[i]
    BY <1>1, <1>4, <1>5
  <2> QED
    BY <2>1, Remainder
<1>7. s \in [1..n -> Nat]
  <2> HIDE DEF n, rest, s
  <2>1. \A i \in 1..n : rest[i] % r[i] \in Nat
    BY <1>1, <1>5, <1>6
  <2> QED
    BY <1>5, <2>1
<1>8. /\ value[0] = 0
      /\ \A i \in 1..n : value[i] = value[i - 1] * r[i] + s[i]
  <2> HIDE DEF s
  <2> QED
    BY <1>0, <1>7, ValueEquation
<1>9. Encode(s, r) = value[n]
  BY CodesAre
<1> HIDE DEF n, rest, size, value
<1>10. n \in Below
  BY <1>1, <1>3, <1>4
<1>11. ASSUME NEW i \in 1..n, i \in Below PROVE i - 1 \in Below
  <2>1. i - 1 \in 0..n
    BY <1>1
  <2>2. CASE i = 1
    BY <2>1, <2>2
  <2>3. CASE i # 1
    <3>1. i - 1 \in 1..(n - 1) /\ (i - 1) + 1 = i
      BY <1>1, <2>3
    <3>2. rest[i - 1] = rest[i] \div r[i]
      BY <1>4, <3>1
    <3>3. rest[i] \in Nat /\ rest[i] < size[i - 1] * r[i] /\ r[i] \in Nat \ {0}
      BY <1>1, <1>2, <1>4, <1>11
    <3>4. size[i - 1] \in Nat
      BY <1>2, <2>1
    <3>5. rest[i - 1] < size[i - 1]
      BY <3>2, <3>3, <3>4, QuotientBelow
    <3> QED
      BY <2>1, <3>5
  <2> QED
    BY <2>2, <2>3
<1>12. 0..n \subseteq Below
  <2> HIDE DEF Below
  <2> QED
    BY <1>1, <1>10, <1>11, Downward
<1>13. 0 \in Same
  BY <1>1
<1>14. ASSUME NEW i \in 1..n, i - 1 \in Same PROVE i \in Same
  <2>1. value[i] = value[i - 1] * r[i] + (rest[i] % r[i])
    BY <1>6, <1>8
  <2>2. rest[i] \in Nat /\ r[i] \in Nat \ {0} /\ i \in 0..n
    BY <1>1, <1>4
  <2>3. CASE i = 1
    <3>1. value[i] = rest[i] % r[i]
      <4>1. rest[i] % r[i] \in Int
        BY <1>6, <2>2
      <4> QED
        BY <1>8, <2>1, <2>2, <2>3, <4>1
    <3>2. rest[i] < r[i]
      <4>1. rest[i] < size[i] /\ size[i] = size[0] * r[i]
        BY <1>2, <1>12, <2>2, <2>3
      <4> QED
        BY <1>2, <2>2, <4>1
    <3>3. rest[i] % r[i] = rest[i]
      BY <2>2, <3>2, Remainder
    <3> QED
      BY <2>2, <3>1, <3>3
  <2>4. CASE i # 1
    <3>1. i - 1 \in 1..(n - 1) /\ (i - 1) + 1 = i /\ i - 1 # 0
      BY <1>1, <2>4
    <3>2. rest[i - 1] = rest[i] \div r[i] /\ value[i - 1] = rest[i - 1]
      BY <1>4, <1>14, <3>1
    <3>3. value[i] = (rest[i] \div r[i]) * r[i] + (rest[i] % r[i])
      BY <2>1, <3>2
    <3> DEFINE q == rest[i] \div r[i]
               d == rest[i] % r[i]
    <3>4. rest[i] = r[i] * q + d /\ q \in Int /\ d \in 0..(r[i] - 1)
      BY <2>2, Remainder
    <3>5. value[i] = q * r[i] + d
      BY <3>3
    <3> HIDE DEF q, d
    <3>6. q * r[i] = r[i] * q
      BY <2>2, <3>4
    <3>7. value[i] = rest[i]
      BY <3>4, <3>5, <3>6
    <3> QED
      BY <2>2, <3>7
  <2> QED
    BY <2>3, <2>4
<1>15. 0..n \subseteq Same
  <2> HIDE DEF Same
  <2> QED
    BY <1>1, <1>13, <1>14, Upward
<1>16. value[n] = x
  <2>1. CASE n = 0
    BY <1>2, <1>3, <1>8, <2>1
  <2>2. CASE n # 0
    <3>1. n \in 0..n /\ n > 0
      BY <1>1, <2>2
    <3> QED
      BY <1>4, <1>15, <2>2, <3>1
  <2> QED
    BY <2>1, <2>2
<1>17. \A i \in 1..n : s[i] \in 0..(DomainSize(r) - 1) /\ s[i] < r[i]
  <2> DEFINE Over == {i \in 0..n : \A j \in 1..i : r[j] <= size[i]}
  <2>1. 0 \in Over
    BY <1>1
  <2>2. ASSUME NEW i \in 1..n, i - 1 \in Over PROVE i \in Over
    <3>1. i - 1 \in 0..n /\ i \in 0..n
      BY <1>1
    <3> DEFINE z == size[i - 1]
               m == r[i]
    <3>2. z \in Nat \ {0} /\ m \in Nat \ {0} /\ size[i] = z * m
      BY <1>1, <1>2, <3>1
    <3>3. \A j \in 1..(i - 1) : r[j] <= z
      BY <2>2
    <3> HIDE DEF z, m
    <3>4. z * m >= z /\ z * m >= m /\ z * m \in Nat
      BY <3>2
    <3>5. ASSUME NEW j \in 1..i PROVE r[j] <= size[i]
      <4>1. CASE j = i
        BY <3>2, <3>4, <4>1 DEF m
      <4>2. CASE j # i
        <5>1. j \in 1..(i - 1) /\ j \in 1..n
          BY <1>1, <4>2
        <5>2. r[j] \in Nat /\ r[j] <= z
          BY <1>1, <3>3, <5>1
        <5> DEFINE p == z * m
        <5>3. p = size[i] /\ p \in Nat /\ p >= z
          BY <3>2, <3>4
        <5>4. z \in Nat
          BY <3>2
        <5> HIDE DEF p
        <5> QED
          BY <5>2, <5>3, <5>4
      <4> QED
        BY <4>1, <4>2
    <3> QED
      BY <3>1, <3>5
  <2>3. 0..n \subseteq Over
    <3> HIDE DEF Over
    <3> QED
      BY <1>1, <2>1, <2>2, Upward
  <2>4. \A j \in 1..n : r[j] <= size[n]
    <3>1. n \in 0..n
      BY <1>1
    <3> QED
      BY <2>3, <3>1
  <2> HIDE DEF s
  <2> TAKE i \in 1..n
  <2>5. s[i] \in 0..(r[i] - 1) /\ r[i] <= DomainSize(r) /\ r[i] \in Nat
    BY <1>1, <1>3, <1>6, <2>4
  <2>6. DomainSize(r) \in Nat
    <3>1. n \in 0..n
      BY <1>1
    <3> QED
      BY <1>2, <1>3, <3>1
  <2> QED
    BY <2>5, <2>6
<1>18. s \in SymbolLists(r)
  <2> DEFINE D == 1..n
             T == 0..(DomainSize(r) - 1)
  <2> HIDE DEF s, T
  <2>1. s \in [D -> T]
    BY <1>7, <1>17 DEF T
  <2> QED
    BY <1>17, <2>1 DEF SymbolLists, n, T
<1> QED
  BY <1>9, <1>16, <1>18
-----------------------------------------------------------------------------
(* The covering domain *)

Twos(n) == [i \in 1..n |-> 2]

LEMMA TwosTyped == \A n \in Nat : Twos(n) \in Radixes /\ Len(Twos(n)) = n
<1> TAKE n \in Nat
<1>1. Twos(n) \in [1..n -> Nat \ {0}]
  BY DEF Twos
<1> QED
  BY <1>1 DEF Radixes

\* One more bit, twice as many points: the shorter recursion agrees with the longer one.
LEMMA PointsGrow ==
    /\ Points(0) = 1
    /\ \A n \in Nat : Points(n) \in Nat \ {0} /\ Points(n + 1) = 2 * Points(n)
<1>1. \A n \in Nat : Points(n) = SizeOf(Twos(n))[n]
  BY TwosTyped, CodesAre DEF Points, Twos
<1>2. ASSUME NEW n \in Nat
      PROVE  /\ SizeOf(Twos(n))[0] = 1
             /\ \A i \in 1..n : SizeOf(Twos(n))[i] = SizeOf(Twos(n))[i - 1] * 2
             /\ \A i \in 0..n : SizeOf(Twos(n))[i] \in Nat \ {0}
  <2>1. Twos(n) \in Radixes /\ Len(Twos(n)) = n /\ \A i \in 1..n : Twos(n)[i] = 2
    BY TwosTyped DEF Twos
  <2> DEFINE r == Twos(n)
  <2> HIDE DEF r
  <2>2. /\ SizeOf(r)[0] = 1
        /\ \A i \in 1..Len(r) : SizeOf(r)[i] = SizeOf(r)[i - 1] * r[i]
        /\ \A i \in 0..Len(r) : SizeOf(r)[i] \in Nat \ {0}
    BY <2>1, SizeEquation DEF r
  <2> QED
    BY <2>1, <2>2 DEF r
<1>3. Points(0) = 1
  BY <1>1, <1>2
<1>4. ASSUME NEW n \in Nat PROVE Points(n) \in Nat \ {0} /\ Points(n + 1) = 2 * Points(n)
  <2> DEFINE f == SizeOf(Twos(n))
             g == SizeOf(Twos(n + 1))
             Same == {i \in 0..n : f[i] = g[i]}
  <2>1. /\ f[0] = 1 /\ \A i \in 1..n : f[i] = f[i - 1] * 2
        /\ \A i \in 0..n : f[i] \in Nat \ {0}
    BY <1>2
  <2>2. n + 1 \in Nat
    OBVIOUS
  <2>3. g[0] = 1 /\ \A i \in 1..(n + 1) : g[i] = g[i - 1] * 2
    BY <1>2, <2>2
  <2> HIDE DEF f, g
  <2>4. 0 \in Same
    BY <2>1, <2>3
  <2>5. ASSUME NEW i \in 1..n, i - 1 \in Same PROVE i \in Same
    BY <2>1, <2>3, <2>5
  <2>6. 0..n \subseteq Same
    <3> HIDE DEF Same
    <3> QED
      BY <2>4, <2>5, Upward
  <2>7. f[n] = g[n] /\ f[n] \in Nat \ {0}
    BY <2>1, <2>6
  <2>8. g[n + 1] = f[n] * 2
    BY <2>3, <2>7
  <2>9. Points(n) = f[n] /\ Points(n + 1) = g[n + 1]
    BY <1>1, <2>2 DEF f, g
  <2> QED
    BY <2>7, <2>8, <2>9
<1> QED
  BY <1>3, <1>4

\* The points of a split width are pairs of halves.
LEMMA PointsMultiply ==
    ASSUME NEW m \in Nat, NEW n \in Nat
    PROVE  Points(m + n) = Points(m) * Points(n)
<1> DEFINE Multiplied == {k \in 0..n : Points(m + k) = Points(m) * Points(k)}
<1>1. 0 \in Multiplied
  <2>1. Points(m) * 1 = Points(m) /\ m + 0 = m
    BY PointsGrow
  <2> QED
    BY <2>1, PointsGrow
<1>2. ASSUME NEW k \in 1..n, k - 1 \in Multiplied PROVE k \in Multiplied
  <2>1. k - 1 \in Nat /\ (k - 1) + 1 = k /\ m + (k - 1) \in Nat /\ (m + (k - 1)) + 1 = m + k
    OBVIOUS
  <2>2. Points(k) = 2 * Points(k - 1) /\ Points(m + k) = 2 * Points(m + (k - 1))
    BY <2>1, PointsGrow
  <2> DEFINE p == Points(m)
             q == Points(k - 1)
  <2>3. p \in Nat /\ q \in Nat /\ Points(m + (k - 1)) = p * q
    BY <1>2, <2>1, PointsGrow
  <2> HIDE DEF p, q
  <2>4. 2 * (p * q) = p * (2 * q)
    BY <2>3
  <2>5. Points(m + k) = p * Points(k)
    BY <2>2, <2>3, <2>4 DEF q
  <2> QED
    BY <2>5 DEF p
<1>3. 0..n \subseteq Multiplied
  <2> HIDE DEF Multiplied
  <2> QED
    BY <1>1, <1>2, Upward
<1> QED
  BY <1>3

\* So some width is wide enough.
LEMMA PointsExceed == \A n \in Nat : Points(n) > n
<1> TAKE n \in Nat
<1> DEFINE Above == {k \in 0..n : Points(k) > k}
<1>1. 0 \in Above
  BY PointsGrow
<1>2. ASSUME NEW k \in 1..n, k - 1 \in Above PROVE k \in Above
  <2>1. k - 1 \in Nat /\ (k - 1) + 1 = k
    OBVIOUS
  <2>2. Points(k) = 2 * Points(k - 1) /\ Points(k - 1) \in Nat /\ Points(k - 1) > k - 1
    BY <1>2, <2>1, PointsGrow
  <2> QED
    BY <2>2
<1>3. 0..n \subseteq Above
  <2> HIDE DEF Above
  <2> QED
    BY <1>1, <1>2, Upward
<1> QED
  BY <1>3

\* What CoveringBits chooses exists, by the least element of the widths wide enough.
LEMMA Covering ==
    ASSUME NEW r \in Radixes
    PROVE  /\ DomainSize(r) \in Nat \ {0}
           /\ CoveringBits(r) \in Nat \ {0}
           /\ Points(CoveringBits(r)) >= DomainSize(r)
           /\ CoveringBits(r) > 1 => Points(CoveringBits(r) - 1) < DomainSize(r)
<1> DEFINE size == DomainSize(r)
           Wide == {n \in 1..size : Points(n) >= size}
           Tight(n) == Points(n) >= size /\ (n = 1 \/ Points(n - 1) < size)
<1>1. size \in Nat \ {0}
  BY RadixFacts, SizeEquation, CodesAre, SMTT(30)
<1> HIDE DEF size
<1>2. size \in Wide
  BY <1>1, PointsExceed, PointsGrow
<1>3. PICK n \in Wide : \A k \in Wide : n <= k
  <2>1. Wide \in SUBSET Nat /\ Wide # {}
    BY <1>2
  <2> HIDE DEF Wide
  <2> QED
    BY <2>1, LeastNatural
<1>4. n \in 1..size /\ Tight(n)
  <2>1. CASE n = 1
    BY <1>3, <2>1
  <2>2. CASE n # 1
    <3>1. n \in 1..size /\ n - 1 \in 1..size /\ n - 1 \notin Wide /\ n - 1 \in Nat
      BY <1>1, <1>3, <2>2
    <3>2. Points(n - 1) \in Nat /\ ~(Points(n - 1) >= size)
      BY <3>1, PointsGrow
    <3> QED
      BY <1>1, <1>3, <3>1, <3>2
  <2> QED
    BY <2>1, <2>2
<1>5. CoveringBits(r) = CHOOSE k \in 1..size : Tight(k)
  BY DEF CoveringBits, size
<1> DEFINE bits == CoveringBits(r)
<1>6. bits \in 1..size /\ Tight(bits)
  <2> HIDE DEF Tight
  <2>1. \E k \in 1..size : Tight(k)
    BY <1>4
  <2> QED
    BY <1>5, <2>1
<1> HIDE DEF bits
<1>7. bits \in Nat \ {0} /\ Points(bits) >= size /\ (bits > 1 => Points(bits - 1) < size)
  BY <1>1, <1>6
<1> QED
  BY <1>1, <1>7 DEF size, bits

\* The two halves make up the covering domain.
LEMMA HalvesCover ==
    ASSUME NEW r \in Radixes
    PROVE  /\ LeftSize(r) \in Nat \ {0} /\ RightSize(r) \in Nat \ {0}
           /\ DomainSize(r) \in Nat /\ DomainSize(r) <= LeftSize(r) * RightSize(r)
<1> DEFINE bits == CoveringBits(r)
           half == bits \div 2
<1>1. bits \in Nat /\ Points(bits) >= DomainSize(r) /\ DomainSize(r) \in Nat
  BY Covering
<1> HIDE DEF bits
<1>2. half \in Nat /\ bits - half \in Nat /\ half + (bits - half) = bits
  BY <1>1
<1> HIDE DEF half
<1>3. /\ Points(half) \in Nat \ {0} /\ Points(bits - half) \in Nat \ {0}
      /\ Points(bits) = Points(half) * Points(bits - half)
  <2>1. Points(half + (bits - half)) = Points(half) * Points(bits - half)
    BY <1>2, PointsMultiply
  <2> QED
    BY <1>2, <2>1, PointsGrow
<1>4. LeftSize(r) = Points(half) /\ RightSize(r) = Points(bits - half)
  BY DEF LeftSize, RightSize, half, bits
<1> QED
  BY <1>1, <1>3, <1>4

\* The covering domain holds every value of the true one, and has fewer than two points
\* for each ("the tightest binary covering", _covering_bits), so that most walks are
\* short; one bit is the least there is.
THEOREM CoveringTight ==
    ASSUME NEW r \in Seq(Nat \ {0})
    PROVE  /\ DomainSize(r) <= Points(CoveringBits(r))
           /\ CoveringBits(r) > 1 => Points(CoveringBits(r)) < 2 * DomainSize(r)
<1> DEFINE bits == CoveringBits(r)
           size == DomainSize(r)
<1>1. /\ size \in Nat /\ bits \in Nat \ {0} /\ Points(bits) >= size
      /\ bits > 1 => Points(bits - 1) < size
  BY Covering DEF Radixes
<1> HIDE DEF bits, size
<1>2. bits - 1 \in Nat /\ (bits - 1) + 1 = bits
  BY <1>1
<1>3. Points(bits) = 2 * Points(bits - 1) /\ Points(bits - 1) \in Nat /\ Points(bits) \in Nat
  <2>1. Points((bits - 1) + 1) = 2 * Points(bits - 1) /\ Points(bits - 1) \in Nat
    BY <1>2, PointsGrow
  <2> QED
    BY <1>1, <1>2, <2>1, PointsGrow
<1> QED
  BY <1>1, <1>3 DEF bits, size
-----------------------------------------------------------------------------
(* The inductive invariant *)

\* A point of the covering domain, from its halves.
PointOf(h) == h[1] * Right + h[2]

\* What a round of encryption makes of the halves.
Forward(i, h) == <<h[2], (h[1] + Y(key, Bits, i, h[2])) % Modulus(i)>>

\* The first n rounds of walk k are in the trail.
Recorded(k, n) == \A i \in 0..(n - 1) : trail[k][i + 1] = Forward(i, trail[k][i])

\* Walk k ended outside the true domain, and the next one began where it ended.
Continued(k) ==
    /\ PointOf(trail[k][Rounds]) >= Size
    /\ trail[k + 1][0] = trail[k][Rounds]

\* The trail from the symbols to round n of walk w.
TrailTo(w, n) ==
    /\ PointOf(trail[0][0]) = Encode(symbols, radixes)
    /\ \A k \in 0..(w - 1) : Recorded(k, Rounds) /\ Continued(k)
    /\ Recorded(w, n)

Encrypting ==
    mode = "encrypting" => /\ TrailTo(attempts, round)
                           /\ trail[attempts][round] = <<a, b>>

Arrived ==
    mode \in {"surrogate", "decrypting"} =>
        /\ walked \in 1..MaxAttempts
        /\ TrailTo(walked - 1, Rounds)
        /\ PointOf(trail[walked - 1][Rounds]) < Size

Surrogate ==
    mode = "surrogate" => result = Decode(PointOf(trail[walked - 1][Rounds]), radixes)

Decrypting == mode = "decrypting" => attempts < walked

IInv ==
    /\ TypeOK
    /\ Encrypting
    /\ Arrived
    /\ Surrogate
    /\ Decrypting
    /\ Retraced
    /\ RoundTrip
    /\ NeverLost
-----------------------------------------------------------------------------
(* Sizes and halves *)

LEMMA Sizes ==
    ASSUME TypeOK
    PROVE  /\ Left \in Nat \ {0} /\ Right \in Nat \ {0}
           /\ Size \in Nat /\ Size <= Left * Right
           /\ Rounds \in Nat \ {0} /\ Rounds % 2 = 0
           /\ MaxAttempts \in Nat \ {0}
           /\ Encode(symbols, radixes) \in 0..(Size - 1)
           /\ Decode(Encode(symbols, radixes), radixes) = symbols
           /\ \A x \in 0..(Size - 1) : Encode(Decode(x, radixes), radixes) = x
           /\ \A i \in 0..(Rounds - 1), x \in 0..(Left + Right) : Y(key, Bits, i, x) \in Nat
  <1>1. radixes \in Radixes /\ symbols \in SymbolLists(radixes) /\ key \in Keys
    BY CipherAssumption DEF TypeOK, Radixes
  <1>2. /\ Left \in Nat \ {0} /\ Right \in Nat \ {0}
        /\ Size \in Nat /\ Size <= Left * Right
    BY <1>1, HalvesCover DEF Left, Right, Size
  <1>3. /\ Encode(symbols, radixes) \in 0..(Size - 1)
        /\ Decode(Encode(symbols, radixes), radixes) = symbols
    BY <1>1, DecodeUndoesEncode DEF Size, Radixes
  <1>4. \A x \in 0..(Size - 1) : Encode(Decode(x, radixes), radixes) = x
    BY <1>1, EncodeUndoesDecode DEF Size, Radixes
  <1>5. \A i \in 0..(Rounds - 1), x \in 0..(Left + Right) : Y(key, Bits, i, x) \in Nat
    BY <1>1, CipherAssumption DEF TypeOK, Left, Right, Bits
  <1> QED
    BY <1>2, <1>3, <1>4, <1>5, CipherAssumption

\* Where the halves of a walk's two ends lie.
LEMMA Ends ==
    ASSUME TypeOK
    PROVE  /\ Halves(0) = (0..(Left - 1)) \X (0..(Right - 1))
           /\ Halves(Rounds) = (0..(Left - 1)) \X (0..(Right - 1))
  BY Sizes DEF Halves

\* A point of the covering domain has halves, and they make the point.
LEMMA Splitting ==
    ASSUME TypeOK, NEW p \in Nat, p < Left * Right
    PROVE  /\ <<p \div Right, p % Right>> \in (0..(Left - 1)) \X (0..(Right - 1))
           /\ PointOf(<<p \div Right, p % Right>>) = p
  <1> HIDE DEF Left, Right
  <1>1. Left \in Nat \ {0} /\ Right \in Nat \ {0}
    BY Sizes
  <1>2. /\ p \div Right \in 0..(Left - 1)
        /\ p % Right \in 0..(Right - 1)
        /\ (p \div Right) * Right + (p % Right) = p
    BY <1>1, JoinSplit
  <1> QED
    BY <1>2 DEF PointOf

\* The halves at a walk's end are those its point is split into.
LEMMA Rejoining ==
    ASSUME TypeOK, NEW h \in (0..(Left - 1)) \X (0..(Right - 1))
    PROVE  /\ <<PointOf(h) \div Right, PointOf(h) % Right>> = h
           /\ PointOf(h) \in Nat
  <1> HIDE DEF Left, Right
  <1>1. Left \in Nat \ {0} /\ Right \in Nat \ {0}
    BY Sizes
  <1>2. h[1] \in 0..(Left - 1) /\ h[2] \in 0..(Right - 1) /\ h = <<h[1], h[2]>>
    OBVIOUS
  <1>3. /\ (h[1] * Right + h[2]) \div Right = h[1]
        /\ (h[1] * Right + h[2]) % Right = h[2]
        /\ h[1] * Right + h[2] \in Nat
    BY <1>1, <1>2, SplitJoined
  <1> QED
    BY <1>2, <1>3 DEF PointOf

\* A round takes halves of its own kind to halves of the next kind.
LEMMA ForwardTyped ==
    ASSUME TypeOK, NEW i \in 0..(Rounds - 1), NEW h \in Halves(i)
    PROVE  Forward(i, h) \in Halves(i + 1)
  <1> HIDE DEF Left, Right
  <1>1. /\ Left \in Nat \ {0} /\ Right \in Nat \ {0} /\ Rounds \in Nat
        /\ \A x \in 0..(Left + Right) : Y(key, Bits, i, x) \in Nat
    BY Sizes
  <1>2. i \in Nat /\ (i + 1) % 2 = 1 - (i % 2) /\ i % 2 \in {0, 1}
    BY <1>1
  <1> DEFINE y == Y(key, Bits, i, h[2])
  <1>3. CASE i % 2 = 0
    <2>1. h[1] \in 0..(Left - 1) /\ h[2] \in 0..(Right - 1)
      BY <1>3 DEF Halves
    <2>2. y \in Nat
      BY <1>1, <2>1
    <2>3. (h[1] + y) % Left \in 0..(Left - 1)
      <3> HIDE DEF y
      <3>1. h[1] + y \in Int
        BY <2>1, <2>2
      <3> QED
        BY <3>1, <1>1, Division
    <2>4. Halves(i + 1) = (0..(Right - 1)) \X (0..(Left - 1))
      BY <1>2, <1>3 DEF Halves
    <2>5. Modulus(i) = Left
      BY <1>3 DEF Modulus
    <2> QED
      BY <2>1, <2>3, <2>4, <2>5 DEF Forward
  <1>4. CASE i % 2 = 1
    <2>1. h[1] \in 0..(Right - 1) /\ h[2] \in 0..(Left - 1)
      BY <1>4 DEF Halves
    <2>2. y \in Nat
      BY <1>1, <2>1
    <2>3. (h[1] + y) % Right \in 0..(Right - 1)
      <3> HIDE DEF y
      <3>1. h[1] + y \in Int
        BY <2>1, <2>2
      <3> QED
        BY <3>1, <1>1, Division
    <2>4. Halves(i + 1) = (0..(Left - 1)) \X (0..(Right - 1))
      BY <1>2, <1>4 DEF Halves
    <2>5. Modulus(i) = Right
      BY <1>4 DEF Modulus
    <2> QED
      BY <2>1, <2>3, <2>4, <2>5 DEF Forward
  <1> QED
    BY <1>2, <1>3, <1>4

\* Undoing a round gives back the halves it was applied to.
LEMMA BackwardUndoesForward ==
    ASSUME TypeOK, NEW i \in 0..(Rounds - 1), NEW h \in Halves(i)
    PROVE  LET g == Forward(i, h)
           IN  <<(g[2] - Y(key, Bits, i, g[1])) % Modulus(i), g[1]>> = h
  <1> HIDE DEF Left, Right
  <1>1. /\ Left \in Nat \ {0} /\ Right \in Nat \ {0} /\ Rounds \in Nat
        /\ \A x \in 0..(Left + Right) : Y(key, Bits, i, x) \in Nat
    BY Sizes
  <1>2. i \in Nat /\ i % 2 \in {0, 1}
    BY <1>1
  <1> DEFINE y == Y(key, Bits, i, h[2])
             m == Modulus(i)
  <1>3. /\ m \in Nat \ {0} /\ h[1] \in 0..(m - 1)
        /\ h[2] \in 0..(Left + Right) /\ h = <<h[1], h[2]>>
    <2>1. CASE i % 2 = 0
      BY <1>1, <2>1 DEF Halves, Modulus
    <2>2. CASE i % 2 = 1
      BY <1>1, <2>2 DEF Halves, Modulus
    <2> QED
      BY <1>2, <2>1, <2>2
  <1>4. y \in Nat
    BY <1>1, <1>3
  <1>5. (((h[1] + y) % m) - y) % m = h[1]
    <2> HIDE DEF y, m
    <2> QED
      BY <1>3, <1>4, RoundUndone
  <1>6. Forward(i, h) = <<h[2], (h[1] + y) % m>>
    BY DEF Forward
  <1> QED
    BY <1>3, <1>5, <1>6
-----------------------------------------------------------------------------
(* The steps *)

\* What a step that keeps the call keeps with it.
LEMMA SameCall ==
    ASSUME UNCHANGED call
    PROVE  /\ Left' = Left /\ Right' = Right /\ Size' = Size /\ Bits' = Bits
           /\ \A i : Modulus(i)' = Modulus(i)
           /\ \A i : Halves(i)' = Halves(i)
           /\ \A h : PointOf(h)' = PointOf(h)
           /\ \A i, h : Forward(i, h)' = Forward(i, h)
  BY DEF call, Left, Right, Size, Bits, Modulus, Halves, PointOf, Forward

\* The trail to a place is the same when call and trail are.
LEMMA SameTrail ==
    ASSUME UNCHANGED <<call, trail>>
    PROVE  \A w, n : TrailTo(w, n)' = TrailTo(w, n)
  BY SameCall DEF call, TrailTo, Recorded, Continued

LEMMA TypeTrail ==
    ASSUME TypeOK
    PROVE  \A k \in 0..(MaxAttempts - 1), i \in 0..Rounds : trail[k][i] \in Halves(i)
  BY DEF TypeOK

\* One entry of the trail is set.
LEMMA Recording ==
    ASSUME NEW T, NEW K, NEW L, NEW t \in [K -> [L -> T]],
           NEW k \in K, NEW i \in L, NEW h \in T
    PROVE  LET u == [t EXCEPT ![k][i] = h]
           IN  /\ u \in [K -> [L -> T]]
               /\ u[k][i] = h
               /\ \A j \in L : j # i => u[k][j] = t[k][j]
               /\ \A m \in K : m # k => u[m] = t[m]
  OBVIOUS

\* Everything but the halves is kept typed by a step that sets one entry of the trail.
LEMMA RecordedTyped ==
    ASSUME TypeOK, UNCHANGED call,
           NEW k \in 0..(MaxAttempts - 1), NEW i \in 0..Rounds, NEW h \in Halves(i),
           trail' = [trail EXCEPT ![k][i] = h]
    PROVE  /\ trail' \in [0..(MaxAttempts - 1) -> [0..Rounds -> Nat \X Nat]]
           /\ \A m \in 0..(MaxAttempts - 1), j \in 0..Rounds : trail'[m][j] \in Halves(j)'
           /\ trail'[k][i] = h
           /\ \A j \in 0..Rounds : j # i => trail'[k][j] = trail[k][j]
           /\ \A m \in 0..(MaxAttempts - 1) : m # k => trail'[m] = trail[m]
  <1>1. h \in Nat \X Nat
    <2>1. Left \in Nat /\ Right \in Nat
      BY Sizes
    <2> HIDE DEF Left, Right
    <2> QED BY <2>1 DEF Halves
  <1>2. trail \in [0..(MaxAttempts - 1) -> [0..Rounds -> Nat \X Nat]]
    BY DEF TypeOK
  <1>3. /\ trail' \in [0..(MaxAttempts - 1) -> [0..Rounds -> Nat \X Nat]]
        /\ trail'[k][i] = h
        /\ \A j \in 0..Rounds : j # i => trail'[k][j] = trail[k][j]
        /\ \A m \in 0..(MaxAttempts - 1) : m # k => trail'[m] = trail[m]
    <2> DEFINE K == 0..(MaxAttempts - 1)
               L == 0..Rounds
               T == Nat \X Nat
    <2>1. trail \in [K -> [L -> T]] /\ k \in K /\ i \in L /\ h \in T
      BY <1>1, <1>2
    <2> HIDE DEF K, L, T
    <2>2. /\ trail' \in [K -> [L -> T]]
          /\ trail'[k][i] = h
          /\ \A j \in L : j # i => trail'[k][j] = trail[k][j]
          /\ \A m \in K : m # k => trail'[m] = trail[m]
      BY <2>1, Recording
    <2> QED
      BY <2>2 DEF K, L, T
  <1>4. \A m \in 0..(MaxAttempts - 1), j \in 0..Rounds : trail'[m][j] \in Halves(j)
    <2> TAKE m \in 0..(MaxAttempts - 1), j \in 0..Rounds
    <2>1. trail[m][j] \in Halves(j)
      BY TypeTrail
    <2> QED
      BY <1>3, <2>1
  <1> QED
    BY <1>3, <1>4, SameCall

LEMMA InitInvariant == Init => IInv
  <1> SUFFICES ASSUME Init PROVE IInv
    OBVIOUS
  <1>1. /\ Left \in Nat \ {0} /\ Right \in Nat \ {0} /\ Rounds \in Nat
        /\ MaxAttempts \in Nat \ {0}
    <2>1. radixes \in Radixes
      BY CipherAssumption DEF Init, Radixes
    <2> QED
      BY <2>1, HalvesCover, CipherAssumption DEF Left, Right
  <1>2. <<0, 0>> \in Halves(0) /\ \A i \in 0..Rounds : <<0, 0>> \in Halves(i)
    <2> HIDE DEF Left, Right
    <2> QED BY <1>1 DEF Halves
  <1>3. trail \in [0..(MaxAttempts - 1) -> [0..Rounds -> Nat \X Nat]]
    BY DEF Init
  <1>4. \A k \in 0..(MaxAttempts - 1), i \in 0..Rounds : trail[k][i] = <<0, 0>>
    BY DEF Init
  <1>5. TypeOK
    BY <1>1, <1>2, <1>3, <1>4 DEF Init, TypeOK, Modes
  <1> QED
    BY <1>5 DEF Init, IInv, Encrypting, Arrived, Surrogate, Decrypting, Retraced,
                RoundTrip, NeverLost

LEMMA RefuseKeeps == IInv /\ Refuse => IInv'
  <1> SUFFICES ASSUME IInv, Refuse PROVE IInv'
    OBVIOUS
  <1>1. TypeOK'
    BY SameCall DEF IInv, TypeOK, Refuse, Modes, call, history
  <1> QED
    BY <1>1 DEF IInv, Refuse, Encrypting, Arrived, Surrogate, Decrypting, Retraced,
                RoundTrip, NeverLost

LEMMA EncryptKeeps == IInv /\ Encrypt => IInv'
  <1> SUFFICES ASSUME IInv, Encrypt PROVE IInv'
    OBVIOUS
  <1> DEFINE p == Encode(symbols, radixes)
             h == <<p \div Right, p % Right>>
  <1>1. TypeOK /\ call' = call
    BY DEF IInv, Encrypt, call
  <1>2. p \in Nat /\ p < Left * Right
    <2>1. p \in 0..(Size - 1) /\ Size \in Nat /\ Size <= Left * Right
      BY <1>1, Sizes
    <2>2. Left \in Nat /\ Right \in Nat
      BY <1>1, Sizes
    <2> HIDE DEF Left, Right, Size, p
    <2> QED BY <2>1, <2>2
  <1>3. h \in (0..(Left - 1)) \X (0..(Right - 1)) /\ PointOf(h) = p
    BY <1>1, <1>2, Splitting
  <1>4. h \in Halves(0)
    <2> HIDE DEF h
    <2> QED BY <1>1, <1>3, Ends
  <1>5. a' = h[1] /\ b' = h[2] /\ <<a', b'>> = h
    BY DEF Encrypt, Split
  <1> HIDE DEF h
  <1>6. Rounds \in Nat /\ MaxAttempts \in Nat \ {0}
    BY <1>1, Sizes
  <1>7. trail' = [trail EXCEPT ![0][0] = h] /\ round' = 0 /\ attempts' = 0
    BY <1>5 DEF Encrypt
  <1>8. /\ trail' \in [0..(MaxAttempts - 1) -> [0..Rounds -> Nat \X Nat]]
        /\ trail'[0][0] = h
        /\ \A m \in 0..(MaxAttempts - 1), j \in 0..Rounds : trail'[m][j] \in Halves(j)'
    <2>1. 0 \in 0..(MaxAttempts - 1) /\ 0 \in 0..Rounds
      BY <1>6
    <2> QED
      BY <1>1, <1>4, <1>7, <2>1, RecordedTyped
  <1>9. TypeOK'
    <2>1. <<a', b'>> \in Halves(round)'
      <3>1. Halves(round)' = Halves(0)
        BY <1>1, <1>7, SameCall DEF Halves
      <3> QED
        BY <1>4, <1>5, <3>1
    <2> QED
      <3>1. round' \in 0..Rounds /\ attempts' \in 0..(MaxAttempts - 1)
        BY <1>6, <1>7
      <3>2. mode' \in Modes /\ walked' = walked
        BY DEF Encrypt, Modes
      <3> QED
        BY <1>1, <1>8, <2>1, <3>1, <3>2 DEF TypeOK, call
  <1>10. Encrypting'
    <2>1. PointOf(trail[0][0])' = Encode(symbols, radixes)'
      <3>1. PointOf(trail[0][0])' = PointOf(h)
        BY <1>1, <1>8, SameCall DEF PointOf
      <3> QED
        BY <3>1, <1>1, <1>3 DEF call
    <2>2. TrailTo(attempts, round)'
      BY <2>1, <1>7 DEF TrailTo, Recorded
    <2> QED
      BY <1>7, <2>2, <1>8, <1>5 DEF Encrypting
  <1> QED
    BY <1>9, <1>10 DEF IInv, Encrypt, Arrived, Surrogate, Decrypting, Retraced,
                RoundTrip, NeverLost

LEMMA EncryptRoundKeeps == IInv /\ EncryptRound => IInv'
  <1> SUFFICES ASSUME IInv, EncryptRound PROVE IInv'
    OBVIOUS
  <1> DEFINE g == Forward(round, <<a, b>>)
  <1>1. /\ TypeOK /\ call' = call /\ Encrypting /\ mode = "encrypting"
        /\ round \in 0..(Rounds - 1) /\ round + 1 \in 0..Rounds
        /\ attempts \in 0..(MaxAttempts - 1) /\ Rounds \in Nat /\ MaxAttempts \in Nat \ {0}
    BY Sizes, SMTT(30) DEF IInv, EncryptRound, call, TypeOK
  <1>2. g \in Halves(round + 1)
    BY <1>1, ForwardTyped DEF TypeOK
  <1>3. <<a', b'>> = g
    BY DEF EncryptRound, Forward
  <1> HIDE DEF g
  <1>4. /\ trail' = [trail EXCEPT ![attempts][round + 1] = g]
        /\ round' = round + 1 /\ attempts' = attempts
    BY <1>3 DEF EncryptRound
  <1>5. /\ trail' \in [0..(MaxAttempts - 1) -> [0..Rounds -> Nat \X Nat]]
        /\ \A m \in 0..(MaxAttempts - 1), j \in 0..Rounds : trail'[m][j] \in Halves(j)'
        /\ trail'[attempts][round + 1] = g
        /\ \A j \in 0..Rounds : j # round + 1 => trail'[attempts][j] = trail[attempts][j]
        /\ \A m \in 0..(MaxAttempts - 1) : m # attempts => trail'[m] = trail[m]
    BY <1>1, <1>2, <1>4, RecordedTyped
  <1>6. TypeOK'
    <2>1. <<a', b'>> \in Halves(round)'
      <3>1. Halves(round)' = Halves(round + 1)
        BY <1>1, <1>4, SameCall DEF Halves
      <3> QED
        BY <1>2, <1>3, <3>1
    <2> QED
      BY <1>1, <1>4, <1>5, <2>1 DEF TypeOK, EncryptRound, call
  <1>7. Encrypting'
    <2>1. TrailTo(attempts, round) /\ trail[attempts][round] = <<a, b>>
      BY <1>1 DEF Encrypting
    <2>2. trail'[0][0] = trail[0][0]
      <3>1. CASE attempts = 0
        BY <1>1, <1>5, <3>1
      <3>2. CASE attempts # 0
        <4>1. 0 \in 0..(MaxAttempts - 1)
          BY <1>1
        <4> QED
          BY <1>5, <3>2, <4>1
      <3> QED
        BY <3>1, <3>2
    <2>3. \A k \in 0..(attempts - 1) : Recorded(k, Rounds)' /\ Continued(k)'
      <3> SUFFICES ASSUME NEW k \in 0..(attempts - 1)
                   PROVE  Recorded(k, Rounds)' /\ Continued(k)'
        OBVIOUS
      <3>1. Recorded(k, Rounds) /\ Continued(k)
        BY <2>1 DEF TrailTo
      <3>2. trail'[k] = trail[k] /\ trail'[k + 1][0] = trail[k + 1][0]
        <4>1. /\ k \in 0..(MaxAttempts - 1) /\ k # attempts
              /\ k + 1 \in 0..(MaxAttempts - 1) /\ 0 \in 0..Rounds /\ 0 # round + 1
          BY <1>1
        <4>2. trail'[k] = trail[k]
          BY <1>5, <4>1
        <4>3. CASE k + 1 = attempts
          BY <1>5, <4>1, <4>2, <4>3
        <4>4. CASE k + 1 # attempts
          BY <1>5, <4>1, <4>2, <4>4
        <4> QED
          BY <4>2, <4>3, <4>4
      <3>3. Recorded(k, Rounds)'
        BY <1>1, <3>1, <3>2, SameCall DEF Recorded
      <3>4. PointOf(trail[k][Rounds])' = PointOf(trail[k][Rounds])
        BY <1>1, <3>2, SameCall DEF PointOf
      <3> QED
        BY <1>1, <3>1, <3>2, <3>3, <3>4, SameCall DEF Continued
    <2>4. \A i \in 0..round : trail'[attempts][i + 1] = Forward(i, trail'[attempts][i])
      <3> TAKE i \in 0..round
      <3>1. trail'[attempts][i] = trail[attempts][i]
        BY <1>1, <1>5
      <3>2. CASE i = round
        BY <3>1, <3>2, <2>1, <1>5 DEF g
      <3>3. CASE i # round
        <4>1. trail'[attempts][i + 1] = trail[attempts][i + 1]
          <5>1. i + 1 \in 0..Rounds /\ i + 1 # round + 1
            BY <1>1, <3>3
          <5> QED
            BY <1>5, <5>1
        <4>2. trail[attempts][i + 1] = Forward(i, trail[attempts][i])
          BY <1>1, <2>1, <3>3 DEF TrailTo, Recorded
        <4> QED
          BY <4>1, <4>2, <3>1
      <3> QED
        BY <3>2, <3>3
    <2>5. Recorded(attempts, round)'
      <3> SUFFICES ASSUME NEW i \in 0..(round' - 1)
                   PROVE  (trail[attempts][i + 1] = Forward(i, trail[attempts][i]))'
        BY DEF Recorded
      <3>1. i \in 0..round
        BY <1>1, <1>4
      <3>2. trail'[attempts][i + 1] = Forward(i, trail'[attempts][i])
        BY <2>4, <3>1
      <3> QED
        BY <1>1, <1>4, <3>2 DEF Forward, Bits, Modulus, Left, Right, call
    <2>6. PointOf(trail[0][0])' = PointOf(trail[0][0])
      BY <1>1, <2>2, SameCall DEF PointOf
    <2>7. TrailTo(attempts, round)'
      BY <2>1, <2>3, <2>5, <2>6, <1>1, <1>4 DEF TrailTo, call
    <2> QED
      BY <1>3, <1>4, <1>5, <2>7 DEF Encrypting
  <1> QED
    BY <1>6, <1>7, <1>1 DEF IInv, EncryptRound, Arrived, Surrogate, Decrypting, Retraced,
                RoundTrip, NeverLost

LEMMA WalkOnKeeps == IInv /\ WalkOn => IInv'
  <1> SUFFICES ASSUME IInv, WalkOn PROVE IInv'
    OBVIOUS
  <1> DEFINE h == <<a, b>>
             n == attempts + 1
  <1>1. /\ TypeOK /\ call' = call /\ Encrypting /\ mode = "encrypting" /\ round = Rounds
        /\ attempts \in 0..(MaxAttempts - 1) /\ n \in 0..(MaxAttempts - 1)
        /\ Rounds \in Nat /\ MaxAttempts \in Nat \ {0} /\ 0 \in 0..Rounds
    <2>1. /\ TypeOK /\ call' = call /\ Encrypting /\ mode = "encrypting" /\ round = Rounds
          /\ attempts \in 0..(MaxAttempts - 1) /\ attempts + 1 < MaxAttempts
      BY DEF IInv, WalkOn, call, TypeOK
    <2>2. Rounds \in Nat /\ MaxAttempts \in Nat \ {0}
      BY <2>1, Sizes
    <2> QED
      BY <2>1, <2>2
  <1>2. h \in (0..(Left - 1)) \X (0..(Right - 1)) /\ Point = PointOf(h)
    BY <1>1, Ends DEF TypeOK, Point, PointOf
  <1>3. <<a', b'>> = h
    BY <1>1, <1>2, Rejoining DEF WalkOn, Split
  <1>4. h \in Halves(0)
    BY <1>1, <1>2, Ends
  <1>5. trail' = [trail EXCEPT ![n][0] = h] /\ round' = 0 /\ attempts' = n
    BY <1>3 DEF WalkOn
  <1>6. PointOf(h) >= Size
    <2>1. PointOf(h) \in Nat
      BY <1>1, <1>2, Rejoining
    <2>2. Size \in Nat
      BY <1>1, Sizes
    <2> QED
      BY <1>2, <2>1, <2>2 DEF WalkOn, Inside
  <1> HIDE DEF h, n
  <1>7. /\ trail' \in [0..(MaxAttempts - 1) -> [0..Rounds -> Nat \X Nat]]
        /\ \A m \in 0..(MaxAttempts - 1), j \in 0..Rounds : trail'[m][j] \in Halves(j)'
        /\ trail'[n][0] = h
        /\ \A m \in 0..(MaxAttempts - 1) : m # n => trail'[m] = trail[m]
    BY <1>1, <1>4, <1>5, RecordedTyped, ZenonT(30)
  <1>8. TypeOK'
    <2>1. <<a', b'>> \in Halves(round)'
      <3>1. Halves(round)' = Halves(0)
        BY <1>1, <1>5, SameCall DEF Halves
      <3> QED
        BY <1>3, <1>4, <3>1
    <2>2. round' \in 0..Rounds /\ attempts' \in 0..(MaxAttempts - 1)
      BY <1>1, <1>5
    <2> QED
      BY <1>1, <1>7, <2>1, <2>2 DEF TypeOK, call, WalkOn
  <1>9. Encrypting'
    <2>1. TrailTo(attempts, Rounds) /\ trail[attempts][Rounds] = h
      BY <1>1 DEF Encrypting, h
    <2>2. \A k \in 0..attempts : k \in 0..(MaxAttempts - 1) /\ trail'[k] = trail[k]
      <3> TAKE k \in 0..attempts
      <3>1. k \in 0..(MaxAttempts - 1) /\ k # n
        BY <1>1 DEF n
      <3> QED
        BY <1>7, <3>1
    <2>3. \A k \in 0..attempts : Recorded(k, Rounds)' /\ Continued(k)'
      <3> SUFFICES ASSUME NEW k \in 0..attempts
                   PROVE  Recorded(k, Rounds)' /\ Continued(k)'
        OBVIOUS
      <3>1. Recorded(k, Rounds)
        BY <1>1, <2>1 DEF TrailTo
      <3>2. Recorded(k, Rounds)'
        BY <1>1, <2>2, <3>1, SameCall DEF Recorded
      <3>3. PointOf(trail[k][Rounds])' = PointOf(trail[k][Rounds])
        BY <1>1, <2>2, SameCall DEF PointOf
      <3>4. CASE k = attempts
        <4>1. trail'[k + 1][0] = h /\ trail'[k][Rounds] = h
          BY <1>7, <2>1, <2>2, <3>4 DEF n
        <4>2. PointOf(trail[k][Rounds])' >= Size'
          BY <1>1, <1>6, <2>1, <3>3, <3>4, SameCall
        <4> QED
          BY <1>1, <1>6, <2>1, <3>2, <3>3, <3>4, <4>1, SameCall DEF Continued
      <3>5. CASE k # attempts
        <4>1. k + 1 \in 0..attempts /\ k \in 0..(attempts - 1)
          BY <1>1, <3>5
        <4>2. Continued(k)
          BY <2>1, <4>1 DEF TrailTo
        <4> QED
          <5>1. trail'[k] = trail[k] /\ trail'[k + 1] = trail[k + 1]
            BY <2>2, <4>1
          <5>2. PointOf(trail[k][Rounds])' >= Size'
            BY <1>1, <3>3, <4>2, SameCall DEF Continued
          <5> QED
            BY <1>1, <3>2, <3>3, <4>2, <5>1, SameCall DEF Continued
      <3> QED
        BY <3>2, <3>4, <3>5
    <2>4. PointOf(trail[0][0])' = PointOf(trail[0][0])
      BY <1>1, <2>2, SameCall DEF PointOf
    <2>5. \A k \in 0..(attempts' - 1) : k \in 0..attempts
      BY <1>1, <1>5 DEF n
    <2>6. TrailTo(attempts, round)'
      BY <2>1, <2>3, <2>4, <2>5, <1>1, <1>5 DEF TrailTo, Recorded, call
    <2> QED
      BY <1>3, <1>5, <1>7, <2>6 DEF Encrypting
  <1> QED
    BY <1>8, <1>9, <1>1 DEF IInv, WalkOn, Arrived, Surrogate, Decrypting, Retraced,
                RoundTrip, NeverLost

LEMMA ArriveKeeps == IInv /\ Arrive => IInv'
  <1> SUFFICES ASSUME IInv, Arrive PROVE IInv'
    OBVIOUS
  <1>1. /\ TypeOK /\ UNCHANGED <<call, trail>> /\ Encrypting /\ mode = "encrypting"
        /\ round = Rounds /\ mode' = "surrogate"
        /\ attempts \in 0..(MaxAttempts - 1) /\ MaxAttempts \in Nat \ {0}
        /\ walked' = attempts + 1 /\ walked' - 1 = attempts
    BY Sizes DEF IInv, Arrive, call, TypeOK
  <1>2. TypeOK'
    <2>1. walked' \in 0..MaxAttempts
      BY <1>1
    <2> QED
      BY <1>1, <2>1, SameCall, SMTT(30) DEF TypeOK, Arrive, Modes, call
  <1>3. TrailTo(attempts, Rounds) /\ trail[attempts][Rounds] = <<a, b>>
    BY <1>1 DEF Encrypting
  <1>4. PointOf(trail[attempts][Rounds]) = Point
    BY <1>3 DEF PointOf, Point
  <1>5. PointOf(trail[attempts][Rounds]) < Size
    BY <1>4 DEF Arrive, Inside
  <1>6. PointOf(trail[walked - 1][Rounds])' = PointOf(trail[attempts][Rounds])
    BY <1>1, SameCall DEF PointOf
  <1>7. Arrived'
    <2>1. walked' \in 1..MaxAttempts
      BY <1>1
    <2>2. TrailTo(walked - 1, Rounds)'
      BY <1>1, <1>3, SameTrail
    <2> QED
      BY <1>1, <1>5, <1>6, <2>1, <2>2, SameCall DEF Arrived
  <1>8. Surrogate'
    BY <1>1, <1>4, <1>6 DEF Surrogate, Arrive, call
  <1> QED
    BY <1>1, <1>2, <1>7, <1>8 DEF IInv, Encrypting, Decrypting, Retraced, RoundTrip, NeverLost

\* What was recorded of a finished encryption stays recorded.
LEMMA StillArrived ==
    ASSUME Arrived, UNCHANGED <<call, history>>, mode \in {"surrogate", "decrypting"}
    PROVE  Arrived'
  <1>1. UNCHANGED <<call, trail>> /\ walked' = walked
    BY DEF history
  <1>2. PointOf(trail[walked - 1][Rounds])' = PointOf(trail[walked - 1][Rounds])
    BY <1>1, SameCall DEF PointOf
  <1>3. TrailTo(walked - 1, Rounds)' = TrailTo(walked - 1, Rounds)
    BY <1>1, SameTrail
  <1> QED
    BY <1>1, <1>2, <1>3, SameCall DEF Arrived

LEMMA DecryptKeeps == IInv /\ Decrypt => IInv'
  <1> SUFFICES ASSUME IInv, Decrypt PROVE IInv'
    OBVIOUS
  <1> DEFINE h == trail[walked - 1][Rounds]
             p == PointOf(h)
  <1>1. /\ TypeOK /\ call' = call /\ history' = history /\ Arrived /\ Surrogate
        /\ mode = "surrogate" /\ mode' = "decrypting"
        /\ walked \in 1..MaxAttempts /\ walked - 1 \in 0..(MaxAttempts - 1)
        /\ MaxAttempts \in Nat \ {0} /\ Rounds \in Nat
        /\ round' = Rounds /\ attempts' = 0
    BY Sizes, SMTT(30) DEF IInv, Decrypt, call, TypeOK, Arrived
  <1>2. h \in (0..(Left - 1)) \X (0..(Right - 1))
    <2>1. Rounds \in 0..Rounds
      BY <1>1
    <2> QED
      BY <1>1, <2>1, TypeTrail, Ends
  <1>3. p \in 0..(Size - 1)
    <2>1. p \in Nat
      BY <1>1, <1>2, Rejoining
    <2>2. p < Size /\ Size \in Nat
      BY <1>1, Sizes DEF Arrived
    <2> HIDE DEF p
    <2> QED
      BY <2>1, <2>2
  <1>4. Encode(result, radixes) = p
    <2>1. result = Decode(p, radixes)
      BY <1>1 DEF Surrogate
    <2> HIDE DEF p
    <2> QED
      BY <2>1, <1>1, <1>3, Sizes
  <1>5. <<a', b'>> = h
    BY <1>1, <1>2, <1>4, Rejoining DEF Decrypt, Split
  <1>6. TypeOK'
    <2>1. <<a', b'>> \in Halves(round)'
      <3>1. Halves(round)' = Halves(Rounds)
        BY <1>1, SameCall DEF Halves
      <3> QED
        BY <1>1, <1>2, <1>5, <3>1, Ends
    <2>2. round' \in 0..Rounds /\ attempts' \in 0..(MaxAttempts - 1)
      BY <1>1
    <2>3. trail' = trail /\ walked' = walked /\ mode' \in Modes
      BY <1>1 DEF history, Modes
    <2> QED
      BY <1>1, <2>1, <2>2, <2>3, SameCall, ZenonT(30) DEF TypeOK, call
  <1>7. Arrived'
    BY <1>1, StillArrived
  <1>8. Retraced' /\ Decrypting'
    <2>1. trail' = trail /\ walked' = walked /\ walked - 1 - 0 = walked - 1 /\ 0 < walked
      BY <1>1 DEF history
    <2> QED
      BY <1>1, <1>5, <2>1 DEF Retraced, Decrypting
  <1> QED
    BY <1>1, <1>6, <1>7, <1>8 DEF IInv, Encrypting, Surrogate, RoundTrip, NeverLost

LEMMA DecryptRoundKeeps == IInv /\ DecryptRound => IInv'
  <1> SUFFICES ASSUME IInv, DecryptRound PROVE IInv'
    OBVIOUS
  <1> DEFINE i == round - 1
             k == walked - 1 - attempts
             h == trail[k][i]
  <1>1. /\ TypeOK /\ call' = call /\ history' = history /\ Arrived /\ Retraced
        /\ mode = "decrypting" /\ mode' = "decrypting" /\ attempts < walked
    BY DEF IInv, DecryptRound, call, TypeOK, Decrypting
  <1>2. /\ Rounds \in Nat /\ MaxAttempts \in Nat \ {0}
        /\ round \in 1..Rounds /\ attempts \in 0..(MaxAttempts - 1)
        /\ walked \in 1..MaxAttempts
    BY <1>1, Sizes DEF TypeOK, DecryptRound, Arrived
  <1>3. /\ k \in 0..(walked - 1) /\ k \in 0..(MaxAttempts - 1)
        /\ i \in 0..(Rounds - 1) /\ i \in 0..Rounds /\ i + 1 = round
        /\ round' = i /\ attempts' = attempts
    BY <1>1, <1>2 DEF DecryptRound
  <1>4. h \in Halves(i)
    BY <1>1, <1>3, TypeTrail
  <1>5. Recorded(k, Rounds)
    <2>1. TrailTo(walked - 1, Rounds)
      BY <1>1 DEF Arrived
    <2>2. k = walked - 1 \/ k \in 0..(walked - 1 - 1)
      BY <1>2, <1>3
    <2> HIDE DEF k
    <2> QED
      BY <2>1, <2>2 DEF TrailTo
  <1>6. <<a, b>> = Forward(i, h)
    <2>1. trail[k][round] = Forward(i, h)
      BY <1>3, <1>5 DEF Recorded
    <2> QED
      BY <1>1, <2>1 DEF Retraced
  <1>7. <<a', b'>> = h
    <2>1. <<(b - Y(key, Bits, i, a)) % Modulus(i), a>> = h
      <3> HIDE DEF i, h
      <3> QED
        BY <1>1, <1>3, <1>4, <1>6, BackwardUndoesForward
    <2> QED
      BY <2>1 DEF DecryptRound
  <1> HIDE DEF i, h, k
  <1>8. TypeOK'
    <2>1. <<a', b'>> \in Halves(round)'
      <3>1. Halves(round)' = Halves(i)
        BY <1>1, <1>3, SameCall DEF Halves
      <3> QED
        BY <1>4, <1>7, <3>1
    <2>2. round' \in 0..Rounds /\ attempts' \in 0..(MaxAttempts - 1)
      BY <1>2, <1>3
    <2>3. trail' = trail /\ walked' = walked /\ mode' = mode
      BY <1>1 DEF history
    <2> QED
      BY <1>1, <2>1, <2>2, <2>3, SameCall DEF TypeOK, call
  <1>9. Arrived'
    BY <1>1, StillArrived
  <1>10. Retraced' /\ Decrypting'
    BY <1>1, <1>3, <1>7 DEF Retraced, Decrypting, history, h, k
  <1> QED
    BY <1>1, <1>8, <1>9, <1>10 DEF IInv, Encrypting, Surrogate, RoundTrip, NeverLost

\* Where decryption stands at the end of a walk, and whether that was inside.
LEMMA WalkedBack ==
    ASSUME IInv, mode = "decrypting", round = 0
    PROVE  /\ walked \in 1..MaxAttempts /\ attempts \in 0..(walked - 1)
           /\ <<a, b>> = trail[walked - 1 - attempts][0]
           /\ Point = PointOf(trail[walked - 1 - attempts][0])
           /\ attempts = walked - 1 => Point = Encode(symbols, radixes) /\ Inside
           /\ attempts < walked - 1 =>
                 /\ ~Inside
                 /\ <<a, b>> = trail[walked - 2 - attempts][Rounds]
  <1>1. /\ TypeOK /\ Arrived /\ Retraced
        /\ walked \in 1..MaxAttempts /\ attempts < walked /\ attempts \in 0..(MaxAttempts - 1)
        /\ MaxAttempts \in Nat \ {0} /\ Size \in Nat
    BY Sizes DEF IInv, TypeOK, Arrived, Decrypting
  <1>2. attempts \in 0..(walked - 1)
    BY <1>1
  <1>3. <<a, b>> = trail[walked - 1 - attempts][0]
    BY <1>1 DEF Retraced
  <1>4. Point = PointOf(trail[walked - 1 - attempts][0])
    BY <1>3 DEF Point, PointOf
  <1>5. TrailTo(walked - 1, Rounds)
    BY <1>1 DEF Arrived
  <1>6. attempts = walked - 1 => Point = Encode(symbols, radixes) /\ Inside
    <2> SUFFICES ASSUME attempts = walked - 1
                 PROVE  Point = Encode(symbols, radixes) /\ Inside
      OBVIOUS
    <2>1. walked - 1 - attempts = 0
      BY <1>1
    <2>2. Point = Encode(symbols, radixes)
      BY <1>4, <1>5, <2>1 DEF TrailTo
    <2>3. Encode(symbols, radixes) \in 0..(Size - 1)
      BY <1>1, Sizes
    <2> QED
      BY <1>1, <2>2, <2>3 DEF Inside
  <1>7. attempts < walked - 1 => /\ ~Inside
                                 /\ <<a, b>> = trail[walked - 2 - attempts][Rounds]
    <2> SUFFICES ASSUME attempts < walked - 1
                 PROVE  ~Inside /\ <<a, b>> = trail[walked - 2 - attempts][Rounds]
      OBVIOUS
    <2> DEFINE k == walked - 2 - attempts
    <2>1. k \in 0..(walked - 1 - 1) /\ k + 1 = walked - 1 - attempts
          /\ k \in 0..(MaxAttempts - 1)
      BY <1>1
    <2>2. Continued(k)
      <3> HIDE DEF k
      <3> QED
        BY <1>5, <2>1 DEF TrailTo
    <2>3. trail[k][Rounds] = <<a, b>>
      BY <1>3, <2>1, <2>2 DEF Continued
    <2>4. PointOf(trail[k][Rounds]) = Point
      BY <2>3 DEF PointOf, Point
    <2>5. Point >= Size
      BY <2>2, <2>4 DEF Continued
    <2>6. Point \in Nat
      <3>1. Rounds \in 0..Rounds
        BY <1>1, Sizes
      <3>2. <<a, b>> \in (0..(Left - 1)) \X (0..(Right - 1))
        <4> HIDE DEF k
        <4> QED
          BY <1>1, <2>1, <2>3, <3>1, TypeTrail, Ends
      <3>3. PointOf(<<a, b>>) = Point
        BY DEF PointOf, Point
      <3> QED
        BY <1>1, <3>2, <3>3, Rejoining
    <2> QED
      BY <1>1, <2>3, <2>5, <2>6 DEF Inside
  <1> QED
    BY <1>1, <1>2, <1>3, <1>4, <1>6, <1>7

LEMMA WalkBackKeeps == IInv /\ WalkBack => IInv'
  <1> SUFFICES ASSUME IInv, WalkBack PROVE IInv'
    OBVIOUS
  <1> DEFINE k == walked - 2 - attempts
             h == <<a, b>>
  <1>1. /\ TypeOK /\ call' = call /\ history' = history /\ Arrived
        /\ mode = "decrypting" /\ mode' = "decrypting" /\ round = 0 /\ ~Inside
        /\ round' = Rounds /\ attempts' = attempts + 1
        /\ attempts + 1 < MaxAttempts
    BY DEF IInv, WalkBack, call
  <1>2. /\ Rounds \in Nat /\ MaxAttempts \in Nat \ {0}
        /\ walked \in 1..MaxAttempts /\ attempts \in 0..(walked - 1)
        /\ attempts # walked - 1
    BY <1>1, Sizes, WalkedBack
  <1>3. attempts < walked - 1 /\ attempts' < walked /\ attempts' \in 0..(MaxAttempts - 1)
        /\ walked - 1 - attempts' = k
    BY <1>1, <1>2
  <1>4. h = trail[k][Rounds]
    BY <1>1, <1>3, WalkedBack
  <1>5. h \in (0..(Left - 1)) \X (0..(Right - 1)) /\ Point = PointOf(h)
    BY <1>1, Ends DEF TypeOK, Point, PointOf
  <1>6. <<a', b'>> = h
    BY <1>1, <1>5, Rejoining DEF WalkBack, Split
  <1> HIDE DEF h, k
  <1>7. TypeOK'
    <2>1. <<a', b'>> \in Halves(round)'
      <3>1. Halves(round)' = Halves(Rounds)
        BY <1>1, SameCall DEF Halves
      <3> QED
        BY <1>1, <1>5, <1>6, <3>1, Ends
    <2>2. round' \in 0..Rounds
      BY <1>1, <1>2
    <2>3. trail' = trail /\ walked' = walked /\ mode' = mode
      BY <1>1 DEF history
    <2> QED
      BY <1>1, <1>3, <2>1, <2>2, <2>3, SameCall DEF TypeOK, call
  <1>8. Arrived'
    BY <1>1, StillArrived
  <1>9. Retraced' /\ Decrypting'
    BY <1>1, <1>3, <1>4, <1>6 DEF Retraced, Decrypting, history
  <1> QED
    BY <1>1, <1>7, <1>8, <1>9 DEF IInv, Encrypting, Surrogate, RoundTrip, NeverLost

LEMMA ReturnKeeps == IInv /\ Return => IInv'
  <1> SUFFICES ASSUME IInv, Return PROVE IInv'
    OBVIOUS
  <1>1. /\ TypeOK /\ call' = call /\ mode = "decrypting" /\ mode' = "restored"
        /\ round = 0 /\ Inside
    BY DEF IInv, Return, call
  <1>2. TypeOK'
    BY <1>1, SameCall DEF TypeOK, Return, Modes, call, history
  <1>3. Point = Encode(symbols, radixes)
    <2>1. walked \in 1..MaxAttempts /\ attempts \in 0..(walked - 1) /\ MaxAttempts \in Nat
      BY <1>1, Sizes, WalkedBack
    <2>2. attempts = walked - 1 \/ attempts < walked - 1
      BY <2>1
    <2> QED
      BY <1>1, <2>2, WalkedBack
  <1>4. RoundTrip'
    BY <1>1, <1>3, Sizes DEF RoundTrip, Return, call
  <1> QED
    BY <1>1, <1>2, <1>4 DEF IInv, Encrypting, Arrived, Surrogate, Decrypting, Retraced, NeverLost

\* The limit is not reached on the way back: at the last walk the point is inside.
LEMMA GiveUpKeeps == IInv /\ GiveUp => IInv'
  <1> SUFFICES ASSUME IInv, GiveUp PROVE IInv'
    OBVIOUS
  <1>1. TypeOK /\ call' = call
    BY DEF IInv, GiveUp, call
  <1>2. mode # "decrypting"
    <2> SUFFICES ASSUME mode = "decrypting" PROVE FALSE
      OBVIOUS
    <2>1. round = 0 /\ ~Inside /\ attempts + 1 = MaxAttempts
      BY DEF GiveUp
    <2>2. /\ walked \in 1..MaxAttempts /\ attempts \in 0..(walked - 1)
          /\ MaxAttempts \in Nat \ {0}
      BY <1>1, <2>1, Sizes, WalkedBack
    <2>3. attempts = walked - 1
      BY <2>1, <2>2
    <2> QED
      BY <2>1, <2>3, WalkedBack
  <1>3. mode' = "not converged"
    BY <1>2 DEF GiveUp
  <1>4. TypeOK'
    BY <1>1, <1>3, SameCall DEF TypeOK, GiveUp, Modes, call, history
  <1> QED
    BY <1>3, <1>4 DEF IInv, Encrypting, Arrived, Surrogate, Decrypting, Retraced,
                      RoundTrip, NeverLost

LEMMA StutterKeeps == IInv /\ UNCHANGED vars => IInv'
  <1> SUFFICES ASSUME IInv, UNCHANGED vars PROVE IInv'
    OBVIOUS
  <1>1. /\ UNCHANGED <<call, trail>> /\ UNCHANGED history /\ mode' = mode /\ a' = a /\ b' = b
        /\ round' = round /\ attempts' = attempts /\ result' = result /\ walked' = walked
    BY DEF vars, history
  <1>2. TypeOK'
    BY <1>1, SameCall DEF IInv, TypeOK, call
  <1>3. Encrypting'
    BY <1>1, SameTrail DEF IInv, Encrypting
  <1>4. PointOf(trail[walked - 1][Rounds])' = PointOf(trail[walked - 1][Rounds])
    BY <1>1, SameCall DEF PointOf
  <1>5. Arrived'
    BY <1>1, <1>4, SameTrail, SameCall DEF IInv, Arrived
  <1>6. Surrogate'
    BY <1>1, <1>4 DEF IInv, Surrogate, call
  <1> QED
    BY <1>1, <1>2, <1>3, <1>5, <1>6 DEF IInv, Decrypting, Retraced, RoundTrip, NeverLost, call

LEMMA StepInvariant == IInv /\ [Next]_vars => IInv'
  BY RefuseKeeps, EncryptKeeps, EncryptRoundKeeps, WalkOnKeeps, ArriveKeeps, DecryptKeeps,
     DecryptRoundKeeps, WalkBackKeeps, ReturnKeeps, GiveUpKeeps, StutterKeeps DEF Next

LEMMA Invariance == Spec => []IInv
  BY InitInvariant, StepInvariant, PTL DEF Spec
-----------------------------------------------------------------------------
(* The theorems *)

\* The halves of every round stay within the sizes _feistel_params gives them.
THEOREM TypeCorrect == Spec => []TypeOK
  BY Invariance, PTL DEF IInv

\* decrypt_combined undoes encrypt_combined, whatever the round function, the shape of
\* the domain, the even number of rounds and the limit on the walks.
THEOREM DecryptUndoesEncrypt == Spec => []RoundTrip
  BY Invariance, PTL DEF IInv

\* CycleWalkDidNotConverge is never raised by decryption of what encryption returned.
THEOREM SurrogateNeverLost == Spec => []NeverLost
  BY Invariance, PTL DEF IInv

\* Decryption passes back through every point that encryption passed through.
THEOREM DecryptRetraces == Spec => []Retraced
  BY Invariance, PTL DEF IInv
=============================================================================
