----------------------------- MODULE TextsProofs -----------------------------
(***************************************************************************)
(* Theorems about Crypto and BizzBuzz, for texts of any length.            *)
(*                                                                         *)
(* Both programs are loops over a text, and both modules define what they  *)
(* compute by recursion.  The first part therefore proves induction over   *)
(* sets of numbers, and that a function is defined by an equation that     *)
(* leads from each argument to one of lower rank.                          *)
(***************************************************************************)
EXTENDS Crypto, BizzBuzz, FiniteSetTheorems, SequenceTheorems,
        WellFoundedInduction, TLAPS

-----------------------------------------------------------------------------
(* Induction and recursion. *)

\* A set of numbers that has 0 and with each number the next one has all.
LEMMA Induct ==
  ASSUME NEW S, 0 \in S, \A i \in Nat : i \in S => i + 1 \in S
  PROVE  \A i \in Nat : i \in S
<1> DEFINE T == {i \in Nat : i \notin S}
<1>1. SUFFICES ASSUME T # {} PROVE FALSE
  OBVIOUS
<1>2. PICK i \in T : \A j \in T : ~(<<j, i>> \in OpToRel(<, Nat))
  <2>1. T \subseteq Nat
    OBVIOUS
  <2> HIDE DEF T
  <2> QED
    BY <1>1, <2>1, NatLessThanWellFounded, WFMin
<1>3. \A j \in T : ~(j < i)
  BY <1>2 DEF OpToRel
<1>4. i \in Nat /\ i # 0 /\ i - 1 \in Nat /\ i - 1 < i
  OBVIOUS
<1>5. i - 1 \in S
  BY <1>3, <1>4
<1> QED
  BY <1>4, <1>5

\* A set of numbers that is not empty and has a bound has a greatest.
LEMMA Greatest ==
  ASSUME NEW m \in Nat, NEW I \in SUBSET (1 .. m), I # {}
  PROVE  Max(I) \in I /\ \A i \in I : i <= Max(I)
<1> DEFINE S == {k \in Nat : \A J \in SUBSET (1 .. k) : J # {} =>
                               \E x \in J : \A y \in J : x >= y}
<1>1. 0 \in S
  <2>1. 1 .. 0 = {}
    OBVIOUS
  <2> QED
    BY <2>1
<1>2. ASSUME NEW k \in Nat, k \in S PROVE k + 1 \in S
  <2> SUFFICES ASSUME NEW J \in SUBSET (1 .. k + 1), J # {}
               PROVE  \E x \in J : \A y \in J : x >= y
    OBVIOUS
  <2>1. CASE k + 1 \in J
    <3>1. \A y \in J : k + 1 >= y
      OBVIOUS
    <3> QED
      BY <2>1, <3>1
  <2>2. CASE k + 1 \notin J
    <3>1. J \in SUBSET (1 .. k)
      BY <2>2
    <3> QED
      BY <1>2, <3>1
  <2> QED
    BY <2>1, <2>2
<1> HIDE DEF S
<1>3. m \in S
  BY <1>1, <1>2, Induct
<1>4. \E x \in I : \A y \in I : x >= y
  BY <1>3 DEF S
<1> QED
  BY <1>4 DEF Max

\* A recursion: from prev, whose rank is lower, to each argument of a rank other than 0.
Founded(S, T, rank, prev, base, next) ==
  /\ rank \in [S -> Nat] /\ prev \in [S -> S]
  /\ \A x \in S : rank[x] # 0 => rank[prev[x]] < rank[x]
  /\ base \in [S -> T] /\ next \in [S -> [T -> T]]

Solves(f, S, rank, prev, base, next) ==
  \A x \in S : f[x] = IF rank[x] = 0 THEN base[x] ELSE next[x][f[prev[x]]]

\* It defines a function.
LEMMA Recursion ==
  ASSUME NEW S, NEW T, NEW rank, NEW prev, NEW base, NEW next,
         Founded(S, T, rank, prev, base, next)
  PROVE  \E f \in [S -> T] : Solves(f, S, rank, prev, base, next)
<1> USE DEF Founded
<1> DEFINE Meets(f, x) == f[x] = IF rank[x] = 0 THEN base[x] ELSE next[x][f[prev[x]]]
           Good(k, f) == \A x \in S : rank[x] <= k => Meets(f, x)
           K == {k \in Nat : \E f \in [S -> T] : Good(k, f)}
<1>1. 0 \in K
  <2>1. \A x \in S : rank[x] <= 0 => rank[x] = 0
    OBVIOUS
  <2> QED
    BY <2>1
<1>2. ASSUME NEW k \in Nat, k \in K PROVE k + 1 \in K
  <2>1. PICK f \in [S -> T] : Good(k, f)
    BY <1>2
  <2> DEFINE g == [x \in S |-> IF rank[x] = 0 THEN base[x] ELSE next[x][f[prev[x]]]]
  <2>2. g \in [S -> T]
    OBVIOUS
  <2>3. ASSUME NEW x \in S, rank[x] <= k PROVE g[x] = f[x]
    BY <2>1, <2>3
  <2>4. ASSUME NEW x \in S, rank[x] <= k + 1 PROVE Meets(g, x)
    <3>1. rank[x] \in Nat /\ prev[x] \in S /\ rank[prev[x]] \in Nat
      OBVIOUS
    <3>2. rank[x] # 0 => rank[prev[x]] <= k
      BY <2>4, <3>1
    <3> QED
      BY <2>3, <3>1, <3>2
  <2>5. Good(k + 1, g)
    BY <2>4
  <2> HIDE DEF g, Good
  <2> QED
    BY <2>2, <2>5
<1>3. \A k \in Nat : k \in K
  <2> HIDE DEF K
  <2> QED
    BY <1>1, <1>2, Induct
<1> DEFINE F == [k \in Nat |-> CHOOSE f \in [S -> T] : Good(k, f)]
<1>4. \A k \in Nat : F[k] \in [S -> T] /\ Good(k, F[k])
  BY <1>3
<1> HIDE DEF F, K
\* Two of them agree as far as both are good.
<1> DEFINE A == {r \in Nat : \A k, m \in Nat, x \in S :
                               rank[x] <= r /\ r <= k /\ r <= m => F[k][x] = F[m][x]}
<1>5. 0 \in A
  <2>1. \A x \in S : rank[x] <= 0 => rank[x] = 0
    OBVIOUS
  <2>2. \A k \in Nat, x \in S : rank[x] = 0 => F[k][x] = base[x]
    BY <1>4
  <2> QED
    BY <2>1, <2>2
<1>6. ASSUME NEW r \in Nat, r \in A PROVE r + 1 \in A
  <2> SUFFICES ASSUME NEW k \in Nat, NEW m \in Nat, NEW x \in S,
                      rank[x] <= r + 1, r + 1 <= k, r + 1 <= m
               PROVE  F[k][x] = F[m][x]
    OBVIOUS
  <2>1. rank[x] \in Nat /\ prev[x] \in S /\ rank[prev[x]] \in Nat
    OBVIOUS
  <2>2. Meets(F[k], x) /\ Meets(F[m], x)
    BY <1>4, <2>1
  <2>3. rank[x] # 0 => F[k][prev[x]] = F[m][prev[x]]
    BY <1>6, <2>1
  <2> QED
    BY <2>2, <2>3
<1>7. \A r \in Nat : r \in A
  <2> HIDE DEF A
  <2> QED
    BY <1>5, <1>6, Induct
<1> DEFINE h == [x \in S |-> F[rank[x]][x]]
<1>8. h \in [S -> T]
  BY <1>4
<1>9. ASSUME NEW x \in S PROVE Meets(h, x)
  <2>1. rank[x] \in Nat /\ prev[x] \in S /\ rank[prev[x]] \in Nat
    OBVIOUS
  <2>2. Meets(F[rank[x]], x)
    BY <1>4, <2>1
  <2>3. rank[x] # 0 => F[rank[x]][prev[x]] = F[rank[prev[x]]][prev[x]]
    <3>1. rank[x] # 0 => rank[prev[x]] <= rank[x]
      BY <2>1
    <3> QED
      BY <1>7, <2>1, <3>1
  <2> QED
    BY <2>1, <2>2, <2>3
<1> QED
  BY <1>8, <1>9 DEF Solves

-----------------------------------------------------------------------------
(* RSA of a byte. *)

\* The equation of Power.
LEMMA PowerEquation ==
  \A sym \in Char :
    /\ Power[1][sym] = sym
    /\ \A i, j \in Nat \ {0} : j = i + 1 => Power[j][sym] = Times(Power[i][sym], sym)
<1> DEFINE S == Nat \ {0}
           T == [Char -> Int]
           rank == [i \in S |-> i - 1]
           prev == [i \in S |-> IF i = 1 THEN 1 ELSE i - 1]
           base == [i \in S |-> [sym \in Char |-> sym]]
           next == [i \in S |-> [t \in T |-> [sym \in Char |-> Times(t[sym], sym)]]]
           Is(f) == f = [i \in S |->
                           [sym \in Char |-> IF i = 1 THEN sym ELSE Times(f[i - 1][sym], sym)]]
<1>1. \A t \in T, sym \in Char : Times(t[sym], sym) \in Int
  <2>1. n \in Nat \ {0} /\ Wrap \in Int
    BY DEF n, p, q, Wrap
  <2> QED
    BY <2>1 DEF Times, Char
<1>2. /\ rank \in [S -> Nat] /\ prev \in [S -> S]
      /\ \A i \in S : rank[i] # 0 => rank[prev[i]] < rank[i]
  OBVIOUS
<1>3. base \in [S -> T] /\ next \in [S -> [T -> T]]
  BY <1>1 DEF Char
<1>4. PICK f \in [S -> T] : Solves(f, S, rank, prev, base, next)
  <2> HIDE DEF S, T, rank, prev, base, next
  <2>1. Founded(S, T, rank, prev, base, next)
    BY <1>2, <1>3 DEF Founded
  <2> QED
    BY <2>1, Recursion
<1>5. \A i \in S : f[i] = [sym \in Char |-> IF i = 1 THEN sym ELSE Times(f[i - 1][sym], sym)]
  <2> SUFFICES ASSUME NEW i \in S
               PROVE  f[i] = [sym \in Char |-> IF i = 1 THEN sym ELSE Times(f[i - 1][sym], sym)]
    OBVIOUS
  <2>1. f[i] = IF rank[i] = 0 THEN base[i] ELSE next[i][f[prev[i]]]
    BY <1>4 DEF Solves
  <2>2. CASE i = 1
    <3>1. rank[i] = 0 /\ base[i] = [sym \in Char |-> sym]
      BY <2>2
    <3> HIDE DEF rank, base
    <3> QED
      BY <2>1, <2>2, <3>1
  <2>3. CASE i # 1
    <3>1. f[i - 1] \in T /\ rank[i] # 0 /\ prev[i] = i - 1
      BY <2>3
    <3>2. next[i][f[i - 1]] = [sym \in Char |-> Times(f[i - 1][sym], sym)]
      BY <3>1
    <3> HIDE DEF rank, base, prev, next
    <3> QED
      BY <2>1, <2>3, <3>1, <3>2
  <2> QED
    BY <2>2, <2>3
<1>6. Is(f)
  BY <1>5
<1>7. Is(Power)
  <2>1. Power = CHOOSE g : Is(g)
    BY DEF Power
  <2> HIDE DEF Is
  <2> QED
    BY <1>6, <2>1
<1>8. ASSUME NEW sym \in Char PROVE Power[1][sym] = sym
  <2>1. Power[1] = [c \in Char |-> c]
    BY <1>7
  <2> QED
    BY <2>1
<1>9. ASSUME NEW sym \in Char, NEW i \in Nat \ {0}, NEW j \in Nat \ {0}, j = i + 1
      PROVE  Power[j][sym] = Times(Power[i][sym], sym)
  <2>1. Power[j] = [c \in Char |-> IF j = 1 THEN c ELSE Times(Power[j - 1][c], c)]
    BY <1>7
  <2>2. j # 1 /\ j - 1 = i
    BY <1>9
  <2> QED
    BY <2>1, <2>2
<1> QED
  BY <1>8, <1>9

\* The products of the residues, and the residues of a product.
LEMMA Residues ==
  ASSUME NEW a \in Nat, NEW b \in Nat
  PROVE  ((a % n) * b) % n = (a * b) % n
<1>1. n = 123
  BY DEF n, p, q
<1>2. PICK k \in Nat : a = 123 * k + (a % 123)
  <2>1. a = 123 * (a \div 123) + (a % 123) /\ a \div 123 \in Nat
    OBVIOUS
  <2> QED
    BY <2>1
<1> DEFINE r == a % 123
<1>3. r \in Nat
  OBVIOUS
<1> HIDE DEF r
<1>4. a * b = 123 * (k * b) + r * b
  BY <1>2, <1>3 DEF r
<1>5. k * b \in Nat /\ r * b \in Nat
  BY <1>3
<1>6. \A x \in Nat, y \in Nat : (123 * x + y) % 123 = y % 123
  OBVIOUS
<1> QED
  BY <1>1, <1>4, <1>5, <1>6 DEF r

\* GetD finds the inverse of e.
LEMMA Inverse3 == GetD = 27
<1> DEFINE Fits(x) == /\ x % phi = 1 /\ x > 1 /\ x % e = 0
                      /\ \A y \in 2 .. x - 1 : ~(y % phi = 1 /\ y % e = 0)
<1>1. phi = 80 /\ e = 3
  BY DEF phi, p, q, e
<1>2. \A y \in 2 .. 80 : y % 80 # 1
  OBVIOUS
<1>3. Fits(81)
  BY <1>1, <1>2
<1>4. ASSUME NEW x \in 1 .. e * phi + 1, Fits(x) PROVE x = 81
  <2>1. x \in 2 .. 241 /\ x % 80 = 1 /\ x % 3 = 0
    BY <1>1, <1>4
  <2> QED
    BY <2>1
<1>5. 81 \in 1 .. e * phi + 1
  BY <1>1
<1>6. (CHOOSE x \in 1 .. e * phi + 1 : Fits(x)) = 81
  <2> HIDE DEF Fits
  <2> QED
    BY <1>3, <1>4, <1>5
<1>7. GetD = (CHOOSE x \in 1 .. e * phi + 1 : Fits(x)) \div e
  BY DEF GetD
<1>8. 81 \div 3 = 27
  OBVIOUS
<1> QED
  BY <1>1, <1>6, <1>7, <1>8

\* Every power but the first is a residue, and so is the first of a residue; a step is then
\* a product.
LEMMA PowerType ==
  /\ \A i \in Nat \ {0, 1}, sym \in Char : Power[i][sym] \in 0 .. n - 1
  /\ \A i \in Nat \ {0}, y \in 0 .. n - 1 :
       /\ Power[i][y] \in 0 .. n - 1
       /\ \A j \in Nat \ {0} : j = i + 1 => Power[j][y] = (Power[i][y] * y) % n
<1> DEFINE K == {k \in Nat : \A sym \in Char :
                   /\ Power[k + 1][sym] \in Int
                   /\ k # 0 => Power[k + 1][sym] \in 0 .. n - 1}
<1>1. n = 123 /\ Wrap \in Int /\ 0 .. n - 1 \subseteq Char
  BY DEF n, p, q, Wrap, Char
<1>2. ASSUME NEW x \in Int, NEW sym \in Char PROVE Times(x, sym) \in 0 .. n - 1
  <2>1. x * sym \in Int
    BY DEF Char
  <2> QED
    BY <1>1, <2>1 DEF Times
<1>3. 0 \in K
  <2>1. \A sym \in Char : sym \in Int
    BY DEF Char
  <2>2. \A sym \in Char : Power[1][sym] = sym
    BY PowerEquation
  <2>3. 0 + 1 = 1
    OBVIOUS
  <2> HIDE DEF n
  <2> QED
    BY <2>1, <2>2, <2>3
<1>4. ASSUME NEW k \in Nat, k \in K PROVE k + 1 \in K
  <2>1. k + 1 \in Nat \ {0}
    OBVIOUS
  <2>2. ASSUME NEW sym \in Char PROVE Power[(k + 1) + 1][sym] \in 0 .. n - 1
    <3>1. Power[(k + 1) + 1][sym] = Times(Power[k + 1][sym], sym)
      BY <2>1, PowerEquation
    <3>2. Power[k + 1][sym] \in Int
      BY <1>4
    <3> QED
      BY <1>2, <3>1, <3>2
  <2> QED
    BY <1>1, <2>1, <2>2
<1>5. \A k \in Nat : k \in K
  <2> HIDE DEF K
  <2> QED
    BY <1>3, <1>4, Induct
<1>6. ASSUME NEW i \in Nat \ {0}, NEW sym \in Char
      PROVE  Power[i][sym] \in Int /\ (i # 1 => Power[i][sym] \in 0 .. n - 1)
  <2>1. i - 1 \in Nat /\ (i - 1) + 1 = i
    OBVIOUS
  <2> QED
    BY <1>5, <2>1
<1>7. ASSUME NEW i \in Nat \ {0}, NEW y \in 0 .. n - 1
      PROVE  /\ Power[i][y] \in 0 .. n - 1
             /\ \A j \in Nat \ {0} : j = i + 1 => Power[j][y] = (Power[i][y] * y) % n
  <2>1. y \in Char /\ y \in Nat
    BY <1>1
  <2>2. Power[i][y] \in 0 .. n - 1
    BY <1>6, <2>1, PowerEquation
  <2>3. \A j \in Nat \ {0} : j = i + 1 => Power[j][y] = Times(Power[i][y], y)
    BY <2>1, PowerEquation
  <2>4. Power[i][y] * y \in Nat
    BY <1>1, <2>1, <2>2
  <2> QED
    BY <2>2, <2>3, <2>4 DEF Times
<1> QED
  BY <1>6, <1>7

\* The powers of a residue multiply.
LEMMA PowerSum ==
  ASSUME NEW y \in 0 .. n - 1, NEW i \in Nat \ {0}, NEW j \in Nat \ {0}
  PROVE  Power[i + j][y] = (Power[i][y] * Power[j][y]) % n
<1> DEFINE K == {k \in Nat : Power[i + (k + 1)][y] = (Power[i][y] * Power[k + 1][y]) % n}
<1>1. n = 123 /\ y \in Nat /\ y \in Char
  BY DEF n, p, q, Char
<1>2. ASSUME NEW k \in Nat \ {0}
      PROVE  Power[k][y] \in Nat /\ Power[k + 1][y] = (Power[k][y] * y) % n
  <2>1. Power[k][y] \in 0 .. n - 1 /\ Power[k + 1][y] = (Power[k][y] * y) % n
    <3>1. k + 1 \in Nat \ {0}
      OBVIOUS
    <3> QED
      BY <3>1, PowerType
  <2> QED
    BY <1>1, <2>1
<1>3. 0 \in K
  <2>1. Power[1][y] = y
    BY <1>1, PowerEquation
  <2>2. 1 \in Nat \ {0} /\ 0 + 1 = 1
    OBVIOUS
  <2>3. Power[i + 1][y] = (Power[i][y] * y) % n
    BY <1>2
  <2> QED
    BY <2>1, <2>2, <2>3
<1>4. ASSUME NEW k \in Nat, k \in K PROVE k + 1 \in K
  <2> DEFINE a == Power[i][y]
             b == Power[k + 1][y]
  <2>0. i + (k + 1) \in Nat \ {0} /\ k + 1 \in Nat \ {0}
    OBVIOUS
  <2>1. a \in Nat /\ b \in Nat /\ a * b \in Nat /\ b * y \in Nat
    <3>1. a \in Nat /\ b \in Nat
      BY <1>2, <2>0
    <3> HIDE DEF a, b
    <3> QED
      BY <1>1, <3>1
  <2>2. Power[i + (k + 1)][y] = (a * b) % n
    BY <1>4
  <2>3. Power[(i + (k + 1)) + 1][y] = (((a * b) % n) * y) % n
    BY <1>2, <2>0, <2>2
  <2>4. Power[(k + 1) + 1][y] = (b * y) % n
    BY <1>2, <2>0
  <2> HIDE DEF a, b
  <2>5. (((a * b) % n) * y) % n = ((a * b) * y) % n
    BY <1>1, <2>1, Residues
  <2>6. (((b * y) % n) * a) % n = ((b * y) * a) % n
    BY <1>1, <2>1, Residues
  <2>7. (a * b) * y = (b * y) * a
    BY <1>1, <2>1
  <2>8. ((b * y) % n) * a = a * ((b * y) % n)
    BY <1>1, <2>1
  <2>9. (i + (k + 1)) + 1 = i + ((k + 1) + 1)
    OBVIOUS
  <2> QED
    BY <2>3, <2>4, <2>5, <2>6, <2>7, <2>8, <2>9 DEF a
<1>5. \A k \in Nat : k \in K
  <2> HIDE DEF K
  <2> QED
    BY <1>3, <1>4, Induct
<1>6. j - 1 \in Nat /\ (j - 1) + 1 = j
  OBVIOUS
<1> QED
  BY <1>5, <1>6

\* The third power of a residue, and what comes of it after four times.
Cube(x) == (x * x * x) % n

LEMMA CubeOfPower ==
  ASSUME NEW y \in 0 .. n - 1, NEW i \in Nat \ {0}, NEW j, j = i + i + i
  PROVE  Power[j][y] = Cube(Power[i][y])
<1> DEFINE a == Power[i][y]
<1>1. a \in Nat /\ a * a \in Nat
  <2>1. a \in 0 .. n - 1
    BY PowerType
  <2>2. n = 123
    BY DEF n, p, q
  <2> HIDE DEF a
  <2> QED
    BY <2>1, <2>2
<1>2. Power[i + i][y] = (a * a) % n /\ Power[(i + i) + i][y] = (Power[i + i][y] * a) % n
  <2>1. i + i \in Nat \ {0}
    OBVIOUS
  <2> QED
    BY <2>1, PowerSum
<1> HIDE DEF a
<1>3. (((a * a) % n) * a) % n = ((a * a) * a) % n
  BY <1>1, Residues
<1> QED
  BY <1>2, <1>3 DEF Cube, a

\* 3 has order 4 modulo phi: x^81 is x.
LEMMA FourCubes == \A x \in 0 .. n - 1 : Cube(Cube(Cube(Cube(x)))) = x
<1>1. n = 123
  BY DEF n, p, q
<1>2. ASSUME NEW x \in 0 .. 122, NEW a \in Int, NEW b \in Int, NEW c \in Int,
             a = (x * x * x) % 123, b = (a * a * a) % 123, c = (b * b * b) % 123
      PROVE  (c * c * c) % 123 = x
  BY <1>2, SMTT(60)
<1> QED
  BY <1>1, <1>2 DEF Cube

\* Decryption brings back the bytes from 0 to 122, and no others.
LEMMA RSA ==
  ASSUME NEW sym \in Char
  PROVE  /\ Encrypt(sym) \in 0 .. n - 1
         /\ Decrypt(Encrypt(sym)) \in 0 .. n - 1
         /\ Decrypt(Encrypt(sym)) = sym <=> sym \in 0 .. n - 1
<1>1. Encrypt(sym) \in 0 .. n - 1
  BY PowerType DEF Encrypt, e
<1>2. \A y \in 0 .. n - 1 : Decrypt(y) = Power[27][y] /\ Decrypt(y) \in 0 .. n - 1
  BY PowerType, Inverse3 DEF Decrypt
<1>3. \A y \in 0 .. n - 1 : Decrypt(y) = Cube(Cube(Cube(y)))
  <2> SUFFICES ASSUME NEW y \in 0 .. n - 1 PROVE Decrypt(y) = Cube(Cube(Cube(y)))
    OBVIOUS
  <2>1. Power[1][y] = y
    <3>1. y \in Char
      BY DEF n, p, q, Char
    <3> QED
      BY <3>1, PowerEquation
  <2>2. Power[3][y] = Cube(Power[1][y])
    BY CubeOfPower
  <2>3. Power[9][y] = Cube(Power[3][y])
    BY CubeOfPower
  <2>4. Power[27][y] = Cube(Power[9][y])
    BY CubeOfPower
  <2> QED
    BY <1>2, <2>1, <2>2, <2>3, <2>4
<1>4. ASSUME sym \in 0 .. n - 1 PROVE Encrypt(sym) = Cube(sym)
  <2>1. Power[3][sym] = Cube(Power[1][sym])
    BY <1>4, CubeOfPower
  <2>2. Power[1][sym] = sym
    BY PowerEquation
  <2> QED
    BY <2>1, <2>2 DEF Encrypt, e
<1> QED
  BY <1>1, <1>2, <1>3, <1>4, FourCubes

\* What is where in each step of a packet.
PacketInv ==
  /\ message \in Seq(Char)
  /\ step = "encrypt" => data = message
  /\ step \in {"encrypt", "send", "failed"} => wire = <<>>
  /\ step \in {"send", "restore"} => data = EncryptString(message)
  /\ step \in {"restore", "read", "done"} => wire = EncryptString(message)
  /\ step \in {"read", "done"} => data = DecryptString(wire)
  /\ step = "done" => copy = DecryptString(wire)
  /\ step \in {"encrypt", "send", "restore", "read", "done", "failed"}

LEMMA PacketInvariant == CryptoSpec => []PacketInv
<1>1. CryptoInit => PacketInv
  BY CryptoAssumption DEF CryptoInit, PacketInv
<1>2. PacketInv /\ [CryptoNext]_cryptoVars => PacketInv'
  <2> SUFFICES ASSUME PacketInv, [CryptoNext]_cryptoVars PROVE PacketInv'
    OBVIOUS
  <2>1. CASE WriteEncrypts
    BY <2>1 DEF PacketInv, WriteEncrypts, EncryptString, DecryptString
  <2>2. CASE Sends
    BY <2>2 DEF PacketInv, Sends, EncryptString, DecryptString
  <2>3. CASE WriteRestores
    BY <2>3 DEF PacketInv, WriteRestores, EncryptString, DecryptString
  <2>4. CASE Reads
    BY <2>4 DEF PacketInv, Reads, EncryptString, DecryptString
  <2>5. CASE UNCHANGED cryptoVars
    BY <2>5 DEF PacketInv, cryptoVars, EncryptString, DecryptString
  <2> QED
    BY <2>1, <2>2, <2>3, <2>4, <2>5 DEF CryptoNext
<1> QED
  BY <1>1, <1>2, PTL DEF CryptoSpec

\* Exactly the bytes from 0 to 122 survive a packet, in the copy and in the original, and
\* nothing else goes over the wire, in texts of any length (crypto.c:39-70).
THEOREM BytesCarried == CryptoSpec => []Carried
<1>1. PacketInv => Carried
  <2> SUFFICES ASSUME PacketInv PROVE Carried
    OBVIOUS
  <2> DEFINE sent == EncryptString(message)
             back == DecryptString(sent)
  <2>1. \A i \in DOMAIN message : message[i] \in Char
    BY DEF PacketInv
  <2>2. /\ DOMAIN sent = DOMAIN message
        /\ \A i \in DOMAIN message : sent[i] = Encrypt(message[i])
    BY DEF EncryptString
  <2>3. \A i \in DOMAIN message : back[i] = Decrypt(Encrypt(message[i]))
    BY <2>2 DEF DecryptString
  <2>4. \A i \in DOMAIN message : sent[i] \in 0 .. n - 1
    BY <2>1, <2>2, RSA
  <2>5. Same(message, back)
    BY <2>1, <2>3, RSA DEF Same
  <2> HIDE DEF sent, back
  <2>6. step # "encrypt" => \A i \in DOMAIN wire : wire[i] \in 0 .. n - 1
    BY <2>2, <2>4 DEF PacketInv, sent
  <2>7. step \in {"read", "done"} => data = back
    BY DEF PacketInv, sent, back
  <2>8. step = "done" => copy = back
    BY DEF PacketInv, sent, back
  <2> QED
    BY <2>5, <2>6, <2>7, <2>8 DEF Carried
<1> QED
  BY <1>1, PacketInvariant, PTL

-----------------------------------------------------------------------------
(* Places in the text of BizzBuzz. *)

\* A place that fits has a first one before it, or is it.
LEMMA Least ==
  ASSUME NEW S, NEW a \in Nat, NEW b \in Int, a <= b, b \in S
  PROVE  \E j \in a .. b : j \in S /\ \A k \in a .. j - 1 : k \notin S
<1> DEFINE T == {d \in Nat : a + d \in S}
<1>1. b - a \in T
  OBVIOUS
<1>2. PICK d \in T : \A c \in T : ~(<<c, d>> \in OpToRel(<, Nat))
  <2>1. T \subseteq Nat /\ T # {}
    BY <1>1
  <2> HIDE DEF T
  <2> QED
    BY <2>1, NatLessThanWellFounded, WFMin
<1>3. \A c \in T : ~(c < d)
  BY <1>2 DEF OpToRel
<1>4. d <= b - a
  BY <1>1, <1>3
<1>5. ASSUME NEW k \in a .. (a + d) - 1 PROVE k \notin S
  <2>1. d \in Nat
    BY <1>2
  <2>2. k - a \in Nat /\ k - a < d /\ a + (k - a) = k
    BY <1>5, <2>1
  <2> QED
    BY <1>3, <2>2
<1>6. a + d \in a .. b
  BY <1>4
<1> QED
  BY <1>2, <1>5, <1>6

\* What is behind the end is a zero; what is in the text is a symbol.
LEMMA Places ==
  ASSUME text \in Seq(Symbols)
  PROVE  /\ Len(text) \in Nat /\ At(Len(text) + 1) = "zero"
         /\ \A i \in 1 .. Len(text) : At(i) = text[i] /\ text[i] \in Symbols
         /\ \A i \in 1 .. Len(text) + 1 : At(i) \in Symbols
         /\ \A i \in 1 .. Len(text) + 1 : At(i) \in Blanks => i <= Len(text)
         /\ \A i \in 1 .. Len(text) : IsBlank(i) <=> At(i) \in Blanks
<1>1. Len(text) \in Nat /\ \A i \in 1 .. Len(text) : text[i] \in Symbols
  OBVIOUS
<1>2. At(Len(text) + 1) = "zero"
  BY <1>1 DEF At
<1>3. \A i \in 1 .. Len(text) : At(i) = text[i]
  BY <1>1 DEF At
<1>4. \A i \in 1 .. Len(text) + 1 : i \in 1 .. Len(text) \/ i = Len(text) + 1
  BY <1>1
<1>5. "zero" \in Symbols /\ "zero" \notin Blanks
  BY DEF Symbols, Blanks
<1> QED
  BY <1>1, <1>2, <1>3, <1>4, <1>5 DEF IsBlank

\* The first place from i on that is not in a run.
LEMMA AfterFacts ==
  ASSUME text \in Seq(Symbols), NEW i \in 1 .. Len(text) + 1, NEW Run, "zero" \notin Run
  PROVE  /\ After(i, Run) \in i .. Len(text) + 1
         /\ At(After(i, Run)) \notin Run
         /\ \A k \in i .. After(i, Run) - 1 : At(k) \in Run
<1> DEFINE b == Len(text) + 1
           S == {j \in i .. b : At(j) \notin Run}
           Is(j) == At(j) \notin Run /\ \A k \in i .. j - 1 : At(k) \in Run
<1>1. i <= b /\ b \in S /\ i \in Nat /\ b \in Int
  BY Places
<1>2. PICK j \in i .. b : j \in S /\ \A k \in i .. j - 1 : k \notin S
  <2> HIDE DEF S, b
  <2> QED
    BY <1>1, Least
<1>3. Is(j)
  BY <1>1, <1>2
<1>4. After(i, Run) = CHOOSE x \in i .. b : Is(x)
  BY DEF After
<1> HIDE DEF Is
<1>5. After(i, Run) \in i .. b /\ Is(After(i, Run))
  BY <1>3, <1>4
<1> QED
  BY <1>5 DEF Is

\* The text ends at its first zero or EOF.
LEMMA StopFacts ==
  ASSUME text \in Seq(Symbols)
  PROVE  /\ Stop \in 1 .. Len(text) + 1 /\ Ends(At(Stop))
         /\ \A j \in 1 .. Stop - 1 : ~Ends(At(j))
<1> DEFINE b == Len(text) + 1
           S == {i \in 1 .. b : Ends(At(i))}
           Is(i) == Ends(At(i)) /\ \A j \in 1 .. i - 1 : ~Ends(At(j))
<1>1. 1 <= b /\ b \in S /\ 1 \in Nat /\ b \in Int
  BY Places DEF Ends
<1>2. PICK i \in 1 .. b : i \in S /\ \A k \in 1 .. i - 1 : k \notin S
  <2> HIDE DEF S, b
  <2> QED
    BY <1>1, Least
<1>3. Is(i)
  BY <1>1, <1>2
<1>4. Stop = CHOOSE x \in 1 .. b : Is(x)
  BY DEF Stop
<1> HIDE DEF Is
<1>5. Stop \in 1 .. b /\ Is(Stop)
  BY <1>3, <1>4
<1> QED
  BY <1>5 DEF Is

\* The word from a place in the text on.
LEMMA WordEndFacts ==
  ASSUME text \in Seq(Symbols), NEW i \in 1 .. Stop
  PROVE  /\ WordEnd(i) \in i .. Stop
         /\ WordEnd(i) = Stop \/ IsBlank(WordEnd(i))
         /\ \A k \in i .. WordEnd(i) - 1 : ~IsBlank(k)
<1> DEFINE S == {j \in i .. Stop : j = Stop \/ IsBlank(j)}
           Is(j) == (j = Stop \/ IsBlank(j)) /\ \A k \in i .. j - 1 : ~IsBlank(k)
<1>1. i <= Stop /\ Stop \in S /\ i \in Nat /\ Stop \in Int
  BY StopFacts
<1>2. PICK j \in i .. Stop : j \in S /\ \A k \in i .. j - 1 : k \notin S
  <2> HIDE DEF S
  <2> QED
    BY <1>1, Least
<1>3. Is(j)
  BY <1>1, <1>2
<1>4. WordEnd(i) = CHOOSE x \in i .. Stop : Is(x)
  BY DEF WordEnd
<1> HIDE DEF Is
<1>5. WordEnd(i) \in i .. Stop /\ Is(WordEnd(i))
  BY <1>3, <1>4
<1> QED
  BY <1>5 DEF Is

\* A place behind a blank, or the first, with no blank up to i is where the word of i starts.
LEMMA WordStartIs ==
  ASSUME NEW i \in Nat, NEW s \in 1 .. i, s = 1 \/ IsBlank(s - 1), \A k \in s .. i : ~IsBlank(k)
  PROVE  WordStart(i) = s
<1> DEFINE Is(j) == (j = 1 \/ IsBlank(j - 1)) /\ \A k \in j .. i : ~IsBlank(k)
<1>1. Is(s)
  OBVIOUS
<1>2. ASSUME NEW j \in 1 .. i, Is(j) PROVE j = s
  <2>1. ~(j < s)
    <3>1. j < s => s - 1 \in j .. i /\ s # 1
      OBVIOUS
    <3> QED
      BY <1>2, <3>1
  <2>2. ~(s < j)
    <3>1. s < j => j - 1 \in s .. i /\ j # 1
      OBVIOUS
    <3> QED
      BY <1>2, <3>1
  <2> QED
    BY <2>1, <2>2
<1>3. WordStart(i) = CHOOSE j \in 1 .. i : Is(j)
  BY DEF WordStart
<1> HIDE DEF Is
<1> QED
  BY <1>1, <1>2, <1>3

-----------------------------------------------------------------------------
(* The digits of a number. *)

\* The greatest of the first numbers.
LEMMA MaxOfFirst ==
  ASSUME NEW k \in Nat \ {0}
  PROVE  Max(1 .. k) = k /\ (1 .. k) \ {Max(1 .. k)} = 1 .. k - 1
<1>1. 1 .. k \in SUBSET (1 .. k) /\ 1 .. k # {} /\ k \in 1 .. k
  OBVIOUS
<1>2. Max(1 .. k) \in 1 .. k /\ \A i \in 1 .. k : i <= Max(1 .. k)
  BY <1>1, Greatest
<1>3. Max(1 .. k) = k
  BY <1>1, <1>2
<1> QED
  BY <1>3

\* Of a set of numbers, which FoldLeft takes its greatest element from, the recursion of a
\* fold defines a function.
FoldsBy(f, m, op) ==
  \A C \in SUBSET (1 .. m) :
    f[C] = IF C = {} THEN 0 ELSE op[Max(C)][f[C \ {Max(C)}]]

LEMMA FoldDefined ==
  ASSUME NEW m \in Nat, NEW op \in [1 .. m -> [Nat -> Nat]]
  PROVE  \E f \in [SUBSET (1 .. m) -> Nat] : FoldsBy(f, m, op)
<1> DEFINE S == SUBSET (1 .. m)
           rank == [C \in S |-> Cardinality(C)]
           prev == [C \in S |-> IF C = {} THEN {} ELSE C \ {Max(C)}]
           base == [C \in S |-> 0]
           next == [C \in S |-> IF C = {} THEN [t \in Nat |-> t] ELSE op[Max(C)]]
<1>1. ASSUME NEW C \in S
      PROVE  /\ Cardinality(C) \in Nat /\ (Cardinality(C) = 0 <=> C = {})
             /\ C # {} => /\ Max(C) \in C
                          /\ Cardinality(C \ {Max(C)}) = Cardinality(C) - 1
  <2>1. IsFiniteSet(C)
    <3>1. IsFiniteSet(1 .. m)
      BY FS_Interval
    <3> QED
      BY <3>1, FS_Subset
  <2>2. C # {} => Max(C) \in C
    BY Greatest
  <2> QED
    BY <2>1, <2>2, FS_CardinalityType, FS_EmptySet, FS_RemoveElement
<1>2. rank \in [S -> Nat] /\ prev \in [S -> S] /\ base \in [S -> Nat] /\ next \in [S -> [Nat -> Nat]]
  BY <1>1
<1>3. \A C \in S : rank[C] # 0 => rank[prev[C]] < rank[C]
  <2> SUFFICES ASSUME NEW C \in S, rank[C] # 0 PROVE rank[prev[C]] < rank[C]
    OBVIOUS
  <2>1. C # {} /\ prev[C] = C \ {Max(C)} /\ prev[C] \in S
    BY <1>1
  <2>2. rank[prev[C]] = Cardinality(C \ {Max(C)}) /\ rank[C] = Cardinality(C)
    BY <2>1
  <2>3. Cardinality(C) \in Nat /\ Cardinality(C \ {Max(C)}) = Cardinality(C) - 1
    BY <1>1, <2>1
  <2> HIDE DEF rank, prev
  <2> QED
    BY <2>2, <2>3
<1>4. PICK f \in [S -> Nat] : Solves(f, S, rank, prev, base, next)
  <2> HIDE DEF S, rank, prev, base, next
  <2>1. Founded(S, Nat, rank, prev, base, next)
    BY <1>2, <1>3 DEF Founded
  <2> QED
    BY <2>1, Recursion
<1>5. ASSUME NEW C \in S
      PROVE  f[C] = IF C = {} THEN 0 ELSE op[Max(C)][f[C \ {Max(C)}]]
  <2>1. f[C] = IF rank[C] = 0 THEN base[C] ELSE next[C][f[prev[C]]]
    BY <1>4 DEF Solves
  <2>2. /\ rank[C] = 0 <=> C = {}
        /\ base[C] = 0
        /\ C # {} => next[C] = op[Max(C)] /\ prev[C] = C \ {Max(C)}
    BY <1>1
  <2> HIDE DEF rank, base, next, prev
  <2> QED
    BY <2>1, <2>2
<1> QED
  BY <1>5 DEF FoldsBy

\* The value of a sequence of digits, and their sum modulo 3.
Val(s)  == FoldLeft(LAMBDA v, d : 10 * v + DigitValue[d], 0, s)
Sum3(s) == FoldLeft(LAMBDA sum, d : (sum + DigitValue[d]) % 3, 0, s)

\* What the folds of a sequence of digits are, from one place to the next.
LEMMA DigitTypes == \A d \in Digits : DigitValue[d] \in 0 .. 9
<1> SUFFICES ASSUME NEW d \in Digits PROVE DigitValue[d] \in 0 .. 9
  OBVIOUS
<1> DEFINE names == <<"0", "1", "2", "3", "4", "5", "6", "7", "8", "9">>
<1>1. \E v \in 0 .. 9 : d = names[v + 1]
  <2>1. d = names[0 + 1] \/ d = names[1 + 1] \/ d = names[2 + 1] \/ d = names[3 + 1]
        \/ d = names[4 + 1] \/ d = names[5 + 1] \/ d = names[6 + 1] \/ d = names[7 + 1]
        \/ d = names[8 + 1] \/ d = names[9 + 1]
    BY DEF Digits
  <2> HIDE DEF names
  <2> QED
    BY <2>1
<1>2. DigitValue[d] = CHOOSE v \in 0 .. 9 : d = names[v + 1]
  BY DEF DigitValue
<1> HIDE DEF names
<1> QED
  BY <1>1, <1>2

LEMMA FoldsOfDigits ==
  ASSUME NEW s \in Seq(Digits)
  PROVE  \E v, t \in [0 .. Len(s) -> Nat] :
           /\ v[0] = 0 /\ t[0] = 0
           /\ v[Len(s)] = Val(s) /\ t[Len(s)] = Sum3(s)
           /\ \A k \in 1 .. Len(s) : /\ v[k] = 10 * v[k - 1] + DigitValue[s[k]]
                                     /\ t[k] = (t[k - 1] + DigitValue[s[k]]) % 3
<1> DEFINE m == Len(s)
           Dg(i) == DigitValue[s[i]]
           ov == [i \in 1 .. m |-> [x \in Nat |-> 10 * x + Dg(i)]]
           ot == [i \in 1 .. m |-> [x \in Nat |-> (x + Dg(i)) % 3]]
           IsVal(f) == f = [C \in SUBSET DOMAIN s |->
             IF C = {} THEN 0 ELSE 10 * f[C \ {Max(C)}] + DigitValue[s[Max(C)]]]
           IsSum(f) == f = [C \in SUBSET DOMAIN s |->
             IF C = {} THEN 0 ELSE (f[C \ {Max(C)}] + DigitValue[s[Max(C)]]) % 3]
<1>1. m \in Nat /\ DOMAIN s = 1 .. m /\ \A i \in 1 .. m : Dg(i) \in 0 .. 9
  BY DigitTypes
<1>2. ov \in [1 .. m -> [Nat -> Nat]] /\ ot \in [1 .. m -> [Nat -> Nat]]
  <2>1. \A i \in 1 .. m, x \in Nat : 10 * x + Dg(i) \in Nat /\ (x + Dg(i)) % 3 \in Nat
    <3>1. \A x \in Nat, d \in 0 .. 9 : 10 * x + d \in Nat /\ (x + d) % 3 \in Nat
      OBVIOUS
    <3> HIDE DEF Dg, m
    <3> QED
      BY <1>1, <3>1
  <2> HIDE DEF Dg, m
  <2> QED
    BY <2>1
<1>3. PICK f \in [SUBSET (1 .. m) -> Nat] : FoldsBy(f, m, ov)
  <2> HIDE DEF m, ov
  <2> QED
    BY <1>1, <1>2, FoldDefined
<1>4. PICK g \in [SUBSET (1 .. m) -> Nat] : FoldsBy(g, m, ot)
  <2> HIDE DEF m, ot
  <2> QED
    BY <1>1, <1>2, FoldDefined
<1>5. ASSUME NEW C \in SUBSET (1 .. m), C # {}
      PROVE  /\ f[C] = 10 * f[C \ {Max(C)}] + DigitValue[s[Max(C)]]
             /\ g[C] = (g[C \ {Max(C)}] + DigitValue[s[Max(C)]]) % 3
  <2>1. Max(C) \in 1 .. m /\ C \ {Max(C)} \in SUBSET (1 .. m)
    <3> HIDE DEF m
    <3> QED
      BY <1>1, <1>5, Greatest
  <2>2. f[C \ {Max(C)}] \in Nat /\ g[C \ {Max(C)}] \in Nat
    BY <2>1
  <2>3. f[C] = ov[Max(C)][f[C \ {Max(C)}]] /\ g[C] = ot[Max(C)][g[C \ {Max(C)}]]
    <3> HIDE DEF m, ov, ot
    <3> QED
      BY <1>3, <1>4, <1>5 DEF FoldsBy
  <2>4. \A i \in 1 .. m, x \in Nat : ov[i][x] = 10 * x + Dg(i) /\ ot[i][x] = (x + Dg(i)) % 3
    OBVIOUS
  <2> HIDE DEF m, ov, ot
  <2> QED
    BY <2>1, <2>2, <2>3, <2>4
<1>6. f[{}] = 0 /\ g[{}] = 0
  <2> HIDE DEF m, ov, ot
  <2> QED
    BY <1>3, <1>4 DEF FoldsBy
<1>7. IsVal(f) /\ IsSum(g)
  <2> HIDE DEF m
  <2> QED
    BY <1>1, <1>5, <1>6
<1> DEFINE hv == CHOOSE h : IsVal(h)
           ht == CHOOSE h : IsSum(h)
           v == [k \in 0 .. m |-> hv[1 .. k]]
           t == [k \in 0 .. m |-> ht[1 .. k]]
<1>8. IsVal(hv) /\ IsSum(ht)
  <2> HIDE DEF IsVal, IsSum
  <2> QED
    BY <1>7
<1>9. Val(s) = hv[DOMAIN s] /\ Sum3(s) = ht[DOMAIN s]
  BY DEF Val, Sum3, FoldLeft, MapThenFoldSet
<1> HIDE DEF hv, ht
<1>10. ASSUME NEW k \in 1 .. m
       PROVE  /\ hv[1 .. k] = 10 * hv[1 .. k - 1] + DigitValue[s[k]]
              /\ ht[1 .. k] = (ht[1 .. k - 1] + DigitValue[s[k]]) % 3
  <2> DEFINE C == 1 .. k
  <2>1. C \in SUBSET DOMAIN s /\ C # {} /\ Max(C) = k /\ C \ {Max(C)} = 1 .. k - 1
    <3>1. k \in Nat \ {0} /\ C \subseteq 1 .. m /\ k \in C
      BY <1>1
    <3> QED
      BY <1>1, <3>1, MaxOfFirst
  <2> HIDE DEF C, m
  <2>2. /\ hv[C] = 10 * hv[C \ {Max(C)}] + DigitValue[s[Max(C)]]
        /\ ht[C] = (ht[C \ {Max(C)}] + DigitValue[s[Max(C)]]) % 3
    BY <1>8, <2>1
  <2> QED
    BY <2>1, <2>2 DEF C
<1>11. 1 .. 0 = {} /\ hv[1 .. 0] = 0 /\ ht[1 .. 0] = 0
  <2>1. 1 .. 0 = {} /\ {} \in SUBSET DOMAIN s
    OBVIOUS
  <2> QED
    BY <1>8, <2>1
<1> DEFINE K == {k \in Nat : k <= m => hv[1 .. k] \in Nat /\ ht[1 .. k] \in Nat}
<1>12. 0 \in K
  BY <1>11
<1>13. ASSUME NEW k \in Nat, k \in K PROVE k + 1 \in K
  <2> SUFFICES ASSUME k + 1 <= m PROVE hv[1 .. k + 1] \in Nat /\ ht[1 .. k + 1] \in Nat
    OBVIOUS
  <2>1. k + 1 \in 1 .. m /\ (k + 1) - 1 = k /\ Dg(k + 1) \in 0 .. 9
    BY <1>1
  <2>2. hv[1 .. k] \in Nat /\ ht[1 .. k] \in Nat
    BY <1>13, <2>1
  <2>3. /\ hv[1 .. k + 1] = 10 * hv[1 .. k] + Dg(k + 1)
        /\ ht[1 .. k + 1] = (ht[1 .. k] + Dg(k + 1)) % 3
    BY <1>10, <2>1
  <2>4. \A x \in Nat, d \in 0 .. 9 : 10 * x + d \in Nat /\ (x + d) % 3 \in Nat
    OBVIOUS
  <2> HIDE DEF Dg, m
  <2> QED
    BY <2>1, <2>2, <2>3, <2>4
<1>14. \A k \in Nat : k \in K
  <2> HIDE DEF K
  <2> QED
    BY <1>12, <1>13, Induct
<1>15. v \in [0 .. m -> Nat] /\ t \in [0 .. m -> Nat]
  BY <1>1, <1>14
<1>16. v[0] = 0 /\ t[0] = 0 /\ v[m] = Val(s) /\ t[m] = Sum3(s)
  BY <1>1, <1>9, <1>11
<1>17. ASSUME NEW k \in 1 .. m
       PROVE  v[k] = 10 * v[k - 1] + DigitValue[s[k]] /\ t[k] = (t[k - 1] + DigitValue[s[k]]) % 3
  <2>1. /\ v[k] = hv[1 .. k] /\ v[k - 1] = hv[1 .. k - 1]
        /\ t[k] = ht[1 .. k] /\ t[k - 1] = ht[1 .. k - 1]
    BY <1>1
  <2> HIDE DEF v, t
  <2> QED
    BY <1>10, <2>1
<1> HIDE DEF v, t
<1> QED
  BY <1>15, <1>16, <1>17

\* The value of digits has the residue of their sum modulo 3, and of the last one modulo 5.
LEMMA DigitSums ==
  ASSUME NEW s \in Seq(Digits)
  PROVE  /\ Val(s) \in Nat /\ Val(s) % 3 = Sum3(s)
         /\ s # <<>> => Val(s) % 5 = DigitValue[s[Len(s)]] % 5
         /\ s = <<>> => Val(s) = 0
<1>1. PICK v \in [0 .. Len(s) -> Nat], t \in [0 .. Len(s) -> Nat] :
        /\ v[0] = 0 /\ t[0] = 0
        /\ v[Len(s)] = Val(s) /\ t[Len(s)] = Sum3(s)
        /\ \A k \in 1 .. Len(s) : /\ v[k] = 10 * v[k - 1] + DigitValue[s[k]]
                                  /\ t[k] = (t[k - 1] + DigitValue[s[k]]) % 3
  BY FoldsOfDigits
<1> DEFINE m == Len(s)
           Dg(i) == DigitValue[s[i]]
           K == {k \in Nat : k <= m => v[k] % 3 = t[k]}
<1>2. m \in Nat /\ \A i \in 1 .. m : Dg(i) \in 0 .. 9
  BY DigitTypes
<1>3. 0 \in K
  BY <1>1
<1>4. ASSUME NEW k \in Nat, k \in K PROVE k + 1 \in K
  <2> SUFFICES ASSUME k + 1 <= m PROVE v[k + 1] % 3 = t[k + 1]
    OBVIOUS
  <2>1. k + 1 \in 1 .. m /\ k \in 0 .. m /\ (k + 1) - 1 = k /\ Dg(k + 1) \in 0 .. 9
    BY <1>2
  <2>2. v[k] \in Nat /\ t[k] \in Nat /\ v[k] % 3 = t[k]
    BY <1>4, <2>1
  <2>3. v[k + 1] = 10 * v[k] + Dg(k + 1) /\ t[k + 1] = (t[k] + Dg(k + 1)) % 3
    BY <1>1, <2>1
  <2>4. \A x \in Nat, d \in 0 .. 9 : (10 * x + d) % 3 = ((x % 3) + d) % 3
    OBVIOUS
  <2> HIDE DEF Dg, m
  <2> QED
    BY <2>1, <2>2, <2>3, <2>4
<1>5. \A k \in Nat : k \in K
  <2> HIDE DEF K
  <2> QED
    BY <1>3, <1>4, Induct
<1>6. Val(s) \in Nat /\ Val(s) % 3 = Sum3(s)
  BY <1>1, <1>2, <1>5
<1>7. ASSUME s # <<>> PROVE Val(s) % 5 = DigitValue[s[Len(s)]] % 5
  <2>1. m \in 1 .. m /\ m - 1 \in 0 .. m
    BY <1>2, <1>7
  <2>2. Val(s) = 10 * v[m - 1] + Dg(m) /\ v[m - 1] \in Nat /\ Dg(m) \in 0 .. 9
    BY <1>1, <1>2, <2>1
  <2>3. \A x \in Nat, d \in 0 .. 9 : (10 * x + d) % 5 = d % 5
    OBVIOUS
  <2> HIDE DEF Dg, m
  <2>4. Val(s) % 5 = Dg(m) % 5
    BY <2>2, <2>3
  <2> QED
    BY <2>4 DEF Dg, m
<1>8. s = <<>> => Val(s) = 0
  BY <1>1
<1> QED
  BY <1>6, <1>7, <1>8

-----------------------------------------------------------------------------
(* Pieces that are put together. *)

\* FlattenSeq of the first k pieces is that of the pieces before, and the piece.
Flattens(g, P, m) ==
  /\ g[0] = <<>>
  /\ \A k \in 1 .. m : g[k] = g[k - 1] \o P[k]
  /\ \A k \in 0 .. m : FlattenSeq([i \in 1 .. k |-> P[i]]) = g[k]

LEMMA Flattened ==
  ASSUME NEW T, NEW m \in Nat, NEW P \in [1 .. m -> Seq(T)]
  PROVE  \E g \in [0 .. m -> Seq(T)] : Flattens(g, P, m)
<1> DEFINE S == 0 .. m
           rank == [k \in S |-> k]
           prev == [k \in S |-> IF k = 0 THEN 0 ELSE k - 1]
           base == [k \in S |-> <<>>]
           next == [k \in S |-> [x \in Seq(T) |-> IF k = 0 THEN x ELSE x \o P[k]]]
<1>1. /\ rank \in [S -> Nat] /\ prev \in [S -> S]
      /\ \A k \in S : rank[k] # 0 => rank[prev[k]] < rank[k]
  OBVIOUS
<1>2. base \in [S -> Seq(T)] /\ next \in [S -> [Seq(T) -> Seq(T)]]
  <2>1. <<>> \in Seq(T)
    OBVIOUS
  <2>2. \A k \in S, x \in Seq(T) : k # 0 => x \o P[k] \in Seq(T)
    <3> SUFFICES ASSUME NEW k \in S, NEW x \in Seq(T), k # 0 PROVE x \o P[k] \in Seq(T)
      OBVIOUS
    <3>1. P[k] \in Seq(T)
      OBVIOUS
    <3> QED
      BY <3>1, ConcatProperties
  <2> QED
    BY <2>1, <2>2
<1>3. PICK g \in [S -> Seq(T)] : Solves(g, S, rank, prev, base, next)
  <2>1. Founded(S, Seq(T), rank, prev, base, next)
    <3> HIDE DEF S, rank, prev, base, next
    <3> QED
      BY <1>1, <1>2 DEF Founded
  <2> HIDE DEF S, rank, prev, base, next
  <2> QED
    BY <2>1, Recursion
<1>4. g[0] = <<>>
  <2>1. 0 \in S /\ rank[0] = 0 /\ base[0] = <<>>
    OBVIOUS
  <2> HIDE DEF S, rank, prev, base, next
  <2> QED
    BY <1>3, <2>1 DEF Solves
<1>5. ASSUME NEW k \in 1 .. m PROVE g[k] = g[k - 1] \o P[k]
  <2>1. k \in S /\ rank[k] # 0 /\ prev[k] = k - 1 /\ g[k - 1] \in Seq(T)
    OBVIOUS
  <2>2. next[k][g[k - 1]] = g[k - 1] \o P[k]
    BY <2>1
  <2> HIDE DEF S, rank, prev, base, next
  <2>3. g[k] = next[k][g[k - 1]]
    BY <1>3, <2>1 DEF Solves
  <2> QED
    BY <2>2, <2>3
<1>6. ASSUME NEW k \in 0 .. m PROVE FlattenSeq([i \in 1 .. k |-> P[i]]) = g[k]
  <2> DEFINE seqs == [i \in 1 .. k |-> P[i]]
             Is(f) == f = [i \in 1 .. Len(seqs) |->
                             IF i = 1 THEN seqs[i] ELSE f[i - 1] \o seqs[i]]
             f0 == CHOOSE f : Is(f)
  <2>1. seqs \in Seq(Seq(T)) /\ Len(seqs) = k
    OBVIOUS
  <2>2. CASE k = 0
    <3>1. seqs = <<>>
      BY <2>1, <2>2, EmptySeq
    <3> QED
      BY <1>4, <2>2, <3>1 DEF FlattenSeq
  <2>3. CASE k # 0
    <3>1. FlattenSeq(seqs) = f0[k]
      BY <2>1, <2>3 DEF FlattenSeq
    <3>2. Is([i \in 1 .. k |-> g[i]])
      <4> DEFINE h == [i \in 1 .. k |-> g[i]]
      <4>1. ASSUME NEW i \in 1 .. k
            PROVE  g[i] = IF i = 1 THEN seqs[i] ELSE h[i - 1] \o seqs[i]
        <5>1. i \in 1 .. m /\ seqs[i] = P[i] /\ P[i] \in Seq(T) /\ g[i] = g[i - 1] \o P[i]
          <6>1. i \in 1 .. m /\ seqs[i] = P[i]
            OBVIOUS
          <6> HIDE DEF seqs, S, rank, prev, base, next, h
          <6> QED
            BY <1>5, <6>1
        <5>2. ASSUME i = 1 PROVE g[i] = P[i]
          <6>1. <<>> \o P[i] = P[i]
            BY <5>1, ConcatEmptySeq
          <6>2. i - 1 = 0
            BY <5>2
          <6> HIDE DEF seqs, S, rank, prev, base, next, h
          <6> QED
            BY <1>4, <5>1, <6>1, <6>2
        <5>3. i # 1 => h[i - 1] = g[i - 1]
          OBVIOUS
        <5> QED
          BY <5>1, <5>2, <5>3
      <4> QED
        BY <2>1, <4>1
    <3>3. Is(f0)
      <4> HIDE DEF Is
      <4> QED
        BY <3>2
    <3> HIDE DEF f0
    <3>4. ASSUME NEW i \in 1 .. k
          PROVE  f0[i] = IF i = 1 THEN P[i] ELSE f0[i - 1] \o P[i]
      <4>1. f0[i] = IF i = 1 THEN seqs[i] ELSE f0[i - 1] \o seqs[i]
        <5> HIDE DEF seqs
        <5> QED
          BY <2>1, <3>3
      <4> QED
        BY <4>1
    <3> DEFINE K == {j \in Nat : j + 1 <= k => f0[j + 1] = g[j + 1]}
    <3>5. 0 \in K
      <4>1. 1 \in 1 .. k /\ 1 \in 1 .. m /\ 0 + 1 = 1 /\ 1 - 1 = 0
        BY <2>3
      <4>2. f0[1] = P[1] /\ g[1] = <<>> \o P[1] /\ P[1] \in Seq(T)
        BY <1>4, <1>5, <3>4, <4>1
      <4>3. <<>> \o P[1] = P[1]
        BY <4>2, ConcatEmptySeq
      <4> QED
        BY <4>1, <4>2, <4>3
    <3>6. ASSUME NEW j \in Nat, j \in K PROVE j + 1 \in K
      <4> SUFFICES ASSUME (j + 1) + 1 <= k PROVE f0[(j + 1) + 1] = g[(j + 1) + 1]
        OBVIOUS
      <4> DEFINE x == (j + 1) + 1
      <4>1. x \in 1 .. k /\ x \in 1 .. m /\ x # 1 /\ x - 1 = j + 1 /\ j + 1 <= k
        OBVIOUS
      <4>2. f0[j + 1] = g[j + 1]
        BY <3>6, <4>1
      <4> HIDE DEF x
      <4>3. f0[x] = f0[x - 1] \o P[x] /\ g[x] = g[x - 1] \o P[x]
        BY <1>5, <3>4, <4>1
      <4>4. f0[x] = g[x]
        BY <4>1, <4>2, <4>3
      <4> QED
        BY <4>4 DEF x
    <3>7. \A j \in Nat : j \in K
      <4> HIDE DEF K
      <4> QED
        BY <3>5, <3>6, Induct
    <3>8. k - 1 \in Nat /\ (k - 1) + 1 = k
      BY <2>3
    <3>9. f0[k] = g[k]
      <4>1. k - 1 \in K
        <5> HIDE DEF K
        <5> QED
          BY <3>7, <3>8
      <4> QED
        BY <3>8, <4>1
    <3> QED
      BY <3>1, <3>9
  <2> QED
    BY <2>2, <2>3
<1> HIDE DEF S, rank, prev, base, next
<1>7. g \in [0 .. m -> Seq(T)]
  BY DEF S
<1> QED
  BY <1>4, <1>5, <1>6, <1>7 DEF Flattens

-----------------------------------------------------------------------------
(* The translation, up to a place. *)

Tokens == Symbols \cup {"bizz", "buzz", "bizzbuzz"}

Prefix(m) == FlattenSeq([i \in 1 .. m |-> Piece(i)])

LEMMA PieceType ==
  ASSUME text \in Seq(Symbols), NEW i \in 1 .. Len(text)
  PROVE  Piece(i) \in Seq(Tokens)
<1>1. \A x : Divisors(x) \in {<<>>, <<"bizz", "zero">>, <<"buzz", "zero">>, <<"bizzbuzz", "zero">>}
  BY DEF Divisors
<1>2. text[i] \in Tokens
  BY DEF Tokens
<1>3. {"zero", "bizz", "buzz", "bizzbuzz"} \subseteq Tokens
  BY DEF Tokens, Symbols
<1>4. \A x : Divisors(x) \in Seq(Tokens)
  <2>1. /\ <<>> \in Seq(Tokens) /\ <<"bizz", "zero">> \in Seq(Tokens)
        /\ <<"buzz", "zero">> \in Seq(Tokens) /\ <<"bizzbuzz", "zero">> \in Seq(Tokens)
    BY <1>3
  <2> QED
    BY <1>1, <2>1
<1>5. <<text[i]>> \in Seq(Tokens) /\ <<>> \in Seq(Tokens)
  BY <1>2
<1> QED
  BY <1>4, <1>5 DEF Piece

\* Each place adds its piece.
LEMMA PrefixFacts ==
  ASSUME text \in Seq(Symbols)
  PROVE  /\ Prefix(0) = <<>>
         /\ \A m \in 0 .. Len(text) : Prefix(m) \in Seq(Tokens)
         /\ \A m \in 1 .. Len(text) : Prefix(m) = Prefix(m - 1) \o Piece(m)
<1> DEFINE n0 == Len(text)
           P == [i \in 1 .. n0 |-> Piece(i)]
<1>1. n0 \in Nat /\ P \in [1 .. n0 -> Seq(Tokens)]
  BY PieceType
<1>2. PICK g \in [0 .. n0 -> Seq(Tokens)] : Flattens(g, P, n0)
  <2> HIDE DEF n0, P
  <2> QED
    BY <1>1, Flattened
<1>3. ASSUME NEW k \in 0 .. n0 PROVE Prefix(k) = g[k]
  <2>1. [i \in 1 .. k |-> P[i]] = [i \in 1 .. k |-> Piece(i)]
    <3>1. \A i \in 1 .. k : P[i] = Piece(i)
      BY <1>1
    <3> HIDE DEF P
    <3> QED
      BY <3>1
  <2> HIDE DEF n0, P
  <2> QED
    BY <1>2, <2>1 DEF Prefix, Flattens
<1>4. \A m \in 1 .. n0 : P[m] = Piece(m) /\ m - 1 \in 0 .. n0 /\ m \in 0 .. n0
  BY <1>1
<1>5. 0 \in 0 .. n0
  BY <1>1
<1> HIDE DEF n0, P
<1>6. \A m \in 1 .. n0 : Prefix(m) = Prefix(m - 1) \o Piece(m)
  BY <1>2, <1>3, <1>4 DEF Flattens
<1>7. Prefix(0) = <<>> /\ \A m \in 0 .. n0 : Prefix(m) \in Seq(Tokens)
  BY <1>2, <1>3, <1>5 DEF Flattens
<1> QED
  BY <1>6, <1>7 DEF n0

\* What is written stays a part of the translation.
LEMMA PrefixGrows ==
  ASSUME text \in Seq(Symbols), NEW k \in 0 .. Len(text), NEW m \in 0 .. k
  PROVE  IsPrefix(Prefix(m), Prefix(k))
<1> DEFINE n0 == Len(text)
           Is(x) == \E r \in Seq(Tokens) : Prefix(x) = Prefix(m) \o r
           K == {d \in Nat : m + d <= n0 => Is(m + d)}
<1>1. n0 \in Nat /\ m \in 0 .. n0 /\ Prefix(m) \in Seq(Tokens)
  BY PrefixFacts
<1>2. 0 \in K
  <2>1. <<>> \in Seq(Tokens) /\ Prefix(m) \o <<>> = Prefix(m) /\ m + 0 = m
    BY <1>1, ConcatEmptySeq
  <2> QED
    BY <2>1
<1>3. ASSUME NEW d \in Nat, d \in K PROVE d + 1 \in K
  <2> SUFFICES ASSUME m + (d + 1) <= n0 PROVE Is(m + (d + 1))
    <3> HIDE DEF Is, n0
    <3> QED
      OBVIOUS
  <2> DEFINE j == m + (d + 1)
  <2>1. j \in 1 .. n0 /\ j - 1 = m + d /\ m + d <= n0
    BY <1>1
  <2>2. PICK r \in Seq(Tokens) : Prefix(m + d) = Prefix(m) \o r
    <3>1. Is(m + d)
      <4> HIDE DEF Is, n0
      <4> QED
        BY <1>3, <2>1
    <3> QED
      BY <3>1
  <2> HIDE DEF j, K
  <2>3. Prefix(j) = (Prefix(m) \o r) \o Piece(j) /\ Piece(j) \in Seq(Tokens)
    BY <2>1, <2>2, PrefixFacts, PieceType
  <2> DEFINE piece == Piece(j)
             old == Prefix(m)
  <2>4. r \o piece \in Seq(Tokens) /\ (old \o r) \o piece = old \o (r \o piece)
    <3>1. old \in Seq(Tokens) /\ piece \in Seq(Tokens)
      BY <1>1, <2>3
    <3> HIDE DEF old, piece
    <3>2. r \o piece \in Seq(Tokens)
      BY <3>1, ConcatProperties
    <3>3. (old \o r) \o piece = old \o (r \o piece)
      BY <3>1, ConcatAssociative, SMTT(30)
    <3> QED
      BY <3>2, <3>3
  <2> QED
    BY <2>3, <2>4 DEF j
<1>4. \A d \in Nat : d \in K
  <2> HIDE DEF K
  <2> QED
    BY <1>2, <1>3, Induct
<1>5. k - m \in Nat /\ m + (k - m) = k /\ k <= n0
  BY <1>1
<1>6. PICK r \in Seq(Tokens) : Prefix(k) = Prefix(m) \o r
  <2>1. Is(k)
    <3> HIDE DEF Is
    <3> QED
      BY <1>4, <1>5
  <2> QED
    BY <2>1
<1>7. \A s, t \in Seq(Tokens) : IsPrefix(s, s \o t)
  <2> SUFFICES ASSUME NEW s \in Seq(Tokens), NEW t \in Seq(Tokens) PROVE IsPrefix(s, s \o t)
    OBVIOUS
  <2>1. Len(s) <= Len(s \o t) /\ SubSeq(s, 1, Len(s)) = SubSeq(s \o t, 1, Len(s))
    OBVIOUS
  <2> QED
    BY <2>1 DEF IsPrefix
<1> QED
  BY <1>1, <1>6, <1>7

\* Places that stand for themselves are copied.
LEMMA Copied ==
  ASSUME text \in Seq(Symbols), NEW i \in 1 .. Len(text) + 1, NEW j \in i .. Len(text) + 1,
         \A k \in i .. j - 1 : Piece(k) = <<text[k]>>
  PROVE  Prefix(j - 1) = Prefix(i - 1) \o SubSeq(text, i, j - 1)
<1> DEFINE Is(x) == Prefix(x - 1) = Prefix(i - 1) \o SubSeq(text, i, x - 1)
           K == {d \in Nat : i + d <= j => Is(i + d)}
<1>1. Len(text) \in Nat /\ i - 1 \in 0 .. Len(text) /\ Prefix(i - 1) \in Seq(Tokens)
  BY PrefixFacts
<1>2. 0 \in K
  <2>1. SubSeq(text, i, i - 1) = <<>> /\ (i + 0) - 1 = i - 1
    BY <1>1
  <2>2. Prefix(i - 1) \o <<>> = Prefix(i - 1)
    BY <1>1, ConcatEmptySeq
  <2>3. Is(i + 0)
    BY <2>1, <2>2
  <2> HIDE DEF Is
  <2> QED
    BY <2>3
<1>3. ASSUME NEW d \in Nat, d \in K PROVE d + 1 \in K
  <2> SUFFICES ASSUME i + (d + 1) <= j PROVE Is(i + (d + 1))
    <3> HIDE DEF Is
    <3> QED
      OBVIOUS
  <2> DEFINE x == i + d
             old == SubSeq(text, i, x - 1)
  <2>1. x \in i .. j - 1 /\ x \in 1 .. Len(text) /\ (i + (d + 1)) - 1 = x
    BY <1>1
  <2>2. Prefix(x - 1) = Prefix(i - 1) \o old
    <3>1. Is(x)
      <4> HIDE DEF Is
      <4> QED
        BY <1>3, <2>1
    <3> QED
      BY <3>1
  <2>3. Prefix(x) = (Prefix(i - 1) \o old) \o <<text[x]>>
    <3> HIDE DEF x, K
    <3> QED
      BY <2>1, <2>2, PrefixFacts
  <2>4. text[x] \in Tokens /\ \A y \in 1 .. Len(text) : text[y] \in Tokens
    BY <2>1 DEF Tokens
  <2>5. old \in Seq(Tokens) /\ <<text[x]>> \in Seq(Tokens)
    <3>1. \A y \in i .. x - 1 : y \in 1 .. Len(text)
      BY <2>1
    <3>2. old \in Seq(Symbols)
      BY <2>1
    <3>3. Symbols \subseteq Tokens
      BY DEF Tokens
    <3>4. <<text[x]>> \in Seq(Tokens)
      <4> HIDE DEF x, old
      <4> QED
        BY <2>4
    <3> HIDE DEF x, old
    <3> QED
      BY <3>2, <3>3, <3>4, SeqMonotonic, Zenon
  <2>6. Prefix(x) = Prefix(i - 1) \o (old \o <<text[x]>>)
    <3> HIDE DEF x, old
    <3> QED
      BY <1>1, <2>3, <2>5, ConcatAssociative, SMTT(30)
  <2>7. old \o <<text[x]>> = SubSeq(text, i, x)
    BY <2>1
  <2> HIDE DEF x, old
  <2> QED
    BY <2>1, <2>6, <2>7
<1>4. \A d \in Nat : d \in K
  <2> HIDE DEF K
  <2> QED
    BY <1>2, <1>3, Induct
<1>5. j - i \in Nat /\ i + (j - i) = j
  BY <1>1
<1>6. Is(j)
  <2>1. j - i \in K
    <3> HIDE DEF K
    <3> QED
      BY <1>4, <1>5
  <2> HIDE DEF Is
  <2> QED
    BY <1>5, <2>1
<1> QED
  BY <1>6

\* Places that stand for nothing add nothing.
LEMMA Skipped ==
  ASSUME text \in Seq(Symbols), NEW i \in 1 .. Len(text) + 1, NEW j \in i .. Len(text) + 1,
         \A k \in i .. j - 1 : Piece(k) = <<>>
  PROVE  Prefix(j - 1) = Prefix(i - 1)
<1> DEFINE K == {d \in Nat : i + d <= j => Prefix((i + d) - 1) = Prefix(i - 1)}
<1>1. Len(text) \in Nat
  OBVIOUS
<1>2. 0 \in K
  <2>1. (i + 0) - 1 = i - 1
    OBVIOUS
  <2> QED
    BY <2>1
<1>3. ASSUME NEW d \in Nat, d \in K PROVE d + 1 \in K
  <2> SUFFICES ASSUME i + (d + 1) <= j PROVE Prefix((i + (d + 1)) - 1) = Prefix(i - 1)
    OBVIOUS
  <2> DEFINE x == i + d
  <2>1. /\ x \in i .. j - 1 /\ x \in 1 .. Len(text) /\ x - 1 \in 0 .. Len(text)
        /\ (i + (d + 1)) - 1 = x
    BY <1>1
  <2>2. Prefix(x - 1) = Prefix(i - 1)
    BY <1>3, <2>1
  <2> HIDE DEF x, K
  <2>3. Prefix(x) = Prefix(x - 1) \o <<>> /\ Prefix(x - 1) \in Seq(Tokens)
    BY <2>1, PrefixFacts
  <2>4. Prefix(x) = Prefix(x - 1)
    BY <2>3, ConcatEmptySeq
  <2> QED
    BY <2>1, <2>2, <2>4
<1>4. \A d \in Nat : d \in K
  <2> HIDE DEF K
  <2> QED
    BY <1>2, <1>3, Induct
<1>5. j - i \in Nat /\ i + (j - i) = j
  BY <1>1
<1>6. j - i \in K
  <2> HIDE DEF K
  <2> QED
    BY <1>4, <1>5
<1> QED
  BY <1>5, <1>6

-----------------------------------------------------------------------------
(* The words. *)

\* The program is at the first character of a word.
AtWord ==
  /\ text \in Seq(Symbols)
  /\ str \in 1 .. Stop - 1
  /\ ~IsBlank(str)
  /\ str = 1 \/ IsBlank(str - 1)

\* What separates the places of a text: digits, blanks and ends are not the same characters.
LEMMA Kinds ==
  \A c : /\ c \in Digits => c \notin Blanks /\ ~Ends(c)
         /\ c \in Blanks => ~Ends(c)
         /\ Ends(c) => c \notin Blanks
<1> QED
  BY DEF Digits, Blanks, Ends

LEMMA WordBounds ==
  ASSUME AtWord
  PROVE  /\ str \in 1 .. Len(text) /\ str + 1 <= WordEnd(str)
         /\ WordEnd(str) \in str .. Stop /\ WordEnd(str) \in 1 .. Len(text) + 1
         /\ At(WordEnd(str)) \in Blanks \/ Ends(At(WordEnd(str)))
         /\ \A k \in str .. WordEnd(str) - 1 :
              /\ k \in 1 .. Len(text) /\ At(k) = text[k]
              /\ At(k) \notin Blanks /\ ~Ends(At(k)) /\ WordStart(k) = str
<1>1. /\ Len(text) \in Nat /\ Stop \in 1 .. Len(text) + 1 /\ Ends(At(Stop))
      /\ \A j \in 1 .. Stop - 1 : ~Ends(At(j))
  BY StopFacts, Places DEF AtWord
<1>2. str \in 1 .. Stop /\ str \in 1 .. Stop - 1
  BY <1>1 DEF AtWord
<1>3. /\ WordEnd(str) \in str .. Stop
      /\ WordEnd(str) = Stop \/ IsBlank(WordEnd(str))
      /\ \A k \in str .. WordEnd(str) - 1 : ~IsBlank(k)
  BY <1>2, WordEndFacts DEF AtWord
<1> DEFINE W == WordEnd(str)
<1>4. W # str
  BY <1>1, <1>2, <1>3 DEF AtWord
<1>5. At(W) \in Blanks \/ Ends(At(W))
  <2>1. CASE W = Stop
    BY <1>1, <2>1
  <2>2. CASE W # Stop
    <3>1. W \in 1 .. Len(text) /\ IsBlank(W)
      BY <1>1, <1>2, <1>3, <2>2
    <3> HIDE DEF W
    <3> QED
      BY <3>1, Places DEF AtWord
  <2> QED
    BY <2>1, <2>2
<1>6. ASSUME NEW k \in str .. W - 1
      PROVE  /\ k \in 1 .. Len(text) /\ At(k) = text[k]
             /\ At(k) \notin Blanks /\ ~Ends(At(k)) /\ WordStart(k) = str
  <2>1. k \in 1 .. Len(text) /\ k \in 1 .. Stop - 1 /\ k \in Nat /\ str \in 1 .. k
    BY <1>1, <1>2, <1>3
  <2>2. ~IsBlank(k) /\ \A x \in str .. k : ~IsBlank(x)
    <3>1. \A x \in str .. k : x \in str .. W - 1
      BY <1>2, <1>3, <2>1
    <3> QED
      BY <1>3, <3>1
  <2>3. WordStart(k) = str
    BY <2>1, <2>2, WordStartIs DEF AtWord
  <2>4. At(k) = text[k] /\ At(k) \notin Blanks
    BY <2>1, <2>2, Places DEF AtWord
  <2> QED
    BY <1>1, <2>1, <2>3, <2>4
<1>7. str \in 1 .. Len(text) /\ str + 1 <= W /\ W \in 1 .. Len(text) + 1
  <2> HIDE DEF W
  <2> QED
    BY <1>1, <1>2, <1>3, <1>4 DEF W
<1> QED
  BY <1>3, <1>5, <1>6, <1>7

\* write_word copies the word, to its end.
LEMMA WordCopied ==
  ASSUME AtWord
  PROVE  After(str, Symbols \ (Blanks \cup {"zero", "EOF"})) = WordEnd(str)
<1> DEFINE Run == Symbols \ (Blanks \cup {"zero", "EOF"})
           j == After(str, Run)
           W == WordEnd(str)
<1>1. /\ str \in 1 .. Len(text) /\ W \in str .. Len(text) + 1 /\ Len(text) \in Nat
      /\ At(W) \in Blanks \/ Ends(At(W))
      /\ \A k \in str .. W - 1 : At(k) \notin Blanks /\ ~Ends(At(k))
  BY WordBounds, Places DEF AtWord
<1>2. /\ j \in str .. Len(text) + 1 /\ At(j) \notin Run
      /\ \A k \in str .. j - 1 : At(k) \in Run
  <2>1. "zero" \notin Run /\ str \in 1 .. Len(text) + 1
    BY <1>1
  <2> HIDE DEF Run
  <2> QED
    BY <2>1, AfterFacts DEF AtWord
<1>3. At(j) \in Symbols
  <2>1. j \in 1 .. Len(text) + 1
    BY <1>1, <1>2
  <2> HIDE DEF j
  <2> QED
    BY <2>1, Places DEF AtWord
<1>4. At(j) \in Blanks \/ Ends(At(j))
  BY <1>2, <1>3 DEF Ends
<1>5. \A c : c \in Run => c \notin Blanks /\ ~Ends(c)
  BY DEF Ends
<1> HIDE DEF j, W, Run
<1>6. ~(j < W)
  BY <1>1, <1>2, <1>4
<1>7. ~(W < j)
  BY <1>1, <1>2, <1>5
<1>8. j = W
  BY <1>1, <1>2, <1>6, <1>7
<1> QED
  BY <1>8 DEF j, W, Run

\* The digits end in the word or at its end, and what is before its end has none of the
\* characters that end it.
LEMMA DigitsBounds ==
  ASSUME AtWord
  PROVE  /\ DigitsFrom \in str .. WordEnd(str)
         /\ DigitsTo \in DigitsFrom .. WordEnd(str)
         /\ At(str) # "-" => DigitsFrom = str /\ DigitsFrom < WordEnd(str)
         /\ At(DigitsTo) \notin Digits
         /\ \A k \in DigitsFrom .. DigitsTo - 1 : At(k) \in Digits /\ At(k) = text[k]
<1> DEFINE u == DigitsFrom
           t == DigitsTo
           W == WordEnd(str)
<1>1. /\ str \in 1 .. Len(text) /\ str + 1 <= W /\ W \in 1 .. Len(text) + 1
      /\ Len(text) \in Nat
      /\ At(W) \in Blanks \/ Ends(At(W))
      /\ \A k \in str .. W - 1 : At(k) = text[k]
  BY WordBounds, Places DEF AtWord
<1>2. u = IF At(str) = "-" THEN str + 1 ELSE str
  BY DEF DigitsFrom
<1> HIDE DEF u, W
<1>3. u \in str .. W /\ u \in 1 .. Len(text) + 1 /\ (At(str) # "-" => u = str /\ u < W)
  BY <1>1, <1>2
<1>4. /\ t \in u .. Len(text) + 1 /\ At(t) \notin Digits
      /\ \A k \in u .. t - 1 : At(k) \in Digits
  <2>1. t = After(u, Digits) /\ "zero" \notin Digits
    BY DEF DigitsTo, u, Digits
  <2> HIDE DEF t
  <2> QED
    BY <1>3, <2>1, AfterFacts DEF AtWord
<1> HIDE DEF t
<1>5. ~(W < t)
  <2> SUFFICES ASSUME W < t PROVE FALSE
    OBVIOUS
  <2>1. W \in u .. t - 1
    BY <1>1, <1>3, <1>4
  <2> QED
    BY <1>1, <1>4, <2>1, Kinds
<1>6. t \in u .. W
  BY <1>1, <1>3, <1>4, <1>5
<1>7. \A k \in u .. t - 1 : k \in str .. W - 1
  BY <1>1, <1>3, <1>6
<1> QED
  BY <1>1, <1>3, <1>4, <1>6, <1>7 DEF u, t, W

\* read_num finds the numbers, whose digits end with the word.
LEMMA NumberIs ==
  ASSUME AtWord
  PROVE  \/ IsNumber(str) /\ DigitsTo = WordEnd(str) /\ ReadNum = CompareDels
         \/ ~IsNumber(str) /\ ReadNum = "letters"
<1> DEFINE u == DigitsFrom
           t == DigitsTo
           W == WordEnd(str)
           s == Unsigned(str)
<1>1. /\ str \in 1 .. Len(text) /\ str + 1 <= W /\ W \in 1 .. Len(text) + 1
      /\ Len(text) \in Nat
      /\ At(W) \in Blanks \/ Ends(At(W))
      /\ \A k \in str .. W - 1 :
           /\ k \in 1 .. Len(text) /\ At(k) = text[k]
           /\ At(k) \notin Blanks /\ ~Ends(At(k))
  BY WordBounds, Places DEF AtWord
<1>2. /\ u \in str .. W /\ t \in u .. W
      /\ At(str) # "-" => u = str /\ u < W
      /\ At(t) \notin Digits /\ \A k \in u .. t - 1 : At(k) \in Digits /\ At(k) = text[k]
  BY DigitsBounds
<1>3. s = SubSeq(text, u, W - 1)
  <2>1. At(str) = text[str]
    BY <1>1
  <2> QED
    BY <2>1 DEF Unsigned, DigitsFrom
<1>4. ReadNum = IF At(str) = "-" /\ At(u) = "zero" THEN "letters"
                ELSE IF At(t) \in {"zero", "EOF", "nl", " "} THEN CompareDels ELSE "letters"
  BY DEF ReadNum
<1>5. IsNumber(str) <=> /\ \A j \in DOMAIN s : s[j] \in Digits
                        /\ At(W) # "tab"
                        /\ s = <<>> => At(W) # "zero"
  BY DEF IsNumber
<1>6. DOMAIN s = 1 .. W - u /\ \A j \in 1 .. W - u : s[j] = text[(u + j) - 1]
  <2> HIDE DEF s, u, W, t
  <2>1. \A k \in u .. W - 1 : text[k] \in Symbols
    BY <1>1, <1>2, Places DEF AtWord
  <2>2. u \in Int /\ W - 1 \in Int
    BY <1>1, <1>2
  <2>3. /\ s \in Seq(Symbols)
        /\ Len(s) = IF u <= W - 1 THEN ((W - 1) - u) + 1 ELSE 0
        /\ \A i \in 1 .. ((W - 1) - u) + 1 : s[i] = text[(u + i) - 1]
    BY <1>3, <2>1, <2>2, SubSeqProperties
  <2> QED
    BY <1>1, <1>2, <2>3
<1> HIDE DEF s, u, t, W
<1>7. s = <<>> <=> u = W
  <2>1. s = <<>> => u = W
    <3> SUFFICES ASSUME s = <<>> PROVE u = W
      OBVIOUS
    <3>1. DOMAIN s = {}
      OBVIOUS
    <3>2. u < W => 1 \in 1 .. W - u
      BY <1>1, <1>2
    <3> QED
      BY <1>1, <1>2, <1>6, <3>1, <3>2
  <2>2. u = W => s = <<>>
    BY <1>1, <1>2, <1>3
  <2> QED
    BY <2>1, <2>2
<1>8. CASE t # W
  <2>1. t \in str .. W - 1 /\ (t - u) + 1 \in 1 .. W - u /\ (u + ((t - u) + 1)) - 1 = t
    BY <1>1, <1>2, <1>8
  <2>2. s[(t - u) + 1] = text[t] /\ text[t] \notin Digits
    BY <1>1, <1>2, <1>6, <2>1
  <2>3. ~IsNumber(str)
    BY <1>5, <1>6, <2>1, <2>2
  <2>4. At(t) \notin {"zero", "EOF", "nl", " "}
    BY <1>1, <2>1 DEF Ends, Blanks
  <2> QED
    BY <1>4, <2>3, <2>4
<1>9. CASE t = W
  <2>1. \A j \in DOMAIN s : s[j] \in Digits
    <3> SUFFICES ASSUME NEW j \in 1 .. W - u PROVE s[j] \in Digits
      BY <1>6
    <3>1. (u + j) - 1 \in u .. t - 1
      BY <1>1, <1>2, <1>9
    <3> QED
      BY <1>2, <1>6, <3>1
  <2>2. At(W) \in {"zero", "EOF", "nl", " ", "tab"}
    BY <1>1 DEF Ends, Blanks
  <2>3. CASE At(str) = "-" /\ At(u) = "zero"
    <3>1. u = t
      <4>1. u < t => u \in u .. t - 1
        BY <1>1, <1>2
      <4>2. "zero" \notin Digits
        BY DEF Digits
      <4> QED
        BY <1>1, <1>2, <2>3, <4>1, <4>2
    <3> QED
      BY <1>4, <1>5, <1>7, <1>9, <2>3, <3>1
  <2>4. CASE ~(At(str) = "-" /\ At(u) = "zero")
    <3>1. u = W => At(W) # "zero"
      BY <1>1, <1>2, <2>4
    <3> QED
      BY <1>4, <1>5, <1>7, <1>9, <2>1, <2>2, <2>4, <3>1 DEF t, W
  <2> QED
    BY <2>3, <2>4
<1> QED
  BY <1>8, <1>9

\* read_num says what divides the number, if it is one.
LEMMA DivisorsAre ==
  ASSUME AtWord
  PROVE  /\ ReadNum \in {"nothing", "letters"} => Divisors(str) = <<>>
         /\ ReadNum \notin {"nothing", "letters"} =>
              Divisors(str) = <<ReadNum, "zero">> /\ DigitsTo = WordEnd(str)
<1>1. CASE ~IsNumber(str)
  <2>1. Divisors(str) = <<>>
    BY <1>1 DEF Divisors
  <2> QED
    BY <1>1, <2>1, NumberIs
<1>2. CASE IsNumber(str)
  <2> DEFINE u == DigitsFrom
             t == DigitsTo
             s == SubSeq(text, u, t - 1)
  <2>1. t = WordEnd(str) /\ ReadNum = CompareDels
    BY <1>2, NumberIs
  <2>2. /\ str \in 1 .. Len(text) /\ Len(text) \in Nat
        /\ u \in str .. t /\ t \in 1 .. Len(text) + 1
        /\ \A k \in u .. t - 1 : text[k] \in Digits
    BY <2>1, DigitsBounds, WordBounds, Places DEF AtWord
  <2> HIDE DEF u, t
  <2>3. /\ s \in Seq(Digits) /\ u \in Int /\ t - 1 \in Int
        /\ Len(s) = IF u <= t - 1 THEN ((t - 1) - u) + 1 ELSE 0
        /\ \A i \in 1 .. ((t - 1) - u) + 1 : s[i] = text[(u + i) - 1]
    <3>1. u \in Int /\ t - 1 \in Int
      BY <2>2
    <3> QED
      BY <2>2, <3>1, SubSeqProperties
  <2>4. Len(s) = t - u
    BY <2>2, <2>3
  <2>5. t > u => s # <<>> /\ s[Len(s)] = text[t - 1]
    <3> SUFFICES ASSUME t > u PROVE s # <<>> /\ s[Len(s)] = text[t - 1]
      OBVIOUS
    <3>1. Len(s) # 0 /\ t - u \in 1 .. ((t - 1) - u) + 1 /\ (u + (t - u)) - 1 = t - 1
      BY <2>2, <2>4
    <3> HIDE DEF s
    <3>2. s[t - u] = text[t - 1]
      BY <2>3, <3>1
    <3> QED
      BY <2>4, <3>1, <3>2, EmptySeq
  <2>6. ~(t > u) => s = <<>>
    BY <2>2, SubSeqEmpty
  <2> HIDE DEF s
  <2>7. Val(s) \in Nat /\ del3 = Val(s) % 3 /\ del5 = Val(s) % 5
    <3>1. del3 = Sum3(s)
      BY DEF del3, Sum3, s, u, t
    <3>2. del5 = IF t > u THEN DigitValue[text[t - 1]] % 5 ELSE 0
      BY DEF del5, u, t
    <3>3. /\ Val(s) \in Nat /\ Val(s) % 3 = Sum3(s)
          /\ s # <<>> => Val(s) % 5 = DigitValue[s[Len(s)]] % 5
          /\ s = <<>> => Val(s) = 0
      BY <2>3, DigitSums
    <3>4. CASE t > u
      BY <2>5, <3>1, <3>2, <3>3, <3>4
    <3>5. CASE ~(t > u)
      <4>1. Val(s) = 0 /\ del5 = 0 /\ 0 % 5 = 0
        BY <2>6, <3>2, <3>3, <3>5
      <4> QED
        BY <3>1, <3>3, <4>1
    <3> QED
      BY <3>4, <3>5
  <2>8. Value(str) = Val(s)
    <3>1. Unsigned(str) = s
      <4>1. At(str) = text[str]
        BY <2>2, Places DEF AtWord
      <4> QED
        BY <2>1, <4>1 DEF Unsigned, s, u, DigitsFrom
    <3> QED
      BY <3>1 DEF Value, Val
  <2>9. Val(s) % 15 = 0 <=> del3 = 0 /\ del5 = 0
    <3>1. \A x \in Nat : x % 15 = 0 <=> x % 3 = 0 /\ x % 5 = 0
      OBVIOUS
    <3> QED
      BY <2>7, <3>1
  <2>10. Divisors(str) =
           IF del3 = 0 /\ del5 = 0 THEN <<"bizzbuzz", "zero">>
           ELSE IF del3 = 0 THEN <<"bizz", "zero">>
           ELSE IF del5 = 0 THEN <<"buzz", "zero">> ELSE <<>>
    BY <1>2, <2>7, <2>8, <2>9 DEF Divisors
  <2> HIDE DEF t
  <2>11. CompareDels = IF del3 = 0 /\ del5 = 0 THEN "bizzbuzz" ELSE IF del3 = 0 THEN "bizz"
                       ELSE IF del5 = 0 THEN "buzz" ELSE "nothing"
    BY DEF CompareDels
  <2> QED
    BY <2>1, <2>10, <2>11 DEF t
<1> QED
  BY <1>1, <1>2

\* A word that nothing is written for is copied.
LEMMA CopiesWord ==
  ASSUME AtWord, ReadNum \in {"nothing", "letters"}
  PROVE  Prefix(WordEnd(str) - 1) = Prefix(str - 1) \o SubSeq(text, str, WordEnd(str) - 1)
<1>1. \A k \in str .. WordEnd(str) - 1 : Piece(k) = <<text[k]>>
  BY WordBounds, DivisorsAre DEF Piece
<1>2. str \in 1 .. Len(text) + 1 /\ WordEnd(str) \in str .. Len(text) + 1
  BY WordBounds, Places DEF AtWord
<1> QED
  BY <1>1, <1>2, Copied DEF AtWord

\* For a number what divides it is written.
LEMMA CopiesNumber ==
  ASSUME AtWord, ReadNum \notin {"nothing", "letters"}
  PROVE  Prefix(WordEnd(str) - 1) = Prefix(str - 1) \o <<ReadNum, "zero">>
<1> DEFINE W == WordEnd(str)
<1>1. /\ str \in 1 .. Len(text) /\ Len(text) \in Nat /\ str + 1 <= W /\ W \in 1 .. Len(text) + 1
      /\ \A k \in str .. W - 1 : k \in 1 .. Len(text) /\ ~IsBlank(k) /\ WordStart(k) = str
  BY WordBounds, Places DEF AtWord
<1>2. Divisors(str) = <<ReadNum, "zero">>
  BY DivisorsAre
<1> HIDE DEF W
<1>3. Divisors(str) # <<>>
  BY <1>2
<1>4. Piece(str) = <<ReadNum, "zero">>
  <2>1. str \in str .. W - 1
    BY <1>1
  <2> QED
    BY <1>1, <1>2, <1>3, <2>1 DEF Piece
<1>5. \A k \in str + 1 .. W - 1 : Piece(k) = <<>>
  <2> SUFFICES ASSUME NEW k \in str + 1 .. W - 1 PROVE Piece(k) = <<>>
    OBVIOUS
  <2>1. k \in str .. W - 1 /\ k # str
    BY <1>1
  <2> QED
    BY <1>1, <1>3, <2>1 DEF Piece
<1>6. str + 1 \in 1 .. Len(text) + 1 /\ W \in str + 1 .. Len(text) + 1 /\ (str + 1) - 1 = str
  BY <1>1
<1>7. Prefix(W - 1) = Prefix(str)
  BY <1>5, <1>6, Skipped DEF AtWord
<1> QED
  BY <1>1, <1>4, <1>7, PrefixFacts DEF AtWord, W

-----------------------------------------------------------------------------
(* The program. *)

\* Between two words the translation of the text before the place is written.  After a fault a
\* part of the translation is, of a text that fills its pages.
BizzInv ==
  /\ text \in Seq(Symbols)
  /\ pc \in {"start", "loop", "done", "fault"}
  /\ pc = "start" => str = 1 /\ out = <<>>
  /\ pc = "loop" => AtWord /\ out = Prefix(str - 1)
  /\ pc = "done" => str = Stop /\ out = Prefix(str - 1)
  /\ pc = "fault" => /\ full /\ Stop = Len(text) + 1
                     /\ \E m \in 0 .. Len(text) : out = Prefix(m)

\* While the text stays, so does its translation.
LEMMA TextStays ==
  ASSUME text' = text
  PROVE  /\ Stop' = Stop
         /\ \A i : Prefix(i)' = Prefix(i) /\ IsBlank(i)' = IsBlank(i)
<1>1. Stop' = Stop
  BY DEF Stop, At, Ends
<1>2. \A i : IsBlank(i)' = IsBlank(i) /\ At(i)' = At(i)
  BY DEF IsBlank, At
<1>3. \A i : WordEnd(i)' = WordEnd(i)
  BY <1>1, <1>2 DEF WordEnd, IsBlank
<1>4. \A i : Unsigned(i)' = Unsigned(i)
  BY <1>3 DEF Unsigned
<1>5. \A i : Value(i)' = Value(i)
  BY <1>4 DEF Value, FoldLeft, MapThenFoldSet
<1>6. \A i : IsNumber(i)' = IsNumber(i)
  BY <1>2, <1>3, <1>4 DEF IsNumber
<1>7. \A i : Divisors(i)' = Divisors(i)
  BY <1>5, <1>6 DEF Divisors
<1>8. \A i : WordStart(i)' = WordStart(i)
  BY <1>2 DEF WordStart, IsBlank
<1>9. \A i : Piece(i)' = Piece(i)
  BY <1>2, <1>7, <1>8 DEF Piece
<1>10. ASSUME NEW i PROVE Prefix(i)' = Prefix(i)
  <2>1. [k \in 1 .. i |-> Piece(k)]' = [k \in 1 .. i |-> Piece(k)]
    BY <1>9
  <2> QED
    BY <2>1 DEF Prefix
<1> QED
  BY <1>1, <1>2, <1>10

\* Before the end of the text only blanks are between two words.
LEMMA BlanksBounds ==
  ASSUME text \in Seq(Symbols), NEW i \in 1 .. Stop, i = 1 \/ i = Stop \/ IsBlank(i)
  PROVE  LET j == After(i, Blanks)
         IN  /\ j \in i .. Stop /\ j \in 1 .. Len(text) + 1
             /\ Ends(At(j)) => j = Stop
             /\ ~Ends(At(j)) => j \in 1 .. Stop - 1 /\ ~IsBlank(j) /\ (j = 1 \/ IsBlank(j - 1))
             /\ \A k \in i .. j - 1 : IsBlank(k)
<1> DEFINE j == After(i, Blanks)
<1>1. /\ Len(text) \in Nat /\ Stop \in 1 .. Len(text) + 1 /\ Ends(At(Stop))
      /\ \A k \in 1 .. Stop - 1 : ~Ends(At(k))
  BY StopFacts, Places
<1>2. i \in 1 .. Len(text) + 1
  BY <1>1
<1>3. /\ j \in i .. Len(text) + 1 /\ At(j) \notin Blanks
      /\ \A k \in i .. j - 1 : At(k) \in Blanks
  <2>1. "zero" \notin Blanks
    BY DEF Blanks
  <2> QED
    BY <1>2, <2>1, AfterFacts
<1> HIDE DEF j
<1>4. ~(Stop < j)
  <2> SUFFICES ASSUME Stop < j PROVE FALSE
    OBVIOUS
  <2>1. Stop \in i .. j - 1
    BY <1>1, <1>2, <1>3
  <2> QED
    BY <1>1, <1>3, <2>1, Kinds
<1>5. j \in i .. Stop /\ j \in 1 .. Len(text) + 1
  BY <1>1, <1>2, <1>3, <1>4
<1>6. \A k \in i .. j - 1 : IsBlank(k)
  <2> SUFFICES ASSUME NEW k \in i .. j - 1 PROVE IsBlank(k)
    OBVIOUS
  <2>1. k \in 1 .. Len(text)
    BY <1>1, <1>2, <1>5
  <2> QED
    BY <1>3, <2>1, Places
<1>7. Ends(At(j)) => j = Stop
  <2>1. j # Stop => j \in 1 .. Stop - 1
    BY <1>1, <1>2, <1>5
  <2> QED
    BY <1>1, <2>1
<1>8. ASSUME ~Ends(At(j))
      PROVE  j \in 1 .. Stop - 1 /\ ~IsBlank(j) /\ (j = 1 \/ IsBlank(j - 1))
  <2>1. j # Stop
    BY <1>1, <1>8
  <2>2. j \in 1 .. Stop - 1 /\ j \in 1 .. Len(text)
    BY <1>1, <1>2, <1>5, <2>1
  <2>3. ~IsBlank(j)
    BY <1>3, <2>2, Places
  <2>4. CASE j = i
    BY <2>1, <2>2, <2>3, <2>4
  <2>5. CASE j # i
    <3>1. j - 1 \in i .. j - 1
      BY <1>2, <1>5, <2>5
    <3> QED
      BY <1>6, <2>2, <2>3, <3>1
  <2> QED
    BY <2>4, <2>5
<1> QED
  BY <1>5, <1>6, <1>7, <1>8 DEF j

\* miss_symbol behind a word, or at the beginning.
LEMMA MissSymbolKeeps ==
  ASSUME BizzInv, NEW i \in 1 .. Stop, i = 1 \/ i = Stop \/ IsBlank(i),
         NEW written, Prefix(i - 1) = out \o written,
         out \in Seq(Tokens), written \in Seq(Tokens),
         MissSymbol(i, written)
  PROVE  BizzInv'
<1> DEFINE j == After(i, Blanks)
           b == SubSeq(text, i, j - 1)
           all == written \o b
<1>1. text \in Seq(Symbols) /\ text' = text
  BY DEF BizzInv, MissSymbol, Fault
<1>2. /\ Len(text) \in Nat /\ Stop \in 1 .. Len(text) + 1
      /\ j \in i .. Stop /\ j \in 1 .. Len(text) + 1
      /\ Ends(At(j)) => j = Stop
      /\ ~Ends(At(j)) => j \in 1 .. Stop - 1 /\ ~IsBlank(j) /\ (j = 1 \/ IsBlank(j - 1))
      /\ \A k \in i .. j - 1 : IsBlank(k)
  BY <1>1, BlanksBounds, StopFacts, Places
<1>3. Prefix(j - 1) = out \o all
  <2>1. Prefix(j - 1) = Prefix(i - 1) \o b
    <3>1. i \in 1 .. Len(text) + 1 /\ j \in i .. Len(text) + 1
      BY <1>2
    <3>2. \A k \in i .. j - 1 : Piece(k) = <<text[k]>>
      BY <1>2 DEF Piece
    <3> HIDE DEF j
    <3> QED
      BY <1>1, <3>1, <3>2, Copied
  <2>2. b \in Seq(Tokens)
    <3>1. i \in Int /\ j - 1 \in Int
      BY <1>2
    <3>2. \A k \in i .. j - 1 : text[k] \in Tokens
      <4> SUFFICES ASSUME NEW k \in i .. j - 1 PROVE text[k] \in Tokens
        OBVIOUS
      <4>1. k \in 1 .. Len(text)
        BY <1>2
      <4> QED
        BY <1>1, <4>1, Places DEF Tokens
    <3> HIDE DEF j
    <3> QED
      BY <3>1, <3>2, SubSeqProperties, Zenon
  <2> HIDE DEF b
  <2>3. (out \o written) \o b = out \o all
    BY <2>2, ConcatAssociative, SMTT(30)
  <2> QED
    BY <2>1, <2>3
<1>4. MissSymbol(i, written) =
        (IF Readable(j)
           THEN /\ pc' = IF Ends(At(j)) THEN "done" ELSE "loop"
                /\ str' = j /\ out' = out \o all
                /\ UNCHANGED <<text, full>>
           ELSE Fault(all))
  BY DEF MissSymbol
<1> HIDE DEF j, all
<1>5. Stop' = Stop /\ \A k : Prefix(k)' = Prefix(k) /\ IsBlank(k)' = IsBlank(k)
  BY <1>1, TextStays
<1>6. CASE Readable(j) /\ Ends(At(j))
  <2>1. pc' = "done" /\ str' = j /\ out' = out \o all
    BY <1>4, <1>6
  <2>2. Prefix(str - 1)' = Prefix(j - 1)
    BY <1>1, <1>5, <2>1
  <2> QED
    BY <1>1, <1>2, <1>3, <1>5, <1>6, <2>1, <2>2 DEF BizzInv
<1>7. CASE Readable(j) /\ ~Ends(At(j))
  <2>1. pc' = "loop" /\ str' = j /\ out' = out \o all
    BY <1>4, <1>7
  <2>2. Prefix(str - 1)' = Prefix(j - 1)
    BY <1>1, <1>5, <2>1
  <2>3. IsBlank(str)' = IsBlank(j) /\ IsBlank(str - 1)' = IsBlank(j - 1)
    BY <1>1, <1>5, <2>1
  <2>4. AtWord'
    BY <1>1, <1>2, <1>5, <1>7, <2>1, <2>3 DEF AtWord
  <2> QED
    BY <1>1, <1>3, <2>1, <2>2, <2>4 DEF BizzInv
<1>8. CASE ~Readable(j)
  <2>1. pc' = "fault" /\ out' = out \o all /\ full' = full
    BY <1>4, <1>8 DEF Fault
  <2>2. full /\ Stop = Len(text) + 1 /\ j - 1 \in 0 .. Len(text)
    BY <1>2, <1>8 DEF Readable
  <2>3. \E m \in 0 .. Len(text) : out' = Prefix(m)'
    BY <1>3, <1>5, <2>1, <2>2
  <2> QED
    BY <1>1, <1>5, <2>1, <2>2, <2>3 DEF BizzInv
<1> QED
  BY <1>6, <1>7, <1>8

\* What is written so far is text.
LEMMA Written ==
  ASSUME BizzInv, pc \in {"start", "loop"}
  PROVE  out \in Seq(Tokens)
<1>1. CASE pc = "start"
  BY <1>1, EmptySeq DEF BizzInv
<1>2. CASE pc = "loop"
  <2>1. text \in Seq(Symbols) /\ out = Prefix(str - 1) /\ str \in 1 .. Len(text)
    BY <1>2, WordBounds DEF BizzInv
  <2>2. str - 1 \in 0 .. Len(text)
    BY <2>1
  <2> QED
    BY <2>1, <2>2, PrefixFacts
<1> QED
  BY <1>1, <1>2

\* A fault, where a part of the translation is written.
LEMMA FaultKeeps ==
  ASSUME text \in Seq(Symbols), full, Stop = Len(text) + 1, NEW m \in 0 .. Len(text),
         NEW written, out \o written = Prefix(m), Fault(written)
  PROVE  BizzInv'
<1>1. pc' = "fault" /\ out' = out \o written /\ text' = text /\ full' = full
  BY DEF Fault
<1>2. Stop' = Stop /\ Prefix(m)' = Prefix(m)
  BY <1>1, TextStays
<1>3. \E k \in 0 .. Len(text) : out' = Prefix(k)'
  BY <1>1, <1>2
<1> QED
  BY <1>1, <1>2, <1>3 DEF BizzInv

\* What is read begins with the file.
FileInv ==
  /\ file \in Seq(Symbols) /\ \A i \in 1 .. Len(file) : i <= Len(text) /\ text[i] = file[i]
  /\ ~full => text = file

LEMMA FileFirst == BizzInit => text \in Seq(Symbols) /\ FileInv
<1> SUFFICES ASSUME BizzInit
             PROVE  text \in Seq(Symbols) /\ FileInv
  OBVIOUS
<1>1. file \in Seq(Symbols) /\ Len(file) \in Nat
  BY BizzAssumption DEF BizzInit
<1>2. CASE text = file
  BY <1>1, <1>2 DEF FileInv
<1>3. ASSUME NEW b \in Behind, text = file \o b, full = TRUE
      PROVE  /\ text \in Seq(Symbols)
             /\ \A i \in 1 .. Len(file) : i <= Len(text) /\ text[i] = file[i]
  <2>1. b \in Seq(Symbols) /\ Len(b) \in Nat
    BY BizzAssumption
  <2>2. Len(text) = Len(file) + Len(b) /\ text \in Seq(Symbols)
    BY <1>1, <1>3, <2>1
  <2>3. \A i \in 1 .. Len(file) : text[i] = file[i]
    BY <1>1, <1>3, <2>1
  <2> QED
    BY <1>1, <2>1, <2>2, <2>3
<1> QED
  BY <1>1, <1>2, <1>3 DEF BizzInit, FileInv

LEMMA FileInvariant == BizzSpec => []FileInv
<1>1. BizzInit => FileInv
  BY FileFirst
<1>2. FileInv /\ [BizzNext]_bizzVars => FileInv'
  <2> SUFFICES ASSUME FileInv, [BizzNext]_bizzVars PROVE FileInv'
    OBVIOUS
  <2>1. file' = file /\ text' = text /\ full' = full
    BY DEF BizzNext, Start, Word, Number, ReadNumFaults, MissSymbol, Fault, bizzVars
  <2> QED
    BY <2>1 DEF FileInv
<1> QED
  BY <1>1, <1>2, PTL DEF BizzSpec

LEMMA BizzInvariant == BizzSpec => []BizzInv
<1>1. BizzInit => BizzInv
  BY FileFirst DEF BizzInit, BizzInv
<1>2. BizzInv /\ [BizzNext]_bizzVars => BizzInv'
  <2> SUFFICES ASSUME BizzInv, [BizzNext]_bizzVars PROVE BizzInv'
    OBVIOUS
  <2>1. /\ text \in Seq(Symbols) /\ Len(text) \in Nat
        /\ Stop \in 1 .. Len(text) + 1
    BY StopFacts, Places DEF BizzInv
  <2>2. CASE Start
    <3>1. pc = "start" /\ MissSymbol(1, <<>>) /\ out = <<>> /\ out \in Seq(Tokens)
      BY <2>2, Written DEF Start, BizzInv
    <3>2. Prefix(1 - 1) = out \o <<>> /\ <<>> \in Seq(Tokens) /\ 1 \in 1 .. Stop
      <4>1. Prefix(0) = <<>> /\ 1 - 1 = 0
        BY <2>1, PrefixFacts
      <4>2. out \o <<>> = out /\ <<>> \in Seq(Tokens)
        BY <3>1, ConcatEmptySeq, EmptySeq
      <4> QED
        BY <2>1, <3>1, <4>1, <4>2
    <3> QED
      BY <3>1, <3>2, MissSymbolKeeps
  <2> DEFINE W == WordEnd(str)
  <2>3. ASSUME pc = "loop"
        PROVE  /\ AtWord /\ out = Prefix(str - 1) /\ out \in Seq(Tokens)
               /\ W \in 1 .. Stop /\ W - 1 \in 0 .. Len(text)
               /\ W = Stop \/ IsBlank(W)
               /\ str - 1 \in 0 .. Len(text)
    <3>1. AtWord /\ out = Prefix(str - 1) /\ out \in Seq(Tokens)
      BY <2>3, Written DEF BizzInv
    <3>2. str \in 1 .. Len(text) /\ W \in str .. Stop /\ W \in 1 .. Len(text) + 1
      BY <3>1, WordBounds
    <3>3. W = Stop \/ IsBlank(W)
      <4>1. str \in 1 .. Stop
        BY <2>1, <3>2
      <4> QED
        BY <2>1, <4>1, WordEndFacts
    <3> HIDE DEF W
    <3> QED
      BY <2>1, <3>1, <3>2, <3>3
  <2>4. CASE Word
    <3> DEFINE word == SubSeq(text, str, W - 1)
    <3>1. pc = "loop" /\ ReadNum \in {"nothing", "letters"}
      BY <2>4 DEF Word
    <3>2. AtWord
      BY <2>3, <3>1
    <3>3. IF Readable(W) THEN MissSymbol(W, word) ELSE Fault(word)
      <4>1. After(str, Symbols \ (Blanks \cup {"zero", "EOF"})) = W
        BY <3>2, WordCopied
      <4> HIDE DEF W
      <4> QED
        BY <2>4, <4>1 DEF Word
    <3>4. Prefix(W - 1) = out \o word
      BY <2>3, <3>1, <3>2, CopiesWord
    <3>5. word \in Seq(Tokens)
      <4>1. str \in Int /\ W - 1 \in Int /\ \A k \in str .. W - 1 : text[k] \in Tokens
        <5>1. \A k \in 1 .. Len(text) : text[k] \in Tokens
          BY <2>1 DEF Tokens
        <5>2. \A k \in str .. W - 1 : k \in 1 .. Len(text)
          BY <3>2, WordBounds
        <5>3. str \in Int /\ W - 1 \in Int
          <6>1. str \in 1 .. Len(text)
            BY <3>2, WordBounds
          <6> HIDE DEF W
          <6> QED
            BY <2>3, <3>1, <6>1
        <5> QED
          BY <5>1, <5>2, <5>3
      <4> HIDE DEF W
      <4> QED
        BY <4>1, SubSeqProperties
    <3> HIDE DEF W, word
    <3>6. CASE Readable(W)
      BY <2>3, <3>1, <3>3, <3>4, <3>5, <3>6, MissSymbolKeeps
    <3>7. CASE ~Readable(W)
      <4>1. full /\ Stop = Len(text) + 1
        BY <2>1, <2>3, <3>1, <3>7 DEF Readable
      <4> QED
        BY <2>1, <2>3, <3>1, <3>3, <3>4, <3>7, <4>1, FaultKeeps
    <3> QED
      BY <3>6, <3>7
  <2>5. CASE Number
    <3>1. pc = "loop" /\ ReadNum \notin {"nothing", "letters"}
          /\ MissSymbol(DigitsTo, <<ReadNum, "zero">>)
      BY <2>5 DEF Number
    <3>2. AtWord
      BY <2>3, <3>1
    <3>3. DigitsTo = W /\ Prefix(W - 1) = out \o <<ReadNum, "zero">>
      BY <2>3, <3>1, <3>2, DivisorsAre, CopiesNumber
    <3>4. <<ReadNum, "zero">> \in Seq(Tokens)
      <4>1. ReadNum \in {"bizz", "buzz", "bizzbuzz"}
        BY <3>1 DEF ReadNum, CompareDels
      <4>2. ReadNum \in Tokens /\ "zero" \in Tokens
        BY <4>1 DEF Tokens, Symbols
      <4> QED
        BY <4>2
    <3> HIDE DEF W
    <3> QED
      BY <2>3, <3>1, <3>3, <3>4, MissSymbolKeeps
  <2>6. CASE ReadNumFaults
    <3>1. pc = "loop" /\ ~Readable(DigitsTo) /\ Fault(<<>>)
      BY <2>6 DEF ReadNumFaults
    <3>2. AtWord
      BY <2>3, <3>1
    <3>3. DigitsFrom \in str .. W /\ DigitsTo \in DigitsFrom .. W
      BY <3>2, DigitsBounds
    <3> HIDE DEF W
    <3>4. full /\ Stop = Len(text) + 1
      BY <2>1, <2>3, <3>1, <3>3 DEF Readable
    <3>5. out \o <<>> = Prefix(str - 1)
      BY <2>3, <3>1, ConcatEmptySeq
    <3> QED
      BY <2>1, <2>3, <3>1, <3>4, <3>5, FaultKeeps
  <2>7. CASE UNCHANGED bizzVars
    <3>1. text' = text /\ full' = full /\ pc' = pc /\ str' = str /\ out' = out
      BY <2>7 DEF bizzVars
    <3>2. Stop' = Stop /\ \A i : Prefix(i)' = Prefix(i) /\ IsBlank(i)' = IsBlank(i)
      BY <3>1, TextStays
    <3>3. Prefix(str - 1)' = Prefix(str - 1)
      BY <3>1, <3>2
    <3>4. IsBlank(str)' = IsBlank(str) /\ IsBlank(str - 1)' = IsBlank(str - 1)
      BY <3>1, <3>2
    <3>5. AtWord' <=> AtWord
      BY <3>1, <3>2, <3>4 DEF AtWord
    <3> QED
      BY <3>1, <3>2, <3>3, <3>5 DEF BizzInv
  <2> QED
    BY <2>2, <2>4, <2>5, <2>6, <2>7 DEF BizzNext
<1> QED
  BY <1>1, <1>2, PTL DEF BizzSpec

\* Every file is translated, of whatever length: a file with an end of its own (a zero or EOF,
\* or the zeros of its last page) up to that end, with the divisors of its numbers in their
\* place.  Of one that fills its pages without an end only this is said: it is translated
\* together with what is mapped behind it, and the program may fault where nothing is, when
\* it has written a part of that (file.c:125-255).
THEOREM TextTranslated == BizzSpec => []Translated
<1>1. BizzInv /\ FileInv => Translated
  <2> SUFFICES ASSUME BizzInv, FileInv PROVE Translated
    OBVIOUS
  <2>1. text \in Seq(Symbols) /\ Translation = Prefix(Stop - 1)
    BY DEF BizzInv, Translation, Prefix
  <2>2. pc = "done" => out = Translation
    BY <2>1 DEF BizzInv
  <2>3. ASSUME pc = "fault" PROVE full /\ Stop = Len(text) + 1 /\ IsPrefix(out, Translation)
    <3>1. full /\ Stop = Len(text) + 1
      BY <2>3 DEF BizzInv
    <3>2. PICK m \in 0 .. Len(text) : out = Prefix(m)
      BY <2>3 DEF BizzInv
    <3>3. Len(text) \in 0 .. Len(text) /\ Stop - 1 = Len(text)
      BY <2>1, <3>1
    <3> QED
      BY <2>1, <3>1, <3>2, <3>3, PrefixGrows
  <2>4. ASSUME HasEnd PROVE pc # "fault" /\ Stop <= Len(file) + 1
    <3>1. /\ Len(text) \in Nat /\ Stop \in 1 .. Len(text) + 1
          /\ \A k \in 1 .. Stop - 1 : ~Ends(At(k))
      BY <2>1, StopFacts, Places
    <3>2. CASE ~full
      BY <2>3, <3>1, <3>2 DEF FileInv
    <3>3. CASE full
      <4>1. PICK i \in 1 .. Len(file) : Ends(file[i])
        BY <2>4, <3>3 DEF HasEnd, FileInv
      <4>2. i <= Len(text) /\ text[i] = file[i] /\ Len(file) \in Nat
        BY <4>1 DEF FileInv
      <4>3. Ends(At(i))
        BY <4>1, <4>2 DEF At
      <4>4. Stop <= i
        BY <3>1, <4>1, <4>2, <4>3
      <4> QED
        BY <2>3, <3>1, <4>1, <4>2, <4>4
    <3> QED
      BY <3>2, <3>3
  <2> QED
    BY <2>2, <2>3, <2>4 DEF Translated
<1> QED
  BY <1>1, BizzInvariant, FileInvariant, PTL
=============================================================================
