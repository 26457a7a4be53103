----------------------------- MODULE CrcProofs ------------------------------
(***************************************************************************)
(* The checksums of crc.cpp on frames of every length: they are divisions  *)
(* by their polynomials, what is sealed passes, and no burst that is as    *)
(* short as the checksum does.  The tables enter by TableAssumption, which *)
(* TLC evaluates entry by entry.                                           *)
(***************************************************************************)
EXTENDS Crc, WellFoundedInduction, TLAPS

-----------------------------------------------------------------------------
(***************************************************************************)
(* Induction over numbers, and the functions defined by it.                *)
(***************************************************************************)

\* A set of numbers that is not empty has a least one.
LEMMA LeastNumber ==
  ASSUME NEW T \in SUBSET Nat, T # {}
  PROVE  \E x \in T : \A y \in T : x <= y
<1> DEFINE Less == {ss \in Nat \X Nat : ss[1] < ss[2]}
<1>1. PICK x \in T : \A y \in T : ~ (<<y, x>> \in Less)
  <2>1. IsWellFoundedOn(Less, Nat)
    BY NatLessThanWellFounded, Zenon DEF OpToRel
  <2> HIDE DEF Less
  <2> QED
    BY <2>1, WFMin
<1>2. ASSUME NEW y \in T PROVE x <= y
  <2>1. x \in Nat /\ y \in Nat
    OBVIOUS
  <2>2. y < x => <<y, x>> \in Less
    BY <2>1
  <2> QED
    BY <1>1, <2>1, <2>2
<1> QED
  BY <1>2

\* A set with 0 and the successor of each of its numbers has them all.
LEMMA SetInduction ==
  ASSUME NEW S, 0 \in S, \A n \in Nat : n \in S => n + 1 \in S
  PROVE  Nat \subseteq S
<1> DEFINE T == Nat \ S
<1> SUFFICES ASSUME T # {} PROVE FALSE
  OBVIOUS
<1>1. PICK x \in T : \A y \in T : x <= y
  <2>1. T \in SUBSET Nat
    OBVIOUS
  <2> HIDE DEF T
  <2> QED
    BY <2>1, LeastNumber
<1>2. x \in Nat /\ x # 0 /\ x - 1 \in Nat
  OBVIOUS
<1>3. x - 1 \in T
  <2>1. (x - 1) + 1 = x
    BY <1>2
  <2> QED
    BY <1>2, <2>1
<1> QED
  BY <1>1, <1>2, <1>3

\* The same up to n.
LEMMA InductionUpTo ==
  ASSUME NEW n \in Nat, NEW S, 0 \in S, \A i \in 1 .. n : i - 1 \in S => i \in S
  PROVE  0 .. n \subseteq S
<1> DEFINE T == {i \in Nat : i <= n => i \in S}
<1>1. 0 \in T
  OBVIOUS
<1>2. ASSUME NEW i \in Nat, i \in T PROVE i + 1 \in T
  <2>1. CASE i + 1 <= n
    <3>1. i + 1 \in 1 .. n /\ (i + 1) - 1 = i /\ i \in S
      BY <1>2, <2>1
    <3>2. i + 1 \in S
      BY <3>1
    <3> QED
      BY <3>2
  <2> QED
    BY <2>1
<1>3. Nat \subseteq T
  <2> HIDE DEF T
  <2> QED
    BY <1>1, <1>2, SetInduction
<1> QED
  BY <1>3

\* f starts with a and goes on by the step h.
IsCourse(f, n, a, h) == f[0] = a /\ \A i \in 1 .. n : f[i] = h[i][f[i - 1]]

\* Such a function exists: what a recursive definition describes.
LEMMA RecursionUpTo ==
  ASSUME NEW n \in Nat, NEW A, NEW a \in A, NEW h \in [1 .. n -> [A -> A]]
  PROVE  \E f \in [0 .. n -> A] : IsCourse(f, n, a, h)
<1> DEFINE Good(m, f) == f[0] = a /\ \A i \in 1 .. m : f[i] = h[i][f[i - 1]]
           S == {m \in 0 .. n : \E f \in [0 .. m -> A] : Good(m, f)}
<1>1. 0 \in S
  <2> DEFINE f == [i \in 0 .. 0 |-> a]
  <2>1. f \in [0 .. 0 -> A] /\ Good(0, f)
    OBVIOUS
  <2> HIDE DEF f, Good
  <2> QED
    BY <2>1
<1>2. ASSUME NEW m \in 1 .. n, m - 1 \in S PROVE m \in S
  <2>1. PICK f \in [0 .. m - 1 -> A] : Good(m - 1, f)
    BY <1>2
  <2> DEFINE g == [i \in 0 .. m |-> IF i = m THEN h[m][f[m - 1]] ELSE f[i]]
  <2>2. f[m - 1] \in A /\ h[m][f[m - 1]] \in A
    <3>1. m - 1 \in 0 .. m - 1
      OBVIOUS
    <3>2. f[m - 1] \in A
      BY <2>1, <3>1
    <3> QED
      BY <3>2
  <2>3. g \in [0 .. m -> A]
    BY <2>1, <2>2
  <2>4. Good(m, g)
    <3>1. g[0] = a
      BY <2>1
    <3>2. ASSUME NEW i \in 1 .. m PROVE g[i] = h[i][g[i - 1]]
      <4>1. CASE i = m
        <5>1. g[i] = h[m][f[m - 1]] /\ g[m - 1] = f[m - 1]
          BY <4>1
        <5> QED
          BY <4>1, <5>1
      <4>2. CASE i # m
        <5>1. i \in 1 .. m - 1 /\ g[i] = f[i] /\ g[i - 1] = f[i - 1]
          BY <4>2
        <5> QED
          BY <2>1, <5>1
      <4> QED
        BY <4>1, <4>2
    <3> HIDE DEF g
    <3> QED
      BY <3>1, <3>2
  <2> HIDE DEF g, Good
  <2> QED
    BY <2>3, <2>4
<1>3. 0 .. n \subseteq S
  <2> HIDE DEF S
  <2> QED
    BY <1>1, <1>2, InductionUpTo
<1> HIDE DEF Good
<1>4. \E f \in [0 .. n -> A] : Good(n, f)
  BY <1>3
<1> QED
  BY <1>4 DEF IsCourse, Good

\* c goes on by the step h as long as it is in A.
Follows(c, n, A, h) == \A i \in 1 .. n : c[i - 1] \in A => c[i] = h[i][c[i - 1]]

\* Then it never leaves A.
LEMMA CourseStays ==
  ASSUME NEW n \in Nat, NEW A, NEW a \in A, NEW h \in [1 .. n -> [A -> A]], NEW c, c[0] = a,
         Follows(c, n, A, h)
  PROVE  \A i \in 0 .. n : c[i] \in A
<1> DEFINE S == {i \in 0 .. n : c[i] \in A}
<1>1. 0 \in S
  OBVIOUS
<1>2. ASSUME NEW i \in 1 .. n, i - 1 \in S PROVE i \in S
  BY <1>2 DEF Follows
<1>3. 0 .. n \subseteq S
  <2> HIDE DEF S
  <2> QED
    BY <1>1, <1>2, InductionUpTo
<1> QED
  BY <1>3

-----------------------------------------------------------------------------
(***************************************************************************)
(* A bit of a message and the register.                                    *)
(***************************************************************************)

\* The sum of two words is a word, bit by bit.
LEMMA XorWord ==
  ASSUME NEW W \in Nat, NEW x \in Word(W), NEW y \in Word(W)
  PROVE  /\ Xor(x, y) \in Word(W)
         /\ \A k \in 0 .. W - 1 : Xor(x, y)[k] = (x[k] + y[k]) % 2
<1> QED
  BY DEF Word, Xor

\* A shift moves each bit down and adds the polynomial if a 1 fell out.
LEMMA ShiftWord ==
  ASSUME NEW W \in Nat \ {0}, NEW r \in Word(W), NEW p \in Word(W)
  PROVE  /\ Shift(r, p) \in Word(W)
         /\ r[0] = 0 => \A k \in 0 .. W - 1 : Shift(r, p)[k] = Bit(r, k + 1)
         /\ r[0] = 1 => \A k \in 0 .. W - 1 : Shift(r, p)[k] = (Bit(r, k + 1) + p[k]) % 2
<1>1. Half(r) \in Word(W)
  BY DEF Half, Word, Bit
<1>2. \A k \in 0 .. W - 1 : Half(r)[k] = Bit(r, k + 1)
  BY DEF Half, Word
<1>4. CASE r[0] = 1
  BY <1>1, <1>2, <1>4, XorWord DEF Shift
<1>5. CASE r[0] = 0
  BY <1>1, <1>2, <1>5 DEF Shift
<1>6. r[0] \in {0, 1}
  BY DEF Word
<1> QED
  BY <1>4, <1>5, <1>6

\* The register after one bit: halved, and the polynomial added if the bit that
\* falls out and that of the message differ.
LEMMA StepWord ==
  ASSUME NEW W \in Nat \ {0}, NEW r \in Word(W), NEW p \in Word(W), NEW b \in {0, 1}
  PROVE  /\ Step(r, b, p) \in Word(W)
         /\ r[0] = b => \A k \in 0 .. W - 1 : Step(r, b, p)[k] = Bit(r, k + 1)
         /\ r[0] # b => \A k \in 0 .. W - 1 : Step(r, b, p)[k] = (Bit(r, k + 1) + p[k]) % 2
<1> DEFINE fed == [r EXCEPT ![0] = (@ + b) % 2]
<1>1. r[0] \in {0, 1}
  BY DEF Word
<1>2. /\ fed \in Word(W)
      /\ fed[0] = IF r[0] = b THEN 0 ELSE 1
      /\ \A k \in 0 .. W - 1 : Bit(fed, k + 1) = Bit(r, k + 1)
  BY <1>1 DEF Word, Bit
<1>3. Step(r, b, p) = Shift(fed, p)
  BY Zenon DEF Step
<1> HIDE DEF fed
<1> QED
  BY <1>2, <1>3, ShiftWord

\* A word has zeros above it.
LEMMA BitWord ==
  ASSUME NEW W \in Nat \ {0}, NEW r \in Word(W)
  PROVE  /\ \A k \in 0 .. W - 1 : Bit(r, k) = r[k] /\ r[k] \in {0, 1}
         /\ \A k \in Nat : k >= W => Bit(r, k) = 0
<1> QED
  BY DEF Word, Bit

\* A polynomial whose lowest term is 1 has its last bit set.
Monic(p, W) == p \in Word(W) /\ p[W - 1] = 1

\* What a step did can be read from the register after it.
LEMMA StepBack ==
  ASSUME NEW W \in Nat \ {0}, NEW p, Monic(p, W),
         NEW r \in Word(W), NEW b \in {0, 1}, NEW s \in Word(W), NEW c \in {0, 1},
         NEW m \in 0 .. W - 1,
         \A k \in m .. W - 1 : Step(r, b, p)[k] = Step(s, c, p)[k]
  PROVE  /\ r[0] = b <=> s[0] = c
         /\ \A k \in m + 1 .. W - 1 : r[k] = s[k]
<1> USE DEF Monic
<1>1. W - 1 \in m .. W - 1 /\ W - 1 \in 0 .. W - 1 /\ Bit(r, W) = 0 /\ Bit(s, W) = 0
  BY BitWord
<1>2. /\ Step(r, b, p)[W - 1] = IF r[0] = b THEN 0 ELSE 1
      /\ Step(s, c, p)[W - 1] = IF s[0] = c THEN 0 ELSE 1
  BY <1>1, StepWord
<1>3. r[0] = b <=> s[0] = c
  BY <1>1, <1>2
<1>4. ASSUME NEW k \in m + 1 .. W - 1 PROVE r[k] = s[k]
  <2>1. k - 1 \in m .. W - 1 /\ k - 1 \in 0 .. W - 1 /\ k \in 0 .. W - 1 /\ (k - 1) + 1 = k
    OBVIOUS
  <2>2. r[k] \in {0, 1} /\ s[k] \in {0, 1} /\ Bit(r, k) = r[k] /\ Bit(s, k) = s[k] /\ p[k - 1] \in {0, 1}
    BY <2>1, BitWord
  <2>3. Step(r, b, p)[k - 1] = Step(s, c, p)[k - 1]
    BY <2>1
  <2>4. CASE r[0] = b
    <3>1. Step(r, b, p)[k - 1] = r[k] /\ Step(s, c, p)[k - 1] = s[k]
      BY <1>3, <2>1, <2>2, <2>4, StepWord
    <3> QED
      BY <2>3, <3>1
  <2>5. CASE r[0] # b
    <3>1. Step(r, b, p)[k - 1] = (r[k] + p[k - 1]) % 2 /\ Step(s, c, p)[k - 1] = (s[k] + p[k - 1]) % 2
      BY <1>3, <2>1, <2>2, <2>5, StepWord
    <3> QED
      BY <2>2, <2>3, <3>1
  <2> QED
    BY <2>4, <2>5
<1> QED
  BY <1>3, <1>4

\* Words are equal if their bits are.
LEMMA WordEqual ==
  ASSUME NEW W \in Nat \ {0}, NEW r \in Word(W), NEW s \in Word(W),
         \A k \in 0 .. W - 1 : r[k] = s[k]
  PROVE  r = s
<1> QED
  BY DEF Word

\* With the same bit of the message, different registers stay different.
LEMMA StepInjective ==
  ASSUME NEW W \in Nat \ {0}, NEW p, Monic(p, W), NEW b \in {0, 1},
         NEW r \in Word(W), NEW s \in Word(W), Step(r, b, p) = Step(s, b, p)
  PROVE  r = s
<1>1. 0 \in 0 .. W - 1 /\ \A k \in 0 .. W - 1 : Step(r, b, p)[k] = Step(s, b, p)[k]
  OBVIOUS
<1>2. (r[0] = b <=> s[0] = b) /\ \A k \in 1 .. W - 1 : r[k] = s[k]
  BY <1>1, StepBack
<1>3. r[0] \in {0, 1} /\ s[0] \in {0, 1}
  BY DEF Word
<1>4. \A k \in 0 .. W - 1 : r[k] = s[k]
  BY <1>2, <1>3
<1> QED
  BY <1>4, WordEqual

-----------------------------------------------------------------------------
(***************************************************************************)
(* Two messages and their registers.                                       *)
(***************************************************************************)

\* reg[i] is the register after i bits of the message s.
Run(reg, s, n, p, W) ==
  /\ reg \in [0 .. n -> Word(W)]
  /\ s \in [1 .. n -> {0, 1}]
  /\ \A i \in 1 .. n : reg[i] = Step(reg[i - 1], s[i], p)

\* Two messages have the same bits after the first a, up to the e-th.
Agree(s, t, a, e) == \A i \in a + 1 .. e : s[i] = t[i]

\* Registers that start alike and get the same bits stay alike,
LEMMA RunForward ==
  ASSUME NEW W, NEW p, NEW n \in Nat, NEW m \in Nat, NEW a \in 0 .. n, a \in 0 .. m,
         NEW reg, NEW s, Run(reg, s, n, p, W),
         NEW gre, NEW t, Run(gre, t, m, p, W),
         reg[0] = gre[0], Agree(s, t, 0, a)
  PROVE  reg[a] = gre[a]
<1> DEFINE S == {i \in 0 .. a : reg[i] = gre[i]}
<1>1. 0 \in S
  OBVIOUS
<1>2. ASSUME NEW i \in 1 .. a, i - 1 \in S PROVE i \in S
  <2>1. i \in 1 .. n /\ i \in 1 .. m /\ reg[i - 1] = gre[i - 1] /\ s[i] = t[i]
    BY <1>2 DEF Agree
  <2>2. reg[i] = Step(reg[i - 1], s[i], p) /\ gre[i] = Step(gre[i - 1], t[i], p)
    BY <2>1 DEF Run
  <2> QED
    BY <2>1, <2>2
<1>3. 0 .. a \subseteq S
  <2> HIDE DEF S
  <2> QED
    BY <1>1, <1>2, InductionUpTo
<1>4. a \in S
  <2>1. a \in 0 .. a
    OBVIOUS
  <2> QED
    BY <1>3, <2>1
<1> QED
  BY <1>4

\* and those that end alike after the same bits were alike before them.
LEMMA RunBack ==
  ASSUME NEW W \in Nat \ {0}, NEW p, Monic(p, W), NEW n \in Nat, NEW e \in 0 .. n,
         NEW reg, NEW s, Run(reg, s, n, p, W),
         NEW gre, NEW t, Run(gre, t, n, p, W),
         reg[n] = gre[n], Agree(s, t, e, n)
  PROVE  reg[e] = gre[e]
<1> DEFINE S == {k \in 0 .. n - e : reg[n - k] = gre[n - k]}
<1>1. 0 \in S
  OBVIOUS
<1>2. ASSUME NEW k \in 1 .. n - e, k - 1 \in S PROVE k \in S
  <2> DEFINE i == n - k + 1
  <2>1. i \in 1 .. n /\ i \in e + 1 .. n /\ i - 1 = n - k /\ i - 1 \in 0 .. n /\ n - (k - 1) = i
    OBVIOUS
  <2>2. reg[i] = gre[i]
    BY <1>2, <2>1
  <2> HIDE DEF i
  <2>3. reg[i] = Step(reg[i - 1], s[i], p) /\ gre[i] = Step(gre[i - 1], t[i], p) /\ s[i] = t[i]
    BY <2>1 DEF Run, Agree
  <2>4. reg[i - 1] \in Word(W) /\ gre[i - 1] \in Word(W) /\ s[i] \in {0, 1}
    BY <2>1 DEF Run
  <2>5. reg[i - 1] = gre[i - 1]
    BY <2>2, <2>3, <2>4, StepInjective
  <2> QED
    BY <2>1, <2>5
<1>3. 0 .. n - e \subseteq S
  <2> HIDE DEF S
  <2>1. n - e \in Nat
    OBVIOUS
  <2> QED
    BY <1>1, <1>2, <2>1, InductionUpTo
<1>4. n - e \in S /\ n - (n - e) = e
  <2>1. n - e \in 0 .. n - e /\ n - (n - e) = e
    OBVIOUS
  <2> HIDE DEF S
  <2> QED
    BY <1>3, <2>1
<1> QED
  BY <1>4

\* Messages that take a register to the same value within as many bits as it has
\* are the same: each step can be read from the register at the end.
LEMMA RunWindow ==
  ASSUME NEW W \in Nat \ {0}, NEW p, Monic(p, W), NEW n \in Nat,
         NEW a \in 0 .. n, NEW e \in a .. n, e - a <= W,
         NEW reg, NEW s, Run(reg, s, n, p, W),
         NEW gre, NEW t, Run(gre, t, n, p, W),
         reg[a] = gre[a], reg[e] = gre[e]
  PROVE  Agree(s, t, a, e)
<1> DEFINE Same(i) == reg[i - 1][0] = s[i] <=> gre[i - 1][0] = t[i]
           Upper(k) == \A m \in k .. W - 1 : reg[e - k][m] = gre[e - k][m]
           S == {k \in 0 .. e - a : Upper(k) /\ \A i \in e - k + 1 .. e : Same(i)}
<1>1. 0 \in S
  OBVIOUS
<1>2. ASSUME NEW k \in 1 .. e - a, k - 1 \in S PROVE k \in S
  <2> DEFINE i == e - k + 1
  <2>1. i \in 1 .. n /\ i - 1 = e - k /\ i - 1 \in 0 .. n /\ e - (k - 1) = i /\ k - 1 \in 0 .. W - 1
    OBVIOUS
  <2>2. \A m \in k - 1 .. W - 1 : reg[i][m] = gre[i][m]
    BY <1>2, <2>1
  <2>3. \A j \in e - k + 2 .. e : Same(j)
    BY <1>2
  <2>7. \A j \in e - k + 1 .. e : j = i \/ j \in e - k + 2 .. e
    OBVIOUS
  <2> HIDE DEF i
  <2>4. reg[i] = Step(reg[i - 1], s[i], p) /\ gre[i] = Step(gre[i - 1], t[i], p)
    BY <2>1 DEF Run
  <2>5. reg[i - 1] \in Word(W) /\ gre[i - 1] \in Word(W) /\ s[i] \in {0, 1} /\ t[i] \in {0, 1}
    BY <2>1 DEF Run
  <2> DEFINE l == k - 1
  <2>10. /\ l \in 0 .. W - 1 /\ l + 1 = k
         /\ \A m \in l .. W - 1 : Step(reg[i - 1], s[i], p)[m] = Step(gre[i - 1], t[i], p)[m]
    BY <2>1, <2>2, <2>4
  <2> HIDE DEF l
  <2>11. /\ reg[i - 1][0] = s[i] <=> gre[i - 1][0] = t[i]
         /\ \A m \in l + 1 .. W - 1 : reg[i - 1][m] = gre[i - 1][m]
    BY <2>5, <2>10, StepBack, SMTT(60)
  <2>6. Same(i) /\ \A m \in k .. W - 1 : reg[i - 1][m] = gre[i - 1][m]
    BY <2>10, <2>11
  <2>8. Upper(k)
    BY <2>1, <2>6
  <2>9. \A j \in e - k + 1 .. e : Same(j)
    BY <2>3, <2>6, <2>7
  <2> QED
    BY <2>8, <2>9
<1>3. 0 .. e - a \subseteq S
  <2> HIDE DEF S
  <2>1. e - a \in Nat
    OBVIOUS
  <2> QED
    BY <1>1, <1>2, <2>1, InductionUpTo
<1>4. \A i \in a + 1 .. e : Same(i)
  <2>1. e - a \in 0 .. e - a /\ e - (e - a) + 1 = a + 1
    OBVIOUS
  <2> QED
    BY <1>3, <2>1
<1> DEFINE T == {k \in 0 .. e - a : reg[a + k] = gre[a + k]}
<1> HIDE DEF S
<1>5. ASSUME NEW i \in a + 1 .. e, reg[i - 1] = gre[i - 1] PROVE s[i] = t[i] /\ reg[i] = gre[i]
  <2>1. i \in 1 .. n /\ i - 1 \in 0 .. n
    OBVIOUS
  <2>2. reg[i] = Step(reg[i - 1], s[i], p) /\ gre[i] = Step(gre[i - 1], t[i], p)
    BY <2>1 DEF Run
  <2>3. reg[i - 1] \in Word(W) /\ s[i] \in {0, 1} /\ t[i] \in {0, 1}
    BY <2>1 DEF Run
  <2>4. reg[i - 1][0] \in {0, 1}
    BY <2>3 DEF Word
  <2>5. s[i] = t[i]
    BY <1>4, <1>5, <2>3, <2>4
  <2> QED
    BY <1>5, <2>2, <2>5
<1>6. 0 .. e - a \subseteq T
  <2>1. 0 \in T
    OBVIOUS
  <2>2. ASSUME NEW k \in 1 .. e - a, k - 1 \in T PROVE k \in T
    <3>1. a + k \in a + 1 .. e /\ (a + k) - 1 = a + (k - 1)
      OBVIOUS
    <3>2. reg[(a + k) - 1] = gre[(a + k) - 1]
      BY <2>2, <3>1
    <3> QED
      BY <1>5, <3>1, <3>2
  <2>3. e - a \in Nat
    OBVIOUS
  <2> HIDE DEF T
  <2> QED
    BY <2>1, <2>2, <2>3, InductionUpTo
<1>7. ASSUME NEW i \in a + 1 .. e PROVE reg[i - 1] = gre[i - 1]
  <2>1. (i - 1) - a \in 0 .. e - a /\ a + ((i - 1) - a) = i - 1
    OBVIOUS
  <2> QED
    BY <1>6, <2>1
<1> QED
  BY <1>5, <1>7 DEF Agree

\* The last W bits of a message are those of the register before them.
Ends(reg, s, n, W) == \A k \in 0 .. W - 1 : s[n - W + k + 1] = reg[n - W][k]

\* Such an end leaves the register at zero.
LEMMA RunDrains ==
  ASSUME NEW W \in Nat \ {0}, NEW p, Monic(p, W), NEW n \in Nat, W <= n,
         NEW reg, NEW s, Run(reg, s, n, p, W), Ends(reg, s, n, W)
  PROVE  \A k \in 0 .. W - 1 : reg[n][k] = 0
<1> DEFINE at == n - W
           Left(m) == \A k \in 0 .. W - 1 : reg[at + m][k] = Bit(reg[at], m + k)
           S == {m \in 0 .. W : Left(m)}
<1>0. at \in Nat /\ at \in 0 .. n /\ at + W = n /\ reg[at] \in Word(W)
  BY DEF Run
<1>1. 0 \in S
  BY <1>0, BitWord
<1>2. ASSUME NEW m \in 1 .. W, m - 1 \in S PROVE m \in S
  <2> DEFINE i == at + m
  <2>1. i \in 1 .. n /\ i - 1 \in 0 .. n /\ i - 1 = at + (m - 1) /\ m - 1 \in 0 .. W - 1
        /\ i = n - W + (m - 1) + 1 /\ 0 \in 0 .. W - 1 /\ (m - 1) + 0 = m - 1
    BY <1>0
  <2>2. \A k \in 0 .. W - 1 : reg[i - 1][k] = Bit(reg[at], (m - 1) + k)
    BY <1>2, <2>1
  <2>3. s[i] = reg[at][m - 1]
    BY <2>1 DEF Ends
  <2> HIDE DEF i, at
  <2>4. reg[i - 1][0] = s[i]
    BY <1>0, <2>1, <2>2, <2>3, BitWord
  <2>5. reg[i] = Step(reg[i - 1], s[i], p) /\ reg[i - 1] \in Word(W) /\ s[i] \in {0, 1}
    BY <2>1 DEF Run
  <2>6. \A k \in 0 .. W - 1 : reg[i][k] = Bit(reg[i - 1], k + 1)
    BY <2>4, <2>5, StepWord DEF Monic
  <2>7. ASSUME NEW k \in 0 .. W - 1 PROVE reg[i][k] = Bit(reg[at], m + k)
    <3>1. CASE k = W - 1
      <4>1. Bit(reg[i - 1], k + 1) = 0 /\ Bit(reg[at], m + k) = 0
        BY <1>0, <2>5, <3>1, BitWord
      <4> QED
        BY <2>6, <4>1
    <3>2. CASE k # W - 1
      <4>1. k + 1 \in 0 .. W - 1 /\ (m - 1) + (k + 1) = m + k
        BY <3>2
      <4>2. Bit(reg[i - 1], k + 1) = reg[i - 1][k + 1]
        BY <2>5, <4>1, BitWord
      <4> QED
        BY <2>2, <2>6, <4>1, <4>2
    <3> QED
      BY <3>1, <3>2
  <2> QED
    BY <2>7 DEF i
<1>3. 0 .. W \subseteq S
  <2> HIDE DEF S
  <2> QED
    BY <1>1, <1>2, InductionUpTo
<1>4. Left(W) /\ at + W = n
  <2>1. W \in 0 .. W
    OBVIOUS
  <2>2. W \in S
    BY <1>3, <2>1
  <2> QED
    BY <1>0, <2>2
<1>5. \A k \in 0 .. W - 1 : Bit(reg[at], W + k) = 0
  <2> HIDE DEF at
  <2> QED
    BY <1>0, BitWord
<1> QED
  BY <1>4, <1>5

\* Two messages that end with the register's own bits do not differ in fewer
\* neighbouring bits than the register has.
LEMMA BurstShows ==
  ASSUME NEW W \in Nat \ {0}, NEW p, Monic(p, W), NEW n \in Nat, W <= n,
         NEW reg, NEW s, Run(reg, s, n, p, W),
         NEW gre, NEW t, Run(gre, t, n, p, W),
         reg[0] = gre[0], Ends(reg, s, n, W), Ends(gre, t, n, W),
         NEW a \in 0 .. n, NEW e \in a .. n, e - a <= W,
         Agree(s, t, 0, a), Agree(s, t, e, n)
  PROVE  Agree(s, t, a, e)
<1>1. reg[n] = gre[n]
  <2>1. \A k \in 0 .. W - 1 : reg[n][k] = 0
    BY RunDrains
  <2>2. \A k \in 0 .. W - 1 : gre[n][k] = 0
    BY RunDrains
  <2>3. reg[n] \in Word(W) /\ gre[n] \in Word(W)
    BY DEF Run
  <2> QED
    BY <2>1, <2>2, <2>3, WordEqual
<1>2. reg[e] = gre[e]
  <2>1. e \in 0 .. n
    OBVIOUS
  <2> QED
    BY <1>1, <2>1, RunBack
<1>3. reg[a] = gre[a]
  BY RunForward
<1> QED
  BY <1>2, <1>3, RunWindow

-----------------------------------------------------------------------------
(***************************************************************************)
(* Eight bits at once.                                                     *)
(***************************************************************************)

\* Half of a word is the word without its first bit.
LEMMA HalfWord ==
  ASSUME NEW W \in Nat \ {0}, NEW y \in Word(W)
  PROVE  /\ Half(y) \in Word(W)
         /\ \A k \in 0 .. W - 1 : Half(y)[k] = Bit(y, k + 1)
<1> QED
  BY DEF Half, Word, Bit

\* A bit of the message can be added before the shift instead, with those that
\* follow it.
LEMMA StepXor ==
  ASSUME NEW W \in Nat \ {0}, NEW p \in Word(W), NEW r \in Word(W), NEW y \in Word(W)
  PROVE  Xor(Step(r, y[0], p), Half(y)) = Shift(Xor(r, y), p)
<1> DEFINE x == Xor(r, y)
           q == Step(r, y[0], p)
<1>1. 0 \in 0 .. W - 1 /\ r[0] \in {0, 1} /\ y[0] \in {0, 1}
  BY BitWord
<1>2. x \in Word(W) /\ \A k \in 0 .. W - 1 : x[k] = (r[k] + y[k]) % 2
  BY XorWord
<1>3. x[0] = IF r[0] = y[0] THEN 0 ELSE 1
  BY <1>1, <1>2
<1>4. /\ q \in Word(W)
      /\ r[0] = y[0] => \A k \in 0 .. W - 1 : q[k] = Bit(r, k + 1)
      /\ r[0] # y[0] => \A k \in 0 .. W - 1 : q[k] = (Bit(r, k + 1) + p[k]) % 2
  BY <1>1, StepWord
<1>5. Half(y) \in Word(W) /\ \A k \in 0 .. W - 1 : Half(y)[k] = Bit(y, k + 1)
  BY HalfWord
<1> HIDE DEF x, q
<1>6. /\ Shift(x, p) \in Word(W)
      /\ r[0] = y[0] => \A k \in 0 .. W - 1 : Shift(x, p)[k] = Bit(x, k + 1)
      /\ r[0] # y[0] => \A k \in 0 .. W - 1 : Shift(x, p)[k] = (Bit(x, k + 1) + p[k]) % 2
  BY <1>1, <1>2, <1>3, ShiftWord
<1>7. /\ Xor(q, Half(y)) \in Word(W)
      /\ \A k \in 0 .. W - 1 : Xor(q, Half(y))[k] = (q[k] + Half(y)[k]) % 2
  BY <1>4, <1>5, XorWord
<1>8. ASSUME NEW k \in 0 .. W - 1 PROVE Xor(q, Half(y))[k] = Shift(x, p)[k]
  <2>1. Bit(r, k + 1) \in {0, 1} /\ Bit(y, k + 1) \in {0, 1} /\ p[k] \in {0, 1}
    BY DEF Bit, Word
  <2>2. Bit(x, k + 1) = (Bit(r, k + 1) + Bit(y, k + 1)) % 2
    BY <1>2 DEF Bit, Word
  <2>3. CASE r[0] = y[0]
    <3>1. q[k] = Bit(r, k + 1) /\ Shift(x, p)[k] = Bit(x, k + 1)
      BY <1>4, <1>6, <2>3
    <3> QED
      BY <1>5, <1>7, <2>1, <2>2, <3>1
  <2>4. CASE r[0] # y[0]
    <3>1. q[k] = (Bit(r, k + 1) + p[k]) % 2 /\ Shift(x, p)[k] = (Bit(x, k + 1) + p[k]) % 2
      BY <1>4, <1>6, <2>4
    <3>2. Half(y)[k] = Bit(y, k + 1) /\ Xor(q, Half(y))[k] = (q[k] + Half(y)[k]) % 2
      BY <1>5, <1>7
    <3> QED
      BY <2>1, <2>2, <3>1, <3>2
  <2> QED
    BY <2>3, <2>4
<1>9. Xor(q, Half(y)) = Shift(x, p)
  BY <1>6, <1>7, <1>8, WordEqual
<1> QED
  BY <1>9 DEF x, q

\* The bits of y above the first eight.
Above(u, y, W) == u \in Word(W) /\ \A k \in 0 .. W - 1 : u[k] = Bit(y, k + 8)

\* The same for the eight bits of a byte.
LEMMA EightSteps ==
  ASSUME NEW W \in Nat \ {0}, NEW p \in Word(W), NEW r \in Word(W), NEW y \in Word(W),
         NEW f, f[0] = r, \A i \in 0 .. 8 : f[i] \in Word(W),
         \A i \in 1 .. 8 : f[i] = Step(f[i - 1], Bit(y, i - 1), p),
         NEW u, Above(u, y, W)
  PROVE  Xor(f[8], u) = Shift8(Xor(r, y), p)
<1> DEFINE h(m) == [k \in 0 .. W - 1 |-> Bit(y, k + m)]
           x(m) == Xor(f[m], h(m))
<1>1. ASSUME NEW m \in 0 .. 8 PROVE h(m) \in Word(W) /\ h(m)[0] = Bit(y, m)
  <2>1. \A k \in 0 .. W - 1 : Bit(y, k + m) \in {0, 1}
    BY DEF Word, Bit
  <2>2. 0 \in 0 .. W - 1 /\ 0 + m = m
    OBVIOUS
  <2> QED
    BY <2>1, <2>2 DEF Word
<1>2. h(0) = y
  <2>1. \A k \in 0 .. W - 1 : h(0)[k] = Bit(y, k + 0) /\ k + 0 = k
    OBVIOUS
  <2>2. h(0) \in Word(W)
    BY <1>1
  <2> HIDE DEF h
  <2>3. \A k \in 0 .. W - 1 : h(0)[k] = y[k]
    BY <2>1, BitWord
  <2> QED
    BY <2>2, <2>3, WordEqual
<1>3. ASSUME NEW m \in 0 .. 7 PROVE Half(h(m)) = h(m + 1)
  <2>1. m \in 0 .. 8 /\ m + 1 \in 0 .. 8
    OBVIOUS
  <2>2. h(m) \in Word(W) /\ h(m + 1) \in Word(W)
    BY <1>1, <2>1
  <2>3. ASSUME NEW k \in 0 .. W - 1 PROVE Bit(h(m), k + 1) = h(m + 1)[k]
    <3>1. h(m + 1)[k] = Bit(y, k + (m + 1))
      OBVIOUS
    <3>2. CASE k + 1 \in 0 .. W - 1
      BY <3>1, <3>2 DEF Bit
    <3>3. CASE k = W - 1
      <4>1. Bit(h(m), k + 1) = 0
        BY <3>3 DEF Bit
      <4>2. Bit(y, k + (m + 1)) = 0
        BY <3>3, BitWord
      <4> QED
        BY <3>1, <4>1, <4>2
    <3> QED
      BY <3>2, <3>3
  <2> HIDE DEF h
  <2>4. Half(h(m)) \in Word(W) /\ \A k \in 0 .. W - 1 : Half(h(m))[k] = Bit(h(m), k + 1)
    BY <2>2, HalfWord
  <2>5. \A k \in 0 .. W - 1 : Half(h(m))[k] = h(m + 1)[k]
    BY <2>3, <2>4
  <2> QED
    BY <2>2, <2>4, <2>5, WordEqual
<1>8. h(8) = u
  <2>1. \A k \in 0 .. W - 1 : h(8)[k] = Bit(y, k + 8)
    OBVIOUS
  <2>2. h(8) \in Word(W)
    BY <1>1
  <2> HIDE DEF h
  <2>3. \A k \in 0 .. W - 1 : h(8)[k] = u[k]
    BY <2>1 DEF Above
  <2> QED
    BY <2>2, <2>3, WordEqual DEF Above
<1> HIDE DEF h
<1>4. ASSUME NEW m \in 0 .. 7 PROVE x(m + 1) = Shift(x(m), p)
  <2>1. m \in 0 .. 8 /\ m + 1 \in 1 .. 8 /\ (m + 1) - 1 = m
    OBVIOUS
  <2>2. f[m + 1] = Step(f[m], h(m)[0], p) /\ f[m] \in Word(W) /\ h(m) \in Word(W)
    BY <1>1, <2>1
  <2>3. Xor(Step(f[m], h(m)[0], p), Half(h(m))) = Shift(Xor(f[m], h(m)), p)
    BY <2>2, StepXor
  <2> QED
    BY <1>3, <2>2, <2>3
<1>5. x(0) = Xor(r, y)
  BY <1>2
<1> HIDE DEF x
<1>6. /\ x(1) = Shift(x(0), p) /\ x(2) = Shift(x(1), p)
      /\ x(3) = Shift(x(2), p) /\ x(4) = Shift(x(3), p)
      /\ x(5) = Shift(x(4), p) /\ x(6) = Shift(x(5), p)
      /\ x(7) = Shift(x(6), p) /\ x(8) = Shift(x(7), p)
  <2>1. /\ x(0 + 1) = Shift(x(0), p) /\ x(1 + 1) = Shift(x(1), p)
        /\ x(2 + 1) = Shift(x(2), p) /\ x(3 + 1) = Shift(x(3), p)
        /\ x(4 + 1) = Shift(x(4), p) /\ x(5 + 1) = Shift(x(5), p)
        /\ x(6 + 1) = Shift(x(6), p) /\ x(7 + 1) = Shift(x(7), p)
    BY <1>4
  <2> QED
    BY <2>1
<1>7. x(8) = Shift8(x(0), p)
  BY <1>6 DEF Shift8
<1> QED
  BY <1>5, <1>7, <1>8 DEF x

-----------------------------------------------------------------------------
(***************************************************************************)
(* get_crc8, get_crc16 and the division as sequences of registers.         *)
(***************************************************************************)

\* The entries are words, and eight shifts of the byte that selects them.
LEMMA TableEntries ==
  ASSUME NEW i \in Byte
  PROVE  /\ Entry8[i] \in Word(8) /\ Entry8[i] = Shift8(i, Poly8)
         /\ Entry16[i] \in Word(16) /\ Entry16[i] = Shift8(Wide(i), Poly16)
<1>1. Poly8 \in Word(8) /\ Poly16 \in Word(16)
  BY DEF Poly8, Poly16, Polynomial, Word
<1>2. ASSUME NEW W \in Nat \ {0}, NEW r \in Word(W), NEW p \in Word(W)
      PROVE  Shift8(r, p) \in Word(W)
  <2>1. \A s \in Word(W) : Shift(s, p) \in Word(W)
    BY ShiftWord
  <2> QED
    BY <2>1 DEF Shift8
<1>3. Wide(i) \in Word(16)
  BY DEF Wide, Byte, Word, Bit
<1>4. Entry8[i] = Shift8(i, Poly8) /\ Entry16[i] = Shift8(Wide(i), Poly16)
  BY TableAssumption
<1> QED
  BY <1>1, <1>2, <1>3, <1>4 DEF Byte

\* The recursive functions exist, so they are what their equations say.
LEMMA Crc8Course ==
  ASSUME NEW bytes \in Seq(Byte)
  PROVE  \E c \in [0 .. Len(bytes) -> Byte] :
           /\ c[0] = CRC8_INIT
           /\ \A n \in 1 .. Len(bytes) : c[n] = Entry8[Xor(c[n - 1], bytes[n])]
           /\ get_crc8(bytes) = c[Len(bytes)]
<1> DEFINE len == Len(bytes)
           Def(c) == c = [n \in 0 .. len |-> IF n = 0 THEN CRC8_INIT
                                             ELSE Entry8[Xor(c[n - 1], bytes[n])]]
           h == [n \in 1 .. len |-> [x \in Byte |-> Entry8[Xor(x, bytes[n])]]]
           c == CHOOSE g : Def(g)
<1>1. len \in Nat /\ \A n \in 1 .. len : n - 1 \in 0 .. len /\ n \in 0 .. len /\ n # 0
  OBVIOUS
<1>2. get_crc8(bytes) = c[len]
  BY DEF get_crc8
<1> HIDE DEF c
<1>3. CRC8_INIT \in Byte
  BY DEF CRC8_INIT, Byte, Word
<1>4. h \in [1 .. len -> [Byte -> Byte]]
  <2>1. ASSUME NEW x \in Byte, NEW y \in Byte PROVE Entry8[Xor(x, y)] \in Byte
    BY TableEntries, XorWord DEF Byte
  <2>2. \A n \in 1 .. len : bytes[n] \in Byte
    OBVIOUS
  <2> HIDE DEF len
  <2> QED
    BY <1>1, <2>1, <2>2
<1>5. \A n \in 1 .. len : \A x \in Byte : h[n][x] = Entry8[Xor(x, bytes[n])]
  OBVIOUS
<1> HIDE DEF h, len
<1>6. \E f : Def(f)
  <2>1. PICK f \in [0 .. len -> Byte] : IsCourse(f, len, CRC8_INIT, h)
    BY <1>1, <1>3, <1>4, RecursionUpTo
  <2>2. f[0] = CRC8_INIT /\ \A n \in 1 .. len : f[n] = Entry8[Xor(f[n - 1], bytes[n])]
    BY <1>1, <1>5, <2>1 DEF IsCourse
  <2>3. \A n \in 0 .. len : n = 0 \/ n \in 1 .. len
    BY <1>1
  <2>4. \A n \in 0 .. len : f[n] = IF n = 0 THEN CRC8_INIT ELSE Entry8[Xor(f[n - 1], bytes[n])]
    BY <2>2, <2>3
  <2> QED
    BY <2>1, <2>4
<1>7. Def(c)
  <2> HIDE DEF Def
  <2> QED
    BY <1>6 DEF c
<1>8. /\ c[0] = CRC8_INIT
      /\ \A n \in 1 .. len : c[n] = Entry8[Xor(c[n - 1], bytes[n])]
      /\ c = [n \in 0 .. len |-> c[n]]
  <2>1. c[0] = CRC8_INIT
    BY <1>1, <1>7
  <2>2. ASSUME NEW n \in 1 .. len PROVE c[n] = Entry8[Xor(c[n - 1], bytes[n])]
    BY <1>1, <1>7
  <2>3. c = [n \in 0 .. len |-> c[n]]
    BY <1>7
  <2> QED
    BY <2>1, <2>2, <2>3
<1>9. \A n \in 0 .. len : c[n] \in Byte
  <2>1. Follows(c, len, Byte, h)
    BY <1>5, <1>8 DEF Follows
  <2> QED
    BY <1>1, <1>3, <1>4, <1>8, <2>1, CourseStays
<1>10. c \in [0 .. len -> Byte]
  BY <1>8, <1>9
<1> QED
  BY <1>2, <1>8, <1>10 DEF len

\* The same of get_crc16.
LEMMA Crc16Course ==
  ASSUME NEW bytes \in Seq(Byte)
  PROVE  \E c \in [0 .. Len(bytes) -> Word(16)] :
           /\ c[0] = CRC16_INIT
           /\ \A n \in 1 .. Len(bytes) : c[n] = Xor(Wide(High(c[n - 1])), Entry16[Xor(Low(c[n - 1]), bytes[n])])
           /\ get_crc16(bytes) = c[Len(bytes)]
<1> DEFINE len == Len(bytes)
           Def(c) == c = [n \in 0 .. len |-> IF n = 0 THEN CRC16_INIT
                                             ELSE Xor(Wide(High(c[n - 1])), Entry16[Xor(Low(c[n - 1]), bytes[n])])]
           h == [n \in 1 .. len |-> [x \in Word(16) |-> Xor(Wide(High(x)), Entry16[Xor(Low(x), bytes[n])])]]
           c == CHOOSE g : Def(g)
<1>1. len \in Nat /\ \A n \in 1 .. len : n - 1 \in 0 .. len /\ n \in 0 .. len /\ n # 0
  OBVIOUS
<1>2. get_crc16(bytes) = c[len]
  BY DEF get_crc16
<1> HIDE DEF c
<1>3. CRC16_INIT \in Word(16)
  BY DEF CRC16_INIT, Word
<1>4. h \in [1 .. len -> [Word(16) -> Word(16)]]
  <2>1. ASSUME NEW x \in Word(16), NEW y \in Byte
        PROVE  Xor(Wide(High(x)), Entry16[Xor(Low(x), y)]) \in Word(16)
    <3>1. Wide(High(x)) \in Word(16) /\ Low(x) \in Word(8)
      BY DEF Wide, High, Low, Word, Bit
    <3>2. Xor(Low(x), y) \in Byte
      BY <3>1, XorWord DEF Byte
    <3> QED
      BY <3>1, <3>2, TableEntries, XorWord
  <2>2. \A n \in 1 .. len : bytes[n] \in Byte
    OBVIOUS
  <2> HIDE DEF len
  <2> QED
    BY <1>1, <2>1, <2>2
<1>5. \A n \in 1 .. len : \A x \in Word(16) : h[n][x] = Xor(Wide(High(x)), Entry16[Xor(Low(x), bytes[n])])
  OBVIOUS
<1> HIDE DEF h, len
<1>6. \E f : Def(f)
  <2>1. PICK f \in [0 .. len -> Word(16)] : IsCourse(f, len, CRC16_INIT, h)
    BY <1>1, <1>3, <1>4, RecursionUpTo
  <2>2. f[0] = CRC16_INIT /\ \A n \in 1 .. len : f[n] = Xor(Wide(High(f[n - 1])), Entry16[Xor(Low(f[n - 1]), bytes[n])])
    BY <1>1, <1>5, <2>1 DEF IsCourse
  <2>3. \A n \in 0 .. len : n = 0 \/ n \in 1 .. len
    BY <1>1
  <2>4. \A n \in 0 .. len : f[n] = IF n = 0 THEN CRC16_INIT ELSE Xor(Wide(High(f[n - 1])), Entry16[Xor(Low(f[n - 1]), bytes[n])])
    BY <2>2, <2>3
  <2> QED
    BY <2>1, <2>4
<1>7. Def(c)
  <2> HIDE DEF Def
  <2> QED
    BY <1>6 DEF c
<1>8. /\ c[0] = CRC16_INIT
      /\ \A n \in 1 .. len : c[n] = Xor(Wide(High(c[n - 1])), Entry16[Xor(Low(c[n - 1]), bytes[n])])
      /\ c = [n \in 0 .. len |-> c[n]]
  <2>1. c[0] = CRC16_INIT
    BY <1>1, <1>7
  <2>2. ASSUME NEW n \in 1 .. len PROVE c[n] = Xor(Wide(High(c[n - 1])), Entry16[Xor(Low(c[n - 1]), bytes[n])])
    BY <1>1, <1>7
  <2>3. c = [n \in 0 .. len |-> c[n]]
    BY <1>7
  <2> QED
    BY <2>1, <2>2, <2>3
<1>9. \A n \in 0 .. len : c[n] \in Word(16)
  <2>1. Follows(c, len, Word(16), h)
    BY <1>5, <1>8 DEF Follows
  <2> QED
    BY <1>1, <1>3, <1>4, <1>8, <2>1, CourseStays
<1>10. c \in [0 .. len -> Word(16)]
  BY <1>8, <1>9
<1> QED
  BY <1>2, <1>8, <1>10 DEF len

\* The bits of a frame are bits.
LEMMA BitOfFrame ==
  ASSUME NEW bytes \in Seq(Byte), NEW i \in 1 .. 8 * Len(bytes)
  PROVE  BitOf(bytes, i - 1) \in {0, 1}
<1>1. ((i - 1) \div 8) + 1 \in 1 .. Len(bytes) /\ (i - 1) % 8 \in 0 .. 7
  OBVIOUS
<1> QED
  BY <1>1 DEF BitOf, Byte, Word

\* The division as a sequence of registers, one per bit.
LEMMA DivideCourse ==
  ASSUME NEW bytes \in Seq(Byte), NEW W \in Nat \ {0}, NEW p \in Word(W), NEW r \in Word(W)
  PROVE  \E c \in [0 .. 8 * Len(bytes) -> Word(W)] :
           /\ c[0] = r
           /\ \A n \in 1 .. 8 * Len(bytes) : c[n] = Step(c[n - 1], BitOf(bytes, n - 1), p)
           /\ Divide(bytes, r, p) = c[8 * Len(bytes)]
<1> DEFINE len == 8 * Len(bytes)
           Def(c) == c = [n \in 0 .. len |-> IF n = 0 THEN r
                                             ELSE Step(c[n - 1], BitOf(bytes, n - 1), p)]
           h == [n \in 1 .. len |-> [x \in Word(W) |-> Step(x, BitOf(bytes, n - 1), p)]]
           c == CHOOSE g : Def(g)
<1>1. len \in Nat /\ \A n \in 1 .. len : n - 1 \in 0 .. len /\ n \in 0 .. len /\ n # 0
  OBVIOUS
<1>2. Divide(bytes, r, p) = c[len]
  BY DEF Divide
<1> HIDE DEF c
<1>3. r \in Word(W)
  OBVIOUS
<1>4. h \in [1 .. len -> [Word(W) -> Word(W)]]
  <2>1. ASSUME NEW n \in 1 .. len PROVE BitOf(bytes, n - 1) \in {0, 1}
    BY BitOfFrame
  <2>2. ASSUME NEW x \in Word(W), NEW b \in {0, 1} PROVE Step(x, b, p) \in Word(W)
    BY StepWord
  <2> HIDE DEF len
  <2> QED
    BY <1>1, <2>1, <2>2
<1>5. \A n \in 1 .. len : \A x \in Word(W) : h[n][x] = Step(x, BitOf(bytes, n - 1), p)
  OBVIOUS
<1> HIDE DEF h, len
<1>6. \E f : Def(f)
  <2>1. PICK f \in [0 .. len -> Word(W)] : IsCourse(f, len, r, h)
    BY <1>1, <1>3, <1>4, RecursionUpTo
  <2>2. f[0] = r /\ \A n \in 1 .. len : f[n] = Step(f[n - 1], BitOf(bytes, n - 1), p)
    BY <1>1, <1>5, <2>1 DEF IsCourse
  <2>3. \A n \in 0 .. len : n = 0 \/ n \in 1 .. len
    BY <1>1
  <2>4. \A n \in 0 .. len : f[n] = IF n = 0 THEN r ELSE Step(f[n - 1], BitOf(bytes, n - 1), p)
    BY <2>2, <2>3
  <2> QED
    BY <2>1, <2>4
<1>7. Def(c)
  <2> HIDE DEF Def
  <2> QED
    BY <1>6 DEF c
<1>8. /\ c[0] = r
      /\ \A n \in 1 .. len : c[n] = Step(c[n - 1], BitOf(bytes, n - 1), p)
      /\ c = [n \in 0 .. len |-> c[n]]
  <2>1. c[0] = r
    BY <1>1, <1>7
  <2>2. ASSUME NEW n \in 1 .. len PROVE c[n] = Step(c[n - 1], BitOf(bytes, n - 1), p)
    BY <1>1, <1>7
  <2>3. c = [n \in 0 .. len |-> c[n]]
    BY <1>7
  <2> QED
    BY <2>1, <2>2, <2>3
<1>9. \A n \in 0 .. len : c[n] \in Word(W)
  <2>1. Follows(c, len, Word(W), h)
    BY <1>5, <1>8 DEF Follows
  <2> QED
    BY <1>1, <1>3, <1>4, <1>8, <2>1, CourseStays
<1>10. c \in [0 .. len -> Word(W)]
  BY <1>8, <1>9
<1> QED
  BY <1>2, <1>8, <1>10 DEF len

\* The bits of a frame in the order they are sent.
BitsOf(bytes) == [i \in 1 .. 8 * Len(bytes) |-> BitOf(bytes, i - 1)]

\* That sequence is a run over the bits of the frame.
LEMMA DivideRun ==
  ASSUME NEW bytes \in Seq(Byte), NEW W \in Nat \ {0}, NEW p \in Word(W), NEW r \in Word(W)
  PROVE  \E g : /\ Run(g, BitsOf(bytes), 8 * Len(bytes), p, W)
                /\ g[0] = r /\ Divide(bytes, r, p) = g[8 * Len(bytes)]
<1> DEFINE n == 8 * Len(bytes)
<1>1. PICK g \in [0 .. n -> Word(W)] :
        /\ g[0] = r
        /\ \A i \in 1 .. n : g[i] = Step(g[i - 1], BitOf(bytes, i - 1), p)
        /\ Divide(bytes, r, p) = g[n]
  BY DivideCourse
<1>2. BitsOf(bytes) \in [1 .. n -> {0, 1}]
  BY BitOfFrame DEF BitsOf
<1>3. \A i \in 1 .. n : BitsOf(bytes)[i] = BitOf(bytes, i - 1)
  BY DEF BitsOf
<1>4. Run(g, BitsOf(bytes), n, p, W)
  <2> HIDE DEF n
  <2> QED
    BY <1>1, <1>2, <1>3 DEF Run
<1> QED
  BY <1>1, <1>4

\* Bit k of the n-th byte in the order of the line.
LEMMA BitsOfByte ==
  ASSUME NEW bytes \in Seq(Byte), NEW n \in 1 .. Len(bytes), NEW k \in 0 .. 7
  PROVE  /\ 8 * (n - 1) + k + 1 \in 1 .. 8 * Len(bytes)
         /\ BitsOf(bytes)[8 * (n - 1) + k + 1] = bytes[n][k]
<1>1. 8 * (n - 1) + k + 1 \in 1 .. 8 * Len(bytes)
  OBVIOUS
<1>2. (8 * (n - 1) + k + 1) - 1 = 8 * (n - 1) + k
  OBVIOUS
<1>3. ((8 * (n - 1) + k) \div 8) + 1 = n /\ (8 * (n - 1) + k) % 8 = k
  OBVIOUS
<1> QED
  BY <1>1, <1>2, <1>3 DEF BitsOf, BitOf

\* The byte b as a word of W bits.
Padded(y, b, W) ==
  /\ y \in Word(W)
  /\ \A k \in 0 .. 7 : Bit(y, k) = b[k]
  /\ \A k \in 0 .. W - 1 : Bit(y, k + 8) = 0

\* What eight steps of the division do with a byte.
LEMMA ByteSteps ==
  ASSUME NEW bytes \in Seq(Byte), NEW W \in Nat \ {0}, NEW p \in Word(W),
         NEW g, Run(g, BitsOf(bytes), 8 * Len(bytes), p, W),
         NEW n \in 1 .. Len(bytes), NEW y, Padded(y, bytes[n], W)
  PROVE  g[8 * n] = Shift8(Xor(g[8 * (n - 1)], y), p)
<1> USE DEF Padded
<1> DEFINE f == [i \in 0 .. 8 |-> g[8 * (n - 1) + i]]
<1>1. ASSUME NEW i \in 0 .. 8 PROVE f[i] \in Word(W)
  <2>1. 8 * (n - 1) + i \in 0 .. 8 * Len(bytes)
    OBVIOUS
  <2>2. g \in [0 .. 8 * Len(bytes) -> Word(W)]
    BY DEF Run
  <2>3. g[8 * (n - 1) + i] \in Word(W)
    BY <2>1, <2>2
  <2> QED
    BY <2>3
<1>2. f[0] = g[8 * (n - 1)] /\ f[8] = g[8 * n]
  <2>1. 8 * (n - 1) + 0 = 8 * (n - 1) /\ 8 * (n - 1) + 8 = 8 * n
    OBVIOUS
  <2>2. f[0] = g[8 * (n - 1) + 0] /\ f[8] = g[8 * (n - 1) + 8]
    OBVIOUS
  <2> QED
    BY <2>1, <2>2
<1>3. ASSUME NEW i \in 1 .. 8 PROVE f[i] = Step(f[i - 1], Bit(y, i - 1), p)
  <2> DEFINE j == 8 * (n - 1) + i
             k == i - 1
  <2>1. /\ k \in 0 .. 7 /\ j = 8 * (n - 1) + k + 1 /\ j - 1 = 8 * (n - 1) + (i - 1)
        /\ i \in 0 .. 8 /\ i - 1 \in 0 .. 8
    OBVIOUS
  <2>2. j \in 1 .. 8 * Len(bytes) /\ BitsOf(bytes)[j] = bytes[n][i - 1]
    <3>1. k \in 0 .. 7
      BY <2>1
    <3> HIDE DEF k, j
    <3>2. /\ 8 * (n - 1) + k + 1 \in 1 .. 8 * Len(bytes)
          /\ BitsOf(bytes)[8 * (n - 1) + k + 1] = bytes[n][k]
      BY <3>1, BitsOfByte
    <3> QED
      BY <2>1, <3>2 DEF k
  <2>3. f[i] = g[j] /\ f[i - 1] = g[j - 1]
    BY <2>1
  <2> HIDE DEF f, j
  <2>4. g[j] = Step(g[j - 1], BitsOf(bytes)[j], p)
    BY <2>2 DEF Run
  <2>5. Bit(y, i - 1) = bytes[n][i - 1]
    BY <2>1
  <2> QED
    BY <2>2, <2>3, <2>4, <2>5
<1> HIDE DEF f
<1> DEFINE zero == [k \in 0 .. W - 1 |-> 0]
<1>4. zero \in Word(W) /\ \A k \in 0 .. W - 1 : zero[k] = 0
  BY DEF Word
<1> HIDE DEF zero
<1>5. Xor(f[8], zero) = Shift8(Xor(f[0], y), p)
  <2>1. f[0] \in Word(W) /\ \A i \in 0 .. 8 : f[i] \in Word(W)
    BY <1>1
  <2>2. \A i \in 1 .. 8 : f[i] = Step(f[i - 1], Bit(y, i - 1), p)
    BY <1>3
  <2>3. Above(zero, y, W)
    BY <1>4 DEF Above
  <2> DEFINE r == f[0]
  <2>4. f[0] = r /\ r \in Word(W)
    BY <2>1
  <2> HIDE DEF r
  <2>5. Xor(f[8], zero) = Shift8(Xor(r, y), p)
    BY <2>1, <2>2, <2>3, <2>4, EightSteps, SMTT(60)
  <2> QED
    BY <2>4, <2>5
<1>6. Xor(f[8], zero) = f[8]
  <2>1. f[8] \in Word(W)
    BY <1>1
  <2>2. /\ Xor(f[8], zero) \in Word(W)
        /\ \A k \in 0 .. W - 1 : Xor(f[8], zero)[k] = (f[8][k] + zero[k]) % 2
    BY <1>4, <2>1, XorWord
  <2>3. \A k \in 0 .. W - 1 : Xor(f[8], zero)[k] = f[8][k]
    <3>1. \A k \in 0 .. W - 1 : f[8][k] \in {0, 1}
      BY <2>1 DEF Word
    <3> QED
      BY <1>4, <2>2, <3>1
  <2> QED
    BY <2>1, <2>2, <2>3, WordEqual
<1> QED
  BY <1>2, <1>5, <1>6

\* Both polynomials have the lowest term.
LEMMA Polynomials ==
  /\ Monic(Poly8, 8) /\ Monic(Poly16, 16)
  /\ CRC8_INIT \in Word(8) /\ CRC16_INIT \in Word(16)
<1> QED
  BY DEF Monic, Poly8, Poly16, Polynomial, Word, CRC8_INIT, CRC16_INIT

\* get_crc8 is the division, byte by byte.
LEMMA Table8IsDivision ==
  ASSUME NEW bytes \in Seq(Byte)
  PROVE  get_crc8(bytes) = Divide(bytes, CRC8_INIT, Poly8)
<1> DEFINE len == Len(bytes)
<1>1. PICK c \in [0 .. len -> Byte] :
        /\ c[0] = CRC8_INIT
        /\ \A n \in 1 .. len : c[n] = Entry8[Xor(c[n - 1], bytes[n])]
        /\ get_crc8(bytes) = c[len]
  BY Crc8Course
<1>2. PICK g : /\ Run(g, BitsOf(bytes), 8 * len, Poly8, 8)
               /\ g[0] = CRC8_INIT /\ Divide(bytes, CRC8_INIT, Poly8) = g[8 * len]
  BY Polynomials, DivideRun DEF Monic
<1> DEFINE S == {n \in 0 .. len : c[n] = g[8 * n]}
<1>3. 0 \in S
  BY <1>1, <1>2
<1>4. ASSUME NEW n \in 1 .. len, n - 1 \in S PROVE n \in S
  <2>1. c[n - 1] = g[8 * (n - 1)] /\ c[n - 1] \in Word(8) /\ bytes[n] \in Word(8)
    BY <1>4 DEF Byte
  <2>2. Padded(bytes[n], bytes[n], 8)
    BY <2>1, BitWord DEF Padded
  <2>3. g[8 * n] = Shift8(Xor(g[8 * (n - 1)], bytes[n]), Poly8)
    <3>1. Poly8 \in Word(8) /\ 8 \in Nat \ {0}
      BY Polynomials DEF Monic
    <3> QED
      BY <1>2, <2>2, <3>1, ByteSteps
  <2>4. Xor(c[n - 1], bytes[n]) \in Byte
    BY <2>1, XorWord DEF Byte
  <2>5. c[n] = Shift8(Xor(c[n - 1], bytes[n]), Poly8)
    BY <1>1, <2>4, TableEntries
  <2> QED
    BY <2>1, <2>3, <2>5
<1>5. 0 .. len \subseteq S
  <2>1. len \in Nat
    OBVIOUS
  <2> HIDE DEF S, len
  <2> QED
    BY <1>3, <1>4, <2>1, InductionUpTo
<1>6. len \in S
  <2>1. len \in 0 .. len
    OBVIOUS
  <2> QED
    BY <1>5, <2>1
<1> QED
  BY <1>1, <1>2, <1>6

\* Sums do not depend on the order.
LEMMA XorCommutes ==
  ASSUME NEW W \in Nat \ {0}, NEW x \in Word(W), NEW y \in Word(W)
  PROVE  Xor(x, y) = Xor(y, x)
<1>1. /\ Xor(x, y) \in Word(W) /\ Xor(y, x) \in Word(W)
      /\ \A k \in 0 .. W - 1 : Xor(x, y)[k] = (x[k] + y[k]) % 2
      /\ \A k \in 0 .. W - 1 : Xor(y, x)[k] = (y[k] + x[k]) % 2
  BY XorWord
<1>2. \A k \in 0 .. W - 1 : x[k] \in {0, 1} /\ y[k] \in {0, 1}
  BY DEF Word
<1>3. \A k \in 0 .. W - 1 : Xor(x, y)[k] = Xor(y, x)[k]
  BY <1>1, <1>2
<1> QED
  BY <1>1, <1>3, WordEqual

\* A shift is a step with a bit 0.
LEMMA ShiftIsStep ==
  ASSUME NEW W \in Nat \ {0}, NEW p \in Word(W), NEW r \in Word(W)
  PROVE  Step(r, 0, p) = Shift(r, p)
<1>1. r[0] \in {0, 1} /\ 0 \in DOMAIN r
  BY DEF Word
<1>2. [r EXCEPT ![0] = (@ + 0) % 2] = r
  BY <1>1 DEF Word
<1> QED
  BY <1>2 DEF Step

\* A byte as a word of 16 bits.
LEMMA WideByte ==
  ASSUME NEW x \in Byte
  PROVE  Padded(Wide(x), x, 16)
<1>1. Wide(x) \in Word(16) /\ \A k \in 0 .. 15 : Wide(x)[k] = Bit(x, k)
  BY DEF Wide, Byte, Word, Bit
<1>2. /\ \A k \in 0 .. 7 : Bit(x, k) = x[k]
      /\ \A k \in 8 .. 15 : Bit(x, k) = 0
  BY DEF Byte, Word, Bit
<1>3. \A k \in 0 .. 15 : Bit(Wide(x), k) = Bit(x, k)
  BY <1>1 DEF Word, Bit
<1>4. \A k \in 16 .. 23 : Bit(Wide(x), k) = 0
  BY <1>1 DEF Word, Bit
<1> QED
  BY <1>1, <1>2, <1>3, <1>4 DEF Padded

\* The entry of the lower half is what eight steps leave of it; the upper half
\* moves down.
LEMMA WideStep ==
  ASSUME NEW r \in Word(16), NEW x \in Byte
  PROVE  Xor(Wide(High(r)), Entry16[Xor(Low(r), x)]) = Shift8(Xor(r, Wide(x)), Poly16)
<1> DEFINE z == Xor(r, Wide(x))
           low == Xor(Low(r), x)
           w == Wide(low)
           v == [k \in 0 .. 15 |-> IF k < 8 THEN 0 ELSE z[k]]
           up == [k \in 0 .. 15 |-> Bit(v, k + 8)]
<1>1. 16 \in Nat \ {0} /\ 16 - 1 = 15 /\ 8 - 1 = 7
  OBVIOUS
<1>2. Wide(x) \in Word(16) /\ \A k \in 0 .. 15 : Wide(x)[k] = Bit(x, k)
  BY DEF Wide, Byte, Word, Bit
<1>3. z \in Word(16) /\ \A k \in 0 .. 15 : z[k] = (r[k] + Bit(x, k)) % 2
  BY <1>1, <1>2, XorWord
<1>4. low \in Byte /\ \A k \in 0 .. 7 : low[k] = (r[k] + x[k]) % 2
  <2>1. Low(r) \in Word(8) /\ \A k \in 0 .. 7 : Low(r)[k] = r[k]
    BY DEF Low, Word
  <2> QED
    BY <1>1, <2>1, XorWord DEF Byte
<1> HIDE DEF z, low
<1>5. w \in Word(16) /\ \A k \in 0 .. 15 : w[k] = Bit(low, k)
  BY <1>4 DEF Wide, Byte, Word, Bit
<1>6. v \in Word(16) /\ \A k \in 0 .. 15 : v[k] = IF k < 8 THEN 0 ELSE z[k]
  BY <1>3 DEF Word
<1>7. /\ \A k \in 0 .. 7 : Bit(x, k) = x[k] /\ Bit(low, k) = low[k]
      /\ \A k \in 8 .. 15 : Bit(x, k) = 0 /\ Bit(low, k) = 0
  BY <1>4 DEF Byte, Word, Bit
<1>8. \A k \in 0 .. 15 : z[k] \in {0, 1} /\ r[k] \in {0, 1}
  BY <1>3 DEF Word
<1> HIDE DEF w, v
<1>9. Xor(w, v) = z
  <2>1. Xor(w, v) \in Word(16) /\ \A k \in 0 .. 15 : Xor(w, v)[k] = (w[k] + v[k]) % 2
    BY <1>1, <1>5, <1>6, XorWord
  <2>2. ASSUME NEW k \in 0 .. 15 PROVE Xor(w, v)[k] = z[k]
    <3>1. CASE k < 8
      <4>1. v[k] = 0 /\ w[k] = low[k] /\ low[k] = z[k]
        BY <1>3, <1>4, <1>5, <1>6, <1>7, <3>1
      <4> QED
        BY <1>8, <2>1, <4>1
    <3>2. CASE k >= 8
      <4>1. v[k] = z[k] /\ w[k] = 0
        BY <1>5, <1>6, <1>7, <3>2
      <4> QED
        BY <1>8, <2>1, <4>1
    <3> QED
      BY <3>1, <3>2
  <2> QED
    BY <1>1, <1>3, <2>1, <2>2, WordEqual
<1>10. Poly16 \in Word(16)
  BY Polynomials DEF Monic
<1> DEFINE h == [n \in 1 .. 8 |-> [s \in Word(16) |-> Shift(s, Poly16)]]
<1>11. h \in [1 .. 8 -> [Word(16) -> Word(16)]]
  BY <1>1, <1>10, ShiftWord
<1>12. \A n \in 1 .. 8 : \A s \in Word(16) : h[n][s] = Shift(s, Poly16)
  OBVIOUS
<1> HIDE DEF h
<1>13. PICK f \in [0 .. 8 -> Word(16)] : IsCourse(f, 8, w, h)
  BY <1>5, <1>11, RecursionUpTo
<1>14. f[0] = w /\ \A i \in 1 .. 8 : f[i] = Shift(f[i - 1], Poly16)
  BY <1>12, <1>13 DEF IsCourse
<1>15. f[8] = Shift8(w, Poly16)
  <2>1. /\ f[1] = Shift(f[1 - 1], Poly16) /\ f[2] = Shift(f[2 - 1], Poly16)
        /\ f[3] = Shift(f[3 - 1], Poly16) /\ f[4] = Shift(f[4 - 1], Poly16)
        /\ f[5] = Shift(f[5 - 1], Poly16) /\ f[6] = Shift(f[6 - 1], Poly16)
        /\ f[7] = Shift(f[7 - 1], Poly16) /\ f[8] = Shift(f[8 - 1], Poly16)
    BY <1>14
  <2>2. /\ f[1] = Shift(f[0], Poly16) /\ f[2] = Shift(f[1], Poly16)
        /\ f[3] = Shift(f[2], Poly16) /\ f[4] = Shift(f[3], Poly16)
        /\ f[5] = Shift(f[4], Poly16) /\ f[6] = Shift(f[5], Poly16)
        /\ f[7] = Shift(f[6], Poly16) /\ f[8] = Shift(f[7], Poly16)
    BY <2>1
  <2> QED
    BY <1>14, <2>2 DEF Shift8
<1>16. f[8] = Entry16[low] /\ Entry16[low] \in Word(16)
  BY <1>4, <1>15, TableEntries DEF w
<1>17. ASSUME NEW i \in 1 .. 8 PROVE f[i] = Step(f[i - 1], Bit(v, i - 1), Poly16)
  <2>1. i - 1 \in 0 .. 8 /\ i - 1 \in 0 .. 15 /\ i - 1 < 8
    OBVIOUS
  <2>2. Bit(v, i - 1) = 0
    BY <1>6, <2>1 DEF Bit, Word
  <2>3. f[i - 1] \in Word(16)
    BY <1>13, <2>1
  <2>4. Step(f[i - 1], 0, Poly16) = Shift(f[i - 1], Poly16)
    BY <1>1, <1>10, <2>3, ShiftIsStep
  <2> QED
    BY <1>14, <2>2, <2>4
<1>18. Xor(f[8], up) = Shift8(z, Poly16)
  <2>1. \A i \in 0 .. 8 : f[i] \in Word(16)
    BY <1>13
  <2>2. Above(up, v, 16)
    BY <1>1, <1>6 DEF Above, Word, Bit
  <2> HIDE DEF up
  <2>3. Xor(f[8], up) = Shift8(Xor(w, v), Poly16)
    BY <1>1, <1>5, <1>6, <1>10, <1>14, <1>17, <2>1, <2>2, EightSteps
  <2> QED
    BY <1>9, <2>3
<1>19. up = Wide(High(r)) /\ up \in Word(16)
  <2>1. High(r) \in [0 .. 7 -> {0, 1}] /\ \A k \in 0 .. 7 : High(r)[k] = r[k + 8]
    BY DEF High, Word
  <2>2. \A k \in 0 .. 15 : Wide(High(r))[k] = Bit(High(r), k)
    BY DEF Wide
  <2>3. Wide(High(r)) \in Word(16)
    BY <2>1 DEF Wide, Word, Bit
  <2>4. \A k \in 0 .. 15 : up[k] = Bit(v, k + 8)
    BY <1>1
  <2>5. up \in Word(16)
    BY <1>6 DEF Word, Bit
  <2> HIDE DEF up
  <2>6. ASSUME NEW k \in 0 .. 15 PROVE up[k] = Wide(High(r))[k]
    <3>1. CASE k < 8
      <4>1. k + 8 \in 0 .. 15 /\ k + 8 \in 8 .. 15 /\ k \in 0 .. 7
        BY <3>1
      <4>2. Bit(v, k + 8) = z[k + 8]
        BY <1>6, <4>1 DEF Bit, Word
      <4>3. z[k + 8] = r[k + 8]
        BY <1>3, <1>7, <1>8, <4>1
      <4>4. Bit(High(r), k) = r[k + 8]
        BY <2>1, <4>1 DEF Bit
      <4> QED
        BY <2>2, <2>4, <4>2, <4>3, <4>4
    <3>2. CASE k >= 8
      <4>1. Bit(v, k + 8) = 0 /\ Bit(High(r), k) = 0
        BY <1>6, <2>1, <3>2 DEF Bit, Word
      <4> QED
        BY <2>2, <2>4, <4>1
    <3> QED
      BY <3>1, <3>2
  <2> QED
    BY <1>1, <2>3, <2>5, <2>6, WordEqual
<1>20. Xor(up, f[8]) = Xor(f[8], up)
  BY <1>1, <1>16, <1>19, XorCommutes
<1> QED
  BY <1>16, <1>18, <1>19, <1>20 DEF z, low

\* get_crc16 is the division, byte by byte.
LEMMA Table16IsDivision ==
  ASSUME NEW bytes \in Seq(Byte)
  PROVE  get_crc16(bytes) = Divide(bytes, CRC16_INIT, Poly16)
<1> DEFINE len == Len(bytes)
<1>1. PICK c \in [0 .. len -> Word(16)] :
        /\ c[0] = CRC16_INIT
        /\ \A n \in 1 .. len :
             c[n] = Xor(Wide(High(c[n - 1])), Entry16[Xor(Low(c[n - 1]), bytes[n])])
        /\ get_crc16(bytes) = c[len]
  BY Crc16Course
<1>2. PICK g : /\ Run(g, BitsOf(bytes), 8 * len, Poly16, 16)
               /\ g[0] = CRC16_INIT /\ Divide(bytes, CRC16_INIT, Poly16) = g[8 * len]
  BY Polynomials, DivideRun DEF Monic
<1> DEFINE S == {n \in 0 .. len : c[n] = g[8 * n]}
<1>3. 0 \in S
  BY <1>1, <1>2
<1>4. ASSUME NEW n \in 1 .. len, n - 1 \in S PROVE n \in S
  <2>1. c[n - 1] = g[8 * (n - 1)] /\ c[n - 1] \in Word(16) /\ bytes[n] \in Byte
    BY <1>4
  <2>2. Padded(Wide(bytes[n]), bytes[n], 16)
    BY <2>1, WideByte
  <2>3. g[8 * n] = Shift8(Xor(g[8 * (n - 1)], Wide(bytes[n])), Poly16)
    <3>1. Poly16 \in Word(16) /\ 16 \in Nat \ {0}
      BY Polynomials DEF Monic
    <3> QED
      BY <1>2, <2>2, <3>1, ByteSteps
  <2>4. c[n] = Shift8(Xor(c[n - 1], Wide(bytes[n])), Poly16)
    BY <1>1, <2>1, WideStep
  <2> QED
    BY <2>1, <2>3, <2>4
<1>5. 0 .. len \subseteq S
  <2>1. len \in Nat
    OBVIOUS
  <2> HIDE DEF S, len
  <2> QED
    BY <1>3, <1>4, <2>1, InductionUpTo
<1>6. len \in S
  <2>1. len \in 0 .. len
    OBVIOUS
  <2> QED
    BY <1>5, <2>1
<1> QED
  BY <1>1, <1>2, <1>6

-----------------------------------------------------------------------------
(***************************************************************************)
(* A frame that passes is closed: the register over its packet is at its   *)
(* end.  A short burst opens it.                                           *)
(***************************************************************************)

\* The bits that a burst flips, and no others.
LEMMA FlipBits ==
  ASSUME NEW bytes \in Seq(Byte), NEW b \in SUBSET Positions(bytes)
  PROVE  /\ Flip(bytes, b) \in Seq(Byte) /\ Len(Flip(bytes, b)) = Len(bytes)
         /\ \A i \in 1 .. 8 * Len(bytes) :
              BitsOf(Flip(bytes, b))[i] = IF i - 1 \in b THEN 1 - BitsOf(bytes)[i]
                                          ELSE BitsOf(bytes)[i]
<1> DEFINE f == Flip(bytes, b)
<1>1. ASSUME NEW j \in 1 .. Len(bytes)
      PROVE  /\ f[j] \in Byte
             /\ \A k \in 0 .. 7 : f[j][k] = IF 8 * (j - 1) + k \in b THEN 1 - bytes[j][k]
                                            ELSE bytes[j][k]
  <2> DEFINE w == [k \in 0 .. 7 |-> IF 8 * (j - 1) + k \in b THEN 1 - bytes[j][k]
                                    ELSE bytes[j][k]]
  <2>1. f[j] = w
    <3>1. j \in DOMAIN bytes
      OBVIOUS
    <3> QED
      BY <3>1, Zenon DEF Flip
  <2>2. \A k \in 0 .. 7 : bytes[j][k] \in {0, 1}
    BY DEF Byte, Word
  <2>3. w \in [0 .. 7 -> {0, 1}]
    BY <2>2
  <2>4. \A k \in 0 .. 7 : w[k] = IF 8 * (j - 1) + k \in b THEN 1 - bytes[j][k] ELSE bytes[j][k]
    OBVIOUS
  <2>5. Byte = [0 .. 7 -> {0, 1}]
    BY DEF Byte, Word
  <2> HIDE DEF f, w
  <2> QED
    BY <2>1, <2>3, <2>4, <2>5
<1>2. f \in Seq(Byte) /\ Len(f) = Len(bytes)
  <2>1. DOMAIN f = 1 .. Len(bytes)
    BY DEF Flip
  <2>2. f = [j \in 1 .. Len(bytes) |-> f[j]]
    BY <2>1 DEF Flip
  <2>3. f \in [1 .. Len(bytes) -> Byte]
    <3> HIDE DEF f
    <3> QED
      BY <1>1, <2>2
  <2> HIDE DEF f
  <2>4. Len(bytes) \in Nat
    OBVIOUS
  <2> QED
    BY <2>3, <2>4
<1>3. ASSUME NEW i \in 1 .. 8 * Len(bytes)
      PROVE  BitsOf(f)[i] = IF i - 1 \in b THEN 1 - BitsOf(bytes)[i] ELSE BitsOf(bytes)[i]
  <2> DEFINE j == ((i - 1) \div 8) + 1
             k == (i - 1) % 8
  <2>1. j \in 1 .. Len(bytes) /\ k \in 0 .. 7 /\ 8 * (j - 1) + k = i - 1 /\ 8 * (j - 1) + k + 1 = i
    OBVIOUS
  <2> HIDE DEF j, k, f
  <2>2. BitsOf(f)[i] = f[j][k] /\ BitsOf(bytes)[i] = bytes[j][k]
    <3>1. BitsOf(bytes)[8 * (j - 1) + k + 1] = bytes[j][k]
      BY <2>1, BitsOfByte
    <3>2. BitsOf(f)[8 * (j - 1) + k + 1] = f[j][k]
      BY <1>2, <2>1, BitsOfByte
    <3> QED
      BY <2>1, <3>1, <3>2
  <2> QED
    BY <1>1, <2>1, <2>2
<1> QED
  BY <1>2, <1>3

\* The register over the first bytes of a frame is that over a frame of them.
LEMMA PrefixRun ==
  ASSUME NEW bytes \in Seq(Byte), NEW W \in Nat \ {0}, NEW p \in Word(W), NEW r \in Word(W),
         NEW m \in 0 .. Len(bytes),
         NEW g, Run(g, BitsOf(bytes), 8 * Len(bytes), p, W), g[0] = r
  PROVE  Divide(SubSeq(bytes, 1, m), r, p) = g[8 * m]
<1> DEFINE front == SubSeq(bytes, 1, m)
<1>1. front \in Seq(Byte) /\ Len(front) = m /\ \A j \in 1 .. m : front[j] = bytes[j]
  OBVIOUS
<1> HIDE DEF front
<1>2. PICK h : /\ Run(h, BitsOf(front), 8 * Len(front), p, W)
               /\ h[0] = r /\ Divide(front, r, p) = h[8 * Len(front)]
  BY <1>1, DivideRun
<1>3. ASSUME NEW i \in 1 .. 8 * m PROVE BitsOf(bytes)[i] = BitsOf(front)[i]
  <2> DEFINE j == ((i - 1) \div 8) + 1
             k == (i - 1) % 8
  <2>1. j \in 1 .. m /\ j \in 1 .. Len(bytes) /\ k \in 0 .. 7 /\ 8 * (j - 1) + k + 1 = i
    OBVIOUS
  <2> HIDE DEF j, k
  <2>2. BitsOf(bytes)[8 * (j - 1) + k + 1] = bytes[j][k]
    BY <2>1, BitsOfByte
  <2>3. BitsOf(front)[8 * (j - 1) + k + 1] = front[j][k]
    BY <1>1, <2>1, BitsOfByte
  <2> QED
    BY <1>1, <2>1, <2>2, <2>3
<1>4. g[8 * m] = h[8 * m]
  <2> DEFINE a == 8 * m
             n == 8 * Len(bytes)
  <2>1. n \in Nat /\ a \in Nat /\ a \in 0 .. n /\ a \in 0 .. a
    OBVIOUS
  <2>2. Run(g, BitsOf(bytes), n, p, W) /\ Run(h, BitsOf(front), a, p, W) /\ g[0] = h[0]
    BY <1>1, <1>2
  <2>3. Agree(BitsOf(bytes), BitsOf(front), 0, a)
    BY <1>3 DEF Agree
  <2> HIDE DEF a, n
  <2>4. g[a] = h[a]
    BY <2>1, <2>2, <2>3, RunForward
  <2> QED
    BY <2>4 DEF a
<1> QED
  BY <1>1, <1>2, <1>4 DEF front

\* A frame ends with the register over what is before its last W bits.
Closed(bytes, g, p, W) ==
  /\ Run(g, BitsOf(bytes), 8 * Len(bytes), p, W)
  /\ W <= 8 * Len(bytes)
  /\ Ends(g, BitsOf(bytes), 8 * Len(bytes), W)

\* A frame that passes the check of crc8 is closed,
LEMMA Passed8IsClosed ==
  ASSUME NEW bytes \in Seq(Byte), Len(bytes) >= 1, check_crc8(bytes)
  PROVE  \E g : Closed(bytes, g, Poly8, 8) /\ g[0] = CRC8_INIT
<1> DEFINE len == Len(bytes)
           front == SubSeq(bytes, 1, len - 1)
<1>0. Poly8 \in Word(8) /\ CRC8_INIT \in Word(8) /\ 8 \in Nat \ {0}
  BY Polynomials DEF Monic
<1>1. PICK g : Run(g, BitsOf(bytes), 8 * Len(bytes), Poly8, 8) /\ g[0] = CRC8_INIT
  BY <1>0, DivideRun
<1>2. len - 1 \in 0 .. len /\ len \in 1 .. len /\ front \in Seq(Byte)
  OBVIOUS
<1>3. Divide(front, CRC8_INIT, Poly8) = g[8 * (len - 1)]
  <2> DEFINE m == len - 1
  <2>1. m \in 0 .. Len(bytes)
    BY <1>2
  <2> HIDE DEF m
  <2>2. Divide(SubSeq(bytes, 1, m), CRC8_INIT, Poly8) = g[8 * m]
    BY <1>0, <1>1, <2>1, PrefixRun
  <2> QED
    BY <2>2 DEF m
<1>4. bytes[len] = g[8 * (len - 1)]
  <2>1. get_crc8(front) = bytes[len]
    BY DEF check_crc8
  <2> HIDE DEF front
  <2> QED
    BY <1>2, <1>3, <2>1, Table8IsDivision
<1>5. 8 * len - 8 = 8 * (len - 1) /\ 8 <= 8 * len
  OBVIOUS
<1>6. ASSUME NEW k \in 0 .. 8 - 1 PROVE BitsOf(bytes)[8 * len - 8 + k + 1] = g[8 * len - 8][k]
  <2>1. k \in 0 .. 7
    OBVIOUS
  <2> HIDE DEF len
  <2>2. BitsOf(bytes)[8 * (len - 1) + k + 1] = bytes[len][k]
    BY <1>2, <2>1, BitsOfByte DEF len
  <2> QED
    BY <1>4, <1>5, <2>2
<1> QED
  BY <1>1, <1>5, <1>6 DEF Closed, Ends

\* and one that passes that of crc16.
LEMMA Passed16IsClosed ==
  ASSUME NEW bytes \in Seq(Byte), Len(bytes) >= 2, check_crc16(bytes)
  PROVE  \E g : Closed(bytes, g, Poly16, 16) /\ g[0] = CRC16_INIT
<1> DEFINE len == Len(bytes)
           front == SubSeq(bytes, 1, len - 2)
           tail == Joined(bytes[len], bytes[len - 1])
<1>0. Poly16 \in Word(16) /\ CRC16_INIT \in Word(16) /\ 16 \in Nat \ {0}
  BY Polynomials DEF Monic
<1>1. PICK g : Run(g, BitsOf(bytes), 8 * Len(bytes), Poly16, 16) /\ g[0] = CRC16_INIT
  BY <1>0, DivideRun
<1>2. len - 2 \in 0 .. len /\ len - 1 \in 1 .. len /\ len \in 1 .. len /\ front \in Seq(Byte)
  OBVIOUS
<1>3. Divide(front, CRC16_INIT, Poly16) = g[8 * (len - 2)]
  <2> DEFINE m == len - 2
  <2>1. m \in 0 .. Len(bytes)
    BY <1>2
  <2> HIDE DEF m
  <2>2. Divide(SubSeq(bytes, 1, m), CRC16_INIT, Poly16) = g[8 * m]
    BY <1>0, <1>1, <2>1, PrefixRun
  <2> QED
    BY <2>2 DEF m
<1>4. tail = g[8 * (len - 2)]
  <2>1. get_crc16(front) = tail
    BY DEF check_crc16
  <2> HIDE DEF front, tail
  <2> QED
    BY <1>2, <1>3, <2>1, Table16IsDivision
<1>5. 8 * len - 16 = 8 * (len - 2) /\ 16 <= 8 * len
  OBVIOUS
<1>6. ASSUME NEW k \in 0 .. 16 - 1 PROVE BitsOf(bytes)[8 * len - 16 + k + 1] = g[8 * len - 16][k]
  <2>1. k \in 0 .. 15 /\ tail[k] = IF k < 8 THEN bytes[len - 1][k] ELSE bytes[len][k - 8]
    BY DEF Joined
  <2> HIDE DEF tail
  <2>2. CASE k < 8
    <3> DEFINE n == len - 1
    <3>1. n \in 1 .. Len(bytes) /\ k \in 0 .. 7 /\ 8 * len - 16 + k + 1 = 8 * (n - 1) + k + 1
      BY <1>2, <2>2
    <3>2. tail[k] = bytes[n][k]
      BY <2>1, <2>2
    <3> HIDE DEF n, len
    <3>3. BitsOf(bytes)[8 * (n - 1) + k + 1] = bytes[n][k]
      BY <3>1, BitsOfByte
    <3> QED
      BY <1>4, <1>5, <3>1, <3>2, <3>3
  <2>3. CASE k >= 8
    <3> DEFINE q == k - 8
               n == len
    <3>1. n \in 1 .. Len(bytes) /\ q \in 0 .. 7 /\ 8 * len - 16 + k + 1 = 8 * (n - 1) + q + 1
      BY <1>2, <2>3
    <3>2. tail[k] = bytes[n][q]
      BY <2>1, <2>3
    <3> HIDE DEF n, len, q
    <3>3. BitsOf(bytes)[8 * (n - 1) + q + 1] = bytes[n][q]
      BY <3>1, BitsOfByte
    <3> QED
      BY <1>4, <1>5, <3>1, <3>2, <3>3
  <2> QED
    BY <2>2, <2>3
<1> QED
  BY <1>1, <1>5, <1>6 DEF Closed, Ends

\* A burst no longer than the register does not leave a frame closed.
LEMMA BurstOpens ==
  ASSUME NEW bytes \in Seq(Byte), NEW b \in SUBSET Positions(bytes), b # {},
         NEW W \in Nat \ {0}, NEW p, Monic(p, W),
         \A x, y \in b : x - y < W,
         NEW g, Closed(bytes, g, p, W), NEW h, Closed(Flip(bytes, b), h, p, W), g[0] = h[0]
  PROVE  FALSE
<1> DEFINE n == 8 * Len(bytes)
           s == BitsOf(bytes)
           t == BitsOf(Flip(bytes, b))
<1>0. n \in Nat
  OBVIOUS
<1>1. /\ Len(Flip(bytes, b)) = Len(bytes)
      /\ \A i \in 1 .. n : t[i] = IF i - 1 \in b THEN 1 - s[i] ELSE s[i]
  BY FlipBits
<1>2. PICK a \in b : \A y \in b : a <= y
  <2>1. b \in SUBSET Nat
    BY DEF Positions
  <2> QED
    BY <2>1, LeastNumber
<1>3. a \in 0 .. n /\ a + 1 \in 1 .. n /\ (a + 1) - 1 = a
  BY DEF Positions
<1> DEFINE e == IF a + W <= n THEN a + W ELSE n
<1>4. e \in 0 .. n /\ e \in a .. n /\ e - a <= W
  BY <1>3
<1>5. Agree(s, t, 0, a) /\ Agree(s, t, e, n)
  <2>1. ASSUME NEW i \in 1 .. n, i <= a \/ i > e PROVE s[i] = t[i]
    <3>1. SUFFICES ASSUME i - 1 \in b PROVE FALSE
      BY <1>1
    <3>2. a <= i - 1 /\ (i - 1) - a < W
      BY <1>2, <3>1
    <3> QED
      BY <1>3, <2>1, <3>2
  <2>2. ASSUME NEW i \in 0 + 1 .. a PROVE i \in 1 .. n /\ i <= a
    BY <1>3
  <2>3. ASSUME NEW i \in e + 1 .. n PROVE i \in 1 .. n /\ i > e
    BY <1>4
  <2> HIDE DEF n, s, t, e
  <2> QED
    BY <2>1, <2>2, <2>3 DEF Agree
<1>6. /\ Run(g, s, n, p, W) /\ Run(h, t, n, p, W) /\ W <= n
      /\ Ends(g, s, n, W) /\ Ends(h, t, n, W)
  BY <1>1 DEF Closed
<1>7. s[a + 1] \in {0, 1}
  BY <1>3, <1>6 DEF Run
<1>8. t[a + 1] = 1 - s[a + 1]
  BY <1>1, <1>3
<1> HIDE DEF n, s, t, e
<1>9. Agree(s, t, a, e)
  BY <1>0, <1>3, <1>4, <1>5, <1>6, BurstShows
<1>10. a + 1 \in a + 1 .. e
  BY <1>0, <1>3 DEF e
<1> QED
  BY <1>7, <1>8, <1>9, <1>10 DEF Agree

-----------------------------------------------------------------------------
(***************************************************************************)
(* The sender, the line and the receiver.                                  *)
(***************************************************************************)

\* A packet with its checksum.
Sealed(packet, kind) ==
  IF kind = "crc8" THEN Append(packet, get_crc8(packet))
  ELSE packet \o <<Low(get_crc16(packet)), High(get_crc16(packet))>>

\* What the line carries is the sealed packet with the burst on it; a verdict is
\* the check's.
CrcInv ==
  /\ CrcTypeOK
  /\ seal = "none" => frame = data /\ burst = {} /\ verdict = "none"
  /\ seal # "none" =>
       /\ burst \subseteq Positions(Sealed(data, seal))
       /\ frame = IF burst = {} THEN Sealed(data, seal) ELSE Flip(Sealed(data, seal), burst)
  /\ verdict # "none" => (verdict = "good" <=> Passes(frame))

\* The checksums fit where they are put.
LEMMA ChecksumTypes ==
  ASSUME NEW bytes \in Seq(Byte)
  PROVE  get_crc8(bytes) \in Byte /\ get_crc16(bytes) \in Word(16)
<1>1. get_crc8(bytes) \in Byte
  <2>1. PICK c \in [0 .. Len(bytes) -> Byte] : get_crc8(bytes) = c[Len(bytes)]
    BY Crc8Course
  <2>2. Len(bytes) \in 0 .. Len(bytes)
    OBVIOUS
  <2> QED
    BY <2>1, <2>2
<1>2. get_crc16(bytes) \in Word(16)
  <2>1. PICK c \in [0 .. Len(bytes) -> Word(16)] : get_crc16(bytes) = c[Len(bytes)]
    BY Crc16Course
  <2>2. Len(bytes) \in 0 .. Len(bytes)
    OBVIOUS
  <2> QED
    BY <2>1, <2>2
<1> QED
  BY <1>1, <1>2

\* A sealed packet passes its check.
LEMMA SealedPasses ==
  ASSUME NEW packet \in Seq(Byte), NEW kind \in {"crc8", "crc16"}
  PROVE  /\ Sealed(packet, kind) \in Seq(Byte)
         /\ Len(Sealed(packet, kind)) >= IF kind = "crc8" THEN 1 ELSE 2
         /\ IF kind = "crc8" THEN check_crc8(Sealed(packet, kind))
                             ELSE check_crc16(Sealed(packet, kind))
<1> DEFINE frm == Sealed(packet, kind)
           len == Len(frm)
<1>1. CASE kind = "crc8"
  <2> DEFINE c == get_crc8(packet)
  <2>1. c \in Byte
    BY ChecksumTypes
  <2>2. frm = Append(packet, c)
    BY <1>1 DEF Sealed
  <2> HIDE DEF c
  <2>3. frm \in Seq(Byte) /\ len = Len(packet) + 1 /\ frm[len] = c
    BY <2>1, <2>2
  <2>4. SubSeq(frm, 1, len - 1) = packet
    BY <2>1, <2>2
  <2>5. check_crc8(frm)
    BY <2>3, <2>4 DEF check_crc8, c
  <2> QED
    BY <1>1, <2>3, <2>5
<1>2. CASE kind = "crc16"
  <2> DEFINE c == get_crc16(packet)
  <2>1. c \in Word(16) /\ Low(c) \in Byte /\ High(c) \in Byte
    <3>1. c \in Word(16)
      BY ChecksumTypes
    <3> HIDE DEF c
    <3>2. Low(c) \in Byte /\ High(c) \in Byte
      BY <3>1 DEF Low, High, Byte, Word
    <3> QED
      BY <3>1, <3>2
  <2>2. frm = packet \o <<Low(c), High(c)>>
    BY <1>2 DEF Sealed
  <2> HIDE DEF c
  <2>3. /\ frm \in Seq(Byte) /\ len = Len(packet) + 2
        /\ frm[len] = High(c) /\ frm[len - 1] = Low(c)
    BY <2>1, <2>2
  <2>4. SubSeq(frm, 1, len - 2) = packet
    BY <2>1, <2>2
  <2>5. Joined(High(c), Low(c)) = c
    <3>1. Joined(High(c), Low(c)) \in Word(16)
      BY <2>1 DEF Joined, Byte, Word
    <3>2. \A k \in 0 .. 15 : Joined(High(c), Low(c))[k] = c[k]
      BY DEF Joined, High, Low
    <3>3. 16 \in Nat \ {0} /\ 16 - 1 = 15
      OBVIOUS
    <3> QED
      BY <2>1, <3>1, <3>2, <3>3, WordEqual
  <2>6. check_crc16(frm)
    BY <2>3, <2>4, <2>5 DEF check_crc16, c
  <2> QED
    BY <1>2, <2>3, <2>6
<1> QED
  BY <1>1, <1>2

\* Packets are sequences of bytes, and not empty.
LEMMA PayloadsAreFrames == data \in Payloads => data \in Seq(Byte) /\ data # <<>>
<1> QED
  BY CrcAssumption

\* Nothing is sealed at first.
LEMMA CrcInvInit == CrcInit => CrcInv
<1> SUFFICES ASSUME CrcInit PROVE CrcInv
  OBVIOUS
<1>1. CrcTypeOK
  BY PayloadsAreFrames DEF CrcInit, CrcTypeOK
<1> QED
  BY <1>1 DEF CrcInit, CrcInv

\* Sealing appends the checksum, and nothing is flipped yet.
LEMMA SealStep == CrcInv /\ (Seal8 \/ Seal16) => CrcInv'
<1> SUFFICES ASSUME CrcInv, Seal8 \/ Seal16 PROVE CrcInv'
  OBVIOUS
<1>1. /\ seal' \in {"crc8", "crc16"} /\ data' = data /\ burst' = {} /\ verdict' = "none"
      /\ data \in Payloads
  BY DEF CrcInv, CrcTypeOK, Seal8, Seal16
<1>2. frame' = Sealed(data, seal')
  BY <1>1 DEF Seal8, Seal16, Sealed
<1>3. Sealed(data, seal') \in Seq(Byte)
  <2>1. data \in Seq(Byte)
    BY <1>1, PayloadsAreFrames
  <2> QED
    BY <1>1, <2>1, SealedPasses
<1> QED
  BY <1>1, <1>2, <1>3 DEF CrcInv, CrcTypeOK

\* A burst flips bits of the sealed frame.
LEMMA HitStep ==
  ASSUME CrcInv, NEW b \in Bursts, NEW o \in Positions(frame), Hit(b, o)
  PROVE  CrcInv'
<1> DEFINE hit == {o + x : x \in b} \intersect Positions(frame)
<1>1. /\ seal \in {"crc8", "crc16"} /\ burst = {} /\ verdict = "none"
      /\ UNCHANGED <<data, seal, verdict>> /\ burst' = hit /\ frame' = Flip(frame, burst')
      /\ data \in Payloads /\ frame \in Seq(Byte) /\ frame = Sealed(data, seal)
  BY DEF Hit, CrcInv, CrcTypeOK
<1>2. hit # {} /\ hit \in SUBSET Positions(frame)
  <2>1. 0 \in b /\ o \in Nat
    BY CrcAssumption DEF Positions
  <2>2. o + 0 = o
    BY <2>1
  <2> QED
    BY <2>1, <2>2
<1> HIDE DEF hit
<1>3. frame' \in Seq(Byte) /\ Len(frame') = Len(frame)
  BY <1>1, <1>2, FlipBits
<1>4. burst' \subseteq Positions(frame')
  BY <1>1, <1>2, <1>3 DEF Positions
<1> QED
  BY <1>1, <1>2, <1>3, <1>4 DEF CrcInv, CrcTypeOK

\* A verdict is of the frame that was received.
LEMMA CheckStep == CrcInv /\ Check => CrcInv'
<1> SUFFICES ASSUME CrcInv, Check PROVE CrcInv'
  OBVIOUS
<1>1. /\ seal # "none" /\ UNCHANGED <<data, seal, frame, burst>>
      /\ verdict' = IF Passes(frame) THEN "good" ELSE "bad"
  BY DEF Check
<1>2. Passes(frame') <=> Passes(frame)
  BY <1>1
<1>3. Passes(frame)' <=> Passes(frame)
  BY <1>1, Zenon DEF Passes
<1> QED
  BY <1>1, <1>3 DEF CrcInv, CrcTypeOK, Positions

\* Every step keeps the invariant.
LEMMA CrcInvStep == CrcInv /\ [CrcNext]_crcvars => CrcInv'
<1> SUFFICES ASSUME CrcInv, [CrcNext]_crcvars PROVE CrcInv'
  OBVIOUS
<1>1. CASE UNCHANGED crcvars
  <2>1. Passes(frame)' <=> Passes(frame)
    BY <1>1, Zenon DEF Passes, crcvars
  <2> QED
    BY <1>1, <2>1 DEF crcvars, CrcInv, CrcTypeOK, Positions
<1>2. CASE CrcNext
  BY <1>2, SealStep, HitStep, CheckStep DEF CrcNext
<1> QED
  BY <1>1, <1>2

\* What is sealed, hit and checked stays a frame of bytes with a burst on it.
THEOREM CrcTypeCorrect == CrcSpec => []CrcTypeOK
<1>1. CrcInv => CrcTypeOK
  BY DEF CrcInv
<1> QED
  BY <1>1, CrcInvInit, CrcInvStep, PTL DEF CrcSpec

\* The checksums of crc.cpp, with its tables, are the remainders of a division
\* by the polynomials, for frames of every length.
THEOREM TablesDivide == CrcSpec => []TablesArePolynomials
<1>1. CrcTypeOK => TablesArePolynomials
  BY Table8IsDivision, Table16IsDivision DEF CrcTypeOK, TablesArePolynomials
<1> QED
  BY <1>1, CrcTypeCorrect, PTL

\* A check accepts what was sealed and not hit, for frames of every length: with
\* crc16 the halves are read in the order in which they were put.
THEOREM SealedFramesPass == CrcSpec => []IntactFramesPass
<1>1. CrcInv => IntactFramesPass
  <2> SUFFICES ASSUME CrcInv, verdict # "none", burst = {} PROVE verdict = "good"
    BY DEF IntactFramesPass
  <2>1. /\ seal \in {"crc8", "crc16"} /\ data \in Seq(Byte) /\ frame = Sealed(data, seal)
        /\ verdict = "good" <=> Passes(frame)
    BY PayloadsAreFrames DEF CrcInv, CrcTypeOK
  <2> QED
    BY <2>1, SealedPasses DEF Passes
<1> QED
  BY <1>1, CrcInvInit, CrcInvStep, PTL DEF CrcSpec

\* No burst as long as the checksum or shorter is accepted, for frames of every
\* length and wherever it hits.
THEOREM ShortBurstsAreCaught == CrcSpec => []BurstsAreCaught
<1>1. CrcInv => BurstsAreCaught
  <2> SUFFICES ASSUME CrcInv, verdict # "none", burst # {}, \A x, y \in burst : x - y < Width,
                      verdict # "bad"
               PROVE  FALSE
    BY DEF BurstsAreCaught
  <2> DEFINE frm == Sealed(data, seal)
  <2>1. /\ seal \in {"crc8", "crc16"} /\ data \in Seq(Byte)
        /\ frame = Flip(frm, burst) /\ burst \in SUBSET Positions(frm)
        /\ Passes(frame)
    BY PayloadsAreFrames DEF CrcInv, CrcTypeOK
  <2>2. /\ frm \in Seq(Byte) /\ Len(frm) >= IF seal = "crc8" THEN 1 ELSE 2
        /\ Passes(frm)
    BY <2>1, SealedPasses DEF Passes
  <2> HIDE DEF frm
  <2>3. Flip(frm, burst) \in Seq(Byte) /\ Len(Flip(frm, burst)) = Len(frm)
    BY <2>1, <2>2, FlipBits
  <2>4. CASE seal = "crc8"
    <3>1. PICK g : Closed(frm, g, Poly8, 8) /\ g[0] = CRC8_INIT
      BY <2>2, <2>4, Passed8IsClosed DEF Passes
    <3>2. PICK h : Closed(Flip(frm, burst), h, Poly8, 8) /\ h[0] = CRC8_INIT
      BY <2>1, <2>2, <2>3, <2>4, Passed8IsClosed DEF Passes
    <3>3. 8 \in Nat \ {0} /\ Monic(Poly8, 8) /\ \A x, y \in burst : x - y < 8
      BY <2>4, Polynomials DEF Width
    <3> QED
      BY <2>1, <2>2, <3>1, <3>2, <3>3, BurstOpens
  <2>5. CASE seal = "crc16"
    <3>1. PICK g : Closed(frm, g, Poly16, 16) /\ g[0] = CRC16_INIT
      BY <2>2, <2>5, Passed16IsClosed DEF Passes
    <3>2. PICK h : Closed(Flip(frm, burst), h, Poly16, 16) /\ h[0] = CRC16_INIT
      BY <2>1, <2>2, <2>3, <2>5, Passed16IsClosed DEF Passes
    <3>3. 16 \in Nat \ {0} /\ Monic(Poly16, 16) /\ \A x, y \in burst : x - y < 16
      BY <2>5, Polynomials DEF Width
    <3> QED
      BY <2>1, <2>2, <3>1, <3>2, <3>3, BurstOpens
  <2> QED
    BY <2>1, <2>4, <2>5
<1> QED
  BY <1>1, CrcInvInit, CrcInvStep, PTL DEF CrcSpec
=============================================================================
