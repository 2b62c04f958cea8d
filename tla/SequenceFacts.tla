--------------------------- MODULE SequenceFacts ---------------------------
(* Facts about numbers and sequences that the proofs about the index rest on.  A set of
   numbers has a least member, since < is well-founded on Nat; so a set that holds 0 and
   the successor of each member is Nat, and two functions defined by the same recursion
   are equal: no least argument can tell them apart. *)
EXTENDS Naturals, SequencesExt, SequenceTheorems, WellFoundedInduction, TLAPS

-----------------------------------------------------------------------------
(* Induction over sets of numbers. *)

LEMMA LessIsWellFounded == IsWellFoundedOn({ss \in Nat \X Nat : ss[1] < ss[2]}, Nat)
BY NatLessThanWellFounded DEF OpToRel

LEMMA LeastMember ==
    ASSUME NEW T \in SUBSET Nat, T # {}
    PROVE  \E m \in T : \A n \in T : m <= n
<1> DEFINE R == {ss \in Nat \X Nat : ss[1] < ss[2]}
<1>1. IsWellFoundedOn(R, Nat)
  BY LessIsWellFounded
<1>2. \A x, y \in Nat : y < x => <<y, x>> \in R
  OBVIOUS
<1> HIDE DEF R
<1>3. PICK x \in T : \A y \in T : ~ (<<y, x>> \in R)
  BY <1>1, WFMin
<1>4. \A y \in T : ~ (y < x)
  BY <1>2, <1>3
<1>5. \A y \in T : x <= y
  BY <1>4
<1>6. QED
  BY <1>5

LEMMA SetInduction ==
    ASSUME NEW T \in SUBSET Nat, 0 \in T, \A n \in T : n + 1 \in T
    PROVE  T = Nat
<1> DEFINE Out == Nat \ T
<1>1. ASSUME Out # {} PROVE FALSE
  <2>1. PICK m \in Out : \A n \in Out : m <= n
    BY <1>1, LeastMember
  <2>2. m \in Nat /\ m # 0 /\ m - 1 \in Nat /\ ~ (m <= m - 1)
    BY <2>1
  <2>3. m - 1 \in T
    BY <2>1, <2>2
  <2>4. m - 1 + 1 = m
    BY <2>2
  <2>5. QED
    BY <2>1, <2>3, <2>4
<1>2. QED
  BY <1>1

-----------------------------------------------------------------------------
(* Sequences given as functions, and appending to them. *)

LEMMA FunctionIsSeq ==
    ASSUME NEW S, NEW n \in Nat, NEW f \in [1..n -> S]
    PROVE  f \in Seq(S) /\ Len(f) = n
OBVIOUS

LEMMA AppendOne ==
    ASSUME NEW S, NEW s \in Seq(S), NEW x \in S
    PROVE  s \o <<x>> = Append(s, x) /\ <<x>> \in Seq(S)
OBVIOUS

LEMMA HeadThenTail ==
    ASSUME NEW S, NEW s \in Seq(S), NEW t \in Seq(S), t # <<>>
    PROVE  Append(s, Head(t)) \o Tail(t) = s \o t
<1>1. /\ Head(t) \in S /\ Tail(t) \in Seq(S) /\ Len(Tail(t)) = Len(t) - 1
      /\ \A i \in 1..Len(Tail(t)) : Tail(t)[i] = t[i + 1]
      /\ Len(t) \in Nat /\ Len(t) # 0 /\ Head(t) = t[1]
  BY HeadTailProperties, LenProperties, EmptySeq
<1> DEFINE a == Append(s, Head(t))
           u == Tail(t)
<1>2. /\ a \in Seq(S) /\ Len(a) = Len(s) + 1 /\ Len(s) \in Nat
      /\ \A i \in 1..Len(s) : a[i] = s[i]
      /\ a[Len(s) + 1] = t[1]
  BY <1>1, AppendProperties, LenProperties
<1> HIDE DEF a, u
<1>3. /\ a \o u \in Seq(S) /\ Len(a \o u) = Len(a) + Len(u)
      /\ \A i \in 1..Len(a) + Len(u) : (a \o u)[i] = IF i <= Len(a) THEN a[i] ELSE u[i - Len(a)]
  BY <1>1, <1>2, ConcatProperties DEF u
<1>4. /\ s \o t \in Seq(S) /\ Len(s \o t) = Len(s) + Len(t)
      /\ \A i \in 1..Len(s) + Len(t) : (s \o t)[i] = IF i <= Len(s) THEN s[i] ELSE t[i - Len(s)]
  BY ConcatProperties
<1>5. Len(u) \in Nat /\ Len(u) = Len(t) - 1 /\ \A i \in 1..Len(u) : u[i] = t[i + 1]
  BY <1>1 DEF u
<1>6. Len(a \o u) = Len(s \o t)
  BY <1>1, <1>2, <1>3, <1>4, <1>5
<1>7. ASSUME NEW i \in 1..Len(a \o u)
      PROVE  (a \o u)[i] = (s \o t)[i]
  <2>1. /\ i \in 1..(Len(a) + Len(u)) /\ i \in 1..(Len(s) + Len(t)) /\ i \in Nat
        /\ Len(a) + Len(u) = Len(s) + Len(t)
    BY <1>3, <1>4, <1>6, <1>2, <1>5
  <2>2. CASE i <= Len(s)
    <3>1. i <= Len(a) /\ i \in 1..Len(s)
      BY <1>2, <2>1, <2>2
    <3>2. QED
      BY <1>2, <1>3, <1>4, <2>1, <2>2, <3>1
  <2>3. CASE i = Len(s) + 1
    <3>1. i <= Len(a) /\ ~ (i <= Len(s)) /\ i - Len(s) = 1
      BY <1>2, <2>3
    <3>2. QED
      BY <1>2, <1>3, <1>4, <2>1, <2>3, <3>1
  <2>4. CASE i > Len(s) + 1
    <3>1. /\ ~ (i <= Len(a)) /\ ~ (i <= Len(s)) /\ i - Len(a) \in 1..Len(u)
          /\ i - Len(a) + 1 = i - Len(s)
      BY <1>1, <1>2, <1>5, <2>1, <2>4
    <3>2. (a \o u)[i] = u[i - Len(a)] /\ (s \o t)[i] = t[i - Len(s)]
      BY <1>3, <1>4, <2>1, <3>1
    <3>3. QED
      BY <1>5, <3>1, <3>2
  <2>5. QED
    BY <1>2, <2>1, <2>2, <2>3, <2>4
<1>8. a \o u = s \o t
  BY <1>3, <1>4, <1>6, <1>7, SeqEqual
<1>9. QED
  BY <1>8 DEF a, u

-----------------------------------------------------------------------------
(* FlattenSeq: its recursion has exactly one solution. *)

JoinsUp(s, f) ==
    /\ DOMAIN f = 1..Len(s)
    /\ \A i \in 1..Len(s) : f[i] = IF i = 1 THEN s[i] ELSE f[i - 1] \o s[i]

LEMMA JoinsUpOnce ==
    ASSUME NEW s, Len(s) \in Nat, NEW f, NEW g, JoinsUp(s, f), JoinsUp(s, g)
    PROVE  \A i \in 1..Len(s) : f[i] = g[i]
<1> DEFINE Bad == {i \in 1..Len(s) : f[i] # g[i]}
<1>1. ASSUME Bad # {} PROVE FALSE
  <2>1. Bad \in SUBSET Nat
    OBVIOUS
  <2>2. PICK m \in Bad : \A n \in Bad : m <= n
    BY <1>1, <2>1, LeastMember
  <2>3. m \in 1..Len(s) /\ f[m] # g[m]
    BY <2>2
  <2>4. m # 1
    BY <2>3 DEF JoinsUp
  <2>5. m - 1 \in 1..Len(s) /\ ~ (m <= m - 1)
    BY <2>3, <2>4
  <2>6. f[m - 1] = g[m - 1]
    BY <2>2, <2>5
  <2>7. QED
    BY <2>3, <2>4, <2>6 DEF JoinsUp
<1>2. QED
  BY <1>1

LEMMA FlattenIsJoin ==
    ASSUME NEW s, Len(s) \in Nat \ {0}, NEW f, JoinsUp(s, f), f = [i \in 1..Len(s) |-> f[i]]
    PROVE  FlattenSeq(s) = f[Len(s)]
<1> DEFINE Is(g) == g = [i \in 1..Len(s) |-> IF i = 1 THEN s[i] ELSE g[i - 1] \o s[i]]
<1>1. Is(f)
  BY DEF JoinsUp
<1>2. Is(CHOOSE g : Is(g))
  BY <1>1
<1>3. FlattenSeq(s) = (CHOOSE g : Is(g))[Len(s)]
  BY DEF FlattenSeq
<1> DEFINE h == CHOOSE g : Is(g)
<1>4. JoinsUp(s, h)
  BY <1>2 DEF JoinsUp
<1> HIDE DEF h
<1>5. f[Len(s)] = h[Len(s)]
  BY <1>4, JoinsUpOnce
<1>6. QED
  BY <1>3, <1>5 DEF h

(* The recursion can be followed to its n-th step. *)
JoinsUpTo(S, s, n) ==
    \E f \in [1..n -> Seq(S)] :
        \A i \in 1..n : f[i] = IF i = 1 THEN s[i] ELSE f[i - 1] \o s[i]

LEMMA OneMoreJoin ==
    ASSUME NEW S, NEW s \in Seq(Seq(S)), NEW n \in Nat, n < Len(s), JoinsUpTo(S, s, n)
    PROVE  JoinsUpTo(S, s, n + 1)
<1>1. s[n + 1] \in Seq(S)
  <2>1. n + 1 \in 1..Len(s)
    BY LenProperties
  <2>2. QED
    BY <2>1, ElementOfSeq
<1>2. PICK f \in [1..n -> Seq(S)] :
          \A i \in 1..n : f[i] = IF i = 1 THEN s[i] ELSE f[i - 1] \o s[i]
  BY DEF JoinsUpTo
<1> DEFINE last == IF n = 0 THEN s[n + 1] ELSE f[n] \o s[n + 1]
           g == [i \in 1..(n + 1) |-> IF i = n + 1 THEN last ELSE f[i]]
<1>3. last \in Seq(S)
  <2>1. n # 0 => n \in 1..n
    OBVIOUS
  <2>2. n # 0 => f[n] \in Seq(S)
    BY <2>1
  <2>3. QED
    BY <1>1, <2>2, ConcatProperties
<1> HIDE DEF last
<1>4. g \in [1..(n + 1) -> Seq(S)]
  BY <1>3
<1>5. g[n + 1] = last /\ \A i \in 1..n : g[i] = f[i]
  OBVIOUS
<1> HIDE DEF g
<1>6. ASSUME NEW i \in 1..(n + 1)
      PROVE  g[i] = IF i = 1 THEN s[i] ELSE g[i - 1] \o s[i]
  <2>1. CASE i = n + 1
    <3>1. (n # 0 => n \in 1..n) /\ i - 1 = n /\ (n = 0 <=> i = 1)
      BY <2>1
    <3>2. QED
      BY <1>5, <2>1, <3>1 DEF last
  <2>2. CASE i # n + 1
    <3>1. i \in 1..n /\ (i # 1 => i - 1 \in 1..n)
      BY <2>2
    <3>2. QED
      BY <1>2, <1>5, <3>1
  <2>3. QED
    BY <2>1, <2>2
<1>7. QED
  BY <1>4, <1>6 DEF JoinsUpTo

LEMMA JoinsUpExists ==
    ASSUME NEW S, NEW s \in Seq(Seq(S))
    PROVE  \E f \in [1..Len(s) -> Seq(S)] : JoinsUp(s, f)
<1>0. Len(s) \in Nat
  BY LenProperties
<1> DEFINE T == {n \in Nat : n <= Len(s) => JoinsUpTo(S, s, n)}
<1>1. JoinsUpTo(S, s, 0)
  <2> DEFINE f == [i \in 1..0 |-> s[i]]
  <2>1. f \in [1..0 -> Seq(S)] /\ 1..0 = {}
    OBVIOUS
  <2> HIDE DEF f
  <2>2. QED
    BY <2>1 DEF JoinsUpTo
<1>2. ASSUME NEW n \in T PROVE n + 1 \in T
  <2>1. n \in Nat /\ n + 1 \in Nat /\ (n + 1 <= Len(s) => n < Len(s) /\ n <= Len(s))
    BY <1>0
  <2>2. n + 1 <= Len(s) => JoinsUpTo(S, s, n + 1)
    BY <2>1, OneMoreJoin
  <2>3. QED
    BY <2>1, <2>2
<1>3. T \in SUBSET Nat /\ 0 \in T
  BY <1>1
<1>4. T = Nat
  <2> HIDE DEF T
  <2>1. QED
    BY <1>2, <1>3, SetInduction
<1>5. Len(s) \in T
  BY <1>0, <1>4
<1>6. JoinsUpTo(S, s, Len(s))
  BY <1>0, <1>5
<1>7. QED
  BY <1>6 DEF JoinsUpTo, JoinsUp

LEMMA FlattenEmpty == FlattenSeq(<<>>) = <<>>
<1>1. Len(<<>>) = 0
  BY EmptySeq
<1>2. QED
  BY <1>1 DEF FlattenSeq

LEMMA FlattenType ==
    ASSUME NEW S, NEW s \in Seq(Seq(S))
    PROVE  FlattenSeq(s) \in Seq(S)
<1>1. PICK f \in [1..Len(s) -> Seq(S)] : JoinsUp(s, f)
  BY JoinsUpExists
<1>2. CASE s = <<>>
  BY <1>2, FlattenEmpty, EmptySeq
<1>3. CASE s # <<>>
  <2>1. Len(s) \in Nat \ {0} /\ Len(s) \in 1..Len(s)
    BY <1>3, EmptySeq
  <2>2. f[Len(s)] \in Seq(S) /\ f = [i \in 1..Len(s) |-> f[i]]
    BY <1>1, <2>1
  <2>3. QED
    BY <1>1, <2>1, <2>2, FlattenIsJoin
<1>4. QED
  BY <1>2, <1>3

LEMMA FlattenAppend ==
    ASSUME NEW S, NEW s \in Seq(Seq(S)), NEW x \in Seq(S)
    PROVE  FlattenSeq(Append(s, x)) = FlattenSeq(s) \o x
<1> DEFINE t == Append(s, x)
           n == Len(s)
<1>1. /\ t \in Seq(Seq(S)) /\ Len(t) = n + 1 /\ n \in Nat
      /\ \A i \in 1..n : t[i] = s[i]
      /\ t[n + 1] = x
  BY AppendProperties, LenProperties
<1>2. PICK f \in [1..n -> Seq(S)] : JoinsUp(s, f)
  BY JoinsUpExists
<1>3. n # 0 => FlattenSeq(s) = f[n]
  <2>1. f = [i \in 1..Len(s) |-> f[i]]
    BY <1>2
  <2>2. QED
    BY <1>1, <1>2, <2>1, FlattenIsJoin
<1>4. n = 0 => FlattenSeq(s) = <<>> /\ <<>> \o x = x
  <2>1. n = 0 => s = <<>>
    BY EmptySeq
  <2>2. QED
    BY <2>1, FlattenEmpty, ConcatEmptySeq
<1> HIDE DEF t, n
<1> DEFINE last == FlattenSeq(s) \o x
           g == [i \in 1..Len(t) |-> IF i = n + 1 THEN last ELSE f[i]]
<1>5. g = [i \in 1..Len(t) |-> g[i]] /\ DOMAIN g = 1..Len(t)
  OBVIOUS
<1>6. g[n + 1] = last /\ \A i \in 1..n : g[i] = f[i]
  BY <1>1
<1> HIDE DEF g
<1>7. ASSUME NEW i \in 1..Len(t)
      PROVE  g[i] = IF i = 1 THEN t[i] ELSE g[i - 1] \o t[i]
  <2>1. CASE i = n + 1
    <3>1. n # 0 => n \in 1..n /\ i - 1 = n /\ i # 1
      BY <1>1, <2>1
    <3>2. n = 0 => i = 1
      BY <2>1
    <3>3. CASE n = 0
      BY <1>1, <1>4, <1>6, <2>1, <3>2, <3>3
    <3>4. CASE n # 0
      BY <1>1, <1>3, <1>6, <2>1, <3>1, <3>4
    <3>5. QED
      BY <3>3, <3>4
  <2>2. CASE i # n + 1
    <3>1. i \in 1..n /\ (i # 1 => i - 1 \in 1..n)
      BY <1>1, <2>2
    <3>2. f[i] = IF i = 1 THEN s[i] ELSE f[i - 1] \o s[i]
      BY <1>2, <3>1 DEF JoinsUp, n
    <3>3. QED
      BY <1>1, <1>6, <3>1, <3>2
  <2>3. QED
    BY <2>1, <2>2
<1>8. JoinsUp(t, g)
  BY <1>5, <1>7 DEF JoinsUp
<1>9. FlattenSeq(t) = g[Len(t)]
  BY <1>1, <1>5, <1>8, FlattenIsJoin
<1>10. QED
  BY <1>1, <1>6, <1>9 DEF t

-----------------------------------------------------------------------------
(* A sequence is built by appending, one element after the other. *)

LEMMA FrontThenLast ==
    ASSUME NEW S, NEW s \in Seq(S), NEW n \in Nat, Len(s) = n + 1
    PROVE  /\ SubSeq(s, 1, n) \in Seq(S) /\ Len(SubSeq(s, 1, n)) = n
           /\ s[n + 1] \in S
           /\ s = Append(SubSeq(s, 1, n), s[n + 1])
<1>1. n + 1 \in 1..Len(s) /\ \A i \in 1..n : i \in 1..Len(s)
  OBVIOUS
<1>2. s[n + 1] \in S
  BY <1>1, ElementOfSeq
<1> DEFINE a == SubSeq(s, 1, n)
<1>3. a \in Seq(S) /\ Len(a) = n /\ \A i \in 1..n : a[i] = s[i]
  OBVIOUS
<1> HIDE DEF a
<1> DEFINE b == Append(a, s[n + 1])
<1>4. b \in Seq(S) /\ Len(b) = n + 1 /\ b[n + 1] = s[n + 1] /\ \A i \in 1..n : b[i] = a[i]
  BY <1>2, <1>3, AppendProperties
<1> HIDE DEF b
<1>5. ASSUME NEW i \in 1..Len(s) PROVE s[i] = b[i]
  <2>1. i = n + 1 \/ i \in 1..n
    OBVIOUS
  <2>2. QED
    BY <1>3, <1>4, <2>1
<1>6. s = b
  BY <1>4, <1>5, SeqEqual
<1>7. QED
  BY <1>2, <1>3, <1>6 DEF a, b

LEMMA SequencesByAppend ==
    ASSUME NEW S, NEW T \in SUBSET Seq(S), <<>> \in T,
           \A s \in T : \A x \in S : Append(s, x) \in T
    PROVE  T = Seq(S)
<1> DEFINE L == {n \in Nat : \A s \in Seq(S) : Len(s) = n => s \in T}
<1>1. 0 \in L
  BY EmptySeq
<1>2. ASSUME NEW n \in L PROVE n + 1 \in L
  <2>1. n \in Nat /\ n + 1 \in Nat /\ \A s \in Seq(S) : Len(s) = n => s \in T
    OBVIOUS
  <2> HIDE DEF L
  <2>2. ASSUME NEW s \in Seq(S), Len(s) = n + 1 PROVE s \in T
    <3>1. SubSeq(s, 1, n) \in T
      BY <2>1, <2>2, FrontThenLast
    <3>2. s[n + 1] \in S /\ s = Append(SubSeq(s, 1, n), s[n + 1])
      BY <2>1, <2>2, FrontThenLast
    <3>3. QED
      BY <3>1, <3>2
  <2>3. QED
    BY <2>1, <2>2 DEF L
<1>3. L = Nat
  <2>1. L \in SUBSET Nat
    OBVIOUS
  <2> HIDE DEF L
  <2>2. QED
    BY <1>1, <1>2, <2>1, SetInduction
<1>4. ASSUME NEW s \in Seq(S) PROVE s \in T
  <2>1. Len(s) \in L
    BY <1>3, LenProperties
  <2>2. QED
    BY <2>1
<1>5. QED
  BY <1>4

-----------------------------------------------------------------------------
(* One sequence is the beginning of another. *)

Begins(s, t) == Len(s) <= Len(t) /\ \A i \in 1..Len(s) : s[i] = t[i]

LEMMA BeginsItself ==
    ASSUME NEW S, NEW s \in Seq(S)
    PROVE  Begins(s, s) /\ Begins(<<>>, s)
BY LenProperties, EmptySeq DEF Begins

LEMMA BeginsTrans ==
    ASSUME NEW S, NEW s \in Seq(S), NEW t \in Seq(S), NEW u \in Seq(S), Begins(s, t), Begins(t, u)
    PROVE  Begins(s, u)
<1> DEFINE l == Len(s)
           m == Len(t)
           n == Len(u)
<1>1. l \in Nat /\ m \in Nat /\ n \in Nat
  BY LenProperties
<1>2. l <= m /\ m <= n /\ (\A i \in 1..l : s[i] = t[i]) /\ (\A i \in 1..m : t[i] = u[i])
  BY DEF Begins
<1>3. (l <= n /\ \A i \in 1..l : s[i] = u[i]) => Begins(s, u)
  BY DEF Begins
<1> HIDE DEF l, m, n
<1>4. l <= n /\ \A i \in 1..l : i \in 1..m
  BY <1>1, <1>2
<1>5. QED
  BY <1>2, <1>3, <1>4

(* Two beginnings of the same sequence: the shorter begins the longer. *)
LEMMA BeginsShorter ==
    ASSUME NEW S, NEW s \in Seq(S), NEW t \in Seq(S), NEW u \in Seq(S), Begins(s, u), Begins(t, u),
           Len(s) <= Len(t)
    PROVE  Begins(s, t)
<1> DEFINE l == Len(s)
           m == Len(t)
<1>1. l \in Nat /\ m \in Nat /\ l <= m
  BY LenProperties
<1>2. (\A i \in 1..l : s[i] = u[i]) /\ (\A i \in 1..m : t[i] = u[i])
  BY DEF Begins
<1>3. (l <= m /\ \A i \in 1..l : s[i] = t[i]) => Begins(s, t)
  BY DEF Begins
<1> HIDE DEF l, m
<1>4. \A i \in 1..l : i \in 1..m
  BY <1>1
<1>5. QED
  BY <1>1, <1>2, <1>3, <1>4

LEMMA BeginsEqual ==
    ASSUME NEW S, NEW s \in Seq(S), NEW t \in Seq(S), Begins(s, t), Len(t) <= Len(s)
    PROVE  s = t
<1>1. Len(s) \in Nat /\ Len(t) \in Nat /\ Len(s) <= Len(t)
  BY LenProperties DEF Begins
<1>2. Len(s) = Len(t)
  BY <1>1
<1>3. \A i \in 1..Len(s) : s[i] = t[i]
  BY DEF Begins
<1>4. QED
  BY <1>2, <1>3, SeqEqual

LEMMA BeginsConcat ==
    ASSUME NEW S, NEW s \in Seq(S), NEW t \in Seq(S)
    PROVE  Begins(s, s \o t)
<1>1. /\ Len(s \o t) = Len(s) + Len(t) /\ Len(s) \in Nat /\ Len(t) \in Nat
      /\ \A i \in 1..(Len(s) + Len(t)) : (s \o t)[i] = IF i <= Len(s) THEN s[i] ELSE t[i - Len(s)]
  BY ConcatProperties, LenProperties
<1>2. ASSUME NEW i \in 1..Len(s) PROVE (s \o t)[i] = s[i]
  <2>1. i \in 1..(Len(s) + Len(t)) /\ i <= Len(s)
    BY <1>1
  <2>2. QED
    BY <1>1, <2>1
<1>3. Len(s) <= Len(s \o t)
  BY <1>1
<1>4. QED
  BY <1>2, <1>3 DEF Begins

LEMMA BeginsAppend ==
    ASSUME NEW S, NEW s \in Seq(S), NEW x \in S
    PROVE  Begins(s, Append(s, x))
<1>1. <<x>> \in Seq(S) /\ s \o <<x>> = Append(s, x)
  BY AppendOne
<1>2. QED
  BY <1>1, BeginsConcat

LEMMA BeginsSubSeq ==
    ASSUME NEW S, NEW t \in Seq(S), NEW n \in 0..Len(t)
    PROVE  /\ SubSeq(t, 1, n) \in Seq(S) /\ Len(SubSeq(t, 1, n)) = n
           /\ Begins(SubSeq(t, 1, n), t)
<1> DEFINE u == SubSeq(t, 1, n)
<1>1. n \in Nat /\ n <= Len(t) /\ Len(t) \in Nat
  BY LenProperties
<1>2. u \in Seq(S) /\ Len(u) = n /\ \A i \in 1..n : u[i] = t[i]
  BY <1>1
<1> HIDE DEF u
<1>3. Begins(u, t)
  BY <1>1, <1>2 DEF Begins
<1>4. QED
  BY <1>2, <1>3 DEF u

LEMMA BeginningIsSubSeq ==
    ASSUME NEW S, NEW s \in Seq(S), NEW t \in Seq(S), Begins(s, t)
    PROVE  s = SubSeq(t, 1, Len(s))
<1>1. Len(s) \in 0..Len(t)
  BY LenProperties DEF Begins
<1> DEFINE u == SubSeq(t, 1, Len(s))
<1>2. u \in Seq(S) /\ Len(u) = Len(s) /\ Begins(u, t)
  BY <1>1, BeginsSubSeq
<1> HIDE DEF u
<1>3. \A i \in 1..Len(s) : s[i] = u[i]
  BY <1>2 DEF Begins
<1>4. s = u
  BY <1>2, <1>3, SeqEqual
<1>5. QED
  BY <1>4 DEF u

LEMMA AppendToBeginning ==
    ASSUME NEW S, NEW s \in Seq(S), NEW t \in Seq(S), NEW n \in Nat, n < Len(t), n = Len(s),
           Begins(s, t)
    PROVE  t[n + 1] \in S /\ Begins(Append(s, t[n + 1]), t)
<1>1. n + 1 \in 1..Len(t) /\ Len(t) \in Nat
  BY LenProperties
<1>2. t[n + 1] \in S
  BY <1>1, ElementOfSeq
<1> DEFINE u == Append(s, t[n + 1])
<1>3. u \in Seq(S) /\ Len(u) = n + 1 /\ u[n + 1] = t[n + 1] /\ \A i \in 1..n : u[i] = s[i]
  BY <1>2, AppendProperties
<1> HIDE DEF u
<1>4. ASSUME NEW i \in 1..(n + 1) PROVE u[i] = t[i]
  <2>1. i = n + 1 \/ i \in 1..n
    OBVIOUS
  <2>2. \A j \in 1..n : s[j] = t[j]
    BY DEF Begins
  <2>3. QED
    BY <1>3, <2>1, <2>2
<1>5. Begins(u, t)
  BY <1>1, <1>3, <1>4 DEF Begins
<1>6. QED
  BY <1>2, <1>5 DEF u

(* Flattening a beginning gives a beginning. *)
LEMMA FlattenBegins ==
    ASSUME NEW S, NEW s \in Seq(Seq(S)), NEW t \in Seq(Seq(S)), Begins(s, t)
    PROVE  Begins(FlattenSeq(s), FlattenSeq(t))
<1> DEFINE Fine(u) == \A w \in Seq(Seq(S)) : Begins(w, u) => Begins(FlattenSeq(w), FlattenSeq(u))
           T == {u \in Seq(Seq(S)) : Fine(u)}
<1>1. ASSUME NEW u \in Seq(Seq(S)), NEW w \in Seq(Seq(S)), Begins(w, u), Len(u) <= Len(w)
      PROVE  Begins(FlattenSeq(w), FlattenSeq(u))
  BY <1>1, BeginsEqual, FlattenType, BeginsItself
<1>2. Fine(<<>>)
  <2>1. <<>> \in Seq(Seq(S)) /\ Len(<<>>) = 0
    BY EmptySeq
  <2>2. \A w \in Seq(Seq(S)) : 0 <= Len(w)
    BY LenProperties
  <2>3. QED
    BY <1>1, <2>1, <2>2
<1>3. ASSUME NEW u \in Seq(Seq(S)), Fine(u), NEW x \in Seq(S)
      PROVE  Fine(Append(u, x))
  <2> DEFINE more == Append(u, x)
  <2>1. /\ more \in Seq(Seq(S)) /\ Len(more) = Len(u) + 1 /\ Len(u) \in Nat
        /\ Begins(u, more)
    BY AppendProperties, LenProperties, BeginsAppend
  <2>2. Begins(FlattenSeq(u), FlattenSeq(more))
    <3>1. FlattenSeq(more) = FlattenSeq(u) \o x
      BY FlattenAppend
    <3>2. FlattenSeq(u) \in Seq(S)
      BY FlattenType
    <3>3. Begins(FlattenSeq(u), FlattenSeq(u) \o x)
      BY <3>2, BeginsConcat
    <3>4. QED
      BY <3>1, <3>3
  <2> HIDE DEF more
  <2> SUFFICES ASSUME NEW w \in Seq(Seq(S)), Begins(w, more)
               PROVE  Begins(FlattenSeq(w), FlattenSeq(more))
    BY DEF more
  <2>3. Len(w) \in Nat
    BY LenProperties
  <2>4. CASE Len(more) <= Len(w)
    BY <1>1, <2>1, <2>4
  <2>5. CASE ~ (Len(more) <= Len(w))
    <3>1. Len(w) <= Len(u)
      BY <2>1, <2>3, <2>5
    <3>2. Begins(w, u)
      BY <2>1, <3>1, BeginsShorter
    <3>3. Begins(FlattenSeq(w), FlattenSeq(u))
      BY <1>3, <3>2
    <3>4. FlattenSeq(w) \in Seq(S) /\ FlattenSeq(u) \in Seq(S) /\ FlattenSeq(more) \in Seq(S)
      BY <2>1, FlattenType
    <3>5. QED
      BY <2>2, <3>3, <3>4, BeginsTrans
  <2>6. QED
    BY <2>4, <2>5
<1> HIDE DEF Fine
<1>4. T \in SUBSET Seq(Seq(S)) /\ <<>> \in T
  BY <1>2, EmptySeq
<1>5. ASSUME NEW u \in T, NEW x \in Seq(S) PROVE Append(u, x) \in T
  BY <1>3, AppendProperties
<1>6. T = Seq(Seq(S))
  <2> HIDE DEF T
  <2>1. QED
    BY <1>4, <1>5, SequencesByAppend
<1>7. Fine(t)
  BY <1>6
<1>8. QED
  BY <1>7 DEF Fine

-----------------------------------------------------------------------------
(* The elements of a sequence that are members of a set, in its order. *)

Chosen(s, T) == FlattenSeq([i \in DOMAIN s |-> IF s[i] \in T THEN <<s[i]>> ELSE <<>>])

(* Each as a list of one, or none: Chosen joins these. *)
Ones(s, T) == [i \in DOMAIN s |-> IF s[i] \in T THEN <<s[i]>> ELSE <<>>]

LEMMA OneOrNone ==
    ASSUME NEW S, NEW T, NEW x \in S
    PROVE  (IF x \in T THEN <<x>> ELSE <<>>) \in Seq(S \cap T)
<1>1. CASE x \in T
  <2>1. x \in S \cap T /\ <<>> \in Seq(S \cap T)
    BY <1>1, EmptySeq
  <2>2. <<x>> \in Seq(S \cap T)
    BY <2>1, AppendOne
  <2>3. QED
    BY <1>1, <2>2
<1>2. CASE x \notin T
  BY <1>2, EmptySeq
<1>3. QED
  BY <1>1, <1>2

LEMMA OnesType ==
    ASSUME NEW S, NEW T, NEW s \in Seq(S)
    PROVE  Ones(s, T) \in Seq(Seq(S \cap T)) /\ Len(Ones(s, T)) = Len(s)
<1>1. DOMAIN s = 1..Len(s) /\ Len(s) \in Nat
  BY LenProperties
<1>2. ASSUME NEW i \in 1..Len(s)
      PROVE  (IF s[i] \in T THEN <<s[i]>> ELSE <<>>) \in Seq(S \cap T)
  <2>1. s[i] \in S
    BY ElementOfSeq
  <2>2. QED
    BY <2>1, OneOrNone
<1>3. Ones(s, T) \in [1..Len(s) -> Seq(S \cap T)]
  BY <1>1, <1>2 DEF Ones
<1> DEFINE o == Ones(s, T)
           n == Len(s)
<1>4. o \in [1..n -> Seq(S \cap T)] /\ n \in Nat
  BY <1>1, <1>3
<1> HIDE DEF o, n
<1>5. o \in Seq(Seq(S \cap T)) /\ Len(o) = n
  BY <1>4, FunctionIsSeq
<1>6. QED
  BY <1>5 DEF o, n

LEMMA ChosenType ==
    ASSUME NEW S, NEW T, NEW s \in Seq(S)
    PROVE  Chosen(s, T) \in Seq(S \cap T) /\ Chosen(s, T) \in Seq(S)
<1>1. Chosen(s, T) = FlattenSeq(Ones(s, T))
  BY DEF Chosen, Ones
<1>2. FlattenSeq(Ones(s, T)) \in Seq(S \cap T)
  BY OnesType, FlattenType
<1>3. Seq(S \cap T) \subseteq Seq(S)
  OBVIOUS
<1>4. QED
  BY <1>1, <1>2, <1>3

LEMMA ChosenEmpty == \A T : Chosen(<<>>, T) = <<>>
<1>1. ASSUME NEW T PROVE Ones(<<>>, T) = <<>>
  BY DEF Ones
<1>2. ASSUME NEW T PROVE Chosen(<<>>, T) = FlattenSeq(Ones(<<>>, T))
  BY DEF Chosen, Ones
<1>3. QED
  BY <1>1, <1>2, FlattenEmpty

LEMMA ChosenAppend ==
    ASSUME NEW S, NEW T, NEW s \in Seq(S), NEW x \in S
    PROVE  Chosen(Append(s, x), T) = IF x \in T THEN Append(Chosen(s, T), x) ELSE Chosen(s, T)
<1> DEFINE more == Append(s, x)
           one == IF x \in T THEN <<x>> ELSE <<>>
           o == Ones(s, T)
           p == Ones(more, T)
           q == Append(o, one)
<1>1. /\ more \in Seq(S) /\ Len(more) = Len(s) + 1 /\ Len(s) \in Nat
      /\ more[Len(s) + 1] = x /\ \A i \in 1..Len(s) : more[i] = s[i]
  BY AppendProperties, LenProperties
<1>2. one \in Seq(S \cap T)
  BY OneOrNone
<1>3. /\ o \in Seq(Seq(S \cap T)) /\ Len(o) = Len(s)
      /\ p \in Seq(Seq(S \cap T)) /\ Len(p) = Len(more)
  BY <1>1, OnesType
<1>4. DOMAIN s = 1..Len(s) /\ DOMAIN more = 1..Len(more)
  BY <1>1, LenProperties
<1>5. /\ \A i \in 1..Len(s) : o[i] = IF s[i] \in T THEN <<s[i]>> ELSE <<>>
      /\ \A i \in 1..Len(more) : p[i] = IF more[i] \in T THEN <<more[i]>> ELSE <<>>
  BY <1>4 DEF Ones
<1>6. /\ q \in Seq(Seq(S \cap T)) /\ Len(q) = Len(o) + 1
      /\ q[Len(o) + 1] = one /\ \A i \in 1..Len(o) : q[i] = o[i]
  BY <1>2, <1>3, AppendProperties
<1>7. Chosen(more, T) = FlattenSeq(p) /\ Chosen(s, T) = FlattenSeq(o)
  BY DEF Chosen, Ones
<1>8. FlattenSeq(q) = FlattenSeq(o) \o one
  BY <1>2, <1>3, FlattenAppend
<1>9. FlattenSeq(o) \in Seq(S \cap T)
  BY <1>3, FlattenType
<1> HIDE DEF more, o, p, q
<1>10. ASSUME NEW i \in 1..Len(p) PROVE p[i] = q[i]
  <2>1. i = Len(s) + 1 \/ i \in 1..Len(s)
    BY <1>1, <1>3
  <2>2. i \in 1..Len(more)
    BY <1>3
  <2>3. CASE i = Len(s) + 1
    BY <1>1, <1>3, <1>5, <1>6, <2>2, <2>3
  <2>4. CASE i \in 1..Len(s)
    BY <1>1, <1>3, <1>5, <1>6, <2>2, <2>4
  <2>5. QED
    BY <2>1, <2>3, <2>4
<1>11. p = q
  BY <1>1, <1>3, <1>6, <1>10, SeqEqual
<1>12. CASE x \in T
  <2>1. x \in S \cap T /\ one = <<x>>
    BY <1>12
  <2>2. FlattenSeq(o) \o <<x>> = Append(FlattenSeq(o), x)
    BY <1>9, <2>1, AppendOne
  <2>3. QED
    BY <1>7, <1>8, <1>11, <1>12, <2>1, <2>2 DEF more
<1>13. CASE x \notin T
  <2>1. one = <<>> /\ FlattenSeq(o) \o <<>> = FlattenSeq(o)
    BY <1>9, <1>13, ConcatEmptySeq
  <2>2. QED
    BY <1>7, <1>8, <1>11, <1>13, <2>1 DEF more
<1>14. QED
  BY <1>12, <1>13

LEMMA ChosenBegins ==
    ASSUME NEW S, NEW T, NEW s \in Seq(S), NEW t \in Seq(S), Begins(s, t)
    PROVE  Begins(Chosen(s, T), Chosen(t, T))
<1> DEFINE Fine(u) == \A w \in Seq(S) : Begins(w, u) => Begins(Chosen(w, T), Chosen(u, T))
           G == {u \in Seq(S) : Fine(u)}
<1>1. ASSUME NEW u \in Seq(S), NEW w \in Seq(S), Begins(w, u), Len(u) <= Len(w)
      PROVE  Begins(Chosen(w, T), Chosen(u, T))
  <2>1. w = u
    BY <1>1, BeginsEqual
  <2>2. Chosen(u, T) \in Seq(S)
    BY ChosenType
  <2>3. Begins(Chosen(u, T), Chosen(u, T))
    BY <2>2, BeginsItself
  <2>4. QED
    BY <2>1, <2>3
<1>2. Fine(<<>>)
  <2>1. <<>> \in Seq(S) /\ Len(<<>>) = 0
    BY EmptySeq
  <2>2. \A w \in Seq(S) : 0 <= Len(w)
    BY LenProperties
  <2>3. QED
    BY <1>1, <2>1, <2>2
<1>3. ASSUME NEW u \in Seq(S), Fine(u), NEW x \in S
      PROVE  Fine(Append(u, x))
  <2> DEFINE more == Append(u, x)
  <2>1. /\ more \in Seq(S) /\ Len(more) = Len(u) + 1 /\ Len(u) \in Nat
        /\ Begins(u, more)
    BY AppendProperties, LenProperties, BeginsAppend
  <2>2. Begins(Chosen(u, T), Chosen(more, T))
    <3>1. Chosen(u, T) \in Seq(S)
      BY ChosenType
    <3>2. Chosen(more, T) = IF x \in T THEN Append(Chosen(u, T), x) ELSE Chosen(u, T)
      BY ChosenAppend
    <3>3. Begins(Chosen(u, T), Chosen(u, T)) /\ Begins(Chosen(u, T), Append(Chosen(u, T), x))
      BY <3>1, BeginsItself, BeginsAppend
    <3>4. QED
      BY <3>2, <3>3
  <2> HIDE DEF more
  <2> SUFFICES ASSUME NEW w \in Seq(S), Begins(w, more)
               PROVE  Begins(Chosen(w, T), Chosen(more, T))
    BY DEF more
  <2>3. Len(w) \in Nat
    BY LenProperties
  <2>4. CASE Len(more) <= Len(w)
    BY <1>1, <2>1, <2>4
  <2>5. CASE ~ (Len(more) <= Len(w))
    <3>1. Len(w) <= Len(u)
      BY <2>1, <2>3, <2>5
    <3>2. Begins(w, u)
      BY <2>1, <3>1, BeginsShorter
    <3>3. Begins(Chosen(w, T), Chosen(u, T))
      BY <1>3, <3>2
    <3>4. Chosen(w, T) \in Seq(S) /\ Chosen(u, T) \in Seq(S) /\ Chosen(more, T) \in Seq(S)
      BY <2>1, ChosenType
    <3>5. QED
      BY <2>2, <3>3, <3>4, BeginsTrans
  <2>6. QED
    BY <2>4, <2>5
<1> HIDE DEF Fine
<1>4. G \in SUBSET Seq(S) /\ <<>> \in G
  BY <1>2, EmptySeq
<1>5. ASSUME NEW u \in G, NEW x \in S PROVE Append(u, x) \in G
  BY <1>3, AppendProperties
<1>6. G = Seq(S)
  <2> HIDE DEF G
  <2>1. QED
    BY <1>4, <1>5, SequencesByAppend
<1>7. Fine(t)
  BY <1>6
<1>8. QED
  BY <1>7 DEF Fine

LEMMA ChosenTwice ==
    ASSUME NEW S, NEW T, NEW U, \A x \in S : x \in T => x \in U, NEW s \in Seq(S)
    PROVE  Chosen(Chosen(s, U), T) = Chosen(s, T)
<1> DEFINE Fine(u) == Chosen(Chosen(u, U), T) = Chosen(u, T)
           G == {u \in Seq(S) : Fine(u)}
<1>1. Fine(<<>>)
  BY ChosenEmpty
<1>2. ASSUME NEW u \in Seq(S), Fine(u), NEW x \in S
      PROVE  Fine(Append(u, x))
  <2> DEFINE more == Append(u, x)
  <2>1. Chosen(u, U) \in Seq(S)
    BY ChosenType
  <2>2. /\ Chosen(more, U) = IF x \in U THEN Append(Chosen(u, U), x) ELSE Chosen(u, U)
        /\ Chosen(more, T) = IF x \in T THEN Append(Chosen(u, T), x) ELSE Chosen(u, T)
    BY ChosenAppend
  <2>3. Chosen(Append(Chosen(u, U), x), T) =
          IF x \in T THEN Append(Chosen(Chosen(u, U), T), x) ELSE Chosen(Chosen(u, U), T)
    BY <2>1, ChosenAppend
  <2> HIDE DEF more
  <2>4. Chosen(Chosen(more, U), T) = Chosen(more, T)
    BY <1>2, <2>2, <2>3
  <2>5. QED
    BY <2>4 DEF more
<1> HIDE DEF Fine
<1>3. G \in SUBSET Seq(S) /\ <<>> \in G
  BY <1>1, EmptySeq
<1>4. ASSUME NEW u \in G, NEW x \in S PROVE Append(u, x) \in G
  BY <1>2, AppendProperties
<1>5. G = Seq(S)
  <2> HIDE DEF G
  <2>1. QED
    BY <1>3, <1>4, SequencesByAppend
<1>6. Fine(s)
  BY <1>5
<1>7. QED
  BY <1>6 DEF Fine

LEMMA ChosenNone ==
    ASSUME NEW S, NEW T, \A x \in S : x \notin T, NEW s \in Seq(S)
    PROVE  Chosen(s, T) = <<>>
<1>1. Chosen(s, T) \in Seq(S \cap T)
  BY ChosenType
<1> DEFINE c == Chosen(s, T)
<1>2. c \in Seq(S \cap T)
  BY <1>1
<1> HIDE DEF c
<1>3. S \cap T = {}
  OBVIOUS
<1>4. ASSUME c # <<>> PROVE FALSE
  <2>1. 1 \in 1..Len(c)
    BY <1>2, <1>4, EmptySeq, LenProperties
  <2>2. c[1] \in S \cap T
    BY <1>2, <2>1, ElementOfSeq
  <2>3. QED
    BY <1>3, <2>2
<1>5. QED
  BY <1>4 DEF c

-----------------------------------------------------------------------------
(* Going on step by step, and the greatest member of a bounded set. *)

StepsTo(W, w, F, n) ==
    \E g \in [0..n -> W] : g[0] = w /\ \A i \in 1..n : g[i] = F[g[i - 1]]

LEMMA OneMoreStep ==
    ASSUME NEW W, NEW w \in W, NEW F \in [W -> W], NEW n \in Nat, StepsTo(W, w, F, n)
    PROVE  StepsTo(W, w, F, n + 1)
<1>1. PICK g \in [0..n -> W] : g[0] = w /\ \A i \in 1..n : g[i] = F[g[i - 1]]
  BY DEF StepsTo
<1> DEFINE last == F[g[n]]
           h == [i \in 0..(n + 1) |-> IF i = n + 1 THEN last ELSE g[i]]
<1>2. last \in W
  <2>1. n \in 0..n
    OBVIOUS
  <2>2. g[n] \in W
    BY <2>1
  <2>3. QED
    BY <2>2
<1>3. h \in [0..(n + 1) -> W]
  <2> HIDE DEF last
  <2>1. QED
    BY <1>2
<1>4. h[n + 1] = last /\ \A i \in 0..n : h[i] = g[i]
  OBVIOUS
<1> HIDE DEF h
<1>5. ASSUME NEW i \in 1..(n + 1) PROVE h[i] = F[h[i - 1]]
  <2>1. CASE i = n + 1
    <3>1. n \in 0..n /\ i - 1 = n
      BY <2>1
    <3>2. QED
      BY <1>4, <2>1, <3>1
  <2>2. CASE i # n + 1
    <3>1. i \in 1..n /\ i \in 0..n /\ i - 1 \in 0..n
      BY <2>2
    <3>2. QED
      BY <1>1, <1>4, <3>1
  <2>3. QED
    BY <2>1, <2>2
<1>6. h[0] = w
  BY <1>1, <1>4
<1>7. QED
  BY <1>3, <1>5, <1>6 DEF StepsTo

LEMMA StepsExist ==
    ASSUME NEW W, NEW w \in W, NEW F \in [W -> W], NEW n \in Nat
    PROVE  StepsTo(W, w, F, n)
<1> DEFINE T == {m \in Nat : StepsTo(W, w, F, m)}
<1>1. StepsTo(W, w, F, 0)
  <2> DEFINE g == [i \in 0..0 |-> w]
  <2>1. g \in [0..0 -> W] /\ g[0] = w /\ 1..0 = {}
    OBVIOUS
  <2> HIDE DEF g
  <2>2. QED
    BY <2>1 DEF StepsTo
<1>2. ASSUME NEW m \in T PROVE m + 1 \in T
  BY OneMoreStep
<1>3. T \in SUBSET Nat /\ 0 \in T
  BY <1>1
<1>4. T = Nat
  <2> HIDE DEF T
  <2>1. QED
    BY <1>2, <1>3, SetInduction
<1>5. QED
  BY <1>4

LEMMA GreatestMember ==
    ASSUME NEW n \in Nat, NEW T \in SUBSET 1..n, T # {}
    PROVE  \E m \in T : \A k \in T : k <= m
<1> DEFINE U == {n - k : k \in T}
<1>1. U \in SUBSET Nat /\ U # {}
  <2>1. \A k \in T : n - k \in Nat
    OBVIOUS
  <2>2. U \in SUBSET Nat
    BY <2>1
  <2>3. PICK k \in T : TRUE
    OBVIOUS
  <2>4. n - k \in U
    BY <2>3
  <2>5. QED
    BY <2>2, <2>4
<1>2. PICK d \in U : \A c \in U : d <= c
  <2> HIDE DEF U
  <2>1. QED
    BY <1>1, LeastMember
<1>3. PICK m \in T : d = n - m
  OBVIOUS
<1>4. ASSUME NEW k \in T PROVE k <= m
  <2>1. n - m <= n - k
    BY <1>2, <1>3
  <2>2. k \in Nat /\ m \in Nat
    OBVIOUS
  <2>3. QED
    BY <2>1, <2>2
<1>5. QED
  BY <1>4

LEMMA SubSeqAppend ==
    ASSUME NEW S, NEW s \in Seq(S), NEW k \in 1..Len(s)
    PROVE  SubSeq(s, 1, k) = Append(SubSeq(s, 1, k - 1), s[k])
<1> DEFINE a == SubSeq(s, 1, k)
           b == SubSeq(s, 1, k - 1)
<1>1. k \in Nat /\ k - 1 \in Nat /\ Len(s) \in Nat /\ k \in 0..Len(s) /\ k - 1 \in 0..Len(s)
  BY LenProperties
<1>2. a \in Seq(S) /\ Len(a) = k /\ Begins(a, s) /\ b \in Seq(S) /\ Len(b) = k - 1 /\ Begins(b, s)
  BY <1>1, BeginsSubSeq
<1>3. s[k] \in S
  BY ElementOfSeq
<1> HIDE DEF a, b
<1> DEFINE c == Append(b, s[k])
<1>4. c \in Seq(S) /\ Len(c) = k - 1 + 1 /\ c[k - 1 + 1] = s[k] /\ \A i \in 1..(k - 1) : c[i] = b[i]
  BY <1>2, <1>3, AppendProperties
<1> HIDE DEF c
<1>5. k - 1 + 1 = k
  BY <1>1
<1>6. ASSUME NEW i \in 1..k PROVE a[i] = c[i]
  <2>1. i = k \/ i \in 1..(k - 1)
    BY <1>1
  <2>2. a[i] = s[i] /\ (i \in 1..(k - 1) => b[i] = s[i])
    BY <1>2 DEF Begins
  <2>3. QED
    BY <1>4, <1>5, <2>1, <2>2
<1>7. a = c
  BY <1>2, <1>4, <1>5, <1>6, SeqEqual
<1>8. QED
  BY <1>7 DEF a, b, c

LEMMA SameBeginning ==
    ASSUME NEW S, NEW s \in Seq(S), NEW t \in Seq(S), Begins(s, t), NEW n \in 0..Len(s)
    PROVE  n \in 0..Len(t) /\ SubSeq(t, 1, n) = SubSeq(s, 1, n)
<1>1. Len(s) \in Nat /\ Len(t) \in Nat /\ Len(s) <= Len(t) /\ n \in 0..Len(t)
  BY LenProperties DEF Begins
<1> DEFINE a == SubSeq(s, 1, n)
           b == SubSeq(t, 1, n)
<1>2. a \in Seq(S) /\ Len(a) = n /\ Begins(a, s) /\ b \in Seq(S) /\ Len(b) = n /\ Begins(b, t)
  BY <1>1, BeginsSubSeq
<1> HIDE DEF a, b
<1>3. Begins(a, t)
  BY <1>2, BeginsTrans
<1>4. n \in Nat /\ n <= n
  OBVIOUS
<1>5. Begins(b, a)
  BY <1>2, <1>3, <1>4, BeginsShorter
<1>6. b = a
  BY <1>2, <1>4, <1>5, BeginsEqual
<1>7. QED
  BY <1>1, <1>6 DEF a, b

LEMMA BeginsAfter ==
    ASSUME NEW S, NEW s \in Seq(S), NEW t \in Seq(S), NEW u \in Seq(S), Begins(t, u)
    PROVE  Begins(s \o t, s \o u)
<1> DEFINE l == Len(s)
           m == Len(t)
           n == Len(u)
           a == s \o t
           b == s \o u
<1>1. l \in Nat /\ m \in Nat /\ n \in Nat
  BY LenProperties
<1>2. m <= n /\ \A i \in 1..m : t[i] = u[i]
  BY DEF Begins
<1>3. /\ Len(a) = l + m /\ Len(b) = l + n
      /\ \A i \in 1..(l + m) : a[i] = IF i <= l THEN s[i] ELSE t[i - l]
      /\ \A i \in 1..(l + n) : b[i] = IF i <= l THEN s[i] ELSE u[i - l]
  BY ConcatProperties
<1> HIDE DEF l, m, n, a, b
<1>4. ASSUME NEW i \in 1..(l + m) PROVE a[i] = b[i]
  <2>1. i \in 1..(l + n) /\ (~ (i <= l) => i - l \in 1..m)
    BY <1>1, <1>2
  <2>2. QED
    BY <1>2, <1>3, <2>1
<1>5. l + m <= l + n
  BY <1>1, <1>2
<1>6. Begins(a, b)
  BY <1>3, <1>4, <1>5 DEF Begins
<1>7. QED
  BY <1>6 DEF a, b

-----------------------------------------------------------------------------
(* A function applied to each element of a sequence, and of each list in a list. *)

OnEach(F, s) == [i \in DOMAIN s |-> F[s[i]]]
EachOf(F, s) == [k \in DOMAIN s |-> OnEach(F, s[k])]

EachMaps(F, S, T) ==
    \A s \in Seq(S) : /\ OnEach(F, s) \in Seq(T) /\ Len(OnEach(F, s)) = Len(s)
                      /\ \A i \in 1..Len(s) : OnEach(F, s)[i] = F[s[i]]

LEMMA EachType ==
    ASSUME NEW S, NEW T, NEW F \in [S -> T]
    PROVE  EachMaps(F, S, T)
<1> SUFFICES ASSUME NEW s \in Seq(S)
             PROVE  /\ OnEach(F, s) \in Seq(T) /\ Len(OnEach(F, s)) = Len(s)
                    /\ \A i \in 1..Len(s) : OnEach(F, s)[i] = F[s[i]]
  BY DEF EachMaps
<1>1. DOMAIN s = 1..Len(s) /\ Len(s) \in Nat
  BY LenProperties
<1> DEFINE e == [i \in 1..Len(s) |-> F[s[i]]]
<1>2. \A i \in 1..Len(s) : s[i] \in S
  BY ElementOfSeq
<1>3. e \in [1..Len(s) -> T] /\ \A i \in 1..Len(s) : e[i] = F[s[i]]
  BY <1>2
<1>4. OnEach(F, s) = e
  BY <1>1 DEF OnEach
<1> HIDE DEF e
<1>5. QED
  BY <1>1, <1>3, <1>4, FunctionIsSeq

LEMMA EachConcat ==
    ASSUME NEW S, NEW T, NEW F \in [S -> T], NEW s \in Seq(S), NEW t \in Seq(S)
    PROVE  OnEach(F, s \o t) = OnEach(F, s) \o OnEach(F, t)
<1>1. \A v \in Seq(S) : /\ OnEach(F, v) \in Seq(T) /\ Len(OnEach(F, v)) = Len(v)
                         /\ \A i \in 1..Len(v) : OnEach(F, v)[i] = F[v[i]]
  <2>1. EachMaps(F, S, T)
    BY EachType
  <2>2. QED
    BY <2>1 DEF EachMaps
<1> DEFINE m == Len(s)
           n == Len(t)
           u == s \o t
           a == OnEach(F, s)
           b == OnEach(F, t)
           c == OnEach(F, u)
           d == a \o b
<1>2. m \in Nat /\ n \in Nat
  BY LenProperties
<1>3. /\ u \in Seq(S) /\ Len(u) = m + n
      /\ \A i \in 1..(m + n) : u[i] = IF i <= m THEN s[i] ELSE t[i - m]
  BY ConcatProperties
<1>4. /\ a \in Seq(T) /\ Len(a) = m /\ \A i \in 1..m : a[i] = F[s[i]]
      /\ b \in Seq(T) /\ Len(b) = n /\ \A i \in 1..n : b[i] = F[t[i]]
  BY <1>1
<1>5. c \in Seq(T) /\ Len(c) = m + n /\ \A i \in 1..(m + n) : c[i] = F[u[i]]
  <2>1. u \in Seq(S)
    BY <1>3
  <2> HIDE DEF u
  <2>2. /\ c \in Seq(T) /\ Len(c) = Len(u)
        /\ \A i \in 1..Len(u) : c[i] = F[u[i]]
    BY <1>1, <2>1
  <2> HIDE DEF c
  <2>3. QED
    BY <1>3, <2>2
<1> HIDE DEF u, m, n, a, b, c
<1>6. a \in Seq(T) /\ b \in Seq(T)
  BY <1>4
<1>7. /\ d \in Seq(T) /\ Len(d) = m + n
      /\ \A i \in 1..(m + n) : d[i] = IF i <= m THEN a[i] ELSE b[i - m]
  <2>1. /\ d \in Seq(T) /\ Len(d) = Len(a) + Len(b)
        /\ \A i \in 1..(Len(a) + Len(b)) : d[i] = IF i <= Len(a) THEN a[i] ELSE b[i - Len(a)]
    BY <1>6, ConcatProperties
  <2> HIDE DEF d
  <2>2. QED
    BY <1>4, <2>1
<1> HIDE DEF d
<1>8. ASSUME NEW i \in 1..(m + n) PROVE c[i] = d[i]
  <2>1. (i <= m => i \in 1..m) /\ (~ (i <= m) => i - m \in 1..n)
    BY <1>2
  <2>2. /\ c[i] = F[u[i]] /\ u[i] = IF i <= m THEN s[i] ELSE t[i - m]
        /\ d[i] = IF i <= m THEN a[i] ELSE b[i - m]
    BY <1>3, <1>5, <1>7
  <2>3. (i <= m => a[i] = F[s[i]]) /\ (~ (i <= m) => b[i - m] = F[t[i - m]])
    BY <1>4, <2>1
  <2>4. QED
    BY <2>2, <2>3
<1>9. c = d
  BY <1>5, <1>7, <1>8, SeqEqual
<1>10. QED
  BY <1>9 DEF a, b, c, d, u

LEMMA EachFlatten ==
    ASSUME NEW S, NEW T, NEW F \in [S -> T], NEW s \in Seq(Seq(S))
    PROVE  FlattenSeq(EachOf(F, s)) = OnEach(F, FlattenSeq(s))
<1>0. EachMaps(F, S, T)
  BY EachType
<1>1. ASSUME NEW u \in Seq(Seq(S))
      PROVE  /\ EachOf(F, u) \in Seq(Seq(T)) /\ Len(EachOf(F, u)) = Len(u)
             /\ \A k \in 1..Len(u) : EachOf(F, u)[k] = OnEach(F, u[k])
  <2>1. DOMAIN u = 1..Len(u) /\ Len(u) \in Nat
    BY LenProperties
  <2> DEFINE e == [k \in 1..Len(u) |-> OnEach(F, u[k])]
  <2>2. \A k \in 1..Len(u) : OnEach(F, u[k]) \in Seq(T)
    BY <1>0, ElementOfSeq DEF EachMaps
  <2>3. e \in [1..Len(u) -> Seq(T)] /\ \A k \in 1..Len(u) : e[k] = OnEach(F, u[k])
    BY <2>2
  <2>4. EachOf(F, u) = e
    BY <2>1 DEF EachOf
  <2> HIDE DEF e
  <2>5. QED
    BY <2>1, <2>3, <2>4, FunctionIsSeq
<1>2. FlattenSeq(EachOf(F, <<>>)) = OnEach(F, FlattenSeq(<<>>))
  <2>1. EachOf(F, <<>>) = <<>> /\ OnEach(F, <<>>) = <<>>
    BY DEF EachOf, OnEach
  <2>2. QED
    BY <2>1, FlattenEmpty
<1>3. ASSUME NEW u \in Seq(Seq(S)), FlattenSeq(EachOf(F, u)) = OnEach(F, FlattenSeq(u)),
             NEW x \in Seq(S)
      PROVE  FlattenSeq(EachOf(F, Append(u, x))) = OnEach(F, FlattenSeq(Append(u, x)))
  <2> DEFINE n == Len(u)
             more == Append(u, x)
             e == EachOf(F, u)
             y == OnEach(F, x)
             f == EachOf(F, more)
             g == Append(e, y)
  <2>1. /\ n \in Nat /\ more \in Seq(Seq(S)) /\ Len(more) = n + 1
        /\ more[n + 1] = x /\ \A k \in 1..n : more[k] = u[k]
    BY AppendProperties, LenProperties
  <2>2. e \in Seq(Seq(T)) /\ Len(e) = n /\ \A k \in 1..n : e[k] = OnEach(F, u[k])
    BY <1>1
  <2>3. y \in Seq(T)
    BY <1>0 DEF EachMaps
  <2> HIDE DEF more
  <2>4. f \in Seq(Seq(T)) /\ Len(f) = Len(more) /\ \A k \in 1..Len(more) : f[k] = OnEach(F, more[k])
    BY <1>1, <2>1
  <2> HIDE DEF e, f, n
  <2>5. g \in Seq(Seq(T)) /\ Len(g) = n + 1 /\ g[n + 1] = y /\ \A k \in 1..n : g[k] = e[k]
    BY <2>1, <2>2, <2>3, AppendProperties
  <2> HIDE DEF g
  <2>6. ASSUME NEW k \in 1..(n + 1) PROVE f[k] = g[k]
    <3>1. k = n + 1 \/ k \in 1..n
      BY <2>1
    <3>2. f[k] = OnEach(F, more[k])
      BY <2>1, <2>4
    <3>3. QED
      BY <2>1, <2>2, <2>5, <3>1, <3>2
  <2>7. f = g
    BY <2>1, <2>4, <2>5, <2>6, SeqEqual
  <2>8. FlattenSeq(g) = FlattenSeq(e) \o y
    BY <2>2, <2>3, FlattenAppend DEF g
  <2>9. FlattenSeq(u) \in Seq(S) /\ FlattenSeq(more) = FlattenSeq(u) \o x
    BY FlattenType, FlattenAppend DEF more
  <2>10. OnEach(F, FlattenSeq(u) \o x) = OnEach(F, FlattenSeq(u)) \o y
    BY <2>9, EachConcat
  <2>11. FlattenSeq(e) = OnEach(F, FlattenSeq(u))
    BY <1>3 DEF e
  <2>12. FlattenSeq(f) = OnEach(F, FlattenSeq(more))
    BY <2>7, <2>8, <2>9, <2>10, <2>11
  <2>13. QED
    BY <2>12 DEF f, more
<1> DEFINE V == {u \in Seq(Seq(S)) : FlattenSeq(EachOf(F, u)) = OnEach(F, FlattenSeq(u))}
<1>4. V \in SUBSET Seq(Seq(S)) /\ <<>> \in V
  BY <1>2, EmptySeq
<1>5. ASSUME NEW u \in V, NEW x \in Seq(S) PROVE Append(u, x) \in V
  BY <1>3, AppendProperties
<1>6. V = Seq(Seq(S))
  <2> HIDE DEF V
  <2>1. QED
    BY <1>4, <1>5, SequencesByAppend
<1>7. QED
  BY <1>6

LEMMA EachAppend ==
    ASSUME NEW S, NEW T, NEW F \in [S -> T], NEW s \in Seq(S), NEW x \in S
    PROVE  OnEach(F, Append(s, x)) = Append(OnEach(F, s), F[x])
<1>1. EachMaps(F, S, T)
  BY EachType
<1> DEFINE n == Len(s)
           t == Append(s, x)
           c == OnEach(F, s)
           a == OnEach(F, t)
           b == Append(c, F[x])
<1>2. /\ n \in Nat /\ t \in Seq(S) /\ Len(t) = n + 1
      /\ t[n + 1] = x /\ \A i \in 1..n : t[i] = s[i]
  BY AppendProperties, LenProperties
<1>3. F[x] \in T /\ c \in Seq(T) /\ Len(c) = n /\ \A i \in 1..n : c[i] = F[s[i]]
  BY <1>1 DEF EachMaps
<1> HIDE DEF t, n, c
<1>4. a \in Seq(T) /\ Len(a) = n + 1 /\ \A i \in 1..(n + 1) : a[i] = F[t[i]]
  <2>1. a \in Seq(T) /\ Len(a) = Len(t) /\ \A i \in 1..Len(t) : a[i] = F[t[i]]
    BY <1>1, <1>2 DEF EachMaps
  <2> HIDE DEF a
  <2>2. QED
    BY <1>2, <2>1
<1>5. b \in Seq(T) /\ Len(b) = n + 1 /\ b[n + 1] = F[x] /\ \A i \in 1..n : b[i] = c[i]
  BY <1>2, <1>3, AppendProperties
<1> HIDE DEF a, b
<1>6. ASSUME NEW i \in 1..(n + 1) PROVE a[i] = b[i]
  <2>1. i = n + 1 \/ i \in 1..n
    BY <1>2
  <2>2. QED
    BY <1>2, <1>3, <1>4, <1>5, <2>1
<1>7. a = b
  BY <1>4, <1>5, <1>6, SeqEqual
<1>8. QED
  BY <1>7 DEF a, b, c, t

(* The lists that belong to the elements of a sequence, joined. *)
JoinOfEach(F, s) == FlattenSeq(OnEach(F, s))

JoinsOn(F, S, T) ==
    \A s \in Seq(S), x \in S :
        /\ JoinOfEach(F, s) \in Seq(T) /\ F[x] \in Seq(T)
        /\ JoinOfEach(F, Append(s, x)) = JoinOfEach(F, s) \o F[x]

LEMMA JoinedAppend ==
    ASSUME NEW S, NEW T, NEW F \in [S -> Seq(T)]
    PROVE  JoinsOn(F, S, T)
<1> SUFFICES ASSUME NEW s \in Seq(S), NEW x \in S
             PROVE  /\ JoinOfEach(F, s) \in Seq(T) /\ F[x] \in Seq(T)
                    /\ JoinOfEach(F, Append(s, x)) = JoinOfEach(F, s) \o F[x]
  BY DEF JoinsOn
<1>1. EachMaps(F, S, Seq(T))
  BY EachType
<1>2. OnEach(F, s) \in Seq(Seq(T)) /\ F[x] \in Seq(T)
  BY <1>1 DEF EachMaps
<1>3. OnEach(F, Append(s, x)) = Append(OnEach(F, s), F[x])
  BY EachAppend
<1>4. FlattenSeq(Append(OnEach(F, s), F[x])) = FlattenSeq(OnEach(F, s)) \o F[x]
  BY <1>2, FlattenAppend
<1>5. FlattenSeq(OnEach(F, s)) \in Seq(T)
  BY <1>2, FlattenType
<1>6. QED
  BY <1>2, <1>3, <1>4, <1>5 DEF JoinOfEach
=============================================================================
