------------------------- MODULE CommandLine_proofs -------------------------
(***************************************************************************)
(* What the operators of CommandLine do for any text: a quoted text is one  *)
(* argument again, a list of masks is read back as it was written, a typed   *)
(* folder is cleaned into a path to the same folder; and so each line that   *)
(* the window or the user writes means to the program what was asked.        *)
(***************************************************************************)
EXTENDS IndexCommand, SequenceFacts, FiniteSetTheorems

-----------------------------------------------------------------------------
(* Loops over a text. *)

(* The recursion of After. *)
Steps(next, start, v, state) ==
    \A k \in 0..Len(v) : state[k] = IF k = 0 THEN start ELSE next[state[k - 1]][v[k]]

(* It has one solution. *)
LEMMA StepsOnce ==
    ASSUME NEW next, NEW start, NEW v, Len(v) \in Nat, NEW g, NEW h,
           Steps(next, start, v, g), Steps(next, start, v, h)
    PROVE  \A k \in 0..Len(v) : g[k] = h[k]
<1> DEFINE Bad == {k \in 0..Len(v) : g[k] # h[k]}
<1>1. ASSUME Bad # {} PROVE FALSE
  <2>1. Bad \in SUBSET Nat
    OBVIOUS
  <2>2. PICK m \in Bad : \A n \in Bad : m <= n
    BY <1>1, <2>1, LeastMember
  <2>3. m \in 0..Len(v) /\ g[m] # h[m]
    BY <2>2
  <2>4. m # 0
    BY <2>3 DEF Steps
  <2>5. m - 1 \in 0..Len(v) /\ ~ (m <= m - 1)
    BY <2>3, <2>4
  <2>6. g[m - 1] = h[m - 1]
    BY <2>2, <2>5
  <2>7. QED
    BY <2>3, <2>4, <2>6 DEF Steps
<1>2. QED
  BY <1>1

(* A solution for one symbol more, from one without it. *)
StepsFrom(next, start, v, S) ==
    {state \in [0..Len(v) -> S] : Steps(next, start, v, state)}

LongerSteps(next, start, S, T) ==
    \A v \in Seq(T) : \A x \in T : \A g \in StepsFrom(next, start, v, S) :
        \E h \in StepsFrom(next, start, Append(v, x), S) :
            h[Len(Append(v, x))] = next[g[Len(v)]][x]

LEMMA StepsAppend ==
    ASSUME NEW S, NEW T, NEW next \in [S -> [T -> S]], NEW start \in S
    PROVE  LongerSteps(next, start, S, T)
<1> SUFFICES ASSUME NEW v \in Seq(T), NEW x \in T, NEW g \in StepsFrom(next, start, v, S)
             PROVE  \E h \in StepsFrom(next, start, Append(v, x), S) :
                       h[Len(Append(v, x))] = next[g[Len(v)]][x]
  BY DEF LongerSteps
<1> DEFINE n == Len(v)
           w == Append(v, x)
           h == [k \in 0..(n + 1) |-> IF k = n + 1 THEN next[g[n]][x] ELSE g[k]]
<1>1. /\ n \in Nat /\ w \in Seq(T) /\ Len(w) = n + 1 /\ w[n + 1] = x
      /\ \A k \in 1..n : w[k] = v[k]
  BY AppendProperties, LenProperties
<1> HIDE DEF n, w
<1>2. /\ \A k \in 0..n : k \in 0..(n + 1) /\ k # n + 1
      /\ \A k \in 0..(n + 1) : k = n + 1 \/ k \in 0..n
      /\ n + 1 \in 0..(n + 1) /\ n \in 0..n /\ n + 1 # 0 /\ (n + 1) - 1 = n
      /\ \A k \in 0..n : k # 0 => k - 1 \in 0..n /\ k \in 1..n
  BY <1>1
<1>3. g \in [0..n -> S] /\ \A k \in 0..n : g[k] = IF k = 0 THEN start ELSE next[g[k - 1]][v[k]]
  BY DEF Steps, StepsFrom, n
<1>4. next[g[n]][x] \in S
  BY <1>2, <1>3
<1>5. h \in [0..(n + 1) -> S] /\ h[n + 1] = next[g[n]][x] /\ \A k \in 0..n : h[k] = g[k]
  BY <1>2, <1>3, <1>4
<1> HIDE DEF h
<1>6. ASSUME NEW k \in 0..(n + 1)
      PROVE  h[k] = IF k = 0 THEN start ELSE next[h[k - 1]][w[k]]
  <2>1. CASE k = n + 1
    BY <1>1, <1>2, <1>5, <2>1
  <2>2. CASE k \in 0..n
    BY <1>1, <1>2, <1>3, <1>5, <2>2
  <2>3. QED
    BY <1>2, <2>1, <2>2
<1>7. QED
  BY <1>1, <1>5, <1>6 DEF Steps, StepsFrom, n, w

(* A loop is what its step says. *)
Loops(next, S, T) ==
    \A start \in S :
        /\ After(next, start, <<>>) = start
        /\ \A v \in Seq(T) :
             /\ After(next, start, v) \in S
             /\ \A x \in T : After(next, start, Append(v, x)) = next[After(next, start, v)][x]

LEMMA LoopsByStep ==
    ASSUME NEW S, NEW T, NEW next \in [S -> [T -> S]]
    PROVE  Loops(next, S, T)
<1> SUFFICES ASSUME NEW start \in S
             PROVE  /\ After(next, start, <<>>) = start
                    /\ \A v \in Seq(T) :
                         /\ After(next, start, v) \in S
                         /\ \A x \in T :
                              After(next, start, Append(v, x)) = next[After(next, start, v)][x]
  BY DEF Loops
<1> DEFINE Fine(v, g) == g \in StepsFrom(next, start, v, S)
           U == {v \in Seq(T) : \E g : Fine(v, g)}
<1>1. ASSUME NEW v \in Seq(T), NEW g, Fine(v, g)
      PROVE  After(next, start, v) = g[Len(v)]
  <2> DEFINE Is(h) == h = [k \in 0..Len(v) |-> IF k = 0 THEN start ELSE next[h[k - 1]][v[k]]]
             c == CHOOSE h : Is(h)
  <2>1. Len(v) \in Nat /\ Len(v) \in 0..Len(v)
    BY LenProperties
  <2>2. g \in [0..Len(v) -> S] /\ Steps(next, start, v, g)
    BY <1>1 DEF StepsFrom
  <2>3. Is(g)
    BY <2>2 DEF Steps
  <2>4. Is(c)
    BY <2>3
  <2>5. After(next, start, v) = c[Len(v)]
    BY DEF After
  <2> HIDE DEF c
  <2>6. Steps(next, start, v, c)
    BY <2>4 DEF Steps
  <2>7. g[Len(v)] = c[Len(v)]
    BY <2>1, <2>2, <2>6, StepsOnce
  <2>8. QED
    BY <2>5, <2>7
<1>2. Fine(<<>>, [k \in 0..0 |-> start])
  <2>1. Len(<<>>) = 0 /\ \A k \in 0..0 : k = 0
    BY EmptySeq
  <2>2. QED
    BY <2>1 DEF Steps, StepsFrom
<1>3. ASSUME NEW v \in Seq(T), NEW x \in T, NEW g, Fine(v, g)
      PROVE  \E h : Fine(Append(v, x), h) /\ h[Len(Append(v, x))] = next[g[Len(v)]][x]
  <2>1. g \in StepsFrom(next, start, v, S)
    BY <1>3
  <2>2. \E h \in StepsFrom(next, start, Append(v, x), S) :
           h[Len(Append(v, x))] = next[g[Len(v)]][x]
    <3>1. LongerSteps(next, start, S, T)
      BY StepsAppend
    <3>2. QED
      BY <2>1, <3>1 DEF LongerSteps
  <2>3. QED
    BY <2>2
<1>4. <<>> \in U
  BY <1>2, EmptySeq
<1>5. \A v \in U : \A x \in T : Append(v, x) \in U
  BY <1>3, AppendProperties
<1>6. U = Seq(T)
  <2>1. U \in SUBSET Seq(T)
    OBVIOUS
  <2> HIDE DEF U
  <2>2. QED
    BY <1>4, <1>5, <2>1, SequencesByAppend
<1>7. After(next, start, <<>>) = start
  <2>1. Len(<<>>) = 0 /\ 0 \in 0..0 /\ <<>> \in Seq(T)
    BY EmptySeq
  <2>2. After(next, start, <<>>) = [k \in 0..0 |-> start][0]
    BY <1>1, <1>2, <2>1
  <2>3. QED
    BY <2>1, <2>2
<1>8. ASSUME NEW v \in Seq(T), NEW x \in T
      PROVE  /\ After(next, start, v) \in S
             /\ After(next, start, Append(v, x)) = next[After(next, start, v)][x]
  <2>1. PICK g : Fine(v, g)
    BY <1>6
  <2>2. PICK h : Fine(Append(v, x), h) /\ h[Len(Append(v, x))] = next[g[Len(v)]][x]
    BY <1>3, <2>1
  <2>3. Append(v, x) \in Seq(T) /\ Len(v) \in 0..Len(v)
    BY AppendProperties, LenProperties
  <2>4. After(next, start, v) = g[Len(v)] /\ After(next, start, Append(v, x)) = h[Len(Append(v, x))]
    BY <1>1, <2>1, <2>2, <2>3
  <2>5. g[Len(v)] \in S
    BY <2>1, <2>3 DEF StepsFrom
  <2>6. QED
    BY <2>2, <2>4, <2>5
<1>9. ASSUME NEW v \in Seq(T) PROVE After(next, start, v) \in S
  <2>1. PICK g : Fine(v, g)
    BY <1>6
  <2>2. Len(v) \in 0..Len(v)
    BY LenProperties
  <2>3. After(next, start, v) = g[Len(v)] /\ g[Len(v)] \in S
    BY <1>1, <2>1, <2>2 DEF StepsFrom
  <2>4. QED
    BY <2>3
<1>10. QED
  BY <1>7, <1>8, <1>9

(* What follows is read on from where the loop was. *)
LEMMA LoopGoesOn ==
    ASSUME NEW S, NEW T, NEW next, Loops(next, S, T), NEW start \in S, NEW v \in Seq(T),
           NEW w \in Seq(T)
    PROVE  After(next, start, v \o w) = After(next, After(next, start, v), w)
<1> DEFINE U == {u \in Seq(T) : After(next, start, v \o u) = After(next, After(next, start, v), u)}
<1>1. After(next, start, v) \in S
  BY DEF Loops
<1>2. <<>> \in U
  <2>1. v \o <<>> = v /\ <<>> \in Seq(T)
    BY EmptySeq, ConcatEmptySeq
  <2>2. QED
    BY <1>1, <2>1 DEF Loops
<1>3. ASSUME NEW u \in U, NEW x \in T PROVE Append(u, x) \in U
  <2>1. u \in Seq(T) /\ Append(u, x) \in Seq(T) /\ v \o u \in Seq(T)
    BY AppendProperties, ConcatProperties
  <2>2. v \o Append(u, x) = Append(v \o u, x)
    <3>1. Append(u, x) = u \o <<x>> /\ <<x>> \in Seq(T) /\ Append(v \o u, x) = (v \o u) \o <<x>>
      BY <2>1, AppendOne
    <3>2. v \o (u \o <<x>>) = (v \o u) \o <<x>>
      BY <2>1, <3>1, ConcatAssociative
    <3>3. QED
      BY <3>1, <3>2
  <2>3. /\ After(next, start, Append(v \o u, x)) = next[After(next, start, v \o u)][x]
        /\ After(next, After(next, start, v), Append(u, x))
              = next[After(next, After(next, start, v), u)][x]
    BY <1>1, <2>1 DEF Loops
  <2>4. QED
    BY <2>1, <2>2, <2>3
<1>4. U \in SUBSET Seq(T)
  OBVIOUS
<1> HIDE DEF U
<1>5. U = Seq(T)
  BY <1>2, <1>3, <1>4, SequencesByAppend
<1>6. QED
  BY <1>5 DEF U

-----------------------------------------------------------------------------
(* Slashes. *)

LEMMA SlashesFacts ==
    /\ Slashes(0) = <<>>
    /\ \A n \in Nat : Slashes(n) \in Text /\ Len(Slashes(n)) = n /\ Append(Slashes(n), Slash) = Slashes(n + 1)
<1>1. Slashes(0) = <<>>
  BY DEF Slashes
<1>2. ASSUME NEW n \in Nat PROVE Slashes(n) \in Text /\ Len(Slashes(n)) = n
  <2>1. Slashes(n) \in [1..n -> Symbols]
    BY SignsAssumption DEF Slashes
  <2>2. QED
    BY <2>1, FunctionIsSeq DEF Text
<1>3. ASSUME NEW n \in Nat PROVE Append(Slashes(n), Slash) = Slashes(n + 1)
  <2> DEFINE a == Append(Slashes(n), Slash)
             b == Slashes(n + 1)
  <2>1. n + 1 \in Nat /\ Slash \in Symbols
    BY SignsAssumption
  <2>2. /\ a \in Text /\ Len(a) = n + 1 /\ a[n + 1] = Slash
        /\ \A i \in 1..n : a[i] = Slashes(n)[i]
    BY <1>2, <2>1, AppendProperties DEF Text
  <2>3. b \in Text /\ Len(b) = n + 1 /\ \A i \in 1..(n + 1) : b[i] = Slash
    BY <1>2, <2>1 DEF Slashes
  <2>4. \A i \in 1..n : Slashes(n)[i] = Slash
    BY DEF Slashes
  <2>5. \A i \in 1..(n + 1) : i = n + 1 \/ i \in 1..n
    OBVIOUS
  <2> HIDE DEF a, b
  <2>6. \A i \in 1..(n + 1) : a[i] = b[i]
    BY <2>2, <2>3, <2>4, <2>5
  <2>7. a = b
    BY <2>2, <2>3, <2>6, SeqEqual DEF Text
  <2>8. QED
    BY <2>7 DEF a, b
<1>4. QED
  BY <1>1, <1>2, <1>3

-----------------------------------------------------------------------------
(* One symbol of a line. *)

(* Inside the marks of an argument, and after its second mark. *)
In(args, c, n) == [args |-> args, current |-> c, slashes |-> n, open |-> TRUE, quoted |-> TRUE]
Done(args, c) == [args |-> args, current |-> c, slashes |-> 0, open |-> TRUE, quoted |-> FALSE]

LEMMA CutTypes ==
    ASSUME NEW args \in Seq(Text), NEW c \in Text, NEW n \in Nat
    PROVE  Between(args) \in Cut /\ In(args, c, n) \in Cut /\ Done(args, c) \in Cut
<1>1. <<>> \in Text
  BY EmptySeq DEF Text
<1>2. QED
  BY <1>1 DEF Cut, Between, In, Done

LEMMA CutStep ==
    ASSUME NEW st \in Cut, NEW ch \in Symbols
    PROVE  /\ Cutting[st][ch] \in Cut
           /\ ch = Slash => Cutting[st][ch] = [st EXCEPT !.slashes = @ + 1, !.open = TRUE]
           /\ ch = Mark /\ st.slashes % 2 = 1 =>
                Cutting[st][ch] = [st EXCEPT
                    !.current = Append(st.current \o Slashes(st.slashes \div 2), Mark),
                    !.slashes = 0]
           /\ ch = Mark /\ st.slashes % 2 # 1 =>
                Cutting[st][ch] = [st EXCEPT !.current = st.current \o Slashes(st.slashes \div 2),
                                             !.slashes = 0, !.open = TRUE, !.quoted = ~@]
           /\ ch = Space /\ ~ st.quoted =>
                Cutting[st][ch] = [args |-> Closed(st), current |-> <<>>, slashes |-> 0,
                                   open |-> FALSE, quoted |-> FALSE]
           /\ ch \notin {Slash, Mark} /\ (ch = Space => st.quoted) =>
                Cutting[st][ch] = [st EXCEPT !.current = Append(Plain(st), ch), !.slashes = 0,
                                             !.open = TRUE]
<1>1. /\ st.args \in Seq(Text) /\ st.current \in Text /\ st.slashes \in Nat
      /\ st.open \in BOOLEAN /\ st.quoted \in BOOLEAN
  BY DEF Cut
<1>2. /\ st.slashes + 1 \in Nat /\ st.slashes \div 2 \in Nat
  BY <1>1
<1>3. /\ Slash # Mark /\ Slash # Space /\ Mark # Space /\ Mark \in Symbols
  BY SignsAssumption DEF Slash, Mark, Space
<1>4. \A m \in Nat : st.current \o Slashes(m) \in Text
  BY <1>1, SlashesFacts, ConcatProperties DEF Text
<1>5. \A t \in Text : \A x \in Symbols : Append(t, x) \in Text
  BY AppendProperties DEF Text
<1>6. <<>> \in Text /\ Plain(st) \in Text /\ Closed(st) \in Seq(Text)
  <2>1. <<>> \in Text /\ Plain(st) \in Text
    BY <1>1, <1>4, EmptySeq DEF Plain, Text
  <2>2. QED
    BY <1>1, <2>1, AppendProperties DEF Closed
<1> DEFINE half == st.current \o Slashes(st.slashes \div 2)
           next == Cutting[st][ch]
<1>7. /\ half \in Text /\ Append(half, Mark) \in Text /\ Append(Plain(st), ch) \in Text
  BY <1>2, <1>3, <1>4, <1>5, <1>6
<1>8. next = CASE ch = Slash -> [st EXCEPT !.slashes = @ + 1, !.open = TRUE]
      [] ch = Mark -> IF st.slashes % 2 = 1
               THEN [st EXCEPT !.current = Append(half, Mark), !.slashes = 0]
               ELSE [st EXCEPT !.current = half, !.slashes = 0, !.open = TRUE, !.quoted = ~@]
      [] ch = Space /\ ~st.quoted ->
           [args |-> Closed(st), current |-> <<>>, slashes |-> 0, open |-> FALSE,
            quoted |-> FALSE]
      [] OTHER -> [st EXCEPT !.current = Append(Plain(st), ch), !.slashes = 0, !.open = TRUE]
  BY DEF Cutting
<1> HIDE DEF half, next
<1>9. CASE ch = Slash
  <2>1. next = [st EXCEPT !.slashes = @ + 1, !.open = TRUE]
    BY <1>3, <1>8, <1>9
  <2>2. next \in Cut
    BY <1>1, <1>2, <2>1 DEF Cut
  <2>3. QED
    BY <1>3, <1>9, <2>1, <2>2 DEF next
<1>10. CASE ch = Mark
  <2>1. next = IF st.slashes % 2 = 1
               THEN [st EXCEPT !.current = Append(half, Mark), !.slashes = 0]
               ELSE [st EXCEPT !.current = half, !.slashes = 0, !.open = TRUE, !.quoted = ~@]
    BY <1>3, <1>8, <1>10
  <2>2. next \in Cut
    BY <1>1, <1>7, <2>1 DEF Cut
  <2>3. QED
    BY <1>3, <1>10, <2>1, <2>2 DEF next, half
<1>11. CASE ch = Space /\ ~ st.quoted
  <2>1. next = [args |-> Closed(st), current |-> <<>>, slashes |-> 0, open |-> FALSE,
                quoted |-> FALSE]
    BY <1>3, <1>8, <1>11
  <2>2. next \in Cut
    BY <1>6, <2>1 DEF Cut
  <2>3. QED
    BY <1>3, <1>11, <2>1, <2>2 DEF next
<1>12. CASE ch \notin {Slash, Mark} /\ (ch = Space => st.quoted)
  <2>1. next = [st EXCEPT !.current = Append(Plain(st), ch), !.slashes = 0, !.open = TRUE]
    BY <1>1, <1>3, <1>8, <1>12
  <2>2. next \in Cut
    BY <1>1, <1>7, <2>1 DEF Cut
  <2>3. QED
    BY <1>3, <1>12, <2>1, <2>2 DEF next
<1>13. QED
  BY <1>1, <1>9, <1>10, <1>11, <1>12

LEMMA CuttingLoops == Loops(Cutting, Cut, Symbols)
<1>1. ASSUME NEW st \in Cut PROVE Cutting[st] \in [Symbols -> Cut]
  <2>1. Cutting[st] = [ch \in Symbols |-> Cutting[st][ch]]
    BY DEF Cutting
  <2>2. \A ch \in Symbols : Cutting[st][ch] \in Cut
    BY CutStep
  <2>3. QED
    BY <2>1, <2>2
<1>2. Cutting = [st \in Cut |-> Cutting[st]]
  BY DEF Cutting
<1>3. Cutting \in [Cut -> [Symbols -> Cut]]
  BY <1>1, <1>2
<1>4. QED
  BY <1>3, LoopsByStep

LEMMA SignsDiffer ==
    /\ Slash # Mark /\ Slash # Space /\ Mark # Space
    /\ Slash \in Symbols /\ Mark \in Symbols /\ Space \in Symbols
BY SignsAssumption DEF Slash, Mark, Space

LEMMA EmptyText == <<>> \in Text /\ \A v \in Text : v \o <<>> = v /\ v \o Slashes(0) = v
<1>1. <<>> \in Text
  BY EmptySeq DEF Text
<1>2. \A v \in Text : v \o <<>> = v
  BY ConcatEmptySeq DEF Text
<1>3. QED
  BY <1>1, <1>2, SlashesFacts

(* What a change of some fields makes of a state. *)
State(args, c, n, open, quoted) ==
    [args |-> args, current |-> c, slashes |-> n, open |-> open, quoted |-> quoted]

ChangesOf(args, c, n, o, q, st, h, r) ==
    /\ r = [st EXCEPT !.current = h, !.slashes = 0] => r = State(args, h, 0, o, q)
    /\ r = [st EXCEPT !.current = h, !.slashes = 0, !.open = TRUE]
         => r = State(args, h, 0, TRUE, q)
    /\ r = [st EXCEPT !.current = h, !.slashes = 0, !.open = TRUE, !.quoted = ~@]
         => /\ q = TRUE => r = State(args, h, 0, TRUE, FALSE)
            /\ q = FALSE => r = State(args, h, 0, TRUE, TRUE)

LEMMA StateChanged ==
    ASSUME NEW args, NEW c, NEW n, NEW o, NEW q, NEW st, st = State(args, c, n, o, q), NEW h, NEW r
    PROVE  ChangesOf(args, c, n, o, q, st, h, r)
<1> DEFINE Whole == r = [args |-> r.args, current |-> r.current, slashes |-> r.slashes,
                         open |-> r.open, quoted |-> r.quoted]
<1>0. st = [args |-> args, current |-> c, slashes |-> n, open |-> o, quoted |-> q]
  BY DEF State
<1>1. ASSUME r = [st EXCEPT !.current = h, !.slashes = 0] PROVE r = State(args, h, 0, o, q)
  <2>0. Whole
    BY <1>0, <1>1
  <2>1. r.args = args /\ r.current = h /\ r.slashes = 0 /\ r.open = o /\ r.quoted = q
    BY <1>0, <1>1
  <2>2. QED
    BY <2>0, <2>1 DEF State
<1>2. ASSUME r = [st EXCEPT !.current = h, !.slashes = 0, !.open = TRUE]
      PROVE  r = State(args, h, 0, TRUE, q)
  <2>0. Whole
    BY <1>0, <1>2
  <2>1. r.args = args /\ r.current = h /\ r.slashes = 0 /\ r.open = TRUE /\ r.quoted = q
    BY <1>0, <1>2
  <2>2. QED
    BY <2>0, <2>1 DEF State
<1>3. ASSUME r = [st EXCEPT !.current = h, !.slashes = 0, !.open = TRUE, !.quoted = ~@]
      PROVE  /\ q = TRUE => r = State(args, h, 0, TRUE, FALSE)
             /\ q = FALSE => r = State(args, h, 0, TRUE, TRUE)
  <2>0. Whole
    BY <1>0, <1>3
  <2>1. r.args = args /\ r.current = h /\ r.slashes = 0 /\ r.open = TRUE
    BY <1>0, <1>3
  <2>2. r.quoted = ~ st.quoted /\ st.quoted = q
    BY <1>0, <1>3
  <2>3. /\ q = TRUE => r.quoted = FALSE
        /\ q = FALSE => r.quoted = TRUE
    BY <2>2
  <2>4. QED
    BY <2>0, <2>1, <2>3 DEF State
<1>4. QED
  BY <1>1, <1>2, <1>3 DEF ChangesOf

(* What a symbol does inside the marks. *)
InSteps(args, c, n) ==
    /\ Cutting[In(args, c, n)][Slash] = In(args, c, n + 1)
    /\ n % 2 = 1 => Cutting[In(args, c, n)][Mark]
                       = In(args, Append(c \o Slashes(n \div 2), Mark), 0)
    /\ n % 2 # 1 => Cutting[In(args, c, n)][Mark] = Done(args, c \o Slashes(n \div 2))
    /\ \A x \in Symbols \ {Slash, Mark} :
         Cutting[In(args, c, n)][x] = In(args, Append(c \o Slashes(n), x), 0)

LEMMA FromIn ==
    ASSUME NEW args \in Seq(Text), NEW c \in Text, NEW n \in Nat
    PROVE  InSteps(args, c, n)
<1> DEFINE st == In(args, c, n)
<1>1. /\ st \in Cut /\ st.args = args /\ st.current = c /\ st.slashes = n /\ st.quoted = TRUE
      /\ st.open = TRUE
  BY CutTypes DEF In
<1>2. /\ st = [args |-> args, current |-> c, slashes |-> n, open |-> TRUE, quoted |-> TRUE]
      /\ st = State(args, c, n, TRUE, TRUE)
  BY DEF In, State
<1>3. Plain(st) = c \o Slashes(n)
  BY <1>1 DEF Plain
<1>4. Cutting[st][Slash] = In(args, c, n + 1)
  <2>1. Cutting[st][Slash] = [st EXCEPT !.slashes = @ + 1, !.open = TRUE]
    BY <1>1, SignsDiffer, CutStep
  <2>2. QED
    BY <1>2, <2>1 DEF In
<1>a. \A h : In(args, h, 0) = State(args, h, 0, TRUE, TRUE)
             /\ Done(args, h) = State(args, h, 0, TRUE, FALSE)
  BY DEF In, Done, State
<1> HIDE DEF st
<1>5. ASSUME n % 2 = 1
      PROVE  Cutting[st][Mark] = In(args, Append(c \o Slashes(n \div 2), Mark), 0)
  <2> DEFINE r == Cutting[st][Mark]
             h == Append(st.current \o Slashes(st.slashes \div 2), Mark)
  <2>1. st.slashes % 2 = 1
    BY <1>1, <1>5
  <2>2. r = [st EXCEPT !.current = h, !.slashes = 0]
    BY <1>1, <2>1, SignsDiffer, CutStep
  <2>3. h = Append(c \o Slashes(n \div 2), Mark)
    BY <1>1
  <2> HIDE DEF r, h
  <2>a. ChangesOf(args, c, n, TRUE, TRUE, st, h, r)
    BY <1>2, StateChanged
  <2>4. r = State(args, h, 0, TRUE, TRUE)
    BY <2>2, <2>a DEF ChangesOf
  <2>5. QED
    BY <1>a, <2>3, <2>4 DEF r
<1>6. ASSUME n % 2 # 1 PROVE Cutting[st][Mark] = Done(args, c \o Slashes(n \div 2))
  <2> DEFINE r == Cutting[st][Mark]
             h == st.current \o Slashes(st.slashes \div 2)
  <2>1. st.slashes % 2 # 1
    BY <1>1, <1>6
  <2>2. r = [st EXCEPT !.current = h, !.slashes = 0, !.open = TRUE, !.quoted = ~@]
    BY <1>1, <2>1, SignsDiffer, CutStep
  <2>3. h = c \o Slashes(n \div 2)
    BY <1>1
  <2> HIDE DEF r, h
  <2>a. ChangesOf(args, c, n, TRUE, TRUE, st, h, r)
    BY <1>2, StateChanged
  <2>4. r = State(args, h, 0, TRUE, FALSE)
    BY <2>2, <2>a DEF ChangesOf
  <2>5. QED
    BY <1>a, <2>3, <2>4 DEF r
<1>7. ASSUME NEW x \in Symbols \ {Slash, Mark}
      PROVE  Cutting[st][x] = In(args, Append(c \o Slashes(n), x), 0)
  <2> DEFINE r == Cutting[st][x]
             h == Append(Plain(st), x)
  <2>1. r = [st EXCEPT !.current = h, !.slashes = 0, !.open = TRUE]
    BY <1>1, SignsDiffer, CutStep
  <2>3. h = Append(c \o Slashes(n), x)
    BY <1>3
  <2> HIDE DEF r, h
  <2>a. ChangesOf(args, c, n, TRUE, TRUE, st, h, r)
    BY <1>2, StateChanged
  <2>4. r = State(args, h, 0, TRUE, TRUE)
    BY <2>1, <2>a DEF ChangesOf
  <2>5. QED
    BY <1>a, <2>3, <2>4 DEF r
<1>8. QED
  BY <1>4, <1>5, <1>6, <1>7 DEF st, InSteps

LEMMA FromBetween ==
    ASSUME NEW args \in Seq(Text)
    PROVE  /\ Cutting[Between(args)][Mark] = In(args, <<>>, 0)
           /\ \A x \in Symbols \ {Slash, Mark, Space} :
                Cutting[Between(args)][x] = Done(args, <<x>>)
<1> DEFINE st == Between(args)
<1>1. st \in Cut
  BY CutTypes, EmptyText
<1>2. /\ st = [args |-> args, current |-> <<>>, slashes |-> 0, open |-> FALSE, quoted |-> FALSE]
      /\ st = State(args, <<>>, 0, FALSE, FALSE)
  BY DEF Between, State
<1>3. /\ st.args = args /\ st.current = <<>> /\ st.slashes = 0 /\ st.quoted = FALSE
      /\ st.open = FALSE
  BY <1>2
<1>4. Plain(st) = <<>> /\ st.current \o Slashes(0) = <<>>
  BY <1>3, EmptyText DEF Plain
<1>5. 0 % 2 # 1 /\ 0 \div 2 = 0
  OBVIOUS
<1>a. \A h : In(args, h, 0) = State(args, h, 0, TRUE, TRUE)
             /\ Done(args, h) = State(args, h, 0, TRUE, FALSE)
  BY DEF In, Done, State
<1> HIDE DEF st
<1>6. Cutting[st][Mark] = In(args, <<>>, 0)
  <2> DEFINE r == Cutting[st][Mark]
             h == st.current \o Slashes(st.slashes \div 2)
  <2>1. st.slashes % 2 # 1
    BY <1>3, <1>5
  <2>2. r = [st EXCEPT !.current = h, !.slashes = 0, !.open = TRUE, !.quoted = ~@]
    BY <1>1, <2>1, SignsDiffer, CutStep
  <2>3. h = <<>>
    BY <1>3, <1>4, <1>5
  <2> HIDE DEF r, h
  <2>a. ChangesOf(args, <<>>, 0, FALSE, FALSE, st, h, r)
    BY <1>2, StateChanged
  <2>4. r = State(args, h, 0, TRUE, TRUE)
    BY <2>2, <2>a DEF ChangesOf
  <2>5. QED
    BY <1>a, <2>3, <2>4 DEF r
<1>7. ASSUME NEW x \in Symbols \ {Slash, Mark, Space} PROVE Cutting[st][x] = Done(args, <<x>>)
  <2> DEFINE r == Cutting[st][x]
             h == Append(Plain(st), x)
  <2>1. r = [st EXCEPT !.current = h, !.slashes = 0, !.open = TRUE]
    BY <1>1, SignsDiffer, CutStep
  <2>2. h = <<x>>
    BY <1>4
  <2> HIDE DEF r, h
  <2>a. ChangesOf(args, <<>>, 0, FALSE, FALSE, st, h, r)
    BY <1>2, StateChanged
  <2>3. r = State(args, h, 0, TRUE, FALSE)
    BY <2>1, <2>a DEF ChangesOf
  <2>4. QED
    BY <1>a, <2>2, <2>3 DEF r
<1>8. QED
  BY <1>6, <1>7 DEF st

LEMMA FromDone ==
    ASSUME NEW args \in Seq(Text), NEW c \in Text
    PROVE  /\ Cutting[Done(args, c)][Space] = Between(Append(args, c))
           /\ Closed(Done(args, c)) = Append(args, c)
<1> DEFINE st == Done(args, c)
<1>1. st \in Cut
  BY CutTypes
<1>2. st = [args |-> args, current |-> c, slashes |-> 0, open |-> TRUE, quoted |-> FALSE]
  BY DEF Done
<1>3. /\ st.args = args /\ st.current = c /\ st.slashes = 0 /\ st.quoted = FALSE
      /\ st.open = TRUE
  BY <1>2
<1>4. Plain(st) = c
  BY <1>3, EmptyText DEF Plain
<1>5. Closed(st) = Append(args, c)
  BY <1>3, <1>4 DEF Closed
<1>6. Cutting[st][Space] = [args |-> Closed(st), current |-> <<>>, slashes |-> 0,
                                   open |-> FALSE, quoted |-> FALSE]
  BY <1>1, <1>3, SignsDiffer, CutStep
<1>7. QED
  BY <1>5, <1>6 DEF Between

LEMMA CutMore ==
    ASSUME NEW st \in Cut, NEW v \in Text, NEW w \in Text
    PROVE  /\ After(Cutting, st, v) \in Cut
           /\ After(Cutting, st, v \o w) = After(Cutting, After(Cutting, st, v), w)
<1>1. v \in Seq(Symbols) /\ w \in Seq(Symbols)
  BY DEF Text
<1>2. After(Cutting, st, v) \in Cut
  BY <1>1, CuttingLoops DEF Loops
<1>3. QED
  BY <1>1, <1>2, CuttingLoops, LoopGoesOn

LEMMA CutOne ==
    ASSUME NEW st \in Cut, NEW x \in Symbols
    PROVE  After(Cutting, st, <<x>>) = Cutting[st][x] /\ <<x>> \in Text
<1>1. <<>> \in Seq(Symbols) /\ Append(<<>>, x) = <<x>> /\ <<x>> \in Text
  BY EmptySeq DEF Text
<1>2. After(Cutting, st, Append(<<>>, x)) = Cutting[After(Cutting, st, <<>>)][x]
  BY <1>1, CuttingLoops DEF Loops
<1>3. After(Cutting, st, <<>>) = st
  BY CuttingLoops DEF Loops
<1>4. QED
  BY <1>1, <1>2, <1>3

(* Slashes are counted. *)
LEMMA SlashesCut ==
    ASSUME NEW args \in Seq(Text), NEW c \in Text, NEW n \in Nat
    PROVE  After(Cutting, In(args, c, 0), Slashes(n)) = In(args, c, n)
<1> DEFINE T == {m \in Nat : After(Cutting, In(args, c, 0), Slashes(m)) = In(args, c, m)}
<1>1. 0 \in T
  BY CutTypes, SlashesFacts, CuttingLoops DEF Loops
<1>2. ASSUME NEW m \in T PROVE m + 1 \in T
  <2>1. m \in Nat /\ m + 1 \in Nat /\ Slash \in Symbols /\ Slashes(m) \in Seq(Symbols)
        /\ In(args, c, 0) \in Cut
    BY SignsDiffer, SlashesFacts, CutTypes DEF Text
  <2>2. Slashes(m + 1) = Append(Slashes(m), Slash)
    BY <2>1, SlashesFacts
  <2>3. After(Cutting, In(args, c, 0), Append(Slashes(m), Slash))
          = Cutting[After(Cutting, In(args, c, 0), Slashes(m))][Slash]
    BY <2>1, CuttingLoops DEF Loops
  <2>4. Cutting[In(args, c, m)][Slash] = In(args, c, m + 1)
    BY <2>1, FromIn DEF InSteps
  <2>5. QED
    BY <2>1, <2>2, <2>3, <2>4
<1>3. T \in SUBSET Nat
  OBVIOUS
<1> HIDE DEF T
<1>4. T = Nat
  BY <1>1, <1>2, <1>3, SetInduction
<1>5. QED
  BY <1>4 DEF T

-----------------------------------------------------------------------------
(* What quote writes. *)

Quotes == [out : Text, slashes : Nat]

LEMMA TextsGrow ==
    /\ \A v \in Text : \A w \in Text : v \o w \in Text
    /\ \A v \in Text : \A x \in Symbols : Append(v, x) \in Text /\ v \o <<x>> = Append(v, x)
    /\ \A x \in Symbols : <<x>> \in Text
    /\ \A u \in Text : \A v \in Text : \A w \in Text : (u \o v) \o w = u \o (v \o w)
<1>1. \A v \in Text : \A w \in Text : v \o w \in Text
  BY ConcatProperties DEF Text
<1>2. \A v \in Text : \A x \in Symbols : Append(v, x) \in Text /\ v \o <<x>> = Append(v, x)
  BY AppendProperties, AppendOne DEF Text
<1>3. \A x \in Symbols : <<x>> \in Text
  BY DEF Text
<1>4. \A u \in Text : \A v \in Text : \A w \in Text : (u \o v) \o w = u \o (v \o w)
  BY ConcatAssociative DEF Text
<1>5. QED
  BY <1>1, <1>2, <1>3, <1>4

LEMMA QuoteStep ==
    ASSUME NEW st \in Quotes, NEW ch \in Symbols
    PROVE  /\ Quoting[st][ch] \in Quotes
           /\ ch = Slash => /\ Quoting[st][ch].out = st.out
                            /\ Quoting[st][ch].slashes = st.slashes + 1
           /\ ch = Mark => /\ Quoting[st][ch].out = st.out \o Slashes(2 * st.slashes + 1) \o <<Mark>>
                           /\ Quoting[st][ch].slashes = 0
           /\ ch \notin {Slash, Mark} =>
                /\ Quoting[st][ch].out = st.out \o Slashes(st.slashes) \o <<ch>>
                /\ Quoting[st][ch].slashes = 0
<1>1. st.out \in Text /\ st.slashes \in Nat /\ st.slashes + 1 \in Nat /\ 2 * st.slashes + 1 \in Nat
  BY DEF Quotes
<1> DEFINE marked == st.out \o Slashes(2 * st.slashes + 1) \o <<Mark>>
           plain == st.out \o Slashes(st.slashes) \o <<ch>>
           next == Quoting[st][ch]
<1>2. marked \in Text /\ plain \in Text
  <2>1. Slashes(2 * st.slashes + 1) \in Text /\ Slashes(st.slashes) \in Text
    BY <1>1, SlashesFacts
  <2>2. /\ st.out \o Slashes(2 * st.slashes + 1) \in Text
        /\ st.out \o Slashes(st.slashes) \in Text
    BY <1>1, <2>1, TextsGrow
  <2>3. QED
    BY <2>2, SignsDiffer, TextsGrow
<1>3. next = CASE ch = Slash -> [st EXCEPT !.slashes = @ + 1]
               [] ch = Mark -> [out |-> marked, slashes |-> 0]
               [] OTHER -> [out |-> plain, slashes |-> 0]
  BY DEF Quoting, Quotes
<1> HIDE DEF marked, plain, next
<1>4. CASE ch = Slash
  <2>1. next = [st EXCEPT !.slashes = @ + 1]
    BY <1>3, <1>4, SignsDiffer
  <2>2. next \in Quotes /\ next.out = st.out /\ next.slashes = st.slashes + 1
    BY <1>1, <2>1 DEF Quotes
  <2>3. QED
    BY <1>4, <2>2, SignsDiffer DEF next
<1>5. CASE ch = Mark
  <2>1. next = [out |-> marked, slashes |-> 0]
    BY <1>3, <1>5, SignsDiffer
  <2>2. next \in Quotes /\ next.out = marked /\ next.slashes = 0
    BY <1>2, <2>1 DEF Quotes
  <2>3. QED
    BY <1>5, <2>2, SignsDiffer DEF next, marked
<1>6. CASE ch \notin {Slash, Mark}
  <2>1. next = [out |-> plain, slashes |-> 0]
    BY <1>3, <1>6
  <2>2. next \in Quotes /\ next.out = plain /\ next.slashes = 0
    BY <1>2, <2>1 DEF Quotes
  <2>3. QED
    BY <1>6, <2>2 DEF next, plain
<1>7. QED
  BY <1>4, <1>5, <1>6

LEMMA QuotingLoops == Loops(Quoting, Quotes, Symbols)
<1>1. ASSUME NEW st \in Quotes PROVE Quoting[st] \in [Symbols -> Quotes]
  <2>1. Quoting[st] = [ch \in Symbols |-> Quoting[st][ch]]
    BY DEF Quoting, Quotes
  <2>2. \A ch \in Symbols : Quoting[st][ch] \in Quotes
    BY QuoteStep
  <2>3. QED
    BY <2>1, <2>2
<1>2. Quoting = [st \in Quotes |-> Quoting[st]]
  BY DEF Quoting, Quotes
<1>3. Quoting \in [Quotes -> [Symbols -> Quotes]]
  BY <1>1, <1>2
<1>4. QED
  BY <1>3, LoopsByStep

(* quote, before and after some symbols of the text. *)
Opening == [out |-> <<Mark>>, slashes |-> 0]
QuotedSoFar(v) == After(Quoting, Opening, v)

(* What is cut from the text written so far, with the slashes that are not, is what was
   quoted. *)
CutsBack(args, v) ==
    \E c \in Text : /\ After(Cutting, Between(args), QuotedSoFar(v).out) = In(args, c, 0)
                    /\ c \o Slashes(QuotedSoFar(v).slashes) = v

LEMMA OpeningFacts ==
    /\ Opening \in Quotes
    /\ \A v \in Text : /\ QuotedSoFar(v) \in Quotes
                       /\ \A x \in Symbols : QuotedSoFar(Append(v, x)) = Quoting[QuotedSoFar(v)][x]
    /\ QuotedSoFar(<<>>) = Opening
<1>1. Opening \in Quotes
  BY SignsDiffer, TextsGrow DEF Opening, Quotes
<1>2. QED
  BY <1>1, QuotingLoops DEF Loops, QuotedSoFar, Text

LEMMA CutsBackMore ==
    ASSUME NEW args \in Seq(Text), NEW v \in Text, CutsBack(args, v), NEW x \in Symbols
    PROVE  CutsBack(args, Append(v, x))
<1> DEFINE q == QuotedSoFar(v)
           r == QuotedSoFar(Append(v, x))
           n == q.slashes
           w == Append(v, x)
<1>1. PICK c \in Text : /\ After(Cutting, Between(args), q.out) = In(args, c, 0)
                        /\ c \o Slashes(n) = v
  BY DEF CutsBack
<1>2. q \in Quotes /\ r = Quoting[q][x]
  BY OpeningFacts
<1>3. q.out \in Text /\ n \in Nat /\ n + 1 \in Nat /\ 2 * n + 1 \in Nat /\ w \in Text
  BY <1>2, TextsGrow DEF Quotes
<1>4. Between(args) \in Cut /\ In(args, c, 0) \in Cut
  BY <1>1, CutTypes
<1>5. \A m \in Nat : After(Cutting, Between(args), q.out \o Slashes(m)) = In(args, c, m)
                     /\ q.out \o Slashes(m) \in Text
  <2>1. ASSUME NEW m \in Nat
        PROVE  After(Cutting, Between(args), q.out \o Slashes(m)) = In(args, c, m)
               /\ q.out \o Slashes(m) \in Text
    <3>1. Slashes(m) \in Text
      BY SlashesFacts
    <3>2. After(Cutting, Between(args), q.out \o Slashes(m))
            = After(Cutting, In(args, c, 0), Slashes(m))
      BY <1>1, <1>3, <1>4, <3>1, CutMore
    <3>3. QED
      BY <1>1, <1>3, <3>1, <3>2, SlashesCut, TextsGrow
  <2>2. QED
    BY <2>1
<1> HIDE DEF q, r, n, w
<1>6. ASSUME NEW m \in Nat, NEW y \in Symbols
      PROVE  After(Cutting, Between(args), q.out \o Slashes(m) \o <<y>>) = Cutting[In(args, c, m)][y]
  <2>1. q.out \o Slashes(m) \in Text /\ <<y>> \in Text /\ In(args, c, m) \in Cut
    BY <1>1, <1>5, TextsGrow, CutTypes
  <2>2. After(Cutting, Between(args), q.out \o Slashes(m) \o <<y>>)
          = After(Cutting, In(args, c, m), <<y>>)
    BY <1>4, <1>5, <2>1, CutMore
  <2>3. QED
    BY <2>1, <2>2, CutOne
<1>7. CASE x = Slash
  <2>1. r.out = q.out /\ r.slashes = n + 1
    BY <1>2, <1>7, QuoteStep DEF n
  <2>2. c \o Slashes(n + 1) = w
    <3>1. Slashes(n + 1) = Append(Slashes(n), Slash) /\ Slashes(n) \in Text
      BY <1>3, SlashesFacts
    <3>2. Append(Slashes(n), Slash) = Slashes(n) \o <<Slash>> /\ <<Slash>> \in Text
      BY <3>1, SignsDiffer, TextsGrow
    <3>3. c \o (Slashes(n) \o <<Slash>>) = (c \o Slashes(n)) \o <<Slash>>
      BY <3>1, <3>2, TextsGrow
    <3>4. v \o <<Slash>> = Append(v, Slash)
      BY SignsDiffer, TextsGrow
    <3>5. QED
      BY <1>1, <1>7, <3>1, <3>2, <3>3, <3>4 DEF w, n
  <2>3. QED
    BY <1>1, <2>1, <2>2 DEF CutsBack, q, r, w
<1>8. CASE x = Mark
  <2>1. r.out = q.out \o Slashes(2 * n + 1) \o <<Mark>> /\ r.slashes = 0
    BY <1>2, <1>8, QuoteStep DEF n
  <2>2. (2 * n + 1) % 2 = 1 /\ (2 * n + 1) \div 2 = n
    BY <1>3
  <2>3. Cutting[In(args, c, 2 * n + 1)][Mark] = In(args, Append(c \o Slashes(n), Mark), 0)
    <3>1. InSteps(args, c, 2 * n + 1)
      BY <1>3, FromIn
    <3>2. QED
      BY <2>2, <3>1 DEF InSteps
  <2>4. After(Cutting, Between(args), r.out) = In(args, w, 0)
    BY <1>1, <1>3, <1>6, <1>8, <2>1, <2>3, SignsDiffer DEF w, n
  <2>5. w \o Slashes(0) = w
    BY <1>3, EmptyText
  <2>6. QED
    BY <1>3, <2>1, <2>4, <2>5 DEF CutsBack, r, w
<1>9. CASE x \notin {Slash, Mark}
  <2>1. r.out = q.out \o Slashes(n) \o <<x>> /\ r.slashes = 0
    BY <1>2, <1>9, QuoteStep DEF n
  <2>2. Cutting[In(args, c, n)][x] = In(args, Append(c \o Slashes(n), x), 0)
    <3>1. InSteps(args, c, n)
      BY <1>3, FromIn
    <3>2. QED
      BY <1>9, <3>1 DEF InSteps
  <2>3. After(Cutting, Between(args), r.out) = In(args, w, 0)
    BY <1>1, <1>3, <1>6, <2>1, <2>2 DEF w, n
  <2>4. w \o Slashes(0) = w
    BY <1>3, EmptyText
  <2>5. QED
    BY <1>3, <2>1, <2>3, <2>4 DEF CutsBack, r, w
<1>10. QED
  BY <1>7, <1>8, <1>9

LEMMA AllCutBack ==
    ASSUME NEW args \in Seq(Text), NEW v \in Text
    PROVE  CutsBack(args, v)
<1> DEFINE T == {u \in Text : CutsBack(args, u)}
<1>1. <<>> \in T
  <2>1. Between(args) \in Cut /\ <<>> \in Text /\ <<>> \o Slashes(0) = <<>>
    BY CutTypes, EmptyText
  <2>2. After(Cutting, Between(args), <<Mark>>) = In(args, <<>>, 0)
    BY <2>1, CutOne, FromBetween, SignsDiffer
  <2>3. Opening.out = <<Mark>> /\ Opening.slashes = 0
    BY DEF Opening
  <2>4. CutsBack(args, <<>>)
    BY <2>1, <2>2, <2>3, OpeningFacts DEF CutsBack
  <2>5. QED
    BY <2>1, <2>4
<1>2. \A u \in T : \A x \in Symbols : Append(u, x) \in T
  BY CutsBackMore, TextsGrow
<1>3. T \in SUBSET Seq(Symbols)
  BY DEF Text
<1> HIDE DEF T
<1>4. T = Seq(Symbols)
  BY <1>1, <1>2, <1>3, SequencesByAppend
<1>5. QED
  BY <1>4 DEF T, Text

(* quote() of main.cpp and the start of a program agree: whatever text is quoted, with spaces,
   marks or slashes anywhere in it, it comes out of the line again as one argument. *)
THEOREM QuoteCut ==
    ASSUME NEW args \in Seq(Text), NEW v \in Text
    PROVE  /\ quote(v) \in Text
           /\ After(Cutting, Between(args), quote(v)) = Done(args, v)
<1> DEFINE q == QuotedSoFar(v)
           n == q.slashes
<1>1. PICK c \in Text : /\ After(Cutting, Between(args), q.out) = In(args, c, 0)
                        /\ c \o Slashes(n) = v
  BY AllCutBack DEF CutsBack
<1>2. q \in Quotes /\ quote(v) = q.out \o Slashes(2 * n) \o <<Mark>>
  BY OpeningFacts DEF quote, QuotedSoFar, Opening
<1>3. q.out \in Text /\ n \in Nat /\ 2 * n \in Nat
  BY <1>2 DEF Quotes
<1> HIDE DEF q, n
<1>4. /\ Between(args) \in Cut /\ In(args, c, 0) \in Cut /\ In(args, c, 2 * n) \in Cut
      /\ Slashes(2 * n) \in Text /\ <<Mark>> \in Text
      /\ q.out \o Slashes(2 * n) \in Text
  BY <1>1, <1>3, CutTypes, SlashesFacts, SignsDiffer, TextsGrow
<1>5. After(Cutting, Between(args), q.out \o Slashes(2 * n)) = In(args, c, 2 * n)
  <2>1. After(Cutting, Between(args), q.out \o Slashes(2 * n))
          = After(Cutting, In(args, c, 0), Slashes(2 * n))
    BY <1>1, <1>3, <1>4, CutMore
  <2>2. QED
    BY <1>1, <1>3, <2>1, SlashesCut
<1>6. After(Cutting, Between(args), q.out \o Slashes(2 * n) \o <<Mark>>)
        = Cutting[In(args, c, 2 * n)][Mark]
  <2>1. After(Cutting, Between(args), q.out \o Slashes(2 * n) \o <<Mark>>)
          = After(Cutting, In(args, c, 2 * n), <<Mark>>)
    BY <1>4, <1>5, CutMore
  <2>2. QED
    BY <1>4, <2>1, CutOne, SignsDiffer
<1>7. (2 * n) % 2 # 1 /\ (2 * n) \div 2 = n
  BY <1>3
<1>8. Cutting[In(args, c, 2 * n)][Mark] = Done(args, c \o Slashes(n))
  <2>1. InSteps(args, c, 2 * n)
    BY <1>3, FromIn
  <2>2. QED
    BY <1>7, <2>1 DEF InSteps
<1>9. QED
  BY <1>1, <1>2, <1>4, <1>6, <1>8, TextsGrow

-----------------------------------------------------------------------------
(* A line of words and quoted texts. *)

(* The line is cut into the arguments, and its last one is complete. *)
Says(v, argv) ==
    /\ v \in Text /\ argv \in Seq(Text)
    /\ \E args \in Seq(Text) : \E c \in Text :
          argv = Append(args, c) /\ After(Cutting, Between(<<>>), v) = Done(args, c)

LEMMA SaysSplit ==
    ASSUME NEW v, NEW argv, Says(v, argv)
    PROVE  Split(v) = argv
<1>1. PICK args \in Seq(Text), c \in Text :
        argv = Append(args, c) /\ After(Cutting, Between(<<>>), v) = Done(args, c)
  BY DEF Says
<1>2. Closed(Done(args, c)) = Append(args, c)
  BY FromDone
<1>3. QED
  BY <1>1, <1>2 DEF Split

LEMMA SaysFirst ==
    ASSUME NEW w \in Text
    PROVE  Says(quote(w), <<w>>)
<1>1. <<>> \in Seq(Text) /\ Append(<<>>, w) = <<w>> /\ <<w>> \in Seq(Text)
  BY EmptySeq
<1>2. quote(w) \in Text /\ After(Cutting, Between(<<>>), quote(w)) = Done(<<>>, w)
  BY <1>1, QuoteCut
<1>3. QED
  BY <1>1, <1>2 DEF Says

(* One more argument. *)
LEMMA SaysMore ==
    ASSUME NEW v, NEW argv, Says(v, argv), NEW part \in Text, NEW w \in Text,
           \A args \in Seq(Text) : After(Cutting, Between(args), part) = Done(args, w)
    PROVE  Says(v ++ part, Append(argv, w))
<1>1. PICK args \in Seq(Text), c \in Text :
        argv = Append(args, c) /\ After(Cutting, Between(<<>>), v) = Done(args, c)
  BY DEF Says
<1>2. /\ v \in Text /\ <<Space>> \in Text /\ v \o <<Space>> \in Text /\ (v \o <<Space>>) \o part \in Text
      /\ argv \in Seq(Text) /\ Append(argv, w) \in Seq(Text)
  <2>1. v \in Text /\ <<Space>> \in Text /\ argv \in Seq(Text)
    BY SignsDiffer, TextsGrow DEF Says
  <2>2. QED
    BY <2>1, TextsGrow, AppendProperties
<1>3. <<>> \in Seq(Text) /\ Between(<<>>) \in Cut /\ Done(args, c) \in Cut /\ Between(argv) \in Cut
  BY <1>2, EmptySeq, EmptyText, CutTypes
<1>4. After(Cutting, Between(<<>>), v \o <<Space>>) = Between(argv)
  <2>1. After(Cutting, Between(<<>>), v \o <<Space>>) = After(Cutting, Done(args, c), <<Space>>)
    BY <1>1, <1>2, <1>3, CutMore
  <2>2. After(Cutting, Done(args, c), <<Space>>) = Cutting[Done(args, c)][Space]
    BY <1>3, CutOne, SignsDiffer
  <2>3. Cutting[Done(args, c)][Space] = Between(Append(args, c))
    BY FromDone
  <2>4. QED
    BY <1>1, <2>1, <2>2, <2>3
<1>5. After(Cutting, Between(<<>>), (v \o <<Space>>) \o part) = Done(argv, w)
  <2>1. After(Cutting, Between(<<>>), (v \o <<Space>>) \o part)
          = After(Cutting, Between(argv), part)
    BY <1>2, <1>3, <1>4, CutMore
  <2>2. QED
    BY <1>2, <2>1
<1>6. QED
  BY <1>2, <1>5 DEF Says, ++

LEMMA SaysQuote ==
    ASSUME NEW v, NEW argv, Says(v, argv), NEW w \in Text
    PROVE  Says(v ++ quote(w), Append(argv, w))
<1>1. quote(w) \in Text
      /\ \A args \in Seq(Text) : After(Cutting, Between(args), quote(w)) = Done(args, w)
  <2>1. <<>> \in Seq(Text)
    BY EmptySeq
  <2>2. QED
    BY <2>1, QuoteCut
<1> DEFINE part == quote(w)
<1> HIDE DEF part
<1>2. part \in Text /\ \A args \in Seq(Text) : After(Cutting, Between(args), part) = Done(args, w)
  BY <1>1 DEF part
<1>3. Says(v ++ part, Append(argv, w))
  BY <1>2, SaysMore
<1>4. QED
  BY <1>3 DEF part

LEMMA SaysWord ==
    ASSUME NEW v, NEW argv, Says(v, argv), NEW x \in Words
    PROVE  Says(v ++ <<x>>, Append(argv, <<x>>))
<1>1. x \in Symbols /\ x # Slash /\ x # Mark /\ x # Space
  <2>1. x # Slash /\ x # Mark /\ x # Space
    BY DEF Words, Options, Slash, Mark, Space
  <2>2. QED
    BY <2>1, WordsAssumption
<1>2. <<x>> \in Text
  BY <1>1, TextsGrow
<1>3. ASSUME NEW args \in Seq(Text)
      PROVE  After(Cutting, Between(args), <<x>>) = Done(args, <<x>>)
  <2>1. Between(args) \in Cut
    BY CutTypes, EmptyText
  <2>2. QED
    BY <1>1, <2>1, CutOne, FromBetween
<1>4. QED
  BY <1>2, <1>3, SaysMore

-----------------------------------------------------------------------------
(* The pairs of an option and its value that an argument vector gives. *)

(* These pairs and no others. *)
Told(argv, pairs) ==
    /\ argv \in Seq(Text)
    /\ Len(argv) >= 2 /\ Len(argv) % 2 = 0
    /\ \A k \in Keys(argv) : \E p \in pairs : Lower(argv[k]) = <<p.option>> /\ argv[k + 1] = p.value
    /\ \A p \in pairs : \E k \in Keys(argv) : Lower(argv[k]) = <<p.option>>

Pair(o, v) == [option |-> o, value |-> v]

LEMMA ToldNothing ==
    ASSUME NEW exe \in Text, NEW cmd \in Text
    PROVE  Told(<<exe, cmd>>, {})
<1> DEFINE argv == <<exe, cmd>>
<1>1. argv \in Seq(Text) /\ Len(argv) = 2
  OBVIOUS
<1>2. Keys(argv) = {}
  BY <1>1 DEF Keys
<1>3. QED
  BY <1>1, <1>2 DEF Told

LEMMA ToldMore ==
    ASSUME NEW argv, NEW pairs, Told(argv, pairs), NEW name \in Text, NEW value \in Text, NEW o,
           Lower(name) = <<o>>
    PROVE  Told(Append(Append(argv, name), value), pairs \cup {Pair(o, value)})
<1> DEFINE n == Len(argv)
           more == Append(Append(argv, name), value)
           all == pairs \cup {Pair(o, value)}
<1>1. /\ argv \in Seq(Text) /\ n \in Nat /\ n >= 2 /\ n % 2 = 0
      /\ Append(argv, name) \in Seq(Text) /\ more \in Seq(Text)
  BY AppendProperties, LenProperties DEF Told
<1>2. Len(Append(argv, name)) = n + 1 /\ Len(more) = n + 2
  BY <1>1, AppendProperties
<1>3. /\ \A k \in 1..n : more[k] = argv[k]
      /\ more[n + 1] = name /\ more[n + 2] = value
  <2>1. /\ \A k \in 1..n : Append(argv, name)[k] = argv[k]
        /\ Append(argv, name)[n + 1] = name
    BY <1>1, AppendProperties
  <2>2. /\ \A k \in 1..(n + 1) : more[k] = Append(argv, name)[k]
        /\ more[n + 2] = value
    BY <1>1, <1>2, AppendProperties
  <2>3. QED
    BY <1>1, <2>1, <2>2
<1>4. Keys(more) = Keys(argv) \cup {n + 1}
  <2>1. Keys(argv) = {k \in 3..(n - 1) : k % 2 = 1}
    BY DEF Keys
  <2>2. Keys(more) = {k \in 3..(n + 1) : k % 2 = 1}
    BY <1>1, <1>2 DEF Keys
  <2> HIDE DEF n, more
  <2>3. QED
    BY <1>1, <2>1, <2>2
<1>5. \A k \in Keys(argv) : k \in 1..n /\ k + 1 \in 1..n
  BY <1>1 DEF Keys
<1>6. Pair(o, value).option = o /\ Pair(o, value).value = value
  BY DEF Pair
<1> HIDE DEF more, n
<1>7. ASSUME NEW k \in Keys(more)
      PROVE  \E p \in all : Lower(more[k]) = <<p.option>> /\ more[k + 1] = p.value
  <2>1. CASE k \in Keys(argv)
    <3>1. PICK p \in pairs : Lower(argv[k]) = <<p.option>> /\ argv[k + 1] = p.value
      BY <2>1 DEF Told
    <3>2. QED
      BY <1>3, <1>5, <2>1, <3>1
  <2>2. CASE k = n + 1
    <3>1. k + 1 = n + 2
      BY <1>1, <2>2
    <3>2. QED
      BY <1>3, <1>6, <2>2, <3>1
  <2>3. QED
    BY <1>4, <2>1, <2>2
<1>8. ASSUME NEW p \in all PROVE \E k \in Keys(more) : Lower(more[k]) = <<p.option>>
  <2>1. CASE p \in pairs
    <3>1. PICK k \in Keys(argv) : Lower(argv[k]) = <<p.option>>
      BY <2>1 DEF Told
    <3>2. QED
      BY <1>3, <1>4, <1>5, <3>1
  <2>2. CASE p = Pair(o, value)
    BY <1>3, <1>4, <1>6, <2>2
  <2>3. QED
    BY <2>1, <2>2
<1>9. n + 2 >= 2 /\ (n + 2) % 2 = 0
  BY <1>1
<1>10. QED
  BY <1>1, <1>2, <1>7, <1>8, <1>9 DEF Told, more

(* The option has this value, or is not there. *)
Gives(pairs, o, v) == (\E p \in pairs : p.option = o) /\ \A p \in pairs : p.option = o => p.value = v
Lacks(pairs, o) == \A p \in pairs : p.option # o

(* An option has one value at most, so it does not matter which counts. *)
LEMMA ToldValue ==
    ASSUME NEW argv, NEW pairs, Told(argv, pairs), NEW o, NEW default
    PROVE  /\ Lacks(pairs, o) => ValueOf(argv, o, default) = default
           /\ \A v : Gives(pairs, o, v) => ValueOf(argv, o, default) = v
<1> DEFINE given == Given(argv, o)
<1>1. given = {k \in Keys(argv) : Lower(argv[k]) = <<o>>}
  BY DEF Given
<1>2. ValueOf(argv, o, default) = IF given = {} THEN default ELSE argv[Max(given) + 1]
  BY DEF ValueOf
<1>3. \A k \in given : \E p \in pairs : p.option = o /\ argv[k + 1] = p.value
  BY <1>1 DEF Told
<1>4. \A p \in pairs : p.option = o => given # {}
  BY <1>1 DEF Told
<1>5. given # {} => Max(given) \in given
  <2>1. SUFFICES ASSUME given # {} PROVE Max(given) \in given
    OBVIOUS
  <2>2. Len(argv) \in Nat /\ given \in SUBSET (1..Len(argv))
    <3>1. Len(argv) \in Nat
      BY LenProperties DEF Told
    <3>2. \A k \in Keys(argv) : k \in 1..Len(argv)
      BY <3>1 DEF Keys
    <3>3. QED
      BY <1>1, <3>1, <3>2
  <2> HIDE DEF given
  <2>3. \E m \in given : \A k \in given : k <= m
    BY <2>1, <2>2, GreatestMember
  <2>4. QED
    BY <2>2, <2>3 DEF Max
<1> HIDE DEF given
<1>6. QED
  BY <1>2, <1>3, <1>4, <1>5 DEF Lacks, Gives

LEMMA TwoByAppend ==
    ASSUME NEW S, NEW a \in S, NEW b \in S
    PROVE  Append(<<a>>, b) = <<a, b>>
<1> DEFINE s == Append(<<a>>, b)
           t == <<a, b>>
<1>1. s \in Seq(S) /\ Len(s) = 2 /\ s[1] = a /\ s[2] = b
  <2>1. <<a>> \in Seq(S) /\ Len(<<a>>) = 1 /\ <<a>>[1] = a /\ 1 \in 1..1
    OBVIOUS
  <2>2. QED
    BY <2>1, AppendProperties
<1>2. t \in Seq(S) /\ Len(t) = 2 /\ t[1] = a /\ t[2] = b
  OBVIOUS
<1> HIDE DEF s, t
<1>3. \A i \in 1..2 : s[i] = t[i]
  BY <1>1, <1>2
<1>4. QED
  BY <1>1, <1>2, <1>3, SeqEqual DEF s, t

LEMMA WordFacts ==
    ASSUME NEW x \in Words
    PROVE  <<x>> \in Text /\ Lower(<<x>>) = <<x>>
<1>1. x \in Symbols /\ x \notin DOMAIN Small
  BY WordsAssumption
<1>2. <<x>> \in Text
  BY <1>1, TextsGrow
<1>3. DOMAIN <<x>> = {1} /\ <<x>>[1] = x
  OBVIOUS
<1>4. Lower(<<x>>) = [k \in {1} |-> x]
  BY <1>1, <1>3 DEF Lower
<1>5. <<x>> = [k \in {1} |-> x]
  BY <1>3
<1>6. QED
  BY <1>2, <1>4, <1>5

(* What the program is told: a command and the options after it. *)
Heard(argv, cmd, pairs) == Told(argv, pairs) /\ argv[2] = cmd

LEMMA HeardNothing ==
    ASSUME NEW exe \in Text, NEW cmd \in Text
    PROVE  Heard(<<exe, cmd>>, cmd, {})
BY ToldNothing DEF Heard

LEMMA HeardMore ==
    ASSUME NEW argv, NEW cmd, NEW pairs, Heard(argv, cmd, pairs), NEW name \in Text,
           NEW value \in Text, NEW o, Lower(name) = <<o>>
    PROVE  Heard(Append(Append(argv, name), value), cmd, pairs \cup {Pair(o, value)})
<1>1. Told(Append(Append(argv, name), value), pairs \cup {Pair(o, value)})
  BY ToldMore DEF Heard
<1>2. argv \in Seq(Text) /\ Len(argv) \in Nat /\ Len(argv) >= 2
  BY LenProperties DEF Heard, Told
<1>3. Append(argv, name) \in Seq(Text) /\ Len(Append(argv, name)) = Len(argv) + 1
      /\ \A k \in 1..Len(argv) : Append(argv, name)[k] = argv[k]
  BY <1>2, AppendProperties
<1>4. \A k \in 1..(Len(argv) + 1) : Append(Append(argv, name), value)[k] = Append(argv, name)[k]
  BY <1>3, AppendProperties
<1>5. 2 \in 1..Len(argv) /\ 2 \in 1..(Len(argv) + 1)
  BY <1>2
<1>6. Append(Append(argv, name), value)[2] = cmd
  BY <1>3, <1>4, <1>5 DEF Heard
<1>7. QED
  BY <1>1, <1>6 DEF Heard

(* A line that is cut into such arguments. *)
Line(v, cmd, pairs) == \E argv : Says(v, argv) /\ Heard(argv, cmd, pairs)

LEMMA LineHeard ==
    ASSUME NEW v, NEW cmd, NEW pairs, Line(v, cmd, pairs)
    PROVE  Heard(Split(v), cmd, pairs)
BY SaysSplit DEF Line

LEMMA LineBegins ==
    ASSUME NEW exe \in Text, NEW x \in Words
    PROVE  Line(quote(exe) ++ <<x>>, <<x>>, {})
<1>1. Says(quote(exe), <<exe>>)
  BY SaysFirst
<1>2. Says(quote(exe) ++ <<x>>, Append(<<exe>>, <<x>>))
  BY <1>1, SaysWord
<1>3. Append(<<exe>>, <<x>>) = <<exe, <<x>>>>
  <2>1. <<x>> \in Text
    BY WordFacts
  <2>2. QED
    BY <2>1, TwoByAppend
<1>4. Heard(<<exe, <<x>>>>, <<x>>, {})
  BY WordFacts, HeardNothing
<1>5. QED
  BY <1>2, <1>3, <1>4 DEF Line

LEMMA LineQuote ==
    ASSUME NEW v, NEW cmd, NEW pairs, Line(v, cmd, pairs), NEW o \in Words, NEW w \in Text
    PROVE  Line(v ++ <<o>> ++ quote(w), cmd, pairs \cup {Pair(o, w)})
<1>1. PICK argv : Says(v, argv) /\ Heard(argv, cmd, pairs)
  BY DEF Line
<1>2. Says(v ++ <<o>>, Append(argv, <<o>>))
  BY <1>1, SaysWord
<1>3. Says(v ++ <<o>> ++ quote(w), Append(Append(argv, <<o>>), w))
  BY <1>2, SaysQuote
<1>4. Heard(Append(Append(argv, <<o>>), w), cmd, pairs \cup {Pair(o, w)})
  BY <1>1, WordFacts, HeardMore
<1>5. QED
  BY <1>3, <1>4 DEF Line

LEMMA LineWord ==
    ASSUME NEW v, NEW cmd, NEW pairs, Line(v, cmd, pairs), NEW o \in Words, NEW x \in Words
    PROVE  Line(v ++ <<o>> ++ <<x>>, cmd, pairs \cup {Pair(o, <<x>>)})
<1>1. PICK argv : Says(v, argv) /\ Heard(argv, cmd, pairs)
  BY DEF Line
<1>2. Says(v ++ <<o>>, Append(argv, <<o>>))
  BY <1>1, SaysWord
<1>3. Says(v ++ <<o>> ++ <<x>>, Append(Append(argv, <<o>>), <<x>>))
  BY <1>2, SaysWord
<1>4. <<x>> \in Text /\ <<o>> \in Text /\ Lower(<<o>>) = <<o>>
  BY WordFacts
<1>5. Heard(Append(Append(argv, <<o>>), <<x>>), cmd, pairs \cup {Pair(o, <<x>>)})
  BY <1>1, <1>4, HeardMore
<1>6. QED
  BY <1>3, <1>5 DEF Line

-----------------------------------------------------------------------------
(* What parse makes of it. *)

(* The fields that a command is about. *)
LEMMA ParseFields ==
    ASSUME NEW argv
    PROVE  /\ parse(argv).command = parseCommand(argv[2])
           /\ parse(argv).rootPath = ValueOf(argv, "--root", <<>>)
           /\ parse(argv).outputIndexPath =
                IF parseCommand(argv[2]) = <<"search">> THEN <<>> ELSE ValueOf(argv, "--output", <<>>)
           /\ parse(argv).searchOutputPath =
                IF parseCommand(argv[2]) = <<"search">> THEN ValueOf(argv, "--output", <<>>) ELSE <<>>
           /\ parse(argv).inputIndexPath = ValueOf(argv, "--index", <<>>)
           /\ parse(argv).query = ValueOf(argv, "--query", <<>>)
           /\ parse(argv).sessionName = ValueOf(argv, "--session", <<"main">>)
           /\ parse(argv).onlyName = parseBool(ValueOf(argv, "--only-name", <<>>))
           /\ parse(argv).caseSensitive = parseBool(ValueOf(argv, "--case-sensitive", <<>>))
           /\ parse(argv).excludeDirs = splitSemicolonList(ValueOf(argv, "--exclude-dir", <<>>))
           /\ parse(argv).excludeFiles = splitSemicolonList(ValueOf(argv, "--exclude-file", <<>>))
           /\ parse(argv).includeExt = splitSemicolonList(ValueOf(argv, "--include-ext", <<>>))
           /\ parse(argv).excludeExt = splitSemicolonList(ValueOf(argv, "--exclude-ext", <<>>))
BY DEF parse

LEMMA HeardValue ==
    ASSUME NEW argv, NEW cmd, NEW pairs, Heard(argv, cmd, pairs), NEW o, NEW default
    PROVE  /\ Lacks(pairs, o) => ValueOf(argv, o, default) = default
           /\ \A v : Gives(pairs, o, v) => ValueOf(argv, o, default) = v
<1>1. Told(argv, pairs)
  BY DEF Heard
<1>2. QED
  BY <1>1, ToldValue

(* Nothing in the pairs makes the parser throw. *)
Allowed(pairs) ==
    \A p \in pairs :
        /\ p.option \in Options \ {"--batch"}
        /\ p.option = "--limit" => IsNumber(p.value)
        /\ p.option = "--mode" => Lower(p.value) \in {<<"full">>, <<"update">>, <<"resume">>}

LEMMA NotRefused ==
    ASSUME NEW argv, NEW cmd, NEW pairs, Heard(argv, cmd, pairs), Allowed(pairs),
           parseCommand(cmd) = <<"index">> =>
              parse(argv).rootPath # <<>> /\ parse(argv).outputIndexPath # <<>>,
           parseCommand(cmd) = <<"search">> =>
              parse(argv).inputIndexPath # <<>> /\ parse(argv).searchOutputPath # <<>>
    PROVE  ~ Refused(argv)
<1>1. /\ Len(argv) \in Nat /\ Len(argv) >= 2 /\ Len(argv) % 2 = 0 /\ argv[2] = cmd
  BY LenProperties DEF Heard, Told
<1>2. \A k \in Keys(argv) : \E p \in pairs : Lower(argv[k]) = <<p.option>> /\ argv[k + 1] = p.value
  BY DEF Heard, Told
<1>3. \A k \in Keys(argv) : Lower(argv[k]) \in {<<option>> : option \in Options}
  BY <1>2 DEF Allowed
<1>4. \A o : \A k \in Given(argv, o) : \E p \in pairs : p.option = o /\ argv[k + 1] = p.value
  BY <1>2 DEF Given
<1>5. \A k \in Given(argv, "--limit") \cup Given(argv, "--batch") : IsNumber(argv[k + 1])
  <2>1. \A k \in Given(argv, "--batch") : FALSE
    BY <1>4 DEF Allowed
  <2>2. \A k \in Given(argv, "--limit") : IsNumber(argv[k + 1])
    BY <1>4 DEF Allowed
  <2>3. QED
    BY <2>1, <2>2
<1>6. \A k \in Given(argv, "--mode") :
        Lower(argv[k + 1]) \in {<<"full">>, <<"update">>, <<"resume">>}
  BY <1>4 DEF Allowed
<1>7. ~ (Len(argv) < 2) /\ Len(argv) % 2 # 1
  BY <1>1
<1>8. QED
  BY <1>1, <1>3, <1>5, <1>6, <1>7 DEF Refused

-----------------------------------------------------------------------------
(* A list of masks. *)

ListState == [items : Seq(Text), current : Text]
ListAt(items, v) == [items |-> items, current |-> v]

LEMMA ListingStep ==
    ASSUME NEW st \in ListState, NEW ch \in Symbols
    PROVE  /\ Kept(st) \in Seq(Text)
           /\ Listing[st][ch] \in ListState
           /\ ch = Semicolon => Listing[st][ch] = ListAt(Kept(st), <<>>)
           /\ ch # Semicolon => Listing[st][ch] = ListAt(st.items, Append(st.current, ch))
<1>1. st.items \in Seq(Text) /\ st.current \in Text
  BY DEF ListState
<1>2. Kept(st) \in Seq(Text) /\ Append(st.current, ch) \in Text /\ <<>> \in Text
  BY <1>1, AppendProperties, TextsGrow, EmptyText DEF Kept
<1>3. Listing[st][ch] = IF ch = Semicolon THEN [items |-> Kept(st), current |-> <<>>]
                        ELSE [st EXCEPT !.current = Append(@, ch)]
  BY DEF Listing, ListState
<1>4. [st EXCEPT !.current = Append(@, ch)] = ListAt(st.items, Append(st.current, ch))
  BY <1>1 DEF ListState, ListAt
<1>5. ListAt(st.items, Append(st.current, ch)) \in ListState /\ ListAt(Kept(st), <<>>) \in ListState
  BY <1>1, <1>2 DEF ListAt, ListState
<1>6. QED
  BY <1>2, <1>3, <1>4, <1>5 DEF ListAt

LEMMA ListingLoops == Loops(Listing, ListState, Symbols)
<1>1. ASSUME NEW st \in ListState PROVE Listing[st] \in [Symbols -> ListState]
  <2>1. Listing[st] = [ch \in Symbols |-> Listing[st][ch]]
    BY DEF Listing, ListState
  <2>2. \A ch \in Symbols : Listing[st][ch] \in ListState
    BY ListingStep
  <2>3. QED
    BY <2>1, <2>2
<1>2. Listing = [st \in ListState |-> Listing[st]]
  BY DEF Listing, ListState
<1>3. Listing \in [ListState -> [Symbols -> ListState]]
  BY <1>1, <1>2
<1>4. QED
  BY <1>3, LoopsByStep

(* No semicolon ends the item. *)
LEMMA ItemRead ==
    ASSUME NEW items \in Seq(Text), NEW v \in Text, \A k \in DOMAIN v : v[k] # Semicolon
    PROVE  After(Listing, ListAt(items, <<>>), v) = ListAt(items, v)
<1> DEFINE S == Symbols \ {Semicolon}
           T == {u \in Seq(S) : After(Listing, ListAt(items, <<>>), u) = ListAt(items, u)}
<1>1. ListAt(items, <<>>) \in ListState
  BY EmptyText DEF ListAt, ListState
<1>2. <<>> \in T
  BY <1>1, EmptySeq, ListingLoops DEF Loops
<1>3. ASSUME NEW u \in T, NEW x \in S PROVE Append(u, x) \in T
  <2>1. u \in Seq(S) /\ Append(u, x) \in Seq(S) /\ u \in Seq(Symbols) /\ x \in Symbols /\ x # Semicolon
    BY AppendProperties
  <2>2. After(Listing, ListAt(items, <<>>), Append(u, x))
          = Listing[After(Listing, ListAt(items, <<>>), u)][x]
    BY <1>1, <2>1, ListingLoops DEF Loops
  <2>3. /\ ListAt(items, u) \in ListState /\ ListAt(items, u).items = items
        /\ ListAt(items, u).current = u
    BY <2>1 DEF ListAt, ListState, Text
  <2>4. Listing[ListAt(items, u)][x] = ListAt(items, Append(u, x))
    BY <2>1, <2>3, ListingStep
  <2>5. QED
    BY <2>1, <2>2, <2>4
<1>4. T \in SUBSET Seq(S)
  OBVIOUS
<1>5. v \in Seq(S)
  <2>1. v \in Seq(Symbols) /\ DOMAIN v = 1..Len(v) /\ Len(v) \in Nat
    BY LenProperties DEF Text
  <2>2. \A k \in 1..Len(v) : v[k] \in S
    BY <2>1, ElementOfSeq
  <2>3. v = [k \in 1..Len(v) |-> v[k]]
    BY <2>1
  <2>4. v \in [1..Len(v) -> S]
    BY <2>2, <2>3
  <2>5. QED
    BY <2>1, <2>4, FunctionIsSeq
<1> HIDE DEF T, S
<1>6. T = Seq(S)
  BY <1>2, <1>3, <1>4, SequencesByAppend
<1>7. QED
  BY <1>5, <1>6 DEF T

Writing == [v \in Text |-> [item \in Text |-> v \o <<Semicolon>> \o item]]

LEMMA WritingLoops == Loops(Writing, Text, Text)
<1>1. \A v \in Text : \A item \in Text : v \o <<Semicolon>> \o item \in Text
  BY SignsAssumption, TextsGrow
<1>2. Writing \in [Text -> [Text -> Text]]
  BY <1>1 DEF Writing
<1>3. QED
  BY <1>2, LoopsByStep

LEMMA WritingMore ==
    ASSUME NEW list \in Seq(Text), NEW item \in Text
    PROVE  Written(Append(list, item)) = Writing[Written(list)][item]
<1>1. After(Writing, <<>>, Append(list, item)) = Writing[After(Writing, <<>>, list)][item]
  BY EmptyText, WritingLoops DEF Loops
<1>2. Written(list) = After(Writing, <<>>, list)
  BY DEF Written, Writing
<1>3. Written(Append(list, item)) = After(Writing, <<>>, Append(list, item))
  BY DEF Written, Writing
<1>4. QED
  BY <1>1, <1>2, <1>3

LEMMA ListingMore ==
    ASSUME NEW st \in ListState, NEW v \in Text, NEW w \in Text
    PROVE  After(Listing, st, v \o w) = After(Listing, After(Listing, st, v), w)
<1>1. v \in Seq(Symbols) /\ w \in Seq(Symbols)
  BY DEF Text
<1>2. QED
  BY <1>1, ListingLoops, LoopGoesOn

Items == {v \in Text : IsItem(v)}

(* splitSemicolonList reads back the list that was written, items and order, as long as no
   item is empty or has a semicolon in it. *)
THEOREM WrittenSplit ==
    ASSUME NEW list \in Seq(Items)
    PROVE  Written(list) \in Text /\ splitSemicolonList(Written(list)) = list
<1> DEFINE st(l) == After(Listing, ListAt(<<>>, <<>>), Written(l))
           T == {l \in Seq(Items) : Written(l) \in Text /\ Kept(st(l)) = l}
<1>1. ListAt(<<>>, <<>>) \in ListState
  BY EmptySeq, EmptyText DEF ListAt, ListState
<1>2. Written(<<>>) = <<>>
  BY EmptyText, WritingLoops DEF Loops, Written, Writing
<1>3. <<>> \in T
  <2>1. st(<<>>) = ListAt(<<>>, <<>>)
    BY <1>1, <1>2, ListingLoops DEF Loops
  <2>2. Kept(ListAt(<<>>, <<>>)) = <<>>
    BY DEF Kept, ListAt
  <2>3. QED
    BY <1>2, <2>1, <2>2, EmptySeq, EmptyText
<1>4. ASSUME NEW l \in T, NEW item \in Items PROVE Append(l, item) \in T
  <2>1. /\ l \in Seq(Items) /\ l \in Seq(Text) /\ Append(l, item) \in Seq(Items)
        /\ Written(l) \in Text /\ Kept(st(l)) = l
        /\ item \in Text /\ item # <<>> /\ \A k \in DOMAIN item : item[k] # Semicolon
    BY AppendProperties DEF Items, IsItem
  <2>2. Written(Append(l, item)) = Written(l) \o <<Semicolon>> \o item
    <3>1. Written(Append(l, item)) = Writing[Written(l)][item]
      BY <2>1, WritingMore
    <3>2. QED
      BY <2>1, <3>1 DEF Writing
  <2>3. /\ Semicolon \in Symbols /\ <<Semicolon>> \in Text /\ Written(l) \o <<Semicolon>> \in Text
        /\ Written(l) \o <<Semicolon>> = Append(Written(l), Semicolon)
        /\ Written(l) \o <<Semicolon>> \o item \in Text
    BY <2>1, SignsAssumption, TextsGrow
  <2>4. st(l) \in ListState
    BY <1>1, <2>1, ListingLoops DEF Loops, Text
  <2>5. After(Listing, ListAt(<<>>, <<>>), Written(l) \o <<Semicolon>>) = ListAt(l, <<>>)
    <3>1. After(Listing, ListAt(<<>>, <<>>), Append(Written(l), Semicolon)) = Listing[st(l)][Semicolon]
      BY <1>1, <2>1, <2>3, ListingLoops DEF Loops, Text
    <3>2. Listing[st(l)][Semicolon] = ListAt(Kept(st(l)), <<>>)
      BY <2>3, <2>4, ListingStep
    <3>3. QED
      BY <2>1, <2>3, <3>1, <3>2
  <2>6. st(Append(l, item)) = ListAt(l, item)
    <3>1. After(Listing, ListAt(<<>>, <<>>), (Written(l) \o <<Semicolon>>) \o item)
            = After(Listing, ListAt(l, <<>>), item)
      BY <1>1, <2>1, <2>3, <2>5, ListingMore
    <3>2. After(Listing, ListAt(l, <<>>), item) = ListAt(l, item)
      BY <2>1, ItemRead
    <3>3. QED
      BY <2>2, <3>1, <3>2
  <2>7. Kept(ListAt(l, item)) = Append(l, item)
    BY <2>1 DEF Kept, ListAt
  <2>8. QED
    BY <2>1, <2>2, <2>3, <2>6, <2>7
<1>5. T \in SUBSET Seq(Items)
  OBVIOUS
<1> HIDE DEF T
<1>6. T = Seq(Items)
  BY <1>3, <1>4, <1>5, SequencesByAppend
<1>7. Written(list) \in Text /\ Kept(st(list)) = list
  BY <1>6 DEF T
<1>8. QED
  BY <1>7 DEF splitSemicolonList, ListAt

LEMMA NothingSplit == splitSemicolonList(<<>>) = <<>>
<1>1. <<>> \in Seq(Items)
  BY EmptySeq
<1>2. Written(<<>>) = <<>>
  BY EmptyText, WritingLoops DEF Loops, Written, Writing
<1>3. QED
  BY <1>1, <1>2, WrittenSplit

-----------------------------------------------------------------------------
(* A path that is cleaned. *)

LEMMA MaxIs ==
    ASSUME NEW T \in SUBSET Int, NEW m \in T, \A k \in T : k <= m
    PROVE  Max(T) = m
<1>1. \A k \in T : m >= k
  OBVIOUS
<1>2. Max(T) \in T /\ \A k \in T : Max(T) >= k
  BY <1>1 DEF Max
<1>3. Max(T) >= m /\ Max(T) <= m /\ Max(T) \in Int /\ m \in Int
  BY <1>2
<1>4. QED
  BY <1>3

LEMMA MinIs ==
    ASSUME NEW T \in SUBSET Int, NEW m \in T, \A k \in T : m <= k
    PROVE  Min(T) = m
<1>1. \A k \in T : m =< k
  OBVIOUS
<1>2. Min(T) \in T /\ \A k \in T : Min(T) =< k
  BY <1>1 DEF Min
<1>3. Min(T) <= m /\ m <= Min(T) /\ Min(T) \in Int /\ m \in Int
  BY <1>2
<1>4. QED
  BY <1>3

LEMMA TextFacts ==
    ASSUME NEW v \in Text
    PROVE  /\ v \in Seq(Symbols) /\ Len(v) \in Nat /\ DOMAIN v = 1..Len(v)
           /\ \A k \in 1..Len(v) : v[k] \in Symbols
           /\ v # <<>> => Len(v) >= 1 /\ 1 \in 1..Len(v) /\ Len(v) \in 1..Len(v)
<1>1. v \in Seq(Symbols) /\ Len(v) \in Nat /\ DOMAIN v = 1..Len(v)
  BY LenProperties DEF Text
<1>2. \A k \in 1..Len(v) : v[k] \in Symbols
  BY <1>1, ElementOfSeq
<1>3. v # <<>> => Len(v) # 0
  BY <1>1, EmptySeq
<1>4. QED
  BY <1>1, <1>2, <1>3

LEMMA JoinFacts ==
    ASSUME NEW u \in Text, NEW v \in Text
    PROVE  /\ u \o v \in Text /\ Len(u \o v) = Len(u) + Len(v)
           /\ \A i \in 1..Len(u) : (u \o v)[i] = u[i]
           /\ \A i \in 1..Len(v) : (u \o v)[Len(u) + i] = v[i]
<1> DEFINE w == u \o v
           m == Len(u)
           n == Len(v)
<1>1. /\ w \in Text /\ Len(w) = m + n /\ m \in Nat /\ n \in Nat
      /\ \A i \in 1..(m + n) : w[i] = IF i <= m THEN u[i] ELSE v[i - m]
  BY ConcatProperties, LenProperties DEF Text
<1> HIDE DEF w, m, n
<1>2. ASSUME NEW i \in 1..m PROVE w[i] = u[i]
  BY <1>1
<1>3. ASSUME NEW i \in 1..n PROVE w[m + i] = v[i]
  <2>1. m + i \in 1..(m + n) /\ ~ (m + i <= m) /\ (m + i) - m = i
    BY <1>1
  <2>2. QED
    BY <1>1, <2>1
<1>4. QED
  BY <1>1, <1>2, <1>3 DEF w, m, n

LEMMA SliceFacts ==
    ASSUME NEW v \in Text, NEW m \in Nat, NEW n \in Nat, 1 <= m, m <= n + 1, n <= Len(v)
    PROVE  /\ SubSeq(v, m, n) \in Text /\ Len(SubSeq(v, m, n)) = (n + 1) - m
           /\ \A i \in 1..((n + 1) - m) : SubSeq(v, m, n)[i] = v[(m + i) - 1]
<1>1. \A i \in m..n : v[i] \in Symbols
  BY TextFacts
<1>2. m \in Int /\ n \in Int
  OBVIOUS
<1>3. /\ SubSeq(v, m, n) \in Seq(Symbols)
      /\ Len(SubSeq(v, m, n)) = IF m <= n THEN n - m + 1 ELSE 0
      /\ \A i \in 1..(n - m + 1) : SubSeq(v, m, n)[i] = v[m + i - 1]
  BY <1>1, <1>2, SubSeqProperties
<1>4. (IF m <= n THEN n - m + 1 ELSE 0) = (n + 1) - m /\ n - m + 1 = (n + 1) - m
  OBVIOUS
<1>5. QED
  BY <1>3, <1>4 DEF Text

LEMMA SameText ==
    ASSUME NEW u \in Text, NEW v \in Text, Len(u) = Len(v), \A i \in 1..Len(u) : u[i] = v[i]
    PROVE  u = v
BY SeqEqual DEF Text

(* The middle of three. *)
Middle(u, m, w) ==
    /\ (u \o m) \o w \in Text
    /\ Len((u \o m) \o w) = Len(u) + Len(m) + Len(w)
    /\ SubSeq((u \o m) \o w, Len(u) + 1, Len(u) + Len(m)) = m
    /\ \A i \in 1..Len(u) : ((u \o m) \o w)[i] = u[i]
    /\ \A i \in 1..Len(m) : ((u \o m) \o w)[Len(u) + i] = m[i]
    /\ \A i \in 1..Len(w) : ((u \o m) \o w)[Len(u) + Len(m) + i] = w[i]

LEMMA MiddleCut ==
    ASSUME NEW u \in Text, NEW m \in Text, NEW w \in Text
    PROVE  Middle(u, m, w)
<1> DEFINE a == Len(u)
           b == Len(m)
           c == Len(w)
           h == u \o m
           v == h \o w
           s == SubSeq(v, a + 1, a + b)
<1>1. a \in Nat /\ b \in Nat /\ c \in Nat
  BY TextFacts
<1>2. /\ h \in Text /\ Len(h) = a + b
      /\ \A i \in 1..a : h[i] = u[i]
      /\ \A i \in 1..b : h[a + i] = m[i]
  BY JoinFacts
<1>3. /\ v \in Text /\ Len(v) = Len(h) + c
      /\ \A i \in 1..Len(h) : v[i] = h[i]
      /\ \A i \in 1..c : v[Len(h) + i] = w[i]
  BY <1>2, JoinFacts
<1> HIDE DEF a, b, c, h, v, s
<1>4. Len(v) = a + b + c /\ \A i \in 1..a : v[i] = u[i]
  BY <1>1, <1>2, <1>3
<1>5. \A i \in 1..b : v[a + i] = m[i]
  <2>1. \A i \in 1..b : a + i \in 1..(a + b)
    BY <1>1
  <2>2. QED
    BY <1>2, <1>3, <2>1
<1>6. s \in Text /\ Len(s) = b /\ \A i \in 1..b : s[i] = v[a + i]
  <2>1. /\ a + 1 \in Nat /\ a + b \in Nat /\ 1 <= a + 1 /\ a + 1 <= a + b + 1 /\ a + b <= Len(v)
        /\ (a + b + 1) - (a + 1) = b
        /\ \A i \in 1..b : ((a + 1) + i) - 1 = a + i
    BY <1>1, <1>4
  <2>2. /\ s \in Text /\ Len(s) = (a + b + 1) - (a + 1)
        /\ \A i \in 1..((a + b + 1) - (a + 1)) : s[i] = v[((a + 1) + i) - 1]
    BY <1>3, <2>1, SliceFacts DEF s
  <2>3. QED
    BY <2>1, <2>2
<1>7. s = m
  BY <1>5, <1>6, SameText DEF b
<1>8. QED
  BY <1>2, <1>3, <1>4, <1>5, <1>7 DEF a, b, c, h, v, s, Middle

(* What the trim of a text leaves. *)
Inner(v) == {k \in DOMAIN v : v[k] # Space}
TrimsTo(v, m) == Inner(v) # {} /\ SubSeq(v, Min(Inner(v)), Max(Inner(v))) = m

(* Spaces around a text that begins and ends without one. *)
LEMMA Trimmed ==
    ASSUME NEW u \in Seq({Space}), NEW w \in Seq({Space}), NEW m \in Text, m # <<>>,
           m[1] # Space, Last(m) # Space
    PROVE  TrimsTo((u \o m) \o w, m)
<1> DEFINE a == Len(u)
           b == Len(m)
           c == Len(w)
           v == (u \o m) \o w
           inner == {k \in DOMAIN v : v[k] # Space}
<1>0. u \in Text /\ w \in Text
  BY SignsDiffer DEF Text
<1>1. /\ a \in Nat /\ b \in Nat /\ c \in Nat /\ b >= 1
      /\ \A i \in 1..a : u[i] = Space
      /\ \A i \in 1..c : w[i] = Space
  <2>1. /\ \A i \in 1..a : u[i] \in {Space}
        /\ \A i \in 1..c : w[i] \in {Space}
    BY ElementOfSeq
  <2>2. QED
    BY <1>0, <2>1, TextFacts
<1>2. /\ v \in Text /\ Len(v) = a + b + c /\ SubSeq(v, a + 1, a + b) = m
      /\ \A i \in 1..a : v[i] = u[i]
      /\ \A i \in 1..b : v[a + i] = m[i]
      /\ \A i \in 1..c : v[a + b + i] = w[i]
  <2>1. Middle(u, m, w)
    BY <1>0, MiddleCut
  <2>2. QED
    BY <2>1 DEF Middle
<1>3. m[1] # Space /\ m[b] # Space
  BY DEF Last
<1>4. DOMAIN v = 1..(a + b + c)
  BY <1>2, TextFacts
<1> HIDE DEF a, b, c, v
<1>5. a + 1 \in inner /\ a + b \in inner
  <2>1. 1 \in 1..b /\ b \in 1..b /\ a + 1 \in 1..(a + b + c) /\ a + b \in 1..(a + b + c)
    BY <1>1
  <2>2. v[a + 1] = m[1] /\ v[a + b] = m[b]
    BY <1>2, <2>1
  <2>3. QED
    BY <1>3, <1>4, <2>1, <2>2
<1>6. ASSUME NEW k \in inner PROVE a + 1 <= k /\ k <= a + b
  <2>1. k \in 1..(a + b + c) /\ v[k] # Space
    BY <1>4
  <2>2. ~ (k <= a)
    <3>1. k <= a => k \in 1..a
      BY <1>1, <2>1
    <3>2. QED
      BY <1>1, <1>2, <2>1, <3>1
  <2>3. ~ (k > a + b)
    <3>1. k > a + b => k - (a + b) \in 1..c /\ a + b + (k - (a + b)) = k
      BY <1>1, <2>1
    <3>2. QED
      BY <1>1, <1>2, <2>1, <3>1
  <2>4. QED
    BY <1>1, <2>1, <2>2, <2>3
<1>7. inner \in SUBSET Int
  BY <1>4
<1> HIDE DEF inner
<1>8. Min(inner) = a + 1 /\ Max(inner) = a + b
  BY <1>5, <1>6, <1>7, MinIs, MaxIs
<1>9. QED
  BY <1>2, <1>5, <1>8 DEF v, inner, TrimsTo, Inner

(* The marks around a text are taken off. *)
LEMMA Unwrapped ==
    ASSUME NEW q \in Symbols, NEW g \in Text
    PROVE  LET m == (<<q>> \o g) \o <<q>>
           IN  /\ m \in Text /\ Len(m) = Len(g) + 2 /\ m[1] = q /\ Last(m) = q
               /\ Tail(Front(m)) = g
<1> DEFINE m == (<<q>> \o g) \o <<q>>
           n == Len(g)
           f == Front(m)
           t == Tail(f)
<1>1. <<q>> \in Text /\ Len(<<q>>) = 1 /\ <<q>>[1] = q /\ n \in Nat
  BY TextsGrow, TextFacts
<1>2. /\ m \in Text /\ Len(m) = 1 + n + 1
      /\ \A i \in 1..1 : m[i] = <<q>>[i]
      /\ \A i \in 1..n : m[1 + i] = g[i]
      /\ \A i \in 1..1 : m[1 + n + i] = <<q>>[i]
  <2>1. Middle(<<q>>, g, <<q>>)
    BY <1>1, MiddleCut
  <2>2. QED
    BY <1>1, <2>1 DEF Middle
<1> HIDE DEF m, n
<1>3. Len(m) = n + 2 /\ m[1] = q /\ m[n + 2] = q
  <2>1. 1 \in 1..1 /\ 1 + n + 1 = n + 2
    BY <1>1
  <2>2. QED
    BY <1>1, <1>2, <2>1
<1>4. f \in Text /\ Len(f) = n + 1 /\ \A i \in 1..(n + 1) : f[i] = m[i]
  <2>1. /\ 1 \in Nat /\ n + 1 \in Nat /\ 1 <= 1 /\ 1 <= (n + 1) + 1 /\ n + 1 <= Len(m)
        /\ ((n + 1) + 1) - 1 = n + 1 /\ Len(m) - 1 = n + 1
        /\ \A i \in 1..(n + 1) : (1 + i) - 1 = i
    BY <1>1, <1>3
  <2>2. f = SubSeq(m, 1, n + 1)
    BY <2>1 DEF Front
  <2>3. /\ f \in Text /\ Len(f) = ((n + 1) + 1) - 1
        /\ \A i \in 1..(((n + 1) + 1) - 1) : f[i] = m[(1 + i) - 1]
    BY <1>2, <2>1, <2>2, SliceFacts
  <2>4. QED
    BY <2>1, <2>3
<1> HIDE DEF f
<1>5. t \in Text /\ Len(t) = n /\ \A i \in 1..n : t[i] = m[1 + i]
  <2>1. f # <<>> /\ f \in Seq(Symbols)
    BY <1>1, <1>4, EmptySeq DEF Text
  <2>2. t \in Seq(Symbols) /\ Len(t) = Len(f) - 1 /\ \A i \in 1..Len(t) : t[i] = f[i + 1]
    BY <2>1, HeadTailProperties
  <2>3. Len(f) - 1 = n /\ \A i \in 1..n : i + 1 \in 1..(n + 1) /\ i + 1 = 1 + i
    BY <1>1, <1>4
  <2>4. QED
    BY <1>4, <2>2, <2>3 DEF Text
<1> HIDE DEF t
<1>6. t = g
  BY <1>2, <1>5, SameText DEF n
<1>7. QED
  BY <1>2, <1>3, <1>6 DEF m, n, f, t, Last

LEMMA MarksDiffer ==
    /\ Mark # Space /\ "'" # Space /\ Mark \in Symbols /\ "'" \in Symbols /\ "/" \in Symbols
    /\ Slash # Mark /\ Slash # "'" /\ Slash # Space /\ Slash # "/" /\ Slash \in Symbols
    /\ "/" # Mark /\ "/" # "'" /\ "/" # Space
<1>1. Mark \in Symbols /\ "'" \in Symbols /\ "/" \in Symbols /\ Slash \in Symbols
  BY SignsAssumption
<1>2. QED
  BY <1>1 DEF Mark, Slash, Space

(* trimText takes off what is around the text, and no more. *)
LEMMA TrimmedText ==
    ASSUME NEW u \in Seq({Space}), NEW w \in Seq({Space}), NEW mark \in {<<>>, <<Mark>>, <<"'">>},
           NEW g \in Text, g # <<>>, g[1] \notin {Space, Mark, "'"}, Last(g) # Space
    PROVE  trimText((u \o ((mark \o g) \o mark)) \o w) = g
<1> DEFINE m == (mark \o g) \o mark
           v == (u \o m) \o w
           inner == Inner(v)
           t == SubSeq(v, Min(inner), Max(inner))
<1>1. m \in Text /\ m # <<>> /\ m[1] # Space /\ Last(m) # Space => inner # {} /\ t = m
  <2>1. SUFFICES ASSUME m \in Text, m # <<>>, m[1] # Space, Last(m) # Space
                 PROVE  inner # {} /\ t = m
    OBVIOUS
  <2> HIDE DEF m
  <2>2. TrimsTo((u \o m) \o w, m)
    BY <2>1, Trimmed
  <2>3. QED
    BY <2>2 DEF TrimsTo
<1>2. trimText(v) = LET t2 == IF inner = {} THEN <<>> ELSE t
                    IN  IF Len(t2) >= 2 /\ t2[1] = Last(t2) /\ t2[1] \in {Mark, "'"}
                        THEN Tail(Front(t2)) ELSE t2
  BY DEF trimText, Inner
<1> HIDE DEF m, inner, t
<1>3. ASSUME m \in Text, m # <<>>, m[1] # Space, Last(m) # Space
      PROVE  trimText(v) = IF Len(m) >= 2 /\ m[1] = Last(m) /\ m[1] \in {Mark, "'"}
                           THEN Tail(Front(m)) ELSE m
  BY <1>1, <1>2, <1>3
<1> HIDE DEF v
<1>4. CASE mark = <<>>
  <2>1. m = g
    <3>1. <<>> \o g = g
      BY ConcatEmptySeq DEF Text
    <3>2. g \o <<>> = g
      BY EmptyText
    <3>3. QED
      BY <1>4, <3>1, <3>2 DEF m
  <2>2. trimText(v) = g
    BY <1>3, <2>1
  <2>3. QED
    BY <2>2 DEF v, m
<1>5. ASSUME NEW q \in {Mark, "'"}, mark = <<q>> PROVE trimText(v) = g
  <2>1. q \in Symbols /\ q # Space
    BY MarksDiffer
  <2>2. /\ m \in Text /\ Len(m) = Len(g) + 2 /\ m[1] = q /\ Last(m) = q
        /\ Tail(Front(m)) = g
    BY <1>5, <2>1, Unwrapped DEF m
  <2>3. Len(m) >= 2 /\ m # <<>>
    BY <2>2, TextFacts, EmptySeq
  <2>4. QED
    BY <1>3, <2>1, <2>2, <2>3
<1>6. QED
  BY <1>4, <1>5 DEF v, m

-----------------------------------------------------------------------------
(* The other slash. *)

Renaming(slash) == [x \in Symbols |-> IF x = Slash THEN slash ELSE x]

LEMMA Renamed ==
    ASSUME NEW slash \in {Slash, "/"}
    PROVE  /\ Renaming(slash) \in [Symbols -> Symbols]
           /\ \A v \in Text : /\ OnEach(Renaming(slash), v) \in Text
                              /\ Len(OnEach(Renaming(slash), v)) = Len(v)
                              /\ \A k \in 1..Len(v) : OnEach(Renaming(slash), v)[k]
                                                        = IF v[k] = Slash THEN slash ELSE v[k]
           /\ \A v \in Text : \A w \in Text :
                OnEach(Renaming(slash), v \o w) = OnEach(Renaming(slash), v) \o OnEach(Renaming(slash), w)
<1>1. Renaming(slash) \in [Symbols -> Symbols]
  BY MarksDiffer DEF Renaming
<1> DEFINE F == Renaming(slash)
<1> HIDE DEF F
<1>2. F \in [Symbols -> Symbols] /\ \A x \in Symbols : F[x] = IF x = Slash THEN slash ELSE x
  BY <1>1 DEF F, Renaming
<1>3. EachMaps(F, Symbols, Symbols)
  BY <1>2, EachType
<1>4. \A v \in Text : /\ OnEach(F, v) \in Text /\ Len(OnEach(F, v)) = Len(v)
                      /\ \A k \in 1..Len(v) : OnEach(F, v)[k] = F[v[k]]
  BY <1>3 DEF EachMaps, Text
<1>5. \A v \in Text : \A k \in 1..Len(v) : F[v[k]] = IF v[k] = Slash THEN slash ELSE v[k]
  BY <1>2, TextFacts
<1>6. \A v \in Text : \A w \in Text : OnEach(F, v \o w) = OnEach(F, v) \o OnEach(F, w)
  <2>1. ASSUME NEW v \in Text, NEW w \in Text
        PROVE  OnEach(F, v \o w) = OnEach(F, v) \o OnEach(F, w)
    <3> DEFINE m == Len(v)
               n == Len(w)
               a == OnEach(F, v \o w)
               b == OnEach(F, v) \o OnEach(F, w)
    <3>1. /\ m \in Nat /\ n \in Nat /\ v \o w \in Text /\ Len(v \o w) = m + n
          /\ \A i \in 1..m : (v \o w)[i] = v[i]
          /\ \A i \in 1..n : (v \o w)[m + i] = w[i]
      BY JoinFacts, TextFacts
    <3>2. a \in Text /\ Len(a) = m + n /\ \A i \in 1..(m + n) : a[i] = F[(v \o w)[i]]
      BY <1>4, <3>1
    <3>3. /\ OnEach(F, v) \in Text /\ Len(OnEach(F, v)) = m /\ \A i \in 1..m : OnEach(F, v)[i] = F[v[i]]
          /\ OnEach(F, w) \in Text /\ Len(OnEach(F, w)) = n /\ \A i \in 1..n : OnEach(F, w)[i] = F[w[i]]
      BY <1>4
    <3> DEFINE p == OnEach(F, v)
               q == OnEach(F, w)
    <3>7. p \in Text /\ q \in Text /\ b = p \o q
      BY <3>3
    <3> HIDE DEF a, b, p, q
    <3>8. /\ p \o q \in Text /\ Len(p \o q) = Len(p) + Len(q)
          /\ \A i \in 1..Len(p) : (p \o q)[i] = p[i]
          /\ \A i \in 1..Len(q) : (p \o q)[Len(p) + i] = q[i]
      BY <3>7, JoinFacts
    <3>9. Len(p) = m /\ Len(q) = n
      BY <3>3 DEF p, q
    <3>4. /\ b \in Text /\ Len(b) = m + n
          /\ \A i \in 1..m : b[i] = p[i]
          /\ \A i \in 1..n : b[m + i] = q[i]
      BY <3>7, <3>8, <3>9
    <3>10. /\ \A i \in 1..m : p[i] = F[v[i]]
           /\ \A i \in 1..n : q[i] = F[w[i]]
      BY <3>3 DEF p, q
    <3> HIDE DEF m, n
    <3>5. ASSUME NEW i \in 1..(m + n) PROVE a[i] = b[i]
      <4>1. CASE i \in 1..m
        <5>1. (v \o w)[i] = v[i] /\ b[i] = p[i] /\ p[i] = F[v[i]]
          BY <3>1, <3>4, <3>10, <4>1
        <5>2. a[i] = F[(v \o w)[i]]
          BY <3>2
        <5>3. QED
          BY <5>1, <5>2
      <4>2. CASE i \notin 1..m
        <5>1. i - m \in 1..n /\ m + (i - m) = i
          BY <3>1, <4>2
        <5>2. (v \o w)[i] = w[i - m] /\ b[i] = q[i - m] /\ q[i - m] = F[w[i - m]]
          BY <3>1, <3>4, <3>10, <5>1
        <5>4. a[i] = F[(v \o w)[i]]
          BY <3>2
        <5>3. QED
          BY <5>2, <5>4
      <4>3. QED
        BY <4>1, <4>2
    <3>6. QED
      BY <3>2, <3>4, <3>5, SameText DEF a, b
  <2>2. QED
    BY <2>1
<1>7. \A v \in Text : \A k \in 1..Len(v) : OnEach(F, v)[k] = IF v[k] = Slash THEN slash ELSE v[k]
  BY <1>4, <1>5
<1>8. QED
  BY <1>1, <1>4, <1>6, <1>7 DEF F

LEMMA NotRenamed ==
    ASSUME NEW slash \in {Slash, "/"}, NEW v \in Text, \A k \in 1..Len(v) : v[k] # Slash
    PROVE  OnEach(Renaming(slash), v) = v
<1> DEFINE w == OnEach(Renaming(slash), v)
<1>1. w \in Text /\ Len(w) = Len(v) /\ \A k \in 1..Len(v) : w[k] = v[k]
  BY Renamed
<1> HIDE DEF w
<1>2. w = v
  BY <1>1, SameText
<1>3. QED
  BY <1>2 DEF w

-----------------------------------------------------------------------------
(* A folder as it is typed. *)

IsSpelling(s) ==
    /\ s.before \in Seq({Space}) /\ s.after \in Seq({Slash})
    /\ s.mark \in {<<>>, <<Mark>>, <<"'">>} /\ s.slash \in {Slash, "/"}

(* Texts of one symbol that is no slash. *)
LEMMA Plainly ==
    ASSUME NEW x \in {Space, Mark, "'"}, NEW v \in Seq({x})
    PROVE  v \in Text /\ \A k \in 1..Len(v) : v[k] # Slash
<1>1. x \in Symbols /\ x # Slash
  BY MarksDiffer, SignsAssumption
<1>2. v \in Text
  BY <1>1 DEF Text
<1>3. \A k \in 1..Len(v) : v[k] \in {x}
  BY ElementOfSeq
<1>4. QED
  BY <1>1, <1>2, <1>3

LEMMA SpellingFacts ==
    ASSUME NEW s, IsSpelling(s)
    PROVE  /\ s.before \in Text /\ s.mark \in Text /\ s.slash \in {Slash, "/"}
           /\ s.after = Slashes(Len(s.after)) /\ Len(s.after) \in Nat
           /\ OnEach(Renaming(s.slash), s.before) = s.before
           /\ OnEach(Renaming(s.slash), s.mark) = s.mark
<1>1. s.slash \in {Slash, "/"}
  BY DEF IsSpelling
<1> DEFINE b == s.before
           m == s.mark
           a == s.after
           c == s.slash
<1>2. b \in Text /\ \A k \in 1..Len(b) : b[k] # Slash
  BY Plainly DEF IsSpelling
<1>3. m \in Text /\ \A k \in 1..Len(m) : m[k] # Slash
  <2>1. CASE m = <<>>
    BY <2>1, EmptyText, EmptySeq
  <2>2. CASE m = <<Mark>>
    <3>1. m \in Seq({Mark})
      BY <2>2
    <3>2. QED
      BY <3>1, Plainly
  <2>3. CASE m = <<"'">>
    <3>1. m \in Seq({"'"})
      BY <2>3
    <3>2. QED
      BY <3>1, Plainly
  <2>4. QED
    BY <2>1, <2>2, <2>3 DEF IsSpelling
<1>4. a = Slashes(Len(a)) /\ Len(a) \in Nat
  <2>1. a \in Seq({Slash}) /\ Len(a) \in Nat /\ DOMAIN a = 1..Len(a)
    BY LenProperties DEF IsSpelling
  <2>2. \A k \in 1..Len(a) : a[k] = Slash
    <3>1. \A k \in 1..Len(a) : a[k] \in {Slash}
      BY <2>1, ElementOfSeq
    <3>2. QED
      BY <3>1
  <2>3. a = [k \in 1..Len(a) |-> Slash]
    BY <2>1, <2>2
  <2>4. QED
    BY <2>1, <2>3 DEF Slashes
<1> HIDE DEF b, m, a, c
<1>5. c \in {Slash, "/"}
  BY <1>1 DEF c
<1>6. OnEach(Renaming(c), b) = b
  BY <1>2, <1>5, NotRenamed
<1>7. OnEach(Renaming(c), m) = m
  BY <1>3, <1>5, NotRenamed
<1>8. QED
  BY <1>2, <1>3, <1>4, <1>5, <1>6, <1>7 DEF b, m, a, c

(* What is typed: the folder with the other slash, and the rest around it. *)
Around(b, m, g) == (b \o ((m \o g) \o m)) \o b

LEMMA TypedIs ==
    ASSUME NEW folder \in Text, NEW s, IsSpelling(s)
    PROVE  Typed(folder, s) = Around(s.before, s.mark, OnEach(Renaming(s.slash), folder \o s.after))
<1> DEFINE b == s.before
           m == s.mark
           a == s.after
           c == s.slash
           F == Renaming(c)
           f == folder \o a
           inner == (m \o f) \o m
           w == (b \o inner) \o b
<1>1. /\ b \in Text /\ m \in Text /\ c \in {Slash, "/"} /\ a \in Text
      /\ OnEach(F, b) = b /\ OnEach(F, m) = m
  <2>1. /\ b \in Text /\ m \in Text /\ c \in {Slash, "/"} /\ a = Slashes(Len(a)) /\ Len(a) \in Nat
        /\ OnEach(F, b) = b /\ OnEach(F, m) = m
    BY SpellingFacts
  <2>2. Slashes(Len(a)) \in Text
    BY <2>1, SlashesFacts
  <2>3. QED
    BY <2>1, <2>2
<1> HIDE DEF b, m, a, c
<1>2. f \in Text /\ m \o f \in Text /\ inner \in Text /\ b \o inner \in Text /\ w \in Text
  BY <1>1, TextsGrow
<1>3. b \o (m \o folder \o a \o m) \o b = w
  <2>1. (m \o folder) \o a = m \o f
    BY <1>1, TextsGrow
  <2>2. QED
    BY <2>1
<1>4. Typed(folder, s) = [k \in DOMAIN w |-> IF w[k] = Slash THEN c ELSE w[k]]
  BY <1>3 DEF Typed, b, m, a, c
<1> HIDE DEF w, inner, f, F
<1>5. OnEach(F, w) = [k \in DOMAIN w |-> IF w[k] = Slash THEN c ELSE w[k]]
  <2>1. DOMAIN w = 1..Len(w) /\ \A k \in 1..Len(w) : w[k] \in Symbols
    BY <1>2, TextFacts
  <2>2. \A k \in DOMAIN w : F[w[k]] = IF w[k] = Slash THEN c ELSE w[k]
    BY <2>1 DEF F, Renaming
  <2>3. QED
    BY <2>2 DEF OnEach
<1>6. \A u \in Text : \A v \in Text : OnEach(F, u \o v) = OnEach(F, u) \o OnEach(F, v)
  BY <1>1, Renamed DEF F
<1>7. OnEach(F, w) = (b \o ((m \o OnEach(F, f)) \o m)) \o b
  <2>1. OnEach(F, w) = OnEach(F, b \o inner) \o OnEach(F, b)
    BY <1>1, <1>2, <1>6 DEF w
  <2>2. OnEach(F, b \o inner) = OnEach(F, b) \o OnEach(F, inner)
    BY <1>1, <1>2, <1>6
  <2>3. OnEach(F, inner) = OnEach(F, m \o f) \o OnEach(F, m)
    BY <1>1, <1>2, <1>6 DEF inner
  <2>4. OnEach(F, m \o f) = OnEach(F, m) \o OnEach(F, f)
    BY <1>1, <1>2, <1>6
  <2>5. QED
    BY <1>1, <2>1, <2>2, <2>3, <2>4
<1>8. QED
  BY <1>4, <1>5, <1>7 DEF Around, b, m, a, c, F, f

(* The folder is found in it again. *)
LEMMA FolderTrimmed ==
    ASSUME NEW folder, IsFolder(folder), NEW s, IsSpelling(s)
    PROVE  /\ folder \o s.after \in Text
           /\ trimText(Typed(folder, s)) = OnEach(Renaming(s.slash), folder \o s.after)
<1> DEFINE b == s.before
           m == s.mark
           c == s.slash
           n == Len(s.after)
           f == folder \o Slashes(n)
           l == Len(folder)
           g == OnEach(Renaming(c), f)
<1>1. /\ b \in Seq({Space}) /\ m \in {<<>>, <<Mark>>, <<"'">>} /\ c \in {Slash, "/"}
      /\ s.after = Slashes(n) /\ n \in Nat
  BY SpellingFacts DEF IsSpelling
<1>2. /\ folder \in Text /\ l \in Nat /\ l >= 1 /\ folder[1] \notin {Space, Mark, "'"}
      /\ folder[l] # Space
  BY TextFacts DEF IsFolder, Last
<1>3. /\ Slashes(n) \in Text /\ Len(Slashes(n)) = n /\ \A i \in 1..n : Slashes(n)[i] = Slash
  BY <1>1, SlashesFacts DEF Slashes
<1>4. /\ f \in Text /\ Len(f) = l + n /\ f[1] = folder[1] /\ f[l + n] # Space
  <2> DEFINE t == Slashes(n)
  <2>1. t \in Text /\ Len(t) = n
    BY <1>3
  <2> HIDE DEF t
  <2>2. /\ folder \o t \in Text /\ Len(folder \o t) = l + n
        /\ \A i \in 1..l : (folder \o t)[i] = folder[i]
        /\ \A i \in 1..n : (folder \o t)[l + i] = t[i]
    <3>1. folder \in Text /\ Len(t) = n /\ t \in Text
      BY <1>2, <2>1
    <3> HIDE DEF f, n, b, m, c, g
    <3>2. /\ folder \o t \in Text /\ Len(folder \o t) = Len(folder) + Len(t)
          /\ \A i \in 1..Len(folder) : (folder \o t)[i] = folder[i]
          /\ \A i \in 1..Len(t) : (folder \o t)[Len(folder) + i] = t[i]
      BY <3>1, JoinFacts
    <3>3. QED
      BY <3>1, <3>2
  <2>3. (folder \o t)[1] = folder[1]
    BY <1>2, <2>2
  <2>4. (folder \o t)[l + n] # Space
    <3>1. CASE n = 0
      <4>1. l + n = l /\ l \in 1..l
        BY <1>2, <3>1
      <4>2. QED
        BY <1>2, <2>2, <4>1
    <3>2. CASE n # 0
      <4>1. n \in 1..n
        BY <1>1, <3>2
      <4>2. (folder \o t)[l + n] = Slash
        BY <1>3, <2>2, <4>1 DEF t
      <4>3. QED
        BY <4>2, MarksDiffer
    <3>3. QED
      BY <3>1, <3>2
  <2>5. QED
    BY <2>2, <2>3, <2>4 DEF t
<1> HIDE DEF f, l, n
<1>5. /\ g \in Text /\ Len(g) = l + n
      /\ \A k \in 1..Len(f) : g[k] = IF f[k] = Slash THEN c ELSE f[k]
  BY <1>1, <1>4, Renamed
<1> HIDE DEF g
<1>6. g # <<>> /\ g[1] \notin {Space, Mark, "'"} /\ Last(g) # Space
  <2>1. 1 \in 1..Len(f) /\ l + n \in 1..Len(f) /\ l + n >= 1
    BY <1>1, <1>2, <1>4
  <2>2. c \notin {Space, Mark, "'"}
    BY <1>1, MarksDiffer
  <2>3. g[1] \notin {Space, Mark, "'"}
    BY <1>2, <1>4, <1>5, <2>1, <2>2
  <2>4. g[l + n] # Space
    BY <1>4, <1>5, <2>1, <2>2
  <2>5. QED
    BY <1>5, <2>1, <2>3, <2>4, EmptySeq DEF Last
<1>7. trimText(Around(b, m, g)) = g
  <2> HIDE DEF b, m
  <2>1. trimText((b \o ((m \o g) \o m)) \o b) = g
    BY <1>1, <1>5, <1>6, TrimmedText
  <2>2. QED
    BY <2>1 DEF Around
<1>8. Typed(folder, s) = Around(b, m, g)
  <2>1. Typed(folder, s) = Around(s.before, s.mark, OnEach(Renaming(s.slash), folder \o s.after))
    BY <1>2, TypedIs
  <2>2. QED
    BY <1>1, <2>1 DEF b, m, g, f, c
<1>9. QED
  BY <1>1, <1>4, <1>7, <1>8 DEF g, f, c

(* Where normalizeUserPath stops taking slashes. *)
MayEnd(q) == Len(q) <= 1 \/ Last(q) # Slash \/ isDriveRoot(q) \/ isUncShareRoot(q)
Ends(u) == {n \in 0..Len(u) : MayEnd(SubSeq(u, 1, n))}

(* The slashes are turned back. *)
LEMMA Normalized ==
    ASSUME NEW v, NEW c \in {Slash, "/"}, NEW u \in Text, \A k \in 1..Len(u) : u[k] # "/",
           trimText(v) = OnEach(Renaming(c), u)
    PROVE  normalizeUserPath(v) = SubSeq(u, 1, Max(Ends(u)))
<1> DEFINE g == trimText(v)
           p == [k \in DOMAIN g |-> IF g[k] = "/" THEN Slash ELSE g[k]]
<1>1. /\ g \in Text /\ Len(g) = Len(u)
      /\ \A k \in 1..Len(u) : g[k] = IF u[k] = Slash THEN c ELSE u[k]
  <2> DEFINE h == OnEach(Renaming(c), u)
  <2>1. /\ h \in Text /\ Len(h) = Len(u)
        /\ \A k \in 1..Len(u) : h[k] = IF u[k] = Slash THEN c ELSE u[k]
    BY Renamed
  <2>2. g = h
    OBVIOUS
  <2> HIDE DEF g, h
  <2>3. QED
    BY <2>1, <2>2
<1>2. normalizeUserPath(v) = SubSeq(p, 1, Max({n \in 0..Len(p) : MayEnd(SubSeq(p, 1, n))}))
  BY DEF normalizeUserPath, MayEnd
<1> HIDE DEF g
<1>3. DOMAIN g = 1..Len(u) /\ DOMAIN u = 1..Len(u) /\ Len(u) \in Nat
  BY <1>1, TextFacts
<1>4. \A k \in 1..Len(u) : (IF g[k] = "/" THEN Slash ELSE g[k]) = u[k]
  BY <1>1, MarksDiffer
<1>5. p = [k \in 1..Len(u) |-> u[k]]
  BY <1>3, <1>4
<1>6. u = [k \in 1..Len(u) |-> u[k]]
  BY <1>3 DEF Text
<1>7. p = u
  BY <1>5, <1>6
<1> HIDE DEF p
<1>8. QED
  BY <1>2, <1>7 DEF Ends

(* A beginning of a folder with slashes after it. *)
LEMMA SlashesBegin ==
    ASSUME NEW folder \in Text, NEW a \in Nat, NEW n \in Nat, n <= Len(folder) + a
    PROVE  LET q == SubSeq(folder \o Slashes(a), 1, n)
           IN  /\ q \in Text /\ Len(q) = n
               /\ \A i \in 1..n : q[i] = IF i <= Len(folder) THEN folder[i] ELSE Slash
<1> DEFINE t == Slashes(a)
           l == Len(folder)
           u == folder \o t
           q == SubSeq(u, 1, n)
<1>1. t \in Text /\ Len(t) = a /\ l \in Nat /\ \A i \in 1..a : t[i] = Slash
  BY SlashesFacts, TextFacts DEF Slashes
<1> HIDE DEF t
<1>2. /\ u \in Text /\ Len(u) = l + a
      /\ \A i \in 1..l : u[i] = folder[i]
      /\ \A i \in 1..a : u[l + i] = t[i]
  BY <1>1, JoinFacts
<1> HIDE DEF l, u
<1>3. /\ q \in Text /\ Len(q) = (n + 1) - 1
      /\ \A i \in 1..((n + 1) - 1) : q[i] = u[(1 + i) - 1]
  <2>1. 1 \in Nat /\ 1 <= 1 /\ 1 <= n + 1 /\ n <= Len(u)
    BY <1>2 DEF l
  <2>2. QED
    BY <1>2, <2>1, SliceFacts
<1>4. (n + 1) - 1 = n /\ \A i \in 1..n : (1 + i) - 1 = i
  OBVIOUS
<1> HIDE DEF q
<1>5. ASSUME NEW i \in 1..n PROVE q[i] = IF i <= l THEN folder[i] ELSE Slash
  <2>1. q[i] = u[i]
    BY <1>3, <1>4
  <2>2. CASE i <= l
    <3>1. i \in 1..l
      BY <1>1, <2>2
    <3>2. QED
      BY <1>2, <2>1, <2>2, <3>1
  <2>3. CASE ~ (i <= l)
    <3>1. i - l \in 1..a /\ l + (i - l) = i
      BY <1>1, <2>3 DEF l
    <3>2. QED
      BY <1>1, <1>2, <2>1, <2>3, <3>1
  <2>4. QED
    BY <2>2, <2>3
<1>6. QED
  BY <1>3, <1>4, <1>5 DEF q, u, l, t

(* At a folder it may stop, and at a drive it must. *)
LEMMA FolderEnds ==
    ASSUME NEW folder, IsFolder(folder), NEW a \in Nat
    PROVE  LET u == folder \o Slashes(a)
               m == Max(Ends(u))
           IN  /\ m \in Nat /\ Len(folder) <= m /\ m <= Len(folder) + a
               /\ Last(folder) = Slash => m = Len(folder)
<1> DEFINE u == folder \o Slashes(a)
           l == Len(folder)
           m == Max(Ends(u))
<1>1. folder \in Text /\ l \in Nat /\ l >= 1 /\ Slashes(a) \in Text
  BY TextFacts, SlashesFacts DEF IsFolder
<1>2. Len(u) = l + a /\ u \in Text
  <2> DEFINE t == Slashes(a)
  <2>1. t \in Text /\ Len(t) = a
    BY SlashesFacts
  <2> HIDE DEF t
  <2>2. folder \o t \in Text /\ Len(folder \o t) = Len(folder) + Len(t)
    BY <1>1, <2>1, JoinFacts
  <2>3. QED
    BY <2>1, <2>2 DEF t
<1>3. \A n \in 0..(l + a) : LET q == SubSeq(u, 1, n)
                            IN  /\ q \in Text /\ Len(q) = n
                                /\ \A i \in 1..n : q[i] = IF i <= l THEN folder[i] ELSE Slash
  <2> SUFFICES ASSUME NEW n \in 0..(l + a)
               PROVE  LET q == SubSeq(u, 1, n)
                      IN  /\ q \in Text /\ Len(q) = n
                          /\ \A i \in 1..n : q[i] = IF i <= l THEN folder[i] ELSE Slash
    OBVIOUS
  <2>1. n \in Nat /\ n <= Len(folder) + a /\ folder \in Text
    BY <1>1
  <2>2. LET q == SubSeq(folder \o Slashes(a), 1, n)
        IN  /\ q \in Text /\ Len(q) = n
            /\ \A i \in 1..n : q[i] = IF i <= Len(folder) THEN folder[i] ELSE Slash
    BY <2>1, SlashesBegin
  <2>3. QED
    BY <2>2
<1> HIDE DEF u
<1>4. l \in Ends(u)
  <2> DEFINE q == SubSeq(u, 1, l)
  <2>1. l \in 0..(l + a)
    BY <1>1
  <2>2. q \in Text /\ Len(q) = l /\ \A i \in 1..l : q[i] = folder[i]
    BY <1>1, <1>3, <2>1
  <2> HIDE DEF q
  <2>3. q = folder
    BY <1>1, <2>2, SameText
  <2>4. MayEnd(folder)
    BY DEF IsFolder, MayEnd
  <2>5. QED
    BY <1>2, <2>1, <2>3, <2>4 DEF Ends, q
<1>5. m \in Ends(u) /\ \A k \in Ends(u) : k <= m
  <2> DEFINE E == Ends(u)
  <2>1. l \in E /\ E \in SUBSET 0..(l + a)
    BY <1>2, <1>4 DEF Ends
  <2> HIDE DEF E
  <2>2. l + a \in Nat
    BY <1>1
  <2>3. \E k \in E \ {0} : \A j \in E \ {0} : j <= k
    <3>1. E \ {0} \in SUBSET 1..(l + a) /\ E \ {0} # {}
      BY <1>1, <2>1
    <3> DEFINE D == E \ {0}
    <3> HIDE DEF D
    <3>2. \E k \in D : \A j \in D : j <= k
      BY <2>2, <3>1, GreatestMember DEF D
    <3>3. QED
      BY <3>2 DEF D
  <2>4. PICK k \in E : k >= 1 /\ \A j \in E \ {0} : j <= k
    <3>1. \A k \in E \ {0} : k >= 1
      BY <1>1, <2>1
    <3>2. QED
      BY <2>3, <3>1
  <2>5. k \in Int /\ \A j \in E : j <= k
    BY <1>1, <2>1, <2>4
  <2>6. Max(E) = k
    <3>1. E \in SUBSET Int
      BY <1>1, <2>1
    <3>2. QED
      BY <2>5, <3>1, MaxIs
  <2>7. QED
    BY <2>5, <2>6 DEF E
<1>6. m \in Nat /\ l <= m /\ m <= l + a
  BY <1>1, <1>2, <1>4, <1>5 DEF Ends
<1> HIDE DEF m
<1>7. ASSUME Last(folder) = Slash PROVE m = l
  <2>1. l = 3 /\ folder[1] # Slash /\ folder[1] \in Symbols
    BY <1>1, <1>7, TextFacts DEF IsFolder, isDriveRoot
  <2>2. SUFFICES ASSUME m > 3 PROVE FALSE
    BY <1>6, <2>1
  <2> DEFINE q == SubSeq(u, 1, m)
  <2>3. /\ MayEnd(q) /\ q \in Text /\ Len(q) = m
        /\ \A i \in 1..m : q[i] = IF i <= 3 THEN folder[i] ELSE Slash
    <3>1. m \in 0..(l + a)
      BY <1>1, <1>6
    <3>2. QED
      BY <1>3, <1>5, <2>1, <3>1 DEF Ends
  <2> HIDE DEF q
  <2>4. q[1] # Slash /\ q[m] = Slash
    <3>1. 1 \in 1..m /\ m \in 1..m /\ ~ (m <= 3)
      BY <1>6, <2>2
    <3>2. QED
      BY <2>1, <2>3, <3>1
  <2>5. Last(q) = Slash /\ ~ isDriveRoot(q) /\ ~ (Len(q) <= 1)
    BY <1>6, <2>2, <2>3, <2>4 DEF Last, isDriveRoot
  <2>6. ~ isUncShareRoot(q)
    <3>1. SUFFICES ASSUME IsPrefix(Slashes(2), q) PROVE FALSE
      BY DEF isUncShareRoot
    <3> DEFINE b == Slashes(2)
    <3>2. b \in Text /\ Len(b) = 2 /\ b[1] = Slash
      <4>1. 2 \in Nat /\ 1 \in 1..2
        OBVIOUS
      <4>2. b \in Text /\ Len(b) = 2
        BY <4>1, SlashesFacts
      <4>3. b[1] = Slash
        BY <4>1 DEF Slashes
      <4>4. QED
        BY <4>2, <4>3
    <3> HIDE DEF b
    <3>3. SubSeq(b, 1, 2)[1] = b[1] /\ SubSeq(q, 1, 2)[1] = q[1]
      <4>1. \A v \in Text : Len(v) >= 2 => SubSeq(v, 1, 2)[1] = v[1]
        <5>1. ASSUME NEW v \in Text, Len(v) >= 2 PROVE SubSeq(v, 1, 2)[1] = v[1]
          <6>1. 1 \in Nat /\ 2 \in Nat /\ 1 <= 1 /\ 1 <= 2 + 1 /\ 2 <= Len(v)
            BY <5>1, TextFacts
          <6>2. \A i \in 1..((2 + 1) - 1) : SubSeq(v, 1, 2)[i] = v[(1 + i) - 1]
            BY <6>1, SliceFacts
          <6>3. 1 \in 1..((2 + 1) - 1) /\ (1 + 1) - 1 = 1
            OBVIOUS
          <6>4. QED
            BY <6>2, <6>3
        <5>2. QED
          BY <5>1
      <4>2. QED
        BY <1>6, <2>2, <2>3, <3>2, <4>1
    <3>4. SubSeq(b, 1, 2) = SubSeq(q, 1, 2)
      BY <3>1, <3>2 DEF IsPrefix, b
    <3>5. QED
      BY <2>4, <3>2, <3>3, <3>4
  <2>7. QED
    BY <2>3, <2>5, <2>6 DEF MayEnd
<1>8. QED
  BY <1>6, <1>7 DEF m, u, l

(* A folder with slashes after it is the same folder. *)
LEMMA StillSame ==
    ASSUME NEW folder \in Text, NEW d \in Nat, Len(folder) >= 1, d # 0 => Last(folder) # Slash
    PROVE  SameFolder(folder \o Slashes(d), folder)
<1> DEFINE p == folder \o Slashes(d)
           l == Len(folder)
<1>1. CASE d = 0
  BY <1>1, EmptyText DEF SameFolder
<1>2. CASE d # 0
  <2> DEFINE t == Slashes(d)
             D == {0} \cup {k \in DOMAIN p : p[k] # Slash}
  <2>1. t \in Text /\ Len(t) = d /\ \A i \in 1..d : t[i] = Slash
    BY SlashesFacts DEF Slashes
  <2>2. l \in Nat /\ l >= 1 /\ folder[l] # Slash
    BY <1>2, TextFacts DEF Last
  <2> HIDE DEF t, l
  <2>3. /\ folder \o t \in Text /\ Len(folder \o t) = Len(folder) + Len(t)
        /\ \A i \in 1..Len(folder) : (folder \o t)[i] = folder[i]
        /\ \A i \in 1..Len(t) : (folder \o t)[Len(folder) + i] = t[i]
    BY <2>1, JoinFacts
  <2>4. p = folder \o t
    BY DEF t
  <2> HIDE DEF p
  <2>5. /\ p \in Text /\ Len(p) = l + d /\ DOMAIN p = 1..(l + d)
        /\ \A i \in 1..l : p[i] = folder[i]
        /\ \A i \in 1..d : p[l + i] = Slash
    <3>1. p \in Text /\ Len(p) = l + d
      BY <2>1, <2>3, <2>4 DEF l
    <3>2. \A i \in 1..l : p[i] = folder[i]
      BY <2>3, <2>4 DEF l
    <3>3. \A i \in 1..d : p[l + i] = Slash
      BY <2>1, <2>3, <2>4 DEF l
    <3>4. QED
      BY <3>1, <3>2, <3>3, TextFacts
  <2>6. l \in D /\ D \in SUBSET Int
    <3>1. l \in 1..l /\ l \in DOMAIN p
      BY <2>2, <2>5
    <3>2. D \in SUBSET Int
      BY <2>5
    <3>3. QED
      BY <2>2, <2>5, <3>1, <3>2
  <2>7. \A k \in D : k <= l
    <3>1. ASSUME NEW k \in D PROVE k <= l
      <4>1. CASE k = 0
        BY <2>2, <4>1
      <4>2. CASE k \in DOMAIN p /\ p[k] # Slash
        <5>1. SUFFICES ASSUME ~ (k <= l) PROVE FALSE
          OBVIOUS
        <5>2. k - l \in 1..d /\ l + (k - l) = k
          BY <2>2, <2>5, <4>2, <5>1
        <5>3. QED
          BY <2>5, <4>2, <5>2
      <4>3. QED
        BY <4>1, <4>2
    <3>2. QED
      BY <3>1
  <2>8. Max(D) = l
    <3> HIDE DEF D
    <3>1. QED
      BY <2>6, <2>7, MaxIs
  <2>9. Trailing(p) = d
    BY <2>2, <2>5, <2>8 DEF Trailing
  <2>10. d \in 1..Trailing(p) /\ Last(folder) # Slash
    BY <1>2, <2>9
  <2>11. QED
    BY <2>4, <2>10 DEF SameFolder, p, t
<1>3. QED
  BY <1>1, <1>2

(* However a folder is spelled, with spaces, marks, other slashes or more of them at its end,
   normalizeUserPath makes a path of it that is the same folder, and is not empty. *)
THEOREM PathArrives ==
    ASSUME NEW folder, IsFolder(folder), NEW s, IsSpelling(s)
    PROVE  /\ normalizeUserPath(Typed(folder, s)) \in Text \ {<<>>}
           /\ SameFolder(normalizeUserPath(Typed(folder, s)), folder)
<1> DEFINE v == Typed(folder, s)
           a == Len(s.after)
           c == s.slash
           u == folder \o Slashes(a)
           l == Len(folder)
           m == Max(Ends(u))
           d == m - l
           q == SubSeq(u, 1, m)
<1>1. s.after = Slashes(a) /\ a \in Nat /\ c \in {Slash, "/"}
  BY SpellingFacts
<1>2. u \in Text /\ trimText(v) = OnEach(Renaming(c), u)
  BY <1>1, FolderTrimmed
<1>3. folder \in Text /\ l \in Nat /\ l >= 1 /\ \A k \in 1..l : folder[k] # "/"
  BY TextFacts DEF IsFolder
<1>4. /\ m \in Nat /\ l <= m /\ m <= l + a
      /\ Last(folder) = Slash => m = l
  BY <1>1, FolderEnds
<1>5. Slashes(a) \in Text /\ Len(Slashes(a)) = a /\ \A i \in 1..a : Slashes(a)[i] = Slash
  BY <1>1, SlashesFacts DEF Slashes
<1>6. \A k \in 1..Len(u) : u[k] # "/"
  <2> DEFINE t == Slashes(a)
  <2> HIDE DEF t
  <2>1. t \in Text
    BY <1>5 DEF t
  <2>2. /\ Len(folder \o t) = Len(folder) + Len(t)
        /\ \A i \in 1..Len(folder) : (folder \o t)[i] = folder[i]
        /\ \A i \in 1..Len(t) : (folder \o t)[Len(folder) + i] = t[i]
    BY <1>3, <2>1, JoinFacts
  <2>3. u = folder \o t /\ Len(t) = a /\ \A i \in 1..a : t[i] = Slash
    BY <1>5 DEF t
  <2> HIDE DEF u, a, l
  <2>4. ASSUME NEW k \in 1..Len(u) PROVE u[k] # "/"
    <3>1. Len(u) = l + a
      BY <2>2, <2>3 DEF l
    <3>2. CASE k <= l
      <4>1. k \in 1..l
        BY <1>3, <3>2
      <4>2. QED
        BY <1>3, <2>2, <2>3, <4>1 DEF l
    <3>3. CASE ~ (k <= l)
      <4>1. k - l \in 1..a /\ l + (k - l) = k
        BY <1>1, <1>3, <3>1, <3>3
      <4>2. u[l + (k - l)] = Slash
        BY <2>2, <2>3, <4>1 DEF l
      <4>3. QED
        BY <4>1, <4>2, MarksDiffer
    <3>4. QED
      BY <3>2, <3>3
  <2>5. QED
    BY <2>4
<1>7. normalizeUserPath(v) = q
  <2> HIDE DEF v, c, u
  <2>1. normalizeUserPath(v) = SubSeq(u, 1, Max(Ends(u)))
    BY <1>1, <1>2, <1>6, Normalized
  <2>2. QED
    BY <2>1
<1>8. /\ q \in Text /\ Len(q) = m
      /\ \A i \in 1..m : q[i] = IF i <= l THEN folder[i] ELSE Slash
  <2> HIDE DEF a, m
  <2>1. /\ SubSeq(folder \o Slashes(a), 1, m) \in Text
        /\ Len(SubSeq(folder \o Slashes(a), 1, m)) = m
        /\ \A i \in 1..m : SubSeq(folder \o Slashes(a), 1, m)[i] = IF i <= Len(folder) THEN folder[i] ELSE Slash
    <3>1. m \in Nat /\ a \in Nat /\ m <= Len(folder) + a
      BY <1>1, <1>4
    <3>2. QED
      BY <1>3, <3>1, SlashesBegin
  <2>2. QED
    BY <2>1
<1> HIDE DEF m, q, u
<1>9. d \in Nat /\ m = l + d /\ (d # 0 => Last(folder) # Slash)
  BY <1>3, <1>4
<1>10. q = folder \o Slashes(d)
  <2> DEFINE w == folder \o Slashes(d)
             t == Slashes(d)
  <2>1. t \in Text /\ Len(t) = d /\ \A i \in 1..d : t[i] = Slash
    BY <1>9, SlashesFacts DEF Slashes
  <2> HIDE DEF t, d
  <2>2. /\ folder \o t \in Text /\ Len(folder \o t) = Len(folder) + Len(t)
        /\ \A i \in 1..Len(folder) : (folder \o t)[i] = folder[i]
        /\ \A i \in 1..Len(t) : (folder \o t)[Len(folder) + i] = t[i]
    BY <1>3, <2>1, JoinFacts
  <2>3. w = folder \o t
    BY DEF t
  <2> HIDE DEF w
  <2>4. w \in Text /\ Len(w) = m
    BY <1>9, <2>1, <2>2, <2>3
  <2>5. ASSUME NEW i \in 1..m PROVE q[i] = w[i]
    <3>1. CASE i <= l
      <4>1. i \in 1..l
        BY <1>3, <3>1
      <4>2. w[i] = folder[i] /\ q[i] = folder[i]
        BY <1>8, <2>2, <2>3, <3>1, <4>1
      <4>3. QED
        BY <4>2
    <3>2. CASE ~ (i <= l)
      <4>1. i - l \in 1..d /\ l + (i - l) = i
        BY <1>3, <1>9, <3>2
      <4>2. w[l + (i - l)] = Slash
        BY <2>1, <2>2, <2>3, <4>1
      <4>3. q[i] = Slash
        BY <1>8, <3>2
      <4>4. QED
        BY <4>1, <4>2, <4>3
    <3>3. QED
      BY <3>1, <3>2
  <2>6. q = w
    BY <1>8, <2>4, <2>5, SameText
  <2>7. QED
    BY <2>6 DEF w
<1>11. SameFolder(q, folder)
  <2> HIDE DEF d
  <2>1. SameFolder(folder \o Slashes(d), folder)
    BY <1>3, <1>9, StillSame
  <2>2. QED
    BY <1>10, <2>1
<1>12. q # <<>>
  BY <1>3, <1>4, <1>8, EmptySeq
<1>13. QED
  BY <1>7, <1>8, <1>11, <1>12 DEF v

-----------------------------------------------------------------------------
(* The lines of the window. *)

(* What is asked has arrived. *)
Arrived(c, w) ==
    /\ c.command = w.command
    /\ IF w.root = <<>> THEN c.rootPath = <<>> ELSE SameFolder(c.rootPath, w.root)
    /\ c.query = w.query
    /\ c.onlyName = w.onlyName /\ c.caseSensitive = w.caseSensitive
    /\ c.excludeDirs = w.lists.excludeDirs /\ c.excludeFiles = w.lists.excludeFiles
    /\ c.includeExt = w.lists.includeExt /\ c.excludeExt = w.lists.excludeExt
    /\ c.sessionName = <<"main">>
    /\ w.command = <<"index">> => c.outputIndexPath = IndexFile
    /\ w.command = <<"search">> => c.inputIndexPath = IndexFile /\ c.searchOutputPath = ResultsFile

Means(argv, w) == ~ Refused(argv) /\ Arrived(parse(argv), w)

LEMMA NamesAreTexts ==
    /\ Exe \in Text /\ IndexFile \in Text /\ ResultsFile \in Text /\ LogFile \in Text
    /\ IndexFile # <<>> /\ ResultsFile # <<>>
<1>1. Slash \in Symbols
  BY SignsAssumption
<1>2. "FindFileIndexer.exe" \in Symbols /\ "file_index.ffdb" \in Symbols
      /\ "search_results.tsv" \in Symbols /\ "logs" \in Symbols /\ "indexer.log" \in Symbols
  BY CommandAssumption
<1>3. QED
  BY <1>1, <1>2 DEF Text, Exe, IndexFile, ResultsFile, LogFile

LEMMA WordsRead ==
    /\ parseCommand(<<"index">>) = <<"index">> /\ parseCommand(<<"search">>) = <<"search">>
    /\ parseCommand(<<"stop">>) = <<"stop">>
    /\ parseBool(<<"true">>) = TRUE /\ parseBool(<<"false">>) = FALSE /\ parseBool(<<>>) = FALSE
    /\ IsNumber(<<"1000">>)
    /\ Lower(<<"full">>) = <<"full">>
<1>1. \A x \in {"index", "search", "stop", "full", "true", "false"} : Lower(<<x>>) = <<x>>
  <2>1. \A x \in {"index", "search", "stop", "full", "true", "false"} : x \in Words
    BY DEF Words
  <2>2. QED
    BY <2>1, WordFacts
<1>2. /\ parseCommand(<<"index">>) = <<"index">> /\ parseCommand(<<"search">>) = <<"search">>
      /\ parseCommand(<<"stop">>) = <<"stop">>
  BY <1>1 DEF parseCommand
<1>3. parseBool(<<"true">>) = TRUE
  BY <1>1 DEF parseBool
<1>4. parseBool(<<"false">>) = FALSE
  <2>1. Lower(<<"false">>) = <<"false">>
    BY <1>1
  <2>2. <<"false">> \notin {<<"1">>, <<"true">>, <<"yes">>, <<"on">>}
    OBVIOUS
  <2>3. QED
    BY <2>1, <2>2 DEF parseBool
<1>5. parseBool(<<>>) = FALSE
  <2>1. Lower(<<>>) = <<>>
    BY DEF Lower
  <2>2. <<>> \notin {<<"1">>, <<"true">>, <<"yes">>, <<"on">>}
    OBVIOUS
  <2>3. QED
    BY <2>1, <2>2 DEF parseBool
<1>6. IsNumber(<<"1000">>)
  BY WordsAssumption DEF IsNumber
<1>7. QED
  BY <1>1, <1>2, <1>3, <1>4, <1>5, <1>6

(* The line of an index command. *)
IndexPairs(p) == {Pair("--root", p), Pair("--output", IndexFile), Pair("--log", LogFile),
                  Pair("--mode", <<"full">>)}

LEMMA IndexHeard ==
    ASSUME NEW p \in Text
    PROVE  Heard(Split(quote(Exe) ++ <<"index">> ++ <<"--root">> ++ quote(p)
                         ++ <<"--output">> ++ quote(IndexFile) ++ <<"--log">> ++ quote(LogFile)
                         ++ <<"--mode">> ++ <<"full">>),
                 <<"index">>, IndexPairs(p))
<1> DEFINE v1 == quote(Exe) ++ <<"index">>
           v2 == v1 ++ <<"--root">> ++ quote(p)
           v3 == v2 ++ <<"--output">> ++ quote(IndexFile)
           v4 == v3 ++ <<"--log">> ++ quote(LogFile)
           v5 == v4 ++ <<"--mode">> ++ <<"full">>
           c == <<"index">>
           s2 == {} \cup {Pair("--root", p)}
           s3 == s2 \cup {Pair("--output", IndexFile)}
           s4 == s3 \cup {Pair("--log", LogFile)}
           s5 == s4 \cup {Pair("--mode", <<"full">>)}
<1>1. /\ "index" \in Words /\ "--root" \in Words /\ "--output" \in Words /\ "--log" \in Words
      /\ "--mode" \in Words /\ "full" \in Words
  BY DEF Words, Options
<1>2. Line(v1, c, {})
  BY <1>1, NamesAreTexts, LineBegins
<1> HIDE DEF v1, c
<1>3. Line(v2, c, s2)
  BY <1>1, <1>2, LineQuote
<1> HIDE DEF v2, s2
<1>4. Line(v3, c, s3)
  BY <1>1, <1>3, NamesAreTexts, LineQuote
<1> HIDE DEF v3, s3
<1>5. Line(v4, c, s4)
  BY <1>1, <1>4, NamesAreTexts, LineQuote
<1> HIDE DEF v4, s4
<1>6. Line(v5, c, s5)
  BY <1>1, <1>5, LineWord
<1>7. s5 = IndexPairs(p)
  BY DEF s2, s3, s4, s5, IndexPairs
<1> HIDE DEF v5, s5
<1>8. Heard(Split(v5), c, IndexPairs(p))
  BY <1>6, <1>7, LineHeard
<1>9. QED
  BY <1>8 DEF v5, v4, v3, v2, v1, c

(* The line of a search. *)
SearchPairs(root, query, b, c) ==
    {Pair("--index", IndexFile), Pair("--root", root), Pair("--query", query),
     Pair("--output", ResultsFile), Pair("--log", LogFile), Pair("--limit", <<"1000">>),
     Pair("--only-name", boolArg(b)), Pair("--case-sensitive", boolArg(c))}

LEMMA LineBool ==
    ASSUME NEW v, NEW cmd, NEW pairs, Line(v, cmd, pairs), NEW o \in Words, NEW b \in BOOLEAN
    PROVE  Line(v ++ <<o>> ++ boolArg(b), cmd, pairs \cup {Pair(o, boolArg(b))})
<1>1. PICK x \in Words : boolArg(b) = <<x>>
  BY DEF boolArg, Words
<1>2. QED
  BY <1>1, LineWord

LEMMA SearchHeard ==
    ASSUME NEW root \in Text, NEW query \in Text, NEW b \in BOOLEAN, NEW c \in BOOLEAN
    PROVE  Heard(Split(quote(Exe) ++ <<"search">> ++ <<"--index">> ++ quote(IndexFile)
                         ++ <<"--root">> ++ quote(root) ++ <<"--query">> ++ quote(query)
                         ++ <<"--output">> ++ quote(ResultsFile) ++ <<"--log">> ++ quote(LogFile)
                         ++ <<"--limit">> ++ <<"1000">> ++ <<"--only-name">> ++ boolArg(b)
                         ++ <<"--case-sensitive">> ++ boolArg(c)),
                 <<"search">>, SearchPairs(root, query, b, c))
<1> DEFINE v1 == quote(Exe) ++ <<"search">>
           v2 == v1 ++ <<"--index">> ++ quote(IndexFile)
           v3 == v2 ++ <<"--root">> ++ quote(root)
           v4 == v3 ++ <<"--query">> ++ quote(query)
           v5 == v4 ++ <<"--output">> ++ quote(ResultsFile)
           v6 == v5 ++ <<"--log">> ++ quote(LogFile)
           v7 == v6 ++ <<"--limit">> ++ <<"1000">>
           v8 == v7 ++ <<"--only-name">> ++ boolArg(b)
           v9 == v8 ++ <<"--case-sensitive">> ++ boolArg(c)
           cmd == <<"search">>
           s2 == {} \cup {Pair("--index", IndexFile)}
           s3 == s2 \cup {Pair("--root", root)}
           s4 == s3 \cup {Pair("--query", query)}
           s5 == s4 \cup {Pair("--output", ResultsFile)}
           s6 == s5 \cup {Pair("--log", LogFile)}
           s7 == s6 \cup {Pair("--limit", <<"1000">>)}
           s8 == s7 \cup {Pair("--only-name", boolArg(b))}
           s9 == s8 \cup {Pair("--case-sensitive", boolArg(c))}
<1>1. /\ "search" \in Words /\ "--index" \in Words /\ "--root" \in Words /\ "--query" \in Words
      /\ "--output" \in Words /\ "--log" \in Words /\ "--limit" \in Words /\ "1000" \in Words
      /\ "--only-name" \in Words /\ "--case-sensitive" \in Words
  BY DEF Words, Options
<1>2. Line(v1, cmd, {})
  BY <1>1, NamesAreTexts, LineBegins
<1> HIDE DEF v1, cmd
<1>3. Line(v2, cmd, s2)
  BY <1>1, <1>2, NamesAreTexts, LineQuote
<1> HIDE DEF v2, s2
<1>4. Line(v3, cmd, s3)
  BY <1>1, <1>3, LineQuote
<1> HIDE DEF v3, s3
<1>5. Line(v4, cmd, s4)
  BY <1>1, <1>4, LineQuote
<1> HIDE DEF v4, s4
<1>6. Line(v5, cmd, s5)
  BY <1>1, <1>5, NamesAreTexts, LineQuote
<1> HIDE DEF v5, s5
<1>7. Line(v6, cmd, s6)
  BY <1>1, <1>6, NamesAreTexts, LineQuote
<1> HIDE DEF v6, s6
<1>8. Line(v7, cmd, s7)
  BY <1>1, <1>7, LineWord
<1> HIDE DEF v7, s7
<1>9. Line(v8, cmd, s8)
  BY <1>1, <1>8, LineBool
<1> HIDE DEF v8, s8
<1>10. Line(v9, cmd, s9)
  BY <1>1, <1>9, LineBool
<1>11. s9 = SearchPairs(root, query, b, c)
  BY DEF s2, s3, s4, s5, s6, s7, s8, s9, SearchPairs
<1> HIDE DEF v9, s9
<1>12. Heard(Split(v9), cmd, SearchPairs(root, query, b, c))
  BY <1>10, <1>11, LineHeard
<1>13. QED
  BY <1>12 DEF v9, v8, v7, v6, v5, v4, v3, v2, v1, cmd

(* The line that stops an index process. *)
LEMMA StopHeard ==
    Heard(Split(quote(Exe) ++ <<"stop">> ++ <<"--session">> ++ <<"main">>), <<"stop">>,
          {Pair("--session", <<"main">>)})
<1> DEFINE v1 == quote(Exe) ++ <<"stop">>
           v2 == v1 ++ <<"--session">> ++ <<"main">>
           cmd == <<"stop">>
           s2 == {} \cup {Pair("--session", <<"main">>)}
<1>1. "stop" \in Words /\ "--session" \in Words /\ "main" \in Words
  BY DEF Words, Options
<1>2. Line(v1, cmd, {})
  BY <1>1, NamesAreTexts, LineBegins
<1> HIDE DEF v1, cmd
<1>3. Line(v2, cmd, s2)
  BY <1>1, <1>2, LineWord
<1>4. s2 = {Pair("--session", <<"main">>)}
  OBVIOUS
<1> HIDE DEF v2, s2
<1>5. Heard(Split(v2), cmd, {Pair("--session", <<"main">>)})
  BY <1>3, <1>4, LineHeard
<1>6. QED
  BY <1>5 DEF v2, v1, cmd

(* What a parser makes of each of them. *)
LEMMA IndexMeant ==
    ASSUME NEW argv, NEW p \in Text \ {<<>>}, Heard(argv, <<"index">>, IndexPairs(p)), NEW w,
           w.command = <<"index">>, w.root # <<>>, SameFolder(p, w.root), w.query = <<>>,
           w.onlyName = FALSE, w.caseSensitive = FALSE, w.lists = NoLists
    PROVE  Means(argv, w)
<1> DEFINE pairs == IndexPairs(p)
<1>1. argv[2] = <<"index">>
  BY DEF Heard
<1>2. /\ Gives(pairs, "--root", p) /\ Gives(pairs, "--output", IndexFile)
      /\ Lacks(pairs, "--query") /\ Lacks(pairs, "--only-name") /\ Lacks(pairs, "--case-sensitive")
      /\ Lacks(pairs, "--session") /\ Lacks(pairs, "--exclude-dir") /\ Lacks(pairs, "--exclude-file")
      /\ Lacks(pairs, "--include-ext") /\ Lacks(pairs, "--exclude-ext")
  BY DEF Gives, Lacks, IndexPairs, Pair
<1>3. Allowed(pairs)
  BY WordsRead DEF Allowed, IndexPairs, Pair, Options
<1>4. Heard(argv, <<"index">>, pairs)
  OBVIOUS
<1> HIDE DEF pairs
<1>5. /\ ValueOf(argv, "--root", <<>>) = p /\ ValueOf(argv, "--output", <<>>) = IndexFile
      /\ ValueOf(argv, "--query", <<>>) = <<>>
      /\ ValueOf(argv, "--only-name", <<>>) = <<>>
      /\ ValueOf(argv, "--case-sensitive", <<>>) = <<>>
      /\ ValueOf(argv, "--session", <<"main">>) = <<"main">>
      /\ ValueOf(argv, "--exclude-dir", <<>>) = <<>>
      /\ ValueOf(argv, "--exclude-file", <<>>) = <<>>
      /\ ValueOf(argv, "--include-ext", <<>>) = <<>>
      /\ ValueOf(argv, "--exclude-ext", <<>>) = <<>>
  <2>1. \A o, default : /\ Lacks(pairs, o) => ValueOf(argv, o, default) = default
                        /\ \A x : Gives(pairs, o, x) => ValueOf(argv, o, default) = x
    BY <1>4, HeardValue
  <2>2. QED
    BY <1>2, <2>1
<1>6. parseCommand(argv[2]) = <<"index">> /\ <<"index">> # <<"search">>
  BY <1>1, WordsRead
<1> DEFINE c == parse(argv)
<1>7. /\ c.command = <<"index">> /\ c.rootPath = p /\ c.outputIndexPath = IndexFile
      /\ c.query = <<>> /\ c.onlyName = FALSE /\ c.caseSensitive = FALSE
      /\ c.sessionName = <<"main">>
      /\ c.excludeDirs = <<>> /\ c.excludeFiles = <<>> /\ c.includeExt = <<>> /\ c.excludeExt = <<>>
  BY <1>5, <1>6, ParseFields, WordsRead, NothingSplit
<1> HIDE DEF c
<1>8. Arrived(c, w)
  <2>1. c.onlyName = w.onlyName /\ c.caseSensitive = w.caseSensitive
    BY <1>7, Zenon
  <2>2. QED
    BY <1>6, <1>7, <2>1 DEF Arrived, NoLists
<1>9. ~ Refused(argv)
  <2>1. parse(argv).rootPath # <<>> /\ parse(argv).outputIndexPath # <<>>
    BY <1>7, NamesAreTexts DEF c
  <2>2. parseCommand(<<"index">>) # <<"search">>
    BY WordsRead
  <2>3. QED
    BY <1>3, <1>4, <2>1, <2>2, NotRefused
<1>10. QED
  BY <1>8, <1>9 DEF Means, c

LEMMA SearchMeant ==
    ASSUME NEW argv, NEW b \in BOOLEAN, NEW c \in BOOLEAN, NEW w,
           w.root \in Text, w.query \in Text,
           Heard(argv, <<"search">>, SearchPairs(w.root, w.query, b, c)),
           w.command = <<"search">>, w.onlyName = b, w.caseSensitive = c, w.lists = NoLists
    PROVE  Means(argv, w)
<1> DEFINE pairs == SearchPairs(w.root, w.query, b, c)
<1>1. argv[2] = <<"search">>
  BY DEF Heard
<1>2. /\ Gives(pairs, "--root", w.root) /\ Gives(pairs, "--output", ResultsFile)
      /\ Gives(pairs, "--index", IndexFile)
      /\ Gives(pairs, "--query", w.query) /\ Gives(pairs, "--only-name", boolArg(b))
      /\ Gives(pairs, "--case-sensitive", boolArg(c))
      /\ Lacks(pairs, "--session") /\ Lacks(pairs, "--exclude-dir") /\ Lacks(pairs, "--exclude-file")
      /\ Lacks(pairs, "--include-ext") /\ Lacks(pairs, "--exclude-ext")
  BY DEF Gives, Lacks, SearchPairs, Pair
<1>3. Allowed(pairs)
  BY WordsRead DEF Allowed, SearchPairs, Pair, Options
<1>4. Heard(argv, <<"search">>, pairs)
  OBVIOUS
<1> HIDE DEF pairs
<1>5. /\ ValueOf(argv, "--root", <<>>) = w.root /\ ValueOf(argv, "--output", <<>>) = ResultsFile
      /\ ValueOf(argv, "--index", <<>>) = IndexFile
      /\ ValueOf(argv, "--query", <<>>) = w.query
      /\ ValueOf(argv, "--only-name", <<>>) = boolArg(b)
      /\ ValueOf(argv, "--case-sensitive", <<>>) = boolArg(c)
      /\ ValueOf(argv, "--session", <<"main">>) = <<"main">>
      /\ ValueOf(argv, "--exclude-dir", <<>>) = <<>>
      /\ ValueOf(argv, "--exclude-file", <<>>) = <<>>
      /\ ValueOf(argv, "--include-ext", <<>>) = <<>>
      /\ ValueOf(argv, "--exclude-ext", <<>>) = <<>>
  <2>1. \A o, default : /\ Lacks(pairs, o) => ValueOf(argv, o, default) = default
                        /\ \A x : Gives(pairs, o, x) => ValueOf(argv, o, default) = x
    BY <1>4, HeardValue
  <2>2. QED
    BY <1>2, <2>1
<1>6. parseCommand(argv[2]) = <<"search">> /\ <<"index">> # <<"search">>
  BY <1>1, WordsRead
<1>61. \A x \in BOOLEAN : parseBool(boolArg(x)) = x
  BY WordsRead DEF boolArg
<1> DEFINE d == parse(argv)
<1>7. /\ d.command = <<"search">> /\ d.rootPath = w.root
      /\ d.inputIndexPath = IndexFile /\ d.searchOutputPath = ResultsFile
      /\ d.query = w.query /\ d.onlyName = b /\ d.caseSensitive = c
      /\ d.sessionName = <<"main">>
      /\ d.excludeDirs = <<>> /\ d.excludeFiles = <<>> /\ d.includeExt = <<>> /\ d.excludeExt = <<>>
  BY <1>5, <1>6, <1>61, ParseFields, NothingSplit
<1> HIDE DEF d
<1>8. Arrived(d, w)
  <2>1. SameFolder(w.root, w.root)
    BY DEF SameFolder
  <2>2. QED
    BY <1>6, <1>7, <2>1 DEF Arrived, NoLists
<1>9. ~ Refused(argv)
  <2>1. parse(argv).inputIndexPath # <<>> /\ parse(argv).searchOutputPath # <<>>
    BY <1>7, NamesAreTexts DEF d
  <2>2. parseCommand(<<"search">>) # <<"index">>
    BY WordsRead
  <2>3. QED
    BY <1>3, <1>4, <2>1, <2>2, NotRefused
<1>10. QED
  BY <1>8, <1>9 DEF Means, d

LEMMA StopMeant ==
    ASSUME NEW argv, Heard(argv, <<"stop">>, {Pair("--session", <<"main">>)}), NEW w,
           w.command = <<"stop">>, w.root = <<>>, w.query = <<>>,
           w.onlyName = FALSE, w.caseSensitive = FALSE, w.lists = NoLists
    PROVE  Means(argv, w)
<1> DEFINE pairs == {Pair("--session", <<"main">>)}
<1>1. argv[2] = <<"stop">>
  BY DEF Heard
<1>2. /\ Gives(pairs, "--session", <<"main">>) /\ Lacks(pairs, "--root")
      /\ Lacks(pairs, "--query") /\ Lacks(pairs, "--only-name") /\ Lacks(pairs, "--case-sensitive")
      /\ Lacks(pairs, "--exclude-dir") /\ Lacks(pairs, "--exclude-file")
      /\ Lacks(pairs, "--include-ext") /\ Lacks(pairs, "--exclude-ext")
  BY DEF Gives, Lacks, Pair
<1>3. Allowed(pairs)
  BY DEF Allowed, Pair, Options
<1>4. Heard(argv, <<"stop">>, pairs)
  OBVIOUS
<1> HIDE DEF pairs
<1>5. /\ ValueOf(argv, "--root", <<>>) = <<>>
      /\ ValueOf(argv, "--query", <<>>) = <<>>
      /\ ValueOf(argv, "--only-name", <<>>) = <<>>
      /\ ValueOf(argv, "--case-sensitive", <<>>) = <<>>
      /\ ValueOf(argv, "--session", <<"main">>) = <<"main">>
      /\ ValueOf(argv, "--exclude-dir", <<>>) = <<>>
      /\ ValueOf(argv, "--exclude-file", <<>>) = <<>>
      /\ ValueOf(argv, "--include-ext", <<>>) = <<>>
      /\ ValueOf(argv, "--exclude-ext", <<>>) = <<>>
  <2>1. \A o, default : /\ Lacks(pairs, o) => ValueOf(argv, o, default) = default
                        /\ \A x : Gives(pairs, o, x) => ValueOf(argv, o, default) = x
    BY <1>4, HeardValue
  <2>2. QED
    BY <1>2, <2>1
<1>6. /\ parseCommand(argv[2]) = <<"stop">>
      /\ <<"stop">> # <<"search">> /\ <<"stop">> # <<"index">>
  BY <1>1, WordsRead
<1> DEFINE c == parse(argv)
<1>7. /\ c.command = <<"stop">> /\ c.rootPath = <<>>
      /\ c.query = <<>> /\ c.onlyName = FALSE /\ c.caseSensitive = FALSE
      /\ c.sessionName = <<"main">>
      /\ c.excludeDirs = <<>> /\ c.excludeFiles = <<>> /\ c.includeExt = <<>> /\ c.excludeExt = <<>>
  BY <1>5, <1>6, ParseFields, WordsRead, NothingSplit
<1> HIDE DEF c
<1>8. Arrived(c, w)
  <2>1. c.onlyName = w.onlyName /\ c.caseSensitive = w.caseSensitive
    BY <1>7, Zenon
  <2>2. QED
    BY <1>6, <1>7, <2>1 DEF Arrived, NoLists
<1>9. ~ Refused(argv)
  <2>1. parseCommand(<<"stop">>) # <<"search">> /\ parseCommand(<<"stop">>) # <<"index">>
    BY WordsRead
  <2>2. QED
    BY <1>3, <1>4, <2>1, NotRefused
<1>10. QED
  BY <1>8, <1>9 DEF Means, c

-----------------------------------------------------------------------------
(* What a user writes by hand. *)

LEMMA AppendTwo ==
    ASSUME NEW S, NEW s \in Seq(S), NEW a \in S, NEW b \in S
    PROVE  s \o <<a, b>> = Append(Append(s, a), b)
<1>1. <<a>> \in Seq(S) /\ <<b>> \in Seq(S) /\ Append(s, a) \in Seq(S)
  BY AppendProperties
<1>2. <<a, b>> = Append(<<a>>, b)
  BY TwoByAppend
<1>3. Append(<<a>>, b) = <<a>> \o <<b>>
  BY <1>1, AppendOne
<1>4. s \o (<<a>> \o <<b>>) = (s \o <<a>>) \o <<b>>
  BY <1>1, ConcatAssociative
<1>5. s \o <<a>> = Append(s, a)
  BY AppendOne
<1>6. Append(s, a) \o <<b>> = Append(Append(s, a), b)
  BY <1>1, AppendOne
<1>7. QED
  BY <1>2, <1>3, <1>4, <1>5, <1>6

(* An option without a value is not written. *)
More(o, value) == IF value = <<>> THEN {} ELSE {Pair(o, value)}

LEMMA HeardOption ==
    ASSUME NEW argv, NEW cmd, NEW pairs, Heard(argv, cmd, pairs), NEW name \in Symbols, NEW o,
           Lower(<<name>>) = <<o>>, NEW value \in Text
    PROVE  Heard(argv \o Option(name, value), cmd, pairs \cup More(o, value))
<1>1. argv \in Seq(Text) /\ <<name>> \in Text
  BY TextsGrow DEF Heard, Told
<1>2. CASE value = <<>>
  <2>1. argv \o <<>> = argv
    BY <1>1, ConcatEmptySeq
  <2>2. argv \o Option(name, value) = argv /\ pairs \cup More(o, value) = pairs
    BY <1>2, <2>1 DEF Option, More
  <2>3. QED
    BY <2>2
<1>3. CASE value # <<>>
  <2>1. argv \o <<<<name>>, value>> = Append(Append(argv, <<name>>), value)
    BY <1>1, AppendTwo
  <2>2. Heard(Append(Append(argv, <<name>>), value), cmd, pairs \cup {Pair(o, value)})
    BY <1>1, HeardMore
  <2>3. QED
    BY <1>3, <2>1, <2>2 DEF Option, More
<1>4. QED
  BY <1>2, <1>3

(* Of these pairs those of the option o have the value v, and there are some unless v is
   empty. *)
TellsAs(pairs, o, v) ==
    /\ \A p \in pairs : p.option = o => p.value = v /\ v # <<>>
    /\ v # <<>> => \E p \in pairs : p.option = o

(* The empty value is the default. *)
LEMMA HandValue ==
    ASSUME NEW argv, NEW cmd, NEW pairs, Heard(argv, cmd, pairs)
    PROVE  \A o, v : TellsAs(pairs, o, v) => ValueOf(argv, o, <<>>) = v
<1> SUFFICES ASSUME NEW o, NEW v, TellsAs(pairs, o, v)
             PROVE  ValueOf(argv, o, <<>>) = v
  OBVIOUS
<1>1. CASE v = <<>>
  <2>1. Lacks(pairs, o)
    BY <1>1 DEF Lacks, TellsAs
  <2>2. QED
    BY <1>1, <2>1, HeardValue
<1>2. CASE v # <<>>
  <2>1. Gives(pairs, o, v)
    BY <1>2 DEF Gives, TellsAs
  <2>2. QED
    BY <2>1, HeardValue
<1>3. QED
  BY <1>1, <1>2

HandPairs(folder, a, b, c, d) ==
    More("--root", folder) \cup More("--output", IndexFile) \cup More("--exclude-dir", a)
      \cup More("--exclude-file", b) \cup More("--include-ext", c) \cup More("--exclude-ext", d)

LEMMA MoreFacts ==
    ASSUME NEW o, NEW value
    PROVE  /\ \A p \in More(o, value) : p.option = o /\ p.value = value /\ p.value # <<>>
           /\ value # <<>> => \E p \in More(o, value) : p.option = o
<1>1. CASE value = <<>>
  BY <1>1 DEF More
<1>2. CASE value # <<>>
  <2>1. More(o, value) = {Pair(o, value)}
    BY <1>2 DEF More
  <2>2. Pair(o, value).option = o /\ Pair(o, value).value = value
    BY DEF Pair
  <2>3. QED
    BY <1>2, <2>1, <2>2
<1>3. QED
  BY <1>1, <1>2

LEMMA HandFacts ==
    ASSUME NEW folder, NEW a, NEW b, NEW c, NEW d
    PROVE  LET pairs == HandPairs(folder, a, b, c, d)
           IN  /\ TellsAs(pairs, "--root", folder) /\ TellsAs(pairs, "--output", IndexFile)
               /\ TellsAs(pairs, "--exclude-dir", a) /\ TellsAs(pairs, "--exclude-file", b)
               /\ TellsAs(pairs, "--include-ext", c) /\ TellsAs(pairs, "--exclude-ext", d)
               /\ Lacks(pairs, "--query") /\ Lacks(pairs, "--only-name")
               /\ Lacks(pairs, "--case-sensitive") /\ Lacks(pairs, "--session")
               /\ Allowed(pairs)
<1> DEFINE m1 == More("--root", folder)
           m2 == More("--output", IndexFile)
           m3 == More("--exclude-dir", a)
           m4 == More("--exclude-file", b)
           m5 == More("--include-ext", c)
           m6 == More("--exclude-ext", d)
           pairs == HandPairs(folder, a, b, c, d)
<1>1. \A p \in m1 : p.option = "--root" /\ p.value = folder /\ p.value # <<>>
  BY MoreFacts
<1>2. \A p \in m2 : p.option = "--output" /\ p.value = IndexFile /\ p.value # <<>>
  BY MoreFacts
<1>3. \A p \in m3 : p.option = "--exclude-dir" /\ p.value = a /\ p.value # <<>>
  BY MoreFacts
<1>4. \A p \in m4 : p.option = "--exclude-file" /\ p.value = b /\ p.value # <<>>
  BY MoreFacts
<1>5. \A p \in m5 : p.option = "--include-ext" /\ p.value = c /\ p.value # <<>>
  BY MoreFacts
<1>6. \A p \in m6 : p.option = "--exclude-ext" /\ p.value = d /\ p.value # <<>>
  BY MoreFacts
<1>7. /\ folder # <<>> => \E p \in m1 : p.option = "--root"
      /\ IndexFile # <<>> => \E p \in m2 : p.option = "--output"
      /\ a # <<>> => \E p \in m3 : p.option = "--exclude-dir"
      /\ b # <<>> => \E p \in m4 : p.option = "--exclude-file"
      /\ c # <<>> => \E p \in m5 : p.option = "--include-ext"
      /\ d # <<>> => \E p \in m6 : p.option = "--exclude-ext"
  BY MoreFacts
<1>8. pairs = m1 \cup m2 \cup m3 \cup m4 \cup m5 \cup m6
  BY DEF HandPairs
<1> HIDE DEF m1, m2, m3, m4, m5, m6, pairs
<1>9. \A p \in pairs : p.value # <<>>
  BY <1>1, <1>2, <1>3, <1>4, <1>5, <1>6, <1>8
<1>10. /\ \A p \in pairs : p.option = "--root" => p.value = folder
       /\ \A p \in pairs : p.option = "--output" => p.value = IndexFile
       /\ \A p \in pairs : p.option = "--exclude-dir" => p.value = a
       /\ \A p \in pairs : p.option = "--exclude-file" => p.value = b
       /\ \A p \in pairs : p.option = "--include-ext" => p.value = c
       /\ \A p \in pairs : p.option = "--exclude-ext" => p.value = d
  BY <1>1, <1>2, <1>3, <1>4, <1>5, <1>6, <1>8
<1>11. /\ folder # <<>> => \E p \in pairs : p.option = "--root"
       /\ IndexFile # <<>> => \E p \in pairs : p.option = "--output"
       /\ a # <<>> => \E p \in pairs : p.option = "--exclude-dir"
       /\ b # <<>> => \E p \in pairs : p.option = "--exclude-file"
       /\ c # <<>> => \E p \in pairs : p.option = "--include-ext"
       /\ d # <<>> => \E p \in pairs : p.option = "--exclude-ext"
  BY <1>7, <1>8
<1>12. /\ TellsAs(pairs, "--root", folder) /\ TellsAs(pairs, "--output", IndexFile)
       /\ TellsAs(pairs, "--exclude-dir", a) /\ TellsAs(pairs, "--exclude-file", b)
       /\ TellsAs(pairs, "--include-ext", c) /\ TellsAs(pairs, "--exclude-ext", d)
  BY <1>9, <1>10, <1>11 DEF TellsAs
<1>13. \A p \in pairs : p.option \in {"--root", "--output", "--exclude-dir", "--exclude-file",
                                      "--include-ext", "--exclude-ext"}
  BY <1>1, <1>2, <1>3, <1>4, <1>5, <1>6, <1>8
<1>14. /\ Lacks(pairs, "--query") /\ Lacks(pairs, "--only-name")
       /\ Lacks(pairs, "--case-sensitive") /\ Lacks(pairs, "--session")
  BY <1>13 DEF Lacks
<1>15. Allowed(pairs)
  BY <1>13 DEF Allowed, Options
<1>16. QED
  BY <1>12, <1>14, <1>15 DEF pairs

(* Capitals are made small. *)
LEMMA CapitalsLowered ==
    /\ Lower(<<"Index">>) = <<"index">> /\ "Index" \in Symbols
    /\ Lower(<<"--EXCLUDE-DIR">>) = <<"--exclude-dir">> /\ "--EXCLUDE-DIR" \in Symbols
<1>1. ASSUME NEW x \in DOMAIN Small PROVE Lower(<<x>>) = <<Small[x]>>
  <2>1. DOMAIN <<x>> = {1} /\ <<x>>[1] = x
    OBVIOUS
  <2>2. Lower(<<x>>) = [k \in {1} |-> Small[x]]
    BY <2>1 DEF Lower
  <2>3. <<Small[x]>> = [k \in {1} |-> Small[x]]
    OBVIOUS
  <2>4. QED
    BY <2>2, <2>3
<1>2. /\ "Index" \in DOMAIN Small /\ Small["Index"] = "index" /\ "Index" \in Symbols
      /\ "--EXCLUDE-DIR" \in DOMAIN Small /\ Small["--EXCLUDE-DIR"] = "--exclude-dir"
      /\ "--EXCLUDE-DIR" \in Symbols
  BY CommandAssumption
<1>3. QED
  BY <1>1, <1>2

LEMMA HandHeard ==
    ASSUME NEW folder \in Text, NEW lists, NEW a \in Text, NEW b \in Text, NEW c \in Text,
           NEW d \in Text, a = Written(lists.excludeDirs), b = Written(lists.excludeFiles),
           c = Written(lists.includeExt), d = Written(lists.excludeExt)
    PROVE  Heard(ByHand(folder, lists), <<"Index">>, HandPairs(folder, a, b, c, d))
<1> DEFINE cmd == <<"Index">>
           v0 == <<Exe, cmd>>
           v1 == v0 \o Option("--root", folder)
           v2 == v1 \o Option("--output", IndexFile)
           v3 == v2 \o Option("--EXCLUDE-DIR", a)
           v4 == v3 \o Option("--exclude-file", b)
           v5 == v4 \o Option("--include-ext", c)
           v6 == v5 \o Option("--exclude-ext", d)
           s1 == {} \cup More("--root", folder)
           s2 == s1 \cup More("--output", IndexFile)
           s3 == s2 \cup More("--exclude-dir", a)
           s4 == s3 \cup More("--exclude-file", b)
           s5 == s4 \cup More("--include-ext", c)
           s6 == s5 \cup More("--exclude-ext", d)
<1>1. \A x \in {"--root", "--output", "--exclude-file", "--include-ext", "--exclude-ext"} :
        x \in Symbols /\ Lower(<<x>>) = <<x>>
  <2>1. \A x \in {"--root", "--output", "--exclude-file", "--include-ext", "--exclude-ext"} : x \in Words
    BY DEF Words, Options
  <2>2. QED
    BY <2>1, WordFacts, WordsAssumption
<1>2. Heard(v0, cmd, {})
  <2>1. <<"Index">> \in Text
    BY CapitalsLowered, TextsGrow
  <2>2. QED
    BY <2>1, NamesAreTexts, HeardNothing
<1> HIDE DEF v0, cmd
<1>3. Heard(v1, cmd, s1)
  BY <1>1, <1>2, HeardOption
<1> HIDE DEF v1, s1
<1>4. Heard(v2, cmd, s2)
  BY <1>1, <1>3, NamesAreTexts, HeardOption
<1> HIDE DEF v2, s2
<1>5. Heard(v3, cmd, s3)
  BY <1>4, CapitalsLowered, HeardOption
<1> HIDE DEF v3, s3
<1>6. Heard(v4, cmd, s4)
  BY <1>1, <1>5, HeardOption
<1> HIDE DEF v4, s4
<1>7. Heard(v5, cmd, s5)
  BY <1>1, <1>6, HeardOption
<1> HIDE DEF v5, s5
<1>8. Heard(v6, cmd, s6)
  BY <1>1, <1>7, HeardOption
<1>9. s6 = HandPairs(folder, a, b, c, d)
  BY DEF s1, s2, s3, s4, s5, s6, HandPairs
<1>10. v6 = ByHand(folder, lists)
  BY DEF v6, v5, v4, v3, v2, v1, v0, cmd, ByHand
<1>11. QED
  BY <1>8, <1>9, <1>10 DEF cmd

LEMMA HandMeant ==
    ASSUME NEW folder \in Text \ {<<>>}, NEW lists,
           lists.excludeDirs \in Seq(Items), lists.excludeFiles \in Seq(Items),
           lists.includeExt \in Seq(Items), lists.excludeExt \in Seq(Items), NEW w,
           w.command = <<"index">>, w.root = folder, w.query = <<>>,
           w.onlyName = FALSE, w.caseSensitive = FALSE, w.lists = lists
    PROVE  Means(ByHand(folder, lists), w)
<1> DEFINE argv == ByHand(folder, lists)
           a == Written(lists.excludeDirs)
           b == Written(lists.excludeFiles)
           c == Written(lists.includeExt)
           d == Written(lists.excludeExt)
           pairs == HandPairs(folder, a, b, c, d)
<1>1. /\ a \in Text /\ splitSemicolonList(a) = lists.excludeDirs
      /\ b \in Text /\ splitSemicolonList(b) = lists.excludeFiles
      /\ c \in Text /\ splitSemicolonList(c) = lists.includeExt
      /\ d \in Text /\ splitSemicolonList(d) = lists.excludeExt
  BY WrittenSplit
<1>2. Heard(argv, <<"Index">>, pairs)
  <2>1. a \in Text /\ b \in Text /\ c \in Text /\ d \in Text
    BY <1>1
  <2>2. QED
    BY <2>1, HandHeard
<1> HIDE DEF a, b, c, d, argv
<1>3. /\ TellsAs(pairs, "--root", folder) /\ TellsAs(pairs, "--output", IndexFile)
      /\ TellsAs(pairs, "--exclude-dir", a) /\ TellsAs(pairs, "--exclude-file", b)
      /\ TellsAs(pairs, "--include-ext", c) /\ TellsAs(pairs, "--exclude-ext", d)
      /\ Lacks(pairs, "--query") /\ Lacks(pairs, "--only-name")
      /\ Lacks(pairs, "--case-sensitive") /\ Lacks(pairs, "--session")
      /\ Allowed(pairs)
  BY HandFacts
<1> HIDE DEF pairs
<1>4. /\ ValueOf(argv, "--root", <<>>) = folder /\ ValueOf(argv, "--output", <<>>) = IndexFile
      /\ ValueOf(argv, "--exclude-dir", <<>>) = a /\ ValueOf(argv, "--exclude-file", <<>>) = b
      /\ ValueOf(argv, "--include-ext", <<>>) = c /\ ValueOf(argv, "--exclude-ext", <<>>) = d
  <2>1. \A o, v : TellsAs(pairs, o, v) => ValueOf(argv, o, <<>>) = v
    BY <1>2, HandValue
  <2>2. QED
    BY <1>3, <2>1
<1>5. /\ ValueOf(argv, "--query", <<>>) = <<>>
      /\ ValueOf(argv, "--only-name", <<>>) = <<>>
      /\ ValueOf(argv, "--case-sensitive", <<>>) = <<>>
      /\ ValueOf(argv, "--session", <<"main">>) = <<"main">>
  <2>1. \A o, default : Lacks(pairs, o) => ValueOf(argv, o, default) = default
    BY <1>2, HeardValue
  <2>2. QED
    BY <1>3, <2>1
<1>6. /\ parseCommand(argv[2]) = <<"index">> /\ parseCommand(<<"Index">>) = <<"index">>
      /\ <<"index">> # <<"search">>
  BY <1>2, CapitalsLowered DEF parseCommand, Heard
<1> DEFINE e == parse(argv)
<1>7. /\ e.command = <<"index">> /\ e.rootPath = folder /\ e.outputIndexPath = IndexFile
      /\ e.query = <<>> /\ e.onlyName = FALSE /\ e.caseSensitive = FALSE
      /\ e.sessionName = <<"main">>
      /\ e.excludeDirs = lists.excludeDirs /\ e.excludeFiles = lists.excludeFiles
      /\ e.includeExt = lists.includeExt /\ e.excludeExt = lists.excludeExt
  BY <1>1, <1>4, <1>5, <1>6, ParseFields, WordsRead
<1> HIDE DEF e
<1>8. Arrived(e, w)
  <2>1. e.onlyName = w.onlyName /\ e.caseSensitive = w.caseSensitive
    BY <1>7, Zenon
  <2>2. SameFolder(folder, folder)
    BY DEF SameFolder
  <2>3. QED
    BY <1>6, <1>7, <2>1, <2>2 DEF Arrived
<1>9. ~ Refused(argv)
  <2>1. parse(argv).rootPath # <<>> /\ parse(argv).outputIndexPath # <<>>
    BY <1>7, NamesAreTexts DEF e
  <2>2. parseCommand(<<"Index">>) # <<"search">>
    BY <1>6
  <2>3. QED
    BY <1>2, <1>3, <2>1, <2>2, NotRefused
<1>10. QED
  BY <1>8, <1>9 DEF Means, e, argv
=============================================================================
