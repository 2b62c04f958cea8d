------------------------ MODULE IndexCommand_proofs ------------------------
(***************************************************************************)
(* A command from the user to the end of its scan, for any tree, any lists  *)
(* and any number of faults.  WalkInv relates the directories that the       *)
(* iterator keeps open to the path of the entry it stands on, and both to    *)
(* what has been reported; OnItsWay relates each stage of the command to     *)
(* what was asked.                                                          *)
(***************************************************************************)
EXTENDS CommandLine_proofs

-----------------------------------------------------------------------------
(* The inductive invariant of the walk. *)

Reports == [path : Paths, relative : {Resolved[p] : p \in Paths} \cup {<<Last(p)>> : p \in Paths},
            isDirectory : BOOLEAN]

Shape ==
    /\ at \in Paths \cup {Root}
    /\ levels \in Seq(SUBSET Paths)
    /\ reported \in Seq(Reports)
    /\ complained \in Seq(Paths \cup {Root})
    /\ Len(levels) = Len(at)
    /\ pc \in {"entry", "stepping"} => at \in Paths

(* What is left in an open directory is in the directory that the path of the entry goes
   through, and is not on that path itself. *)
Branches == \A k \in DOMAIN levels : \A q \in levels[k] :
                /\ Len(q) = k
                /\ Agree(q, at, k - 1)
                /\ ~Agree(q, at, k)

(* Nothing that is left, or in a directory that is left, has been reported. *)
Fresh == \A i \in DOMAIN reported :
    LET r == reported[i].path
    IN  /\ \A k \in DOMAIN levels : \A q \in levels[k] : k <= Len(r) => ~Agree(q, r, k)
        /\ pc = "entry" /\ Len(at) <= Len(r) => ~Agree(at, r, Len(at))
        /\ pc = "stepping" /\ Len(at) < Len(r) => ~Agree(at, r, Len(at))

(* Every folder that the walk has gone into has been passed on in some way. *)
WayKnown ==
    /\ \A a \in Paths : Len(a) < Len(at) /\ Agree(a, at, Len(a)) => Known(a)
    /\ pc = "stepping" /\ Descends => Known(at)

NotYet == pc \notin {"entry", "stepping", "ended"} => at = Root /\ reported = <<>>

WalkInv == Shape /\ Branches /\ Fresh /\ WayKnown /\ NotYet /\ FoldersFirst

-----------------------------------------------------------------------------
LEMMA PathFacts ==
    ASSUME NEW p \in Paths
    PROVE  /\ p \in Seq(Text) /\ Len(p) \in Nat /\ Len(p) >= 1
           /\ Front(p) \in Seq(Text) /\ Len(Front(p)) = Len(p) - 1
           /\ Agree(Front(p), p, Len(p) - 1)
           /\ Len(p) > 1 => Front(p) \in Paths
           /\ Len(p) = 1 => Front(p) = Root
<1>1. p \in Seq(Text) /\ p # <<>>
  BY ScannerAssumption
<1>2. Len(p) \in Nat /\ Len(p) >= 1
  BY <1>1
<1>3. Front(p) = SubSeq(p, 1, Len(p) - 1)
  BY DEF Front
<1>4. /\ Front(p) \in Seq(Text) /\ Len(Front(p)) = Len(p) - 1
      /\ \A i \in 1..(Len(p) - 1) : Front(p)[i] = p[i]
  <2>1. \A i \in 1..(Len(p) - 1) : p[i] \in Text
    BY <1>1
  <2>2. 1 \in Int /\ Len(p) - 1 \in Int
    BY <1>2
  <2>3. /\ Front(p) \in Seq(Text)
        /\ Len(Front(p)) = IF 1 <= Len(p) - 1 THEN Len(p) - 1 - 1 + 1 ELSE 0
        /\ \A i \in 1..(Len(p) - 1 - 1 + 1) : Front(p)[i] = p[1 + i - 1]
    BY <1>3, <2>1, <2>2, SubSeqProperties
  <2>4. \A n \in Nat : n >= 1 => /\ (IF 1 <= n - 1 THEN n - 1 - 1 + 1 ELSE 0) = n - 1
                                /\ n - 1 - 1 + 1 = n - 1
    OBVIOUS
  <2>5. \A i \in 1..(Len(p) - 1) : 1 + i - 1 = i
    OBVIOUS
  <2>6. QED
    BY <1>2, <2>3, <2>4, <2>5, Zenon
<1>5. Len(p) > 1 => Front(p) \in Paths
  BY ScannerAssumption
<1>6. Len(p) = 1 => Front(p) = Root
  BY <1>4 DEF Root
<1>7. QED
  BY <1>1, <1>2, <1>4, <1>5, <1>6 DEF Agree

(* Two paths of one length that agree are one. *)
LEMMA AgreeEqual ==
    ASSUME NEW p \in Seq(Text), NEW q \in Seq(Text), Len(p) = Len(q),
           Agree(p, q, Len(p))
    PROVE  p = q
BY SeqEqual DEF Agree

-----------------------------------------------------------------------------
(* The iterator.  What it may move to: the entries left in the directories it keeps. *)

Left(open) == \A k \in DOMAIN open : \A q \in open[k] : Len(q) = k /\ Agree(q, at, k - 1)

LEMMA Moved ==
    ASSUME Shape, NEW open \in Seq(SUBSET Paths), Left(open), MoveTo(open), pc' # "ended"
    PROVE  /\ pc' = "entry" /\ at' \in Paths
           /\ Len(at') \in DOMAIN open /\ at' \in open[Len(at')]
           /\ levels' \in Seq(SUBSET Paths) /\ Len(levels') = Len(at')
           /\ \A k \in DOMAIN levels' : levels'[k] \subseteq open[k]
           /\ at' \notin levels'[Len(at')]
           /\ UNCHANGED outcome
<1>0. PICK top \in DOMAIN open : \E p \in open[top] :
        /\ pc' = "entry"
        /\ at' = p
        /\ levels' = Append(SubSeq(open, 1, top - 1), open[top] \ {p})
        /\ UNCHANGED outcome
  BY DEF MoveTo
<1>1. PICK p \in open[top] :
        /\ pc' = "entry"
        /\ at' = p
        /\ levels' = Append(SubSeq(open, 1, top - 1), open[top] \ {p})
        /\ UNCHANGED outcome
  BY <1>0
<1>2. top \in 1..Len(open)
  BY <1>0
<1>3. p \in Paths /\ Len(p) = top
  BY <1>1, <1>2 DEF Left
<1>4. /\ SubSeq(open, 1, top - 1) \in Seq(SUBSET Paths)
      /\ Len(SubSeq(open, 1, top - 1)) = top - 1
      /\ \A k \in 1..(top - 1) : SubSeq(open, 1, top - 1)[k] = open[k]
  <2>1. \A k \in 1..(top - 1) : open[k] \in SUBSET Paths
    BY <1>2
  <2>2. 1 \in Int /\ top - 1 \in Int
    BY <1>2
  <2>3. QED
    BY <1>2, <2>1, <2>2, SubSeqProperties
<1>5. open[top] \ {p} \in SUBSET Paths
  BY <1>2
<1>6. /\ levels' \in Seq(SUBSET Paths) /\ Len(levels') = top
      /\ \A k \in 1..(top - 1) : levels'[k] = open[k]
      /\ levels'[top] = open[top] \ {p}
  BY <1>1, <1>2, <1>4, <1>5, AppendProperties
<1>7. QED
  BY <1>1, <1>2, <1>3, <1>6

LEMMA AtFacts ==
    ASSUME Shape
    PROVE  /\ at \in Seq(Text) /\ Len(at) \in Nat
           /\ DOMAIN levels = 1..Len(at)
           /\ \A k \in DOMAIN levels : \A q \in levels[k] : q \in Paths
           /\ \A i \in DOMAIN reported : reported[i].path \in Paths
<1>1. at \in Seq(Text) /\ Len(at) \in Nat
  <2>1. Root \in Seq(Text)
    BY DEF Root
  <2>2. at \in Seq(Text)
    BY <2>1, PathFacts DEF Shape
  <2>3. QED
    BY <2>2
<1>2. DOMAIN levels = 1..Len(at)
  BY DEF Shape
<1>3. \A k \in DOMAIN levels : \A q \in levels[k] : q \in Paths
  BY DEF Shape
<1>4. \A i \in DOMAIN reported : reported[i].path \in Paths
  <2>1. \A r \in Reports : r.path \in Paths
    BY DEF Reports
  <2>2. \A i \in DOMAIN reported : reported[i] \in Reports
    BY DEF Shape
  <2>3. QED
    BY <2>1, <2>2
<1>5. QED
  BY <1>1, <1>2, <1>3, <1>4

(* The three things that must hold of what the iterator may move to. *)
Off(open) == \A k \in DOMAIN open : k < Len(open) => \A q \in open[k] : ~Agree(q, at, k)
New(open) == \A k \in DOMAIN open : \A q \in open[k] : \A i \in DOMAIN reported :
                 k <= Len(reported[i].path) => ~Agree(q, reported[i].path, k)
Led(open) == \A k \in DOMAIN open : \A q \in open[k] : \A a \in Paths :
                 Len(a) < k /\ Agree(a, q, Len(a)) => Known(a)

(* A move to such an entry keeps the invariant. *)
LEMMA MoveKeeps ==
    ASSUME WalkInv, NEW open \in Seq(SUBSET Paths), Left(open), Off(open), New(open), Led(open),
           Len(open) <= Len(at) + 1, MoveTo(open), UNCHANGED output, pc' # "ended"
    PROVE  WalkInv'
<1>0. Shape /\ FoldersFirst
  BY DEF WalkInv
<1> DEFINE n == Len(at')
<1>1. /\ pc' = "entry" /\ at' \in Paths
      /\ n \in DOMAIN open /\ at' \in open[n]
      /\ levels' \in Seq(SUBSET Paths) /\ Len(levels') = n
      /\ \A k \in DOMAIN levels' : levels'[k] \subseteq open[k]
      /\ at' \notin levels'[n]
  BY <1>0, Moved
<1>2. reported' = reported /\ complained' = complained
  BY DEF output
<1>3. n \in Nat /\ n >= 1 /\ DOMAIN levels' = 1..n /\ n <= Len(open) /\ DOMAIN open = 1..Len(open)
  BY <1>1, PathFacts
<1>4. Shape'
  BY <1>0, <1>1, <1>2 DEF Shape, Reports
<1>5. Branches'
  <2> SUFFICES ASSUME NEW k \in DOMAIN levels', NEW q \in levels'[k]
               PROVE  Len(q) = k /\ Agree(q, at', k - 1) /\ ~Agree(q, at', k)
    BY DEF Branches
  <2>1. k \in 1..n /\ k \in DOMAIN open /\ q \in open[k] /\ q \in Paths
    BY <1>1, <1>3
  <2>2. Len(q) = k /\ Agree(q, at, k - 1) /\ Agree(at', at, n - 1)
    BY <1>1, <2>1 DEF Left
  <2>3. Agree(q, at', k - 1)
    BY <1>3, <2>1, <2>2 DEF Agree
  <2>4. CASE k < n
    <3>1. ~Agree(q, at, k)
      BY <1>3, <2>1, <2>4 DEF Off
    <3>2. ~Agree(q, at', k)
      BY <1>3, <2>1, <2>2, <2>4, <3>1 DEF Agree
    <3>3. QED
      BY <2>2, <2>3, <3>2
  <2>5. CASE k = n
    <3>1. q # at'
      BY <1>1, <2>5
    <3>2. q \in Seq(Text) /\ at' \in Seq(Text)
      BY <1>1, <2>1, PathFacts
    <3>3. ~Agree(q, at', Len(q))
      BY <2>2, <2>5, <3>1, <3>2, AgreeEqual
    <3>4. QED
      BY <2>2, <2>3, <3>3
  <2>6. QED
    BY <1>3, <2>1, <2>4, <2>5
<1>6. Fresh'
  <2> SUFFICES ASSUME NEW i \in DOMAIN reported
               PROVE  /\ \A k \in DOMAIN levels' : \A q \in levels'[k] :
                            k <= Len(reported[i].path) => ~Agree(q, reported[i].path, k)
                      /\ Len(at') <= Len(reported[i].path) => ~Agree(at', reported[i].path, Len(at'))
    BY <1>1, <1>2 DEF Fresh
  <2>1. ASSUME NEW k \in DOMAIN levels', NEW q \in levels'[k]
        PROVE  k <= Len(reported[i].path) => ~Agree(q, reported[i].path, k)
    <3>1. k \in DOMAIN open /\ q \in open[k]
      BY <1>1, <1>3
    <3>2. QED
      BY <3>1 DEF New
  <2>2. Len(at') <= Len(reported[i].path) => ~Agree(at', reported[i].path, Len(at'))
    BY <1>1 DEF New
  <2>3. QED
    BY <2>1, <2>2
<1>7. WayKnown'
  <2>1. \A a \in Paths : Len(a) < n /\ Agree(a, at', Len(a)) => Known(a)
    BY <1>1 DEF Led
  <2>2. \A a \in Paths : Known(a) => Known(a)'
    BY <1>2 DEF Known, IsReported, IsComplained
  <2>3. QED
    BY <1>1, <2>1, <2>2 DEF WayKnown
<1>8. NotYet' /\ FoldersFirst'
  BY <1>0, <1>1, <1>2 DEF NotYet, FoldersFirst, IsComplained
<1>9. QED
  BY <1>4, <1>5, <1>6, <1>7, <1>8 DEF WalkInv

(* The end of the loop, with or without a complaint of the root, keeps it too. *)
LEMMA EndKeeps ==
    ASSUME WalkInv, pc' = "ended", UNCHANGED <<iterator, reported>>,
           complained' \in {complained, Append(complained, Root)}
    PROVE  WalkInv'
<1>1. Shape /\ Branches /\ Fresh /\ WayKnown /\ FoldersFirst
  BY DEF WalkInv
<1>2. at' = at /\ levels' = levels /\ recursion' = recursion /\ reported' = reported
  BY DEF iterator
<1>3. /\ complained' \in Seq(Paths \cup {Root})
      /\ \A p : IsComplained(p) => IsComplained(p)'
  <2>1. complained \in Seq(Paths \cup {Root})
    BY <1>1 DEF Shape
  <2>2. CASE complained' = complained
    BY <2>1, <2>2 DEF IsComplained
  <2>3. CASE complained' = Append(complained, Root)
    <3>1. /\ complained' \in Seq(Paths \cup {Root})
          /\ \A i \in DOMAIN complained : i \in DOMAIN complained' /\ complained'[i] = complained[i]
      BY <2>1, <2>3, AppendProperties
    <3>2. QED
      BY <3>1 DEF IsComplained
  <2>4. QED
    BY <2>2, <2>3
<1>4. \A p : Known(p) => Known(p)'
  BY <1>2, <1>3 DEF Known, IsReported
<1>5. Shape'
  BY <1>1, <1>2, <1>3 DEF Shape, Reports
<1>6. Branches' /\ Fresh'
  BY <1>1, <1>2 DEF Branches, Fresh
<1>7. WayKnown' /\ NotYet'
  BY <1>1, <1>2, <1>4 DEF WayKnown, NotYet
<1>8. FoldersFirst'
  BY <1>1, <1>2, <1>3 DEF FoldersFirst
<1>9. QED
  BY <1>5, <1>6, <1>7, <1>8 DEF WalkInv

(* A move, to an entry or to the end. *)
LEMMA MoveOrEnd ==
    ASSUME WalkInv, NEW open \in Seq(SUBSET Paths), Left(open), Off(open), New(open), Led(open),
           Len(open) <= Len(at) + 1, MoveTo(open), UNCHANGED output
    PROVE  WalkInv'
<1>1. CASE pc' # "ended"
  BY <1>1, MoveKeeps
<1>2. CASE pc' = "ended"
  <2>1. UNCHANGED iterator
    BY <1>2 DEF MoveTo
  <2>2. QED
    BY <1>2, <2>1, EndKeeps DEF output
<1>3. QED
  BY <1>1, <1>2

-----------------------------------------------------------------------------
(* What the three openings give. *)

LEMMA LevelsOpen ==
    ASSUME WalkInv, pc = "stepping"
    PROVE  Left(levels) /\ Off(levels) /\ New(levels) /\ Led(levels)
<1>1. Shape /\ Branches /\ Fresh /\ WayKnown
  BY DEF WalkInv
<1>2. Left(levels) /\ Off(levels)
  BY <1>1 DEF Branches, Left, Off
<1>3. New(levels)
  BY <1>1 DEF Fresh, New
<1>4. Led(levels)
  <2> SUFFICES ASSUME NEW k \in DOMAIN levels, NEW q \in levels[k], NEW a \in Paths,
                      Len(a) < k, Agree(a, q, Len(a))
               PROVE  Known(a)
    BY DEF Led
  <2>1. Len(at) \in Nat /\ k \in 1..Len(at) /\ Len(a) \in Nat
    BY <1>1, AtFacts, PathFacts
  <2>2. Agree(q, at, k - 1)
    BY <1>1 DEF Branches
  <2>3. Len(a) < Len(at) /\ Agree(a, at, Len(a))
    BY <2>1, <2>2 DEF Agree
  <2>4. QED
    BY <1>1, <2>3 DEF WayKnown
<1>5. QED
  BY <1>2, <1>3, <1>4

LEMMA EntriesFacts ==
    ASSUME NEW d \in Paths \cup {Root}, NEW q \in EntriesOf(d)
    PROVE  q \in Paths /\ Len(q) = Len(d) + 1 /\ Agree(q, d, Len(d)) /\ Len(d) \in Nat
<1>1. q \in Paths /\ Front(q) = d
  BY DEF EntriesOf
<1>2. /\ Len(q) \in Nat /\ Len(q) >= 1 /\ Len(Front(q)) = Len(q) - 1
      /\ Agree(Front(q), q, Len(q) - 1)
  BY <1>1, PathFacts
<1>3. Len(d) = Len(q) - 1 /\ Len(q) = Len(d) + 1 /\ Len(d) \in Nat
  BY <1>1, <1>2
<1>4. Agree(q, d, Len(d))
  BY <1>1, <1>2, <1>3 DEF Agree
<1>5. QED
  BY <1>1, <1>3, <1>4

LEMMA FolderOpen ==
    ASSUME WalkInv, pc = "stepping", Descends, NEW open, open = Append(levels, EntriesOf(at))
    PROVE  /\ open \in Seq(SUBSET Paths) /\ Len(open) = Len(at) + 1
           /\ Left(open) /\ Off(open) /\ New(open) /\ Led(open)
<1>0. Shape /\ Branches /\ Fresh /\ WayKnown
  BY DEF WalkInv
<1> DEFINE m == Len(at)
<1>1. at \in Paths /\ at \in Seq(Text) /\ m \in Nat /\ DOMAIN levels = 1..m
  BY <1>0, AtFacts DEF Shape
<1>2. /\ open \in Seq(SUBSET Paths) /\ Len(open) = m + 1
      /\ \A k \in 1..m : open[k] = levels[k]
      /\ open[m + 1] = EntriesOf(at)
  <2>1. EntriesOf(at) \in SUBSET Paths
    BY DEF EntriesOf
  <2>2. levels \in Seq(SUBSET Paths) /\ Len(levels) = m
    BY <1>0 DEF Shape
  <2>3. QED
    BY <2>1, <2>2, AppendProperties
<1>3. DOMAIN open = 1..(m + 1)
  BY <1>2
<1>4. Left(levels) /\ Off(levels) /\ New(levels) /\ Led(levels)
  BY LevelsOpen
<1>5. \A q \in EntriesOf(at) : q \in Paths /\ Len(q) = m + 1 /\ Agree(q, at, m)
  BY <1>1, EntriesFacts
<1>6. \A k \in DOMAIN open : k = m + 1 \/ (k \in 1..m /\ k \in DOMAIN levels)
  BY <1>1, <1>3
<1>7. Left(open)
  <2> SUFFICES ASSUME NEW k \in DOMAIN open, NEW q \in open[k]
               PROVE  Len(q) = k /\ Agree(q, at, k - 1)
    BY DEF Left
  <2>1. CASE k = m + 1
    <3>1. k - 1 = m
      BY <1>1, <2>1
    <3>2. QED
      BY <1>2, <1>5, <2>1, <3>1
  <2>2. CASE k \in 1..m /\ k \in DOMAIN levels
    BY <1>2, <1>4, <2>2 DEF Left
  <2>3. QED
    BY <1>6, <2>1, <2>2
<1>8. Off(open)
  <2> SUFFICES ASSUME NEW k \in DOMAIN open, k < Len(open), NEW q \in open[k]
               PROVE  ~Agree(q, at, k)
    BY DEF Off
  <2>1. k \in 1..m
    BY <1>1, <1>2, <1>3
  <2>2. QED
    BY <1>0, <1>1, <1>2, <2>1 DEF Branches
<1>9. New(open)
  <2> SUFFICES ASSUME NEW k \in DOMAIN open, NEW q \in open[k], NEW i \in DOMAIN reported,
                      k <= Len(reported[i].path)
               PROVE  ~Agree(q, reported[i].path, k)
    BY DEF New
  <2> DEFINE r == reported[i].path
  <2>1. CASE k = m + 1
    <3>1. r \in Paths /\ Len(r) \in Nat
      BY <1>0, AtFacts, PathFacts
    <3>2. m < Len(r)
      BY <1>1, <2>1, <3>1
    <3>3. ~Agree(at, r, m)
      BY <1>0, <3>2 DEF Fresh
    <3>4. Agree(q, at, m)
      BY <1>2, <1>5, <2>1
    <3>5. QED
      BY <1>1, <2>1, <3>3, <3>4 DEF Agree
  <2>2. CASE k \in 1..m /\ k \in DOMAIN levels
    BY <1>2, <1>4, <2>2 DEF New
  <2>3. QED
    BY <1>6, <2>1, <2>2
<1>10. Led(open)
  <2> SUFFICES ASSUME NEW k \in DOMAIN open, NEW q \in open[k], NEW a \in Paths,
                      Len(a) < k, Agree(a, q, Len(a))
               PROVE  Known(a)
    BY DEF Led
  <2>0. Len(a) \in Nat /\ a \in Seq(Text)
    BY PathFacts
  <2>1. CASE k = m + 1
    <3>1. Agree(q, at, m)
      BY <1>2, <1>5, <2>1
    <3>2. Len(a) <= m
      BY <1>1, <2>0, <2>1
    <3>3. Agree(a, at, Len(a))
      BY <1>1, <2>0, <3>1, <3>2 DEF Agree
    <3>4. CASE Len(a) = m
      <4>1. a = at
        BY <1>1, <2>0, <3>3, <3>4, AgreeEqual
      <4>2. QED
        BY <1>0, <4>1 DEF WayKnown
    <3>5. CASE Len(a) < m
      BY <1>0, <3>3, <3>5 DEF WayKnown
    <3>6. QED
      BY <1>1, <2>0, <3>2, <3>4, <3>5
  <2>2. CASE k \in 1..m /\ k \in DOMAIN levels
    BY <1>2, <1>4, <2>2 DEF Led
  <2>3. QED
    BY <1>6, <2>1, <2>2
<1>11. QED
  BY <1>2, <1>7, <1>8, <1>9, <1>10

LEMMA RootOpen ==
    ASSUME WalkInv, pc = "opening", NEW open, open = <<EntriesOf(Root)>>
    PROVE  /\ open \in Seq(SUBSET Paths) /\ Len(open) = 1 /\ Len(at) = 0
           /\ Left(open) /\ Off(open) /\ New(open) /\ Led(open)
<1>1. at = Root /\ reported = <<>>
  BY DEF WalkInv, NotYet
<1>2. open \in Seq(SUBSET Paths) /\ Len(open) = 1 /\ open[1] = EntriesOf(Root) /\ DOMAIN open = {1}
  BY DEF EntriesOf
<1>3. Len(at) = 0
  BY <1>1 DEF Root
<1>4. Len(Root) = 0
  BY DEF Root
<1>5. \A q \in EntriesOf(Root) : q \in Paths /\ Len(q) = 1
  BY <1>4, EntriesFacts
<1>6. Left(open)
  <2> SUFFICES ASSUME NEW k \in DOMAIN open, NEW q \in open[k]
               PROVE  Len(q) = k /\ Agree(q, at, k - 1)
    BY DEF Left
  <2>1. k = 1 /\ q \in EntriesOf(Root)
    BY <1>2
  <2>2. 1..(k - 1) = {}
    BY <2>1
  <2>3. QED
    BY <1>5, <2>1, <2>2 DEF Agree
<1>7. Off(open) /\ New(open)
  BY <1>1, <1>2 DEF Off, New
<1>8. Led(open)
  <2>1. \A a \in Paths : ~(Len(a) < 1)
    BY PathFacts
  <2>2. QED
    BY <1>2, <2>1 DEF Led
<1>9. QED
  BY <1>2, <1>3, <1>6, <1>7, <1>8

-----------------------------------------------------------------------------
(* The steps. *)

LEMMA Grown ==
    ASSUME Shape, NEW e \in Paths \cup {Root},
           complained' \in {complained, Append(complained, e)}
    PROVE  /\ complained' \in Seq(Paths \cup {Root})
           /\ \A p : IsComplained(p) => IsComplained(p)'
           /\ complained' = Append(complained, e) => IsComplained(e)'
<1>1. complained \in Seq(Paths \cup {Root})
  BY DEF Shape
<1>2. CASE complained' = complained /\ complained # Append(complained, e)
  BY <1>1, <1>2 DEF IsComplained
<1>3. CASE complained' = Append(complained, e)
  <2>1. /\ complained' \in Seq(Paths \cup {Root})
        /\ \A i \in DOMAIN complained : i \in DOMAIN complained' /\ complained'[i] = complained[i]
        /\ Len(complained') \in DOMAIN complained' /\ complained'[Len(complained')] = e
    BY <1>1, <1>3, AppendProperties
  <2>2. QED
    BY <2>1 DEF IsComplained
<1>4. QED
  BY <1>2, <1>3

(* The body of the loop, when it passes nothing on. *)
LEMMA PassedOver ==
    ASSUME WalkInv, pc = "entry", pc' = "stepping", UNCHANGED <<at, levels, reported>>,
           complained' \in {complained, Append(complained, at)},
           Descends' => complained' = Append(complained, at)
    PROVE  WalkInv'
<1>1. Shape /\ Branches /\ Fresh /\ WayKnown /\ FoldersFirst
  BY DEF WalkInv
<1>2. at \in Paths
  BY <1>1 DEF Shape
<1>3. /\ complained' \in Seq(Paths \cup {Root})
      /\ \A p : IsComplained(p) => IsComplained(p)'
      /\ complained' = Append(complained, at) => IsComplained(at)'
  BY <1>1, <1>2, Grown
<1>4. \A p : Known(p) => Known(p)'
  BY <1>3 DEF Known, IsReported
<1>5. Shape'
  BY <1>1, <1>2, <1>3 DEF Shape, Reports
<1>6. Branches'
  BY <1>1 DEF Branches
<1>7. Fresh'
  <2>1. Len(at) \in Nat
    BY <1>1, AtFacts
  <2>2. \A i \in DOMAIN reported : Len(reported[i].path) \in Nat
    BY <1>1, AtFacts, PathFacts
  <2>3. \A i \in DOMAIN reported :
           Len(at) < Len(reported[i].path) => ~Agree(at, reported[i].path, Len(at))
    BY <1>1, <2>1, <2>2 DEF Fresh
  <2>4. QED
    BY <1>1, <2>3 DEF Fresh
<1>8. WayKnown'
  <2>1. \A a \in Paths : Len(a) < Len(at) /\ Agree(a, at, Len(a)) => Known(a)'
    BY <1>1, <1>4 DEF WayKnown
  <2>2. Descends' => Known(at)'
    BY <1>3 DEF Known
  <2>3. QED
    BY <2>1, <2>2 DEF WayKnown
<1>9. NotYet' /\ FoldersFirst'
  BY <1>1, <1>3 DEF NotYet, FoldersFirst
<1>10. QED
  BY <1>5, <1>6, <1>7, <1>8, <1>9 DEF WalkInv

(* The body of the loop, when it reports the entry. *)
LEMMA EntryKeeps == WalkInv /\ Entry => WalkInv'
<1> SUFFICES ASSUME WalkInv, Entry
             PROVE  WalkInv'
  OBVIOUS
<1>1. Shape /\ Branches /\ Fresh /\ WayKnown /\ FoldersFirst
  BY DEF WalkInv
<1>2. /\ pc = "entry" /\ pc' \in {"stepping", "ended"}
      /\ at' = at /\ levels' = levels /\ recursion' = recursion
      /\ complained' \in {complained, Append(complained, at)}
  BY DEF Entry, Report, Complain, iterator
<1>3. at \in Paths /\ Len(at) \in Nat /\ Len(at) >= 1
  BY <1>1, <1>2, PathFacts DEF Shape
<1>4. PICK failed \in Failures(at) : Report(RelativePath(at, failed))
  BY DEF Entry
<1> DEFINE new == [path |-> at, relative |-> RelativePath(at, failed), isDirectory |-> isDir(at)]
           n == Len(reported)
<1>5. new \in Reports
  BY <1>3 DEF Reports, RelativePath, isDir
<1>6. new.path = at
  OBVIOUS
<1>7. reported' = Append(reported, new)
  BY <1>4 DEF Report
<1> HIDE DEF new
<1>8. /\ n \in Nat /\ reported' \in Seq(Reports) /\ Len(reported') = n + 1
      /\ DOMAIN reported = 1..n /\ DOMAIN reported' = 1..(n + 1)
      /\ \A i \in 1..n : reported'[i] = reported[i]
      /\ reported'[n + 1].path = at
  <2>1. reported \in Seq(Reports)
    BY <1>1 DEF Shape
  <2>2. QED
    BY <1>5, <1>6, <1>7, <2>1, AppendProperties
<1>9. /\ complained' \in Seq(Paths \cup {Root})
      /\ \A p : IsComplained(p) => IsComplained(p)'
  BY <1>1, <1>2, <1>3, Grown
<1>10. /\ \A p : IsReported(p) => IsReported(p)'
       /\ IsReported(at)'
  <2>1. \A i \in DOMAIN reported : i \in DOMAIN reported' /\ reported'[i] = reported[i]
    BY <1>8
  <2>2. n + 1 \in DOMAIN reported' /\ reported'[n + 1].path = at'
    BY <1>2, <1>8
  <2>3. QED
    BY <2>1, <2>2 DEF IsReported
<1>11. \A p : Known(p) => Known(p)'
  BY <1>9, <1>10 DEF Known
<1>12. Shape'
  BY <1>1, <1>2, <1>3, <1>8, <1>9 DEF Shape, Reports
<1>13. Branches'
  BY <1>1, <1>2 DEF Branches
<1>14. Fresh'
  <2> SUFFICES ASSUME NEW i \in DOMAIN reported'
               PROVE  LET r == reported'[i].path
                      IN  /\ \A k \in DOMAIN levels : \A q \in levels[k] :
                                k <= Len(r) => ~Agree(q, r, k)
                          /\ Len(at) < Len(r) => ~Agree(at, r, Len(at))
    BY <1>2 DEF Fresh
  <2>1. CASE i \in 1..n
    <3>1. i \in DOMAIN reported /\ reported'[i] = reported[i]
      BY <1>8, <2>1
    <3>2. Len(reported[i].path) \in Nat
      BY <1>1, <3>1, AtFacts, PathFacts
    <3>3. Len(at) < Len(reported[i].path) => ~Agree(at, reported[i].path, Len(at))
      BY <1>1, <1>2, <1>3, <3>1, <3>2 DEF Fresh
    <3>4. QED
      BY <1>1, <3>1, <3>3 DEF Fresh
  <2>2. CASE i = n + 1
    BY <1>1, <1>3, <1>8, <2>2 DEF Branches
  <2>3. QED
    BY <1>8, <2>1, <2>2
<1>15. WayKnown'
  <2>1. \A a \in Paths : Len(a) < Len(at) /\ Agree(a, at, Len(a)) => Known(a)'
    BY <1>1, <1>11 DEF WayKnown
  <2>2. QED
    BY <1>2, <1>10, <2>1 DEF WayKnown, Known
<1>16. NotYet'
  BY <1>2 DEF NotYet
<1>17. FoldersFirst'
  <2> SUFFICES ASSUME NEW i \in DOMAIN reported'
               PROVE  LET folder == Front(reported'[i].path)
                      IN  /\ \A j \in DOMAIN reported' :
                                reported'[j].path = reported'[i].path => i = j
                          /\ \/ folder = Root
                             \/ \E c \in DOMAIN complained' : complained'[c] = folder
                             \/ \E j \in 1..(i - 1) : reported'[j].path = folder
    BY DEF FoldersFirst, IsComplained
  <2>1. \A j \in 1..n : reported[j].path # at
    <3>1. \A j \in 1..n : Len(at) <= Len(reported[j].path) => ~Agree(at, reported[j].path, Len(at))
      BY <1>1, <1>2, <1>8 DEF Fresh
    <3>2. Agree(at, at, Len(at)) /\ Len(at) <= Len(at)
      BY <1>3 DEF Agree
    <3>3. QED
      BY <3>1, <3>2
  <2>2. CASE i \in 1..n
    <3>1. \A j \in 1..(n + 1) : reported'[j].path = reported'[i].path => i = j
      BY <1>1, <1>8, <2>1, <2>2 DEF FoldersFirst
    <3>2. \/ Front(reported[i].path) = Root \/ IsComplained(Front(reported[i].path))
          \/ \E j \in 1..(i - 1) : reported[j].path = Front(reported[i].path)
      BY <1>1, <1>8, <2>2 DEF FoldersFirst
    <3>3. \A p : IsComplained(p) => \E c \in DOMAIN complained' : complained'[c] = p
      BY <1>9 DEF IsComplained
    <3>4. \A j \in 1..(i - 1) : reported'[j] = reported[j]
      BY <1>8, <2>2
    <3>5. QED
      BY <1>8, <2>2, <3>1, <3>2, <3>3, <3>4
  <2>3. CASE i = n + 1
    <3>1. \A j \in 1..(n + 1) : reported'[j].path = reported'[i].path => i = j
      BY <1>8, <2>1, <2>3
    <3>2. CASE Len(at) = 1
      BY <1>3, <1>8, <2>3, <3>1, <3>2, PathFacts
    <3>3. CASE Len(at) > 1
      <4>1. /\ Front(at) \in Paths /\ Len(Front(at)) = Len(at) - 1
            /\ Agree(Front(at), at, Len(Front(at)))
        BY <1>3, <3>3, PathFacts
      <4>2. Known(Front(at))
        BY <1>1, <1>3, <4>1 DEF WayKnown
      <4>3. \/ \E c \in DOMAIN complained' : complained'[c] = Front(at)
            \/ \E j \in 1..n : reported'[j].path = Front(at)
        BY <1>8, <1>9, <4>2 DEF Known, IsReported, IsComplained
      <4>4. i - 1 = n
        BY <1>8, <2>3
      <4>5. QED
        BY <1>8, <2>3, <3>1, <4>3, <4>4
    <3>4. Len(at) = 1 \/ Len(at) > 1
      <4>1. \A m \in Nat : m >= 1 => m = 1 \/ m > 1
        OBVIOUS
      <4>2. QED
        BY <1>3, <4>1, Zenon
    <3>5. QED
      BY <3>2, <3>3, <3>4, Zenon
  <2>4. QED
    BY <1>8, <2>2, <2>3
<1>18. QED
  BY <1>12, <1>13, <1>14, <1>15, <1>16, <1>17 DEF WalkInv

(* Any step of the scan keeps the invariant. *)
LEMMA ScanKeeps == WalkInv /\ ScanStep => WalkInv'
<1> SUFFICES ASSUME WalkInv, ScanStep
             PROVE  WalkInv'
  OBVIOUS
<1>0. Shape
  BY DEF WalkInv
<1>1. CASE OpenRoot
  <2> DEFINE open == <<EntriesOf(Root)>>
  <2>1. pc = "opening" /\ MoveTo(open) /\ UNCHANGED output
    BY <1>1 DEF OpenRoot
  <2>2. /\ open \in Seq(SUBSET Paths) /\ Len(open) <= Len(at) + 1
        /\ Left(open) /\ Off(open) /\ New(open) /\ Led(open)
    BY <2>1, RootOpen
  <2> HIDE DEF open
  <2>3. QED
    BY <2>1, <2>2, MoveOrEnd
<1>2. CASE RootDenied
  BY <1>2, EndKeeps DEF RootDenied, output
<1>3. CASE RootFails
  BY <1>3, EndKeeps DEF RootFails, Complain
<1>4. CASE Advance \/ FolderDenied
  <2>1. pc = "stepping" /\ MoveTo(levels) /\ UNCHANGED output
    BY <1>4 DEF Advance, FolderDenied
  <2>2. levels \in Seq(SUBSET Paths) /\ Len(levels) <= Len(at) + 1
    BY <1>0, AtFacts DEF Shape
  <2>3. QED
    BY <2>1, <2>2, LevelsOpen, MoveOrEnd
<1>5. CASE Descend
  <2>1. pc = "stepping" /\ Descends /\ MoveTo(Append(levels, EntriesOf(at))) /\ UNCHANGED output
    BY <1>5 DEF Descend
  <2>2. Len(at) + 1 <= Len(at) + 1
    BY <1>0, AtFacts
  <2>3. QED
    BY <2>1, <2>2, FolderOpen, MoveOrEnd
<1>6. CASE IncrementFails
  BY <1>6, EndKeeps DEF IncrementFails, output
<1>7. CASE KindUnknown
  BY <1>7, PassedOver DEF KindUnknown, Complain, iterator
<1>8. CASE Skip
  <2>1. /\ pc = "entry" /\ pc' = "stepping" /\ UNCHANGED <<at, levels, reported>>
        /\ complained' = complained
        /\ recursion' = IF isDir(at) THEN "disabled" ELSE recursion
    BY <1>8 DEF Skip, output
  <2>2. ~Descends'
    BY <2>1 DEF Descends, isDir
  <2>3. QED
    BY <2>1, <2>2, PassedOver
<1>9. CASE Entry
  BY <1>9, EntryKeeps
<1>10. QED
  BY <1>1, <1>2, <1>3, <1>4, <1>5, <1>6, <1>7, <1>8, <1>9 DEF ScanStep

LEMMA WalkInitial == Init => WalkInv
<1> SUFFICES ASSUME Init
             PROVE  WalkInv
  OBVIOUS
<1>1. /\ pc \in {"window", "argv"}
      /\ at = Root /\ levels = <<>> /\ reported = <<>> /\ complained = <<>>
  BY DEF Init, NotBegun
<1>2. Len(at) = 0 /\ DOMAIN levels = {} /\ DOMAIN reported = {}
  BY <1>1 DEF Root
<1>3. Shape
  BY <1>1, <1>2 DEF Shape
<1>4. Branches /\ Fresh /\ FoldersFirst
  BY <1>2 DEF Branches, Fresh, FoldersFirst
<1>5. WayKnown /\ NotYet
  <2>1. \A a \in Paths : ~(Len(a) < 0)
    BY PathFacts
  <2>2. QED
    BY <1>1, <1>2, <2>1 DEF WayKnown, NotYet
<1>6. QED
  BY <1>3, <1>4, <1>5 DEF WalkInv

LEMMA WalkInductive == WalkInv /\ [Next]_vars => WalkInv'
<1> SUFFICES ASSUME WalkInv, [Next]_vars
             PROVE  WalkInv'
  OBVIOUS
<1>1. CASE ScanStep
  BY <1>1, ScanKeeps
<1>2. CASE UNCHANGED <<at, levels, recursion, reported, complained>>
          /\ (pc' = pc \/ {pc, pc'} \cap {"entry", "stepping", "ended"} = {})
  <2>1. Shape /\ Branches /\ Fresh /\ WayKnown /\ NotYet /\ FoldersFirst
    BY DEF WalkInv
  <2>2. Shape'
    BY <1>2, <2>1 DEF Shape, Reports
  <2>3. Branches' /\ Fresh'
    BY <1>2, <2>1 DEF Branches, Fresh
  <2>4. WayKnown' /\ NotYet'
    BY <1>2, <2>1 DEF WayKnown, NotYet, Known, IsReported, IsComplained, Descends
  <2>5. FoldersFirst'
    BY <1>2, <2>1 DEF FoldersFirst, IsComplained
  <2>6. QED
    BY <2>2, <2>3, <2>4, <2>5 DEF WalkInv
<1>3. CASE IndexLine \/ SearchLine \/ StopLine \/ StartProgram \/ Parse \/ BeginScan
  BY <1>2, <1>3 DEF IndexLine, SearchLine, StopLine, StartProgram, Parse, BeginScan, Goes
<1>4. CASE UNCHANGED vars
  BY <1>2, <1>4 DEF vars, scan, iterator, output
<1>5. QED
  BY <1>1, <1>3, <1>4 DEF Next

(* No entry is reported twice, and a folder comes before what is in it unless its own report
   was an error, for every tree, every command and any number of faults: scan() never goes
   into a folder that it has not passed on. *)
THEOREM FoldersComeFirst == Spec => []FoldersFirst
<1>1. WalkInv => FoldersFirst
  BY DEF WalkInv
<1>2. QED
  BY WalkInitial, WalkInductive, <1>1, PTL DEF Spec

-----------------------------------------------------------------------------
(* Paths and the folders above them. *)

LEMMA Beginning ==
    ASSUME NEW p \in Paths, NEW n \in 0..Len(p)
    PROVE  /\ SubSeq(p, 1, n) \in Seq(Text) /\ Len(SubSeq(p, 1, n)) = n
           /\ \A i \in 1..n : SubSeq(p, 1, n)[i] = p[i]
<1>1. p \in Seq(Text) /\ Len(p) \in Nat /\ DOMAIN p = 1..Len(p)
  BY PathFacts
<1>2. n \in Nat /\ n \in Int /\ 1 \in Int /\ \A i \in 1..n : i \in 1..Len(p)
  BY <1>1
<1>3. \A i \in 1..n : p[i] \in Text
  BY <1>1, <1>2, ElementOfSeq
<1>4. /\ SubSeq(p, 1, n) \in Seq(Text)
      /\ Len(SubSeq(p, 1, n)) = IF 1 <= n THEN n - 1 + 1 ELSE 0
      /\ \A i \in 1..(n - 1 + 1) : SubSeq(p, 1, n)[i] = p[1 + i - 1]
  BY <1>2, <1>3, SubSeqProperties
<1>5. \A m \in Nat : (IF 1 <= m THEN m - 1 + 1 ELSE 0) = m /\ m - 1 + 1 = m
  OBVIOUS
<1>6. \A i \in 1..n : 1 + i - 1 = i
  OBVIOUS
<1>7. QED
  BY <1>2, <1>4, <1>5, <1>6, Zenon

(* Each part of the way to an entry is an entry, and a folder unless it is the entry itself. *)
LEMMA WayOfFolders ==
    ASSUME NEW p \in Paths, NEW n \in 1..Len(p)
    PROVE  SubSeq(p, 1, n) \in Paths /\ (n < Len(p) => Kind[SubSeq(p, 1, n)] = "folder")
<1> DEFINE Way(d) == \A q \in Paths : \A k \in 1..Len(q) : Len(q) - k = d =>
                        SubSeq(q, 1, k) \in Paths /\ (k < Len(q) => Kind[SubSeq(q, 1, k)] = "folder")
           T == {d \in Nat : Way(d)}
<1>1. Way(0)
  <2> SUFFICES ASSUME NEW q \in Paths, NEW k \in 1..Len(q), Len(q) - k = 0
               PROVE  SubSeq(q, 1, k) \in Paths /\ ~(k < Len(q))
    OBVIOUS
  <2>1. Len(q) \in Nat /\ k = Len(q) /\ q \in Seq(Text)
    BY PathFacts
  <2>2. /\ SubSeq(q, 1, k) \in Seq(Text) /\ Len(SubSeq(q, 1, k)) = k
        /\ \A i \in 1..k : SubSeq(q, 1, k)[i] = q[i]
    BY <2>1, Beginning
  <2>3. SubSeq(q, 1, k) = q
    BY <2>1, <2>2, SeqEqual
  <2>4. ~(k < Len(q))
    <3>1. \A m \in Nat : ~(m < m)
      OBVIOUS
    <3>2. QED
      BY <2>1, <3>1, Zenon
  <2>5. QED
    BY <2>3, <2>4, Zenon
<1>2. ASSUME NEW d \in Nat, Way(d)
      PROVE  Way(d + 1)
  <2> SUFFICES ASSUME NEW q \in Paths, NEW k \in 1..Len(q), Len(q) - k = d + 1
               PROVE  SubSeq(q, 1, k) \in Paths /\ Kind[SubSeq(q, 1, k)] = "folder"
    OBVIOUS
  <2> DEFINE f == Front(q)
  <2>1. Len(q) \in Nat /\ Len(q) > 1 /\ k \in 0..Len(q)
    BY PathFacts
  <2>2. /\ f \in Paths /\ Len(f) = Len(q) - 1 /\ Kind[f] = "folder"
        /\ \A i \in 1..Len(f) : f[i] = q[i]
    BY <2>1, PathFacts, ScannerAssumption DEF Agree
  <2> HIDE DEF f
  <2>3. k \in 1..Len(f) /\ k \in 0..Len(f) /\ Len(f) - k = d
    BY <2>1, <2>2
  <2>4. /\ SubSeq(q, 1, k) \in Seq(Text) /\ Len(SubSeq(q, 1, k)) = k
        /\ \A i \in 1..k : SubSeq(q, 1, k)[i] = q[i]
    BY <2>1, Beginning
  <2>5. /\ SubSeq(f, 1, k) \in Seq(Text) /\ Len(SubSeq(f, 1, k)) = k
        /\ \A i \in 1..k : SubSeq(f, 1, k)[i] = f[i]
    BY <2>2, <2>3, Beginning
  <2>6. \A i \in 1..k : i \in 1..Len(f)
    BY <2>3
  <2>7. SubSeq(q, 1, k) = SubSeq(f, 1, k)
    BY <2>2, <2>4, <2>5, <2>6, SeqEqual
  <2>8. SubSeq(f, 1, k) \in Paths /\ (k < Len(f) => Kind[SubSeq(f, 1, k)] = "folder")
    BY <1>2, <2>2, <2>3
  <2>9. CASE k = Len(f)
    <3>1. f \in Seq(Text)
      BY <2>2, PathFacts
    <3>2. SubSeq(f, 1, k) = f
      BY <2>5, <2>9, <3>1, SeqEqual
    <3>3. QED
      BY <2>2, <2>7, <2>8, <3>2
  <2>10. CASE k < Len(f)
    BY <2>7, <2>8, <2>10
  <2>11. Len(f) \in Nat
    BY <2>2, PathFacts
  <2>12. QED
    BY <2>3, <2>9, <2>10, <2>11
<1>3. T \in SUBSET Nat /\ 0 \in T /\ \A d \in T : d + 1 \in T
  <2> HIDE DEF Way
  <2>1. QED
    BY <1>1, <1>2
<1>4. T = Nat
  <2> HIDE DEF T
  <2>1. QED
    BY <1>3, SetInduction
<1>5. Len(p) \in Nat /\ Len(p) - n \in Nat
  BY PathFacts
<1>6. Way(Len(p) - n)
  <2> HIDE DEF Way
  <2>1. QED
    BY <1>4, <1>5
<1>7. QED
  BY <1>6

LEMMA AboveFacts ==
    ASSUME NEW p \in Paths, NEW a \in Above(p) \ {Root}
    PROVE  a \in Paths /\ Kind[a] = "folder" /\ Len(a) < Len(p) /\ Agree(a, p, Len(a))
<1>1. PICK n \in 0..(Len(p) - 1) : a = SubSeq(p, 1, n)
  BY DEF Above
<1>2. Len(p) \in Nat /\ n \in 0..Len(p) /\ n < Len(p)
  BY PathFacts
<1>3. a \in Seq(Text) /\ Len(a) = n /\ \A i \in 1..n : a[i] = p[i]
  BY <1>1, <1>2, Beginning
<1>4. n # 0
  BY <1>3 DEF Root
<1>5. n \in 1..Len(p)
  BY <1>2, <1>4
<1>6. QED
  BY <1>1, <1>2, <1>3, <1>5, WayOfFolders DEF Agree

(* What an entry agrees with up to its end lies above it. *)
LEMMA LiesAbove ==
    ASSUME NEW p \in Paths, NEW q \in Paths, Len(q) < Len(p), Agree(q, p, Len(q))
    PROVE  q \in Above(p) \ {Root} /\ Kind[q] = "folder"
<1> DEFINE n == Len(q)
<1>1. n \in Nat /\ n >= 1 /\ Len(p) \in Nat /\ q \in Seq(Text)
  BY PathFacts
<1>2. n \in 1..Len(p) /\ n \in 0..Len(p) /\ n \in 0..(Len(p) - 1)
  BY <1>1
<1>3. /\ SubSeq(p, 1, n) \in Seq(Text) /\ Len(SubSeq(p, 1, n)) = n
      /\ \A i \in 1..n : SubSeq(p, 1, n)[i] = p[i]
  BY <1>2, Beginning
<1>4. q = SubSeq(p, 1, n)
  BY <1>1, <1>3, SeqEqual DEF Agree
<1>5. q # Root
  BY <1>1 DEF Root
<1>6. QED
  BY <1>2, <1>4, <1>5, WayOfFolders DEF Above

-----------------------------------------------------------------------------
(* What the walk covers. *)

(* The entry is in a directory that is left, or in what is left there. *)
Waits(open, p) == \E k \in DOMAIN open : \E q \in open[k] : k <= Len(p) /\ Agree(q, p, k)

(* Nothing of the directories is lost when the iterator moves. *)
LEMMA MovedAll ==
    ASSUME NEW open \in Seq(SUBSET Paths), Left(open), MoveTo(open), pc' # "ended"
    PROVE  /\ pc' = "entry" /\ recursion' = "pending" /\ UNCHANGED outcome
           /\ \A k \in DOMAIN open : \A q \in open[k] :
                 \/ q = at' /\ k = Len(at')
                 \/ k \in DOMAIN levels' /\ q \in levels'[k]
<1>0. PICK top \in DOMAIN open : \E p \in open[top] :
        /\ \A k \in {k \in DOMAIN open : open[k] # {}} : k <= top
        /\ pc' = "entry"
        /\ at' = p
        /\ levels' = Append(SubSeq(open, 1, top - 1), open[top] \ {p})
        /\ recursion' = "pending"
        /\ UNCHANGED outcome
  BY DEF MoveTo
<1>1. PICK p \in open[top] :
        /\ \A k \in {k \in DOMAIN open : open[k] # {}} : k <= top
        /\ pc' = "entry"
        /\ at' = p
        /\ levels' = Append(SubSeq(open, 1, top - 1), open[top] \ {p})
        /\ recursion' = "pending"
        /\ UNCHANGED outcome
  BY <1>0
<1>2. top \in 1..Len(open) /\ DOMAIN open = 1..Len(open)
  BY <1>0
<1>3. Len(p) = top
  BY <1>1, <1>2 DEF Left
<1>4. /\ SubSeq(open, 1, top - 1) \in Seq(SUBSET Paths)
      /\ Len(SubSeq(open, 1, top - 1)) = top - 1
      /\ \A k \in 1..(top - 1) : SubSeq(open, 1, top - 1)[k] = open[k]
  <2>1. \A k \in 1..(top - 1) : open[k] \in SUBSET Paths
    BY <1>2
  <2>2. 1 \in Int /\ top - 1 \in Int
    BY <1>2
  <2>3. QED
    BY <1>2, <2>1, <2>2, SubSeqProperties
<1>5. open[top] \ {p} \in SUBSET Paths
  BY <1>2
<1>6. /\ DOMAIN levels' = 1..top
      /\ \A k \in 1..(top - 1) : levels'[k] = open[k]
      /\ levels'[top] = open[top] \ {p}
  BY <1>1, <1>2, <1>4, <1>5, AppendProperties
<1>7. ASSUME NEW k \in DOMAIN open, NEW q \in open[k]
      PROVE  \/ q = at' /\ k = Len(at')
             \/ k \in DOMAIN levels' /\ q \in levels'[k]
  <2>1. k <= top
    BY <1>1
  <2>2. CASE k < top
    BY <1>2, <1>6, <2>2
  <2>3. CASE k = top
    BY <1>1, <1>2, <1>3, <1>6, <2>3
  <2>4. QED
    BY <1>2, <2>1, <2>2, <2>3
<1>8. QED
  BY <1>1, <1>7

LEMMA MoveCovers ==
    ASSUME NEW open \in Seq(SUBSET Paths), Left(open), MoveTo(open), outcome = "none",
           \A p \in Paths : Settled(p)' \/ Waits(open, p)
    PROVE  Coverage'
<1>1. CASE pc' = "ended"
  <2>1. /\ {k \in DOMAIN open : open[k] # {}} = {} /\ outcome' = "finished"
    BY <1>1 DEF MoveTo
  <2>2. \A p \in Paths : ~Waits(open, p)
    BY <2>1 DEF Waits
  <2>3. QED
    BY <1>1, <2>1, <2>2 DEF Coverage
<1>2. CASE pc' # "ended"
  <2>1. /\ pc' = "entry" /\ recursion' = "pending" /\ UNCHANGED outcome
        /\ \A k \in DOMAIN open : \A q \in open[k] :
              \/ q = at' /\ k = Len(at')
              \/ k \in DOMAIN levels' /\ q \in levels'[k]
    BY <1>2, MovedAll
  <2>2. ASSUME NEW p \in Paths, Waits(open, p)
        PROVE  Ahead(p)'
    <3>1. PICK k \in DOMAIN open : \E q \in open[k] : k <= Len(p) /\ Agree(q, p, k)
      BY <2>2 DEF Waits
    <3>2. PICK q \in open[k] : k <= Len(p) /\ Agree(q, p, k)
      BY <3>1
    <3>3. CASE q = at' /\ k = Len(at')
      BY <2>1, <3>2, <3>3 DEF Ahead
    <3>4. CASE k \in DOMAIN levels' /\ q \in levels'[k]
      BY <3>2, <3>4 DEF Ahead
    <3>5. QED
      BY <2>1, <3>3, <3>4
  <2>3. QED
    BY <2>1, <2>2 DEF Coverage
<1>3. QED
  BY <1>1, <1>2

(* What is settled stays so. *)
LEMMA SettledStays ==
    ASSUME \A p : Known(p) => Known(p)', denied \subseteq denied', UNCHANGED config
    PROVE  \A p \in Paths : Settled(p) => Settled(p)'
<1>1. \A p : Excluded(p) <=> Excluded(p)'
  BY DEF Excluded
<1>2. QED
  BY <1>1 DEF Settled

LEMMA KnownStays ==
    ASSUME Shape, UNCHANGED reported, NEW e \in Paths \cup {Root},
           complained' \in {complained, Append(complained, e)}
    PROVE  /\ \A p : Known(p) => Known(p)'
           /\ complained' = Append(complained, e) => Known(e)'
<1>1. /\ \A p : IsComplained(p) => IsComplained(p)'
      /\ complained' = Append(complained, e) => IsComplained(e)'
  BY Grown
<1>2. QED
  BY <1>1 DEF Known, IsReported

LEMMA RootCovers ==
    ASSUME NEW open, open = <<EntriesOf(Root)>>, NEW p \in Paths
    PROVE  Waits(open, p)
<1> DEFINE q == SubSeq(p, 1, 1)
<1>1. Len(p) \in Nat /\ Len(p) >= 1 /\ 1 \in 1..Len(p) /\ 1 \in 0..Len(p)
  BY PathFacts
<1>2. q \in Paths /\ Len(q) = 1 /\ Agree(q, p, 1)
  BY <1>1, WayOfFolders, Beginning DEF Agree
<1> HIDE DEF q
<1>3. Front(q) = Root
  BY <1>2, PathFacts
<1>4. q \in EntriesOf(Root)
  BY <1>2, <1>3 DEF EntriesOf
<1>5. DOMAIN open = {1} /\ open[1] = EntriesOf(Root)
  OBVIOUS
<1>6. QED
  BY <1>1, <1>2, <1>4, <1>5 DEF Waits

(* What is below the folder that the iterator goes into lies in its new directory. *)
LEMMA FolderCovers ==
    ASSUME Shape, at \in Paths, NEW open, open = Append(levels, EntriesOf(at)),
           NEW p \in Paths, Len(at) < Len(p), Agree(at, p, Len(at))
    PROVE  Waits(open, p)
<1> DEFINE m == Len(at)
           q == SubSeq(p, 1, m + 1)
<1>1. m \in Nat /\ m >= 1 /\ at \in Seq(Text) /\ Len(p) \in Nat
  BY PathFacts
<1>2. m + 1 \in 1..Len(p) /\ m + 1 \in 0..Len(p)
  BY <1>1
<1>3. q \in Paths /\ Len(q) = m + 1 /\ Agree(q, p, m + 1)
  BY <1>2, WayOfFolders, Beginning DEF Agree
<1> HIDE DEF q
<1>4. Front(q) = at
  <2>1. /\ Front(q) \in Seq(Text) /\ Len(Front(q)) = m
        /\ Agree(Front(q), q, m)
    BY <1>1, <1>3, PathFacts
  <2>2. Agree(Front(q), at, m)
    <3>1. \A i \in 1..m : i \in 1..(m + 1)
      BY <1>1
    <3>2. /\ \A i \in 1..m : Front(q)[i] = q[i] /\ at[i] = p[i]
          /\ \A i \in 1..(m + 1) : q[i] = p[i]
      BY <1>3, <2>1 DEF Agree
    <3>3. QED
      BY <3>1, <3>2, Zenon DEF Agree
  <2>3. QED
    BY <1>1, <2>1, <2>2, AgreeEqual
<1>5. q \in EntriesOf(at)
  BY <1>3, <1>4 DEF EntriesOf
<1>6. DOMAIN open = 1..(m + 1) /\ open[m + 1] = EntriesOf(at)
  <2>1. EntriesOf(at) \in SUBSET Paths
    BY DEF EntriesOf
  <2>2. levels \in Seq(SUBSET Paths) /\ Len(levels) = m
    BY DEF Shape
  <2>3. QED
    BY <2>1, <2>2, AppendProperties
<1>7. m + 1 \in DOMAIN open /\ m + 1 <= Len(p)
  BY <1>1, <1>2, <1>6
<1>8. QED
  BY <1>3, <1>5, <1>6, <1>7 DEF Waits

-----------------------------------------------------------------------------
(* The steps that keep Coverage. *)

(* From what is known of an entry ahead to where it waits when the directories stay. *)
LEMMA AdvanceCovers ==
    ASSUME pc = "stepping", NEW p \in Paths, Ahead(p)
    PROVE  \/ Waits(levels, p)
           \/ Descends /\ Len(at) < Len(p) /\ Agree(at, p, Len(at))
BY DEF Ahead, Waits

(* The body of the loop: whatever it does with the entry, the entry is settled, and what
   is below it is so too or is where the iterator goes next. *)
LEMMA BodyCovers ==
    ASSUME Shape, Coverage, pc = "entry", pc' = "stepping", UNCHANGED <<at, levels, outcome>>,
           \A p \in Paths : Settled(p) => Settled(p)',
           Settled(at)',
           recursion' = recursion \/ Excluded(at)'
    PROVE  Coverage'
<1>1. at \in Paths /\ Len(at) \in Nat /\ at \in Seq(Text) /\ recursion = "pending"
  BY PathFacts DEF Shape, Coverage
<1>2. ASSUME NEW p \in Paths
      PROVE  Settled(p)' \/ Ahead(p)'
  <2>0. Len(p) \in Nat /\ p \in Seq(Text)
    BY PathFacts
  <2>1. Settled(p) \/ Ahead(p)
    BY DEF Coverage
  <2>2. CASE Settled(p)
    BY <2>2
  <2>3. CASE \E k \in DOMAIN levels : \E q \in levels[k] : k <= Len(p) /\ Agree(q, p, k)
    BY <2>3 DEF Ahead
  <2>4. CASE Len(at) <= Len(p) /\ Agree(at, p, Len(at))
    <3>1. CASE Len(at) = Len(p)
      <4>1. p = at
        BY <1>1, <2>0, <2>4, <3>1, AgreeEqual
      <4>2. QED
        BY <4>1
    <3>2. CASE Len(at) < Len(p)
      <4>1. at \in Above(p) \ {Root} /\ Kind[at] = "folder"
        BY <1>1, <2>4, <3>2, LiesAbove
      <4>2. CASE recursion' = recursion
        <5>1. Descends'
          BY <1>1, <4>1, <4>2 DEF Descends
        <5>2. QED
          BY <2>4, <3>2, <5>1 DEF Ahead
      <4>3. CASE Excluded(at)'
        BY <4>1, <4>3 DEF Settled, Above
      <4>4. QED
        BY <4>2, <4>3
    <3>3. QED
      BY <1>1, <2>0, <2>4, <3>1, <3>2
  <2>5. QED
    BY <2>1, <2>2, <2>3, <2>4 DEF Ahead
<1>3. QED
  BY <1>2 DEF Coverage

(* What Entry reports. *)
LEMMA EntryReports ==
    ASSUME Shape, Entry
    PROVE  /\ \A p : IsReported(p) => IsReported(p)'
           /\ IsReported(at)'
           /\ \A i \in DOMAIN reported' : \/ i \in DOMAIN reported /\ reported'[i] = reported[i]
                                          \/ reported'[i].path = at
<1>1. at \in Paths /\ at' = at
  BY DEF Entry, Shape, iterator
<1>2. PICK failed \in Failures(at) : Report(RelativePath(at, failed))
  BY DEF Entry
<1> DEFINE new == [path |-> at, relative |-> RelativePath(at, failed), isDirectory |-> isDir(at)]
           n == Len(reported)
<1>3. new \in Reports
  BY <1>1 DEF Reports, RelativePath, isDir
<1>4. new.path = at
  OBVIOUS
<1>5. reported' = Append(reported, new)
  BY <1>2 DEF Report
<1> HIDE DEF new
<1>6. /\ n \in Nat /\ DOMAIN reported = 1..n /\ DOMAIN reported' = 1..(n + 1)
      /\ \A i \in 1..n : reported'[i] = reported[i]
      /\ reported'[n + 1] = new
  <2>1. reported \in Seq(Reports)
    BY DEF Shape
  <2>2. QED
    BY <1>3, <1>5, <2>1, AppendProperties
<1>7. \A i \in 1..(n + 1) : i \in 1..n \/ i = n + 1
  BY <1>6
<1>8. /\ \A i \in DOMAIN reported : i \in DOMAIN reported'
      /\ n + 1 \in DOMAIN reported' /\ reported'[n + 1].path = at
  BY <1>4, <1>6
<1>9. \A p : IsReported(p) => IsReported(p)'
  BY <1>6, <1>8 DEF IsReported
<1>10. IsReported(at)'
  BY <1>1, <1>8 DEF IsReported
<1>11. QED
  BY <1>4, <1>6, <1>7, <1>9, <1>10

LEMMA CoverageKept == WalkInv /\ Coverage /\ ScanStep /\ UNCHANGED config => Coverage'
<1> SUFFICES ASSUME WalkInv, Coverage, ScanStep, UNCHANGED config
             PROVE  Coverage'
  OBVIOUS
<1>0. Shape
  BY DEF WalkInv
<1>1. CASE OpenRoot
  <2> DEFINE open == <<EntriesOf(Root)>>
  <2>1. pc = "opening" /\ MoveTo(open) /\ outcome = "none"
    BY <1>1 DEF OpenRoot, Coverage
  <2>2. open \in Seq(SUBSET Paths) /\ Left(open)
    BY <2>1, RootOpen
  <2> HIDE DEF open
  <2>3. \A p \in Paths : Waits(open, p)
    BY RootCovers DEF open
  <2>4. QED
    BY <2>1, <2>2, <2>3, MoveCovers
<1>2. CASE RootDenied
  <2>1. pc' = "ended" /\ outcome' = "finished" /\ denied' = {Root}
    BY <1>2 DEF RootDenied
  <2>2. ASSUME NEW p \in Paths PROVE Root \in Above(p)
    <3>1. Len(p) \in Nat /\ Len(p) >= 1 /\ 0 \in 0..Len(p) /\ 0 \in 0..(Len(p) - 1)
      BY PathFacts
    <3>2. SubSeq(p, 1, 0) = Root
      BY <3>1, Beginning DEF Root
    <3>3. QED
      BY <3>1, <3>2 DEF Above
  <2>3. \A p \in Paths : Settled(p)'
    BY <2>1, <2>2 DEF Settled, Above
  <2>4. QED
    BY <2>1, <2>3 DEF Coverage
<1>3. CASE RootFails \/ IncrementFails
  BY <1>3 DEF RootFails, IncrementFails, Coverage
<1>4. CASE Advance \/ Descend \/ FolderDenied
  <2>1. /\ pc = "stepping" /\ UNCHANGED output /\ outcome = "none" /\ denied \subseteq denied'
        /\ at \in Paths
    BY <1>0, <1>4 DEF Advance, Descend, FolderDenied, Coverage, Shape
  <2>2. \A p \in Paths : Settled(p) => Settled(p)'
    BY <2>1, SettledStays DEF output, Known, IsReported, IsComplained
  <2>3. \A p \in Paths : \/ Settled(p)
                         \/ Waits(levels, p)
                         \/ Descends /\ Len(at) < Len(p) /\ Agree(at, p, Len(at))
    BY <2>1, AdvanceCovers DEF Coverage
  <2>4. levels \in Seq(SUBSET Paths) /\ Left(levels)
    BY <1>0, <2>1, LevelsOpen DEF Shape
  <2>5. CASE Advance
    <3>1. \A p \in Paths : Settled(p)' \/ Waits(levels, p)
      BY <2>2, <2>3, <2>5 DEF Advance
    <3>2. QED
      BY <2>1, <2>4, <2>5, <3>1, MoveCovers DEF Advance
  <2>6. CASE Descend
    <3> DEFINE open == Append(levels, EntriesOf(at))
    <3>1. Descends /\ MoveTo(open)
      BY <2>6 DEF Descend
    <3>2. open \in Seq(SUBSET Paths) /\ Left(open)
      BY <2>1, <3>1, FolderOpen
    <3>3. ASSUME NEW p \in Paths, Waits(levels, p) PROVE Waits(open, p)
      <4>1. \A k \in DOMAIN levels : k \in DOMAIN open /\ open[k] = levels[k]
        <5>1. EntriesOf(at) \in SUBSET Paths
          BY DEF EntriesOf
        <5>2. QED
          BY <2>4, <5>1, AppendProperties
      <4> HIDE DEF open
      <4>2. QED
        BY <3>3, <4>1 DEF Waits
    <3> HIDE DEF open
    <3>4. ASSUME NEW p \in Paths, Len(at) < Len(p), Agree(at, p, Len(at)) PROVE Waits(open, p)
      BY <1>0, <2>1, <3>4, FolderCovers DEF open
    <3>5. \A p \in Paths : Settled(p)' \/ Waits(open, p)
      BY <2>2, <2>3, <3>3, <3>4
    <3>6. QED
      BY <2>1, <3>1, <3>2, <3>5, MoveCovers
  <2>7. CASE FolderDenied
    <3>1. MoveTo(levels) /\ denied' = denied \cup {at}
      BY <2>7 DEF FolderDenied
    <3>2. ASSUME NEW p \in Paths, Len(at) < Len(p), Agree(at, p, Len(at)) PROVE Settled(p)'
      <4>1. at \in Above(p)
        BY <2>1, <3>2, LiesAbove
      <4>2. QED
        BY <3>1, <4>1 DEF Settled, Above
    <3>3. \A p \in Paths : Settled(p)' \/ Waits(levels, p)
      BY <2>2, <2>3, <3>2
    <3>4. QED
      BY <2>1, <2>4, <3>1, <3>3, MoveCovers
  <2>8. QED
    BY <1>4, <2>5, <2>6, <2>7
<1>5. CASE KindUnknown
  <2>1. /\ pc = "entry" /\ pc' = "stepping" /\ UNCHANGED <<at, levels, recursion, outcome, reported, denied>>
        /\ complained' = Append(complained, at)
    BY <1>5 DEF KindUnknown, Complain, iterator
  <2>2. at \in Paths /\ \A p : Known(p) => Known(p)'
    BY <1>0, <2>1, KnownStays DEF Shape
  <2>3. Known(at)'
    BY <1>0, <2>1, <2>2, KnownStays
  <2>4. \A p \in Paths : Settled(p) => Settled(p)'
    BY <2>1, <2>2, SettledStays
  <2>5. Settled(at)'
    BY <2>3 DEF Settled
  <2>6. QED
    BY <1>0, <2>1, <2>4, <2>5, BodyCovers
<1>6. CASE Skip
  <2>1. /\ pc = "entry" /\ pc' = "stepping" /\ UNCHANGED <<at, levels, outcome, output, denied>>
        /\ Excluded(at)
    BY <1>6 DEF Skip
  <2>2. \A p \in Paths : Settled(p) => Settled(p)'
    BY <2>1, SettledStays DEF output, Known, IsReported, IsComplained
  <2>3. Excluded(at)'
    BY <2>1 DEF Excluded
  <2>4. Settled(at)'
    BY <2>3 DEF Settled
  <2>5. QED
    BY <1>0, <2>1, <2>2, <2>3, <2>4, BodyCovers
<1>7. CASE Entry
  <2>1. /\ pc = "entry" /\ UNCHANGED <<at, levels, recursion, denied>>
        /\ complained' \in {complained, Append(complained, at)}
        /\ \/ pc' = "stepping" /\ UNCHANGED outcome
           \/ pc' = "ended" /\ outcome' = "stopped"
    BY <1>7 DEF Entry, Report, Complain, iterator
  <2>2. at \in Paths
    BY <1>0, <2>1 DEF Shape
  <2>3. (\A p : IsReported(p) => IsReported(p)') /\ IsReported(at)'
    BY <1>0, <1>7, EntryReports
  <2>4. \A p : IsComplained(p) => IsComplained(p)'
    BY <1>0, <2>1, <2>2, Grown
  <2>5. \A p : Known(p) => Known(p)'
    BY <2>3, <2>4 DEF Known
  <2>6. \A p \in Paths : Settled(p) => Settled(p)'
    BY <2>1, <2>5, SettledStays
  <2>7. Settled(at)'
    BY <2>3 DEF Settled, Known
  <2>8. CASE pc' = "stepping" /\ UNCHANGED outcome
    BY <1>0, <2>1, <2>6, <2>7, <2>8, BodyCovers
  <2>9. CASE pc' = "ended" /\ outcome' = "stopped"
    BY <2>9 DEF Coverage
  <2>10. QED
    BY <2>1, <2>8, <2>9
<1>8. QED
  BY <1>1, <1>2, <1>3, <1>4, <1>5, <1>6, <1>7 DEF ScanStep

-----------------------------------------------------------------------------
(* The steps that keep RulesKept. *)

LEMMA FailuresCount ==
    ASSUME NEW p, NEW failed \in Failures(p)
    PROVE  /\ Cardinality(failed) \in Nat /\ faults + Cardinality(failed) <= MaxFaults
           /\ Excluded(p) => Cardinality(failed) > 0
<1>1. failed \in SUBSET {"kind", "relative", "size"}
  BY DEF Failures
<1>2. IsFiniteSet({"kind", "relative", "size"})
  <2>1. IsFiniteSet({"kind"} \cup {"relative"} \cup {"size"})
    BY FS_EmptySet, FS_AddElement, FS_Singleton
  <2>2. {"kind", "relative", "size"} = {"kind"} \cup {"relative"} \cup {"size"}
    OBVIOUS
  <2>3. QED
    BY <2>1, <2>2
<1>3. IsFiniteSet(failed) /\ Cardinality(failed) \in Nat
  BY <1>1, <1>2, FS_Subset, FS_CardinalityType
<1>4. faults + Cardinality(failed) <= MaxFaults /\ (Excluded(p) => "kind" \in failed)
  BY DEF Failures
<1>5. Cardinality(failed) = 0 => failed = {}
  BY <1>3, FS_EmptySet
<1>6. QED
  BY <1>3, <1>4, <1>5

LEMMA RulesStay ==
    ASSUME RulesKept, UNCHANGED <<config, reported>>, faults' \in 0..MaxFaults, faults <= faults',
           \A p : Known(p) => Known(p)'
    PROVE  RulesKept'
<1>1. faults \in Int /\ faults' \in Int /\ (faults > 0 => faults' > 0)
  BY DEF RulesKept
<1>2. ASSUME NEW i \in DOMAIN reported'
      PROVE  /\ Excluded(reported[i].path)' => faults' > 0
             /\ \A a \in Above(reported[i].path) \ {Root} : Known(a)'
  BY <1>1 DEF RulesKept, Excluded
<1>3. QED
  BY <1>2 DEF RulesKept, Above

LEMMA RulesStep == WalkInv /\ RulesKept /\ ScanStep /\ UNCHANGED config => RulesKept'
<1> SUFFICES ASSUME WalkInv, RulesKept, ScanStep, UNCHANGED config
             PROVE  RulesKept'
  OBVIOUS
<1>0. Shape /\ WayKnown /\ faults \in 0..MaxFaults /\ MaxFaults \in Nat
  BY ScannerAssumption DEF WalkInv, RulesKept
<1>1. Fault => faults' \in 0..MaxFaults /\ faults <= faults'
  BY <1>0 DEF Fault
<1>2. faults' = faults => faults' \in 0..MaxFaults /\ faults <= faults'
  BY <1>0
<1>3. CASE OpenRoot \/ RootDenied \/ Advance \/ Descend \/ FolderDenied \/ IncrementFails \/ Skip
  <2>1. UNCHANGED output /\ (Fault \/ faults' = faults)
    BY <1>3 DEF OpenRoot, RootDenied, Advance, Descend, FolderDenied, IncrementFails, Skip
  <2>2. \A p : Known(p) => Known(p)'
    BY <2>1 DEF output, Known, IsReported, IsComplained
  <2>3. QED
    BY <1>1, <1>2, <2>1, <2>2, RulesStay DEF output
<1>4. CASE RootFails
  BY <1>0, <1>1, <1>4, KnownStays, RulesStay DEF RootFails, Complain
<1>5. CASE KindUnknown
  BY <1>0, <1>1, <1>5, KnownStays, RulesStay DEF KindUnknown, Complain, Shape
<1>6. CASE Entry
  <2>1. at \in Paths /\ complained' \in {complained, Append(complained, at)}
    BY <1>0, <1>6 DEF Entry, Shape, Complain
  <2>2. /\ \A p : IsReported(p) => IsReported(p)'
        /\ \A i \in DOMAIN reported' : \/ i \in DOMAIN reported /\ reported'[i] = reported[i]
                                       \/ reported'[i].path = at
    BY <1>0, <1>6, EntryReports
  <2>3. \A p : Known(p) => Known(p)'
    BY <1>0, <2>1, <2>2, Grown DEF Known
  <2>4. PICK failed \in Failures(at) : faults' = faults + Cardinality(failed)
    BY <1>6 DEF Entry
  <2>5. /\ Cardinality(failed) \in Nat /\ faults + Cardinality(failed) <= MaxFaults
        /\ Excluded(at) => Cardinality(failed) > 0
    BY <2>4, FailuresCount
  <2>6. faults' \in 0..MaxFaults /\ faults <= faults' /\ (Excluded(at) => faults' > 0)
        /\ (faults > 0 => faults' > 0)
    BY <1>0, <2>4, <2>5
  <2>7. ASSUME NEW i \in DOMAIN reported'
        PROVE  /\ Excluded(reported[i].path)' => faults' > 0
               /\ \A a \in Above(reported'[i].path) \ {Root} : Known(a)'
    <3>1. CASE i \in DOMAIN reported /\ reported'[i] = reported[i]
      BY <2>3, <2>6, <3>1 DEF RulesKept, Excluded
    <3>2. CASE reported'[i].path = at
      <4>1. \A a \in Above(at) \ {Root} : Known(a)
        BY <1>0, <2>1, AboveFacts DEF WayKnown
      <4>2. Excluded(reported[i].path)' <=> Excluded(at)
        BY <3>2 DEF Excluded
      <4>3. QED
        BY <2>3, <2>6, <3>2, <4>1, <4>2
    <3>3. QED
      BY <2>2, <3>1, <3>2
  <2>8. QED
    BY <2>6, <2>7 DEF RulesKept, Above
<1>7. QED
  BY <1>3, <1>4, <1>5, <1>6 DEF ScanStep

LEMMA CoverInitial == Init => CoverInv
<1> SUFFICES ASSUME Init
             PROVE  CoverInv
  OBVIOUS
<1>1. /\ pc \in {"window", "argv"} /\ outcome = "none" /\ faults = 0 /\ reported = <<>>
      /\ MaxFaults \in Nat
  BY ScannerAssumption DEF Init, NotBegun
<1>2. Coverage
  BY <1>1 DEF Coverage
<1>3. RulesKept
  BY <1>1 DEF RulesKept
<1>4. QED
  BY <1>2, <1>3 DEF CoverInv

LEMMA CoverInductive == WalkInv /\ CoverInv /\ [Next]_vars => CoverInv'
<1> SUFFICES ASSUME WalkInv, CoverInv, [Next]_vars
             PROVE  CoverInv'
  OBVIOUS
<1>0. Coverage /\ RulesKept
  BY DEF CoverInv
<1>1. CASE ScanStep /\ UNCHANGED config
  BY <1>0, <1>1, CoverageKept, RulesStep DEF CoverInv
<1>2. CASE IndexLine \/ SearchLine \/ StopLine \/ StartProgram \/ Parse \/ BeginScan
  <2>1. /\ pc \in {"window", "line", "argv", "parsed"}
        /\ pc' \in {"line", "argv", "refused", "parsed", "opening"}
        /\ UNCHANGED <<at, levels, recursion, reported, complained, denied, outcome, faults>>
    BY <1>2 DEF IndexLine, SearchLine, StopLine, StartProgram, Parse, BeginScan, Goes
  <2>2. outcome = "none" /\ reported = <<>>
    BY <1>0, <2>1 DEF Coverage, WalkInv, NotYet
  <2>3. Coverage'
    BY <2>1, <2>2 DEF Coverage
  <2>4. RulesKept'
    BY <1>0, <2>1, <2>2 DEF RulesKept
  <2>5. QED
    BY <2>3, <2>4 DEF CoverInv
<1>3. CASE UNCHANGED vars
  <2>1. UNCHANGED <<config, pc, at, levels, recursion, reported, complained, denied, outcome, faults>>
    BY <1>3 DEF vars, scan, iterator, output
  <2>2. \A p : Known(p) <=> Known(p)'
    BY <2>1 DEF Known, IsReported, IsComplained
  <2>3. \A p \in Paths : (Settled(p) => Settled(p)') /\ (Ahead(p) => Ahead(p)')
    BY <2>1, <2>2 DEF Settled, Ahead, Excluded, Descends
  <2>4. Coverage'
    BY <1>0, <2>1, <2>3 DEF Coverage
  <2>5. faults' \in 0..MaxFaults /\ faults <= faults'
    <3>1. faults \in 0..MaxFaults /\ MaxFaults \in Nat /\ faults' = faults
      BY <1>0, <2>1, ScannerAssumption DEF RulesKept
    <3>2. QED
      BY <3>1
  <2>6. RulesKept'
    BY <1>0, <2>1, <2>2, <2>5, RulesStay
  <2>7. QED
    BY <2>4, <2>6 DEF CoverInv
<1>4. QED
  BY <1>1, <1>2, <1>3 DEF Next

(* For every tree, every command and any number of faults: the walk is done with an entry
   only when it has passed it on or a rule, or a folder that was denied, gives the reason;
   and what it passes on against a rule, it passes on because a call has failed. *)
THEOREM WalkCovers == Spec => []CoverInv
<1>1. QED
  BY WalkInitial, WalkInductive, CoverInitial, CoverInductive, PTL DEF Spec

-----------------------------------------------------------------------------
(* The command on its way to the scan. *)

(* What stands in the window is what the user meant. *)
Typing ==
    \/ \E folder \in Folders, s \in Spellings :
          line = Typed(folder, s)
            /\ asked = [Nothing EXCEPT !.command = <<"index">>, !.root = folder]
    \/ \E q \in Queries, folder \in Folders \cup {<<>>}, b, c \in BOOLEAN :
          line = q
            /\ asked = [Nothing EXCEPT !.command = <<"search">>, !.root = folder, !.query = q,
                                       !.onlyName = b, !.caseSensitive = c]
    \/ line = <<>> /\ asked = [Nothing EXCEPT !.command = <<"stop">>]

(* Each stage of the command still means what was asked. *)
OnItsWay ==
    /\ pc = "window" => Typing
    /\ pc = "line" => Means(Split(line), asked)
    /\ pc = "argv" => Means(line, asked) \/ (asked = Nothing /\ Refused(line))
    /\ pc = "refused" => asked = Nothing
    /\ pc = "parsed" => Arrived(config, asked)

LEMMA FoldersFacts ==
    /\ \A folder \in Folders : IsFolder(folder) /\ folder \in Text \ {<<>>}
    /\ \A s \in Spellings : IsSpelling(s)
    /\ \A folder \in Folders \cup {<<>>} : folder \in Text
<1>1. \A folder \in Folders : IsFolder(folder)
  BY CommandAssumption
<1>2. \A folder \in Folders : folder \in Text \ {<<>>}
  BY <1>1 DEF IsFolder
<1>3. \A s \in Spellings : IsSpelling(s)
  BY CommandAssumption DEF IsSpelling
<1>4. QED
  BY <1>1, <1>2, <1>3, EmptyText

LEMMA ListsFacts ==
    ASSUME NEW lists \in Lists
    PROVE  /\ lists.excludeDirs \in Seq(Items) /\ lists.excludeFiles \in Seq(Items)
           /\ lists.includeExt \in Seq(Items) /\ lists.excludeExt \in Seq(Items)
<1>1. DOMAIN NoLists = {"excludeDirs", "excludeFiles", "includeExt", "excludeExt"}
  BY DEF NoLists
<1>2. \A option \in DOMAIN NoLists : lists[option] \in Seq(Items)
  BY CommandAssumption DEF Items
<1>3. QED
  BY <1>1, <1>2

LEMMA WayInitial == Init => OnItsWay
<1> SUFFICES ASSUME Init
             PROVE  OnItsWay
  OBVIOUS
<1>1. CASE pc = "window" /\ Typing
  BY <1>1 DEF OnItsWay
<1>2. CASE \E folder \in Folders, lists \in Lists :
             /\ pc = "argv" /\ line = ByHand(folder, lists)
             /\ asked = [Nothing EXCEPT !.command = <<"index">>, !.root = folder, !.lists = lists]
  <2>1. PICK folder \in Folders, lists \in Lists :
             /\ pc = "argv" /\ line = ByHand(folder, lists)
             /\ asked = [Nothing EXCEPT !.command = <<"index">>, !.root = folder, !.lists = lists]
    BY <1>2
  <2>2. /\ asked.command = <<"index">> /\ asked.root = folder /\ asked.query = <<>>
        /\ asked.onlyName = FALSE /\ asked.caseSensitive = FALSE /\ asked.lists = lists
    BY <2>1 DEF Nothing
  <2>3. Means(ByHand(folder, lists), asked)
    BY <2>2, FoldersFacts, ListsFacts, HandMeant
  <2>4. QED
    BY <2>1, <2>3 DEF OnItsWay
<1>3. CASE \E argv \in Mistakes : pc = "argv" /\ line = argv /\ asked = Nothing
  BY <1>3, CommandAssumption DEF OnItsWay
<1>4. QED
  BY <1>1, <1>2, <1>3 DEF Init, Typing

LEMMA IndexLineMeans == Typing /\ IndexLine => Means(Split(line'), asked')
<1> SUFFICES ASSUME Typing, IndexLine
             PROVE  Means(Split(line'), asked')
  OBVIOUS
<1> DEFINE p == normalizeUserPath(line)
           v == quote(Exe) ++ <<"index">> ++ <<"--root">> ++ quote(p)
                  ++ <<"--output">> ++ quote(IndexFile) ++ <<"--log">> ++ quote(LogFile)
                  ++ <<"--mode">> ++ <<"full">>
<1>1. line' = v /\ asked' = asked /\ asked.command = <<"index">>
  BY DEF IndexLine
<1>2. PICK folder \in Folders, s \in Spellings :
          line = Typed(folder, s)
            /\ asked = [Nothing EXCEPT !.command = <<"index">>, !.root = folder]
  <2>1. <<"index">> # <<"search">> /\ <<"index">> # <<"stop">>
    OBVIOUS
  <2>2. QED
    BY <1>1, <2>1 DEF Typing, Nothing
<1>3. /\ asked.root = folder /\ asked.query = <<>>
      /\ asked.onlyName = FALSE /\ asked.caseSensitive = FALSE /\ asked.lists = NoLists
  BY <1>2 DEF Nothing
<1>4. folder # <<>> /\ IsFolder(folder) /\ IsSpelling(s)
  BY FoldersFacts
<1>5. p \in Text \ {<<>>} /\ SameFolder(p, folder)
  <2>1. /\ normalizeUserPath(Typed(folder, s)) \in Text \ {<<>>}
        /\ SameFolder(normalizeUserPath(Typed(folder, s)), folder)
    BY <1>4, PathArrives
  <2>2. QED
    BY <1>2, <2>1
<1> HIDE DEF p
<1>6. Heard(Split(v), <<"index">>, IndexPairs(p))
  BY <1>5, IndexHeard
<1> HIDE DEF v
<1>7. Means(Split(v), asked)
  <2> DEFINE argv == Split(v)
  <2> HIDE DEF argv
  <2>1. Heard(argv, <<"index">>, IndexPairs(p))
    BY <1>6 DEF argv
  <2>2. Means(argv, asked)
    BY <1>1, <1>3, <1>4, <1>5, <2>1, IndexMeant
  <2>3. QED
    BY <2>2 DEF argv
<1>8. QED
  BY <1>1, <1>7

LEMMA SearchLineMeans == Typing /\ SearchLine => Means(Split(line'), asked')
<1> SUFFICES ASSUME Typing, SearchLine
             PROVE  Means(Split(line'), asked')
  OBVIOUS
<1> DEFINE v(r, q, b, c) ==
             quote(Exe) ++ <<"search">> ++ <<"--index">> ++ quote(IndexFile)
                 ++ <<"--root">> ++ quote(r) ++ <<"--query">> ++ quote(q)
                 ++ <<"--output">> ++ quote(ResultsFile) ++ <<"--log">> ++ quote(LogFile)
                 ++ <<"--limit">> ++ <<"1000">> ++ <<"--only-name">> ++ boolArg(b)
                 ++ <<"--case-sensitive">> ++ boolArg(c)
<1>1. /\ line' = v(asked.root, line, asked.onlyName, asked.caseSensitive)
      /\ asked' = asked /\ asked.command = <<"search">>
  BY DEF SearchLine
<1>2. PICK q \in Queries, folder \in Folders \cup {<<>>}, b \in BOOLEAN, c \in BOOLEAN :
          line = q
            /\ asked = [Nothing EXCEPT !.command = <<"search">>, !.root = folder, !.query = q,
                                       !.onlyName = b, !.caseSensitive = c]
  <2>1. <<"search">> # <<"index">> /\ <<"search">> # <<"stop">>
    OBVIOUS
  <2>2. QED
    BY <1>1, <2>1 DEF Typing, Nothing
<1>3. asked.root = folder /\ asked.query = q /\ asked.lists = NoLists
  BY <1>2 DEF Nothing
<1>4. asked.onlyName = b /\ asked.caseSensitive = c
  BY <1>2 DEF Nothing
<1>5. folder \in Text /\ q \in Text
  BY FoldersFacts, CommandAssumption
<1>6. Heard(Split(v(folder, q, b, c)), <<"search">>, SearchPairs(folder, q, b, c))
  BY <1>5, SearchHeard
<1>7. line' = v(folder, q, b, c)
  <2> HIDE DEF v
  <2>1. QED
    BY <1>1, <1>2, <1>3, <1>4, Zenon
<1> HIDE DEF v
<1>8. Means(Split(line'), asked)
  <2> DEFINE argv == Split(line')
  <2>1. Heard(argv, <<"search">>, SearchPairs(asked.root, asked.query, b, c))
    BY <1>3, <1>6, <1>7
  <2> HIDE DEF argv
  <2>2. asked.root \in Text /\ asked.query \in Text
    BY <1>3, <1>5
  <2>3. Means(argv, asked)
    BY <1>1, <1>3, <1>4, <2>1, <2>2, SearchMeant
  <2>4. QED
    BY <2>3 DEF argv
<1>9. QED
  BY <1>1, <1>8

LEMMA StopLineMeans == Typing /\ StopLine => Means(Split(line'), asked')
<1> SUFFICES ASSUME Typing, StopLine
             PROVE  Means(Split(line'), asked')
  OBVIOUS
<1>1. /\ line' = quote(Exe) ++ <<"stop">> ++ <<"--session">> ++ <<"main">>
      /\ asked' = asked /\ asked.command = <<"stop">>
  BY DEF StopLine
<1>2. asked = [Nothing EXCEPT !.command = <<"stop">>]
  <2>1. <<"stop">> # <<"index">> /\ <<"stop">> # <<"search">>
    OBVIOUS
  <2>2. QED
    BY <1>1, <2>1 DEF Typing, Nothing
<1>3. /\ asked.root = <<>> /\ asked.query = <<>>
      /\ asked.onlyName = FALSE /\ asked.caseSensitive = FALSE /\ asked.lists = NoLists
  BY <1>2 DEF Nothing
<1>4. Heard(Split(line'), <<"stop">>, {Pair("--session", <<"main">>)})
  BY <1>1, StopHeard
<1>5. Means(Split(line'), asked)
  BY <1>1, <1>3, <1>4, StopMeant
<1>6. QED
  BY <1>1, <1>5

LEMMA WayKept == OnItsWay /\ [Next]_vars => OnItsWay'
<1> SUFFICES ASSUME OnItsWay, [Next]_vars
             PROVE  OnItsWay'
  OBVIOUS
<1>1. CASE IndexLine
  <2>1. pc = "window" /\ pc' = "line"
    BY <1>1 DEF IndexLine, Goes
  <2>2. Means(Split(line'), asked')
    BY <1>1, <2>1, IndexLineMeans DEF OnItsWay
  <2>3. QED
    BY <2>1, <2>2 DEF OnItsWay
<1>2. CASE SearchLine
  <2>1. pc = "window" /\ pc' = "line"
    BY <1>2 DEF SearchLine, Goes
  <2>2. Means(Split(line'), asked')
    BY <1>2, <2>1, SearchLineMeans DEF OnItsWay
  <2>3. QED
    BY <2>1, <2>2 DEF OnItsWay
<1>3. CASE StopLine
  <2>1. pc = "window" /\ pc' = "line"
    BY <1>3 DEF StopLine, Goes
  <2>2. Means(Split(line'), asked')
    BY <1>3, <2>1, StopLineMeans DEF OnItsWay
  <2>3. QED
    BY <2>1, <2>2 DEF OnItsWay
<1>4. CASE StartProgram
  <2>1. pc = "line" /\ pc' = "argv" /\ line' = Split(line) /\ asked' = asked
    BY <1>4 DEF StartProgram, Goes
  <2>2. Means(line', asked')
    BY <2>1 DEF OnItsWay
  <2>3. QED
    BY <2>1, <2>2 DEF OnItsWay
<1>5. CASE Parse
  <2>1. pc = "argv" /\ asked' = asked
    BY <1>5 DEF Parse, Goes
  <2>2. CASE Refused(line)
    <3>1. pc' = "refused" /\ ~ Means(line, asked)
      BY <1>5, <2>2 DEF Parse, Goes, Means
    <3>2. asked' = Nothing
      BY <2>1, <3>1 DEF OnItsWay
    <3>3. QED
      BY <3>1, <3>2 DEF OnItsWay
  <2>3. CASE ~ Refused(line)
    <3>1. pc' = "parsed" /\ config' = parse(line)
      BY <1>5, <2>3 DEF Parse, Goes
    <3>2. Arrived(parse(line), asked)
      BY <2>1, <2>3 DEF OnItsWay, Means
    <3>3. Arrived(config', asked')
      BY <2>1, <3>1, <3>2
    <3>4. QED
      BY <3>1, <3>3 DEF OnItsWay
  <2>4. QED
    BY <2>2, <2>3
<1>6. CASE BeginScan
  <2>1. pc' = "opening"
    BY <1>6 DEF BeginScan, Goes
  <2>2. QED
    BY <2>1 DEF OnItsWay
<1>7. CASE ScanStep
  <2>1. pc' \in {"entry", "stepping", "ended"}
    <3>1. \A open : MoveTo(open) => pc' \in {"entry", "stepping", "ended"}
      BY DEF MoveTo
    <3>2. CASE OpenRoot \/ Advance \/ Descend \/ FolderDenied
      BY <3>1, <3>2 DEF OpenRoot, Advance, Descend, FolderDenied
    <3>3. CASE RootDenied \/ RootFails \/ IncrementFails \/ KindUnknown \/ Skip
      BY <3>3 DEF RootDenied, RootFails, IncrementFails, KindUnknown, Skip
    <3>4. CASE Entry
      BY <3>4 DEF Entry, Report
    <3>5. QED
      BY <1>7, <3>2, <3>3, <3>4 DEF ScanStep
  <2>2. QED
    BY <2>1 DEF OnItsWay
<1>8. CASE UNCHANGED vars
  <2>1. UNCHANGED <<pc, line, asked, config>>
    BY <1>8 DEF vars, command, scan
  <2>2. QED
    BY <2>1 DEF OnItsWay, Typing
<1>9. QED
  BY <1>1, <1>2, <1>3, <1>4, <1>5, <1>6, <1>7, <1>8 DEF Next

(* Whatever folder, query or list the user means, and however he spells the folder: the program
   is told just that, and no line of the window is refused. *)
THEOREM CommandsArrive == Spec => []ArgumentsArrive
<1>1. OnItsWay => ArgumentsArrive
  <2> SUFFICES ASSUME OnItsWay
               PROVE  ArgumentsArrive
    OBVIOUS
  <2>1. pc = "refused" => asked = Nothing
    BY DEF OnItsWay
  <2>2. ASSUME pc = "parsed"
        PROVE  /\ config.command = asked.command
               /\ IF asked.root = <<>> THEN config.rootPath = <<>>
                                       ELSE SameFolder(config.rootPath, asked.root)
               /\ config.query = asked.query
               /\ <<config.onlyName, config.caseSensitive>> = <<asked.onlyName, asked.caseSensitive>>
               /\ \A list \in DOMAIN NoLists : config[list] = asked.lists[list]
               /\ config.sessionName = <<"main">>
               /\ asked.command = <<"index">> => config.outputIndexPath = IndexFile
               /\ asked.command = <<"search">> =>
                    config.inputIndexPath = IndexFile /\ config.searchOutputPath = ResultsFile
    <3>1. Arrived(config, asked)
      BY <2>2 DEF OnItsWay
    <3>2. <<config.onlyName, config.caseSensitive>> = <<asked.onlyName, asked.caseSensitive>>
      BY <3>1, Zenon DEF Arrived
    <3>3. DOMAIN NoLists = {"excludeDirs", "excludeFiles", "includeExt", "excludeExt"}
      BY DEF NoLists
    <3>4. \A list \in DOMAIN NoLists : config[list] = asked.lists[list]
      BY <3>1, <3>3 DEF Arrived
    <3>5. QED
      BY <3>1, <3>2, <3>4 DEF Arrived
  <2>3. QED
    BY <2>1, <2>2 DEF ArgumentsArrive
<1>2. QED
  BY WayInitial, WayKept, <1>1, PTL DEF Spec

-----------------------------------------------------------------------------
(* From the rules of the code to what the lists of the command mean. *)

(* The lists of the scan are those of the command. *)
ListsTaken ==
    /\ asked.lists \in Lists \cup {NoLists}
    /\ pc \in {"opening", "entry", "stepping", "ended"} =>
         config = [list \in DOMAIN NoLists |-> asked.lists[list]]

LEMMA ListsInitial == Init => ListsTaken
<1> SUFFICES ASSUME Init
             PROVE  ListsTaken
  OBVIOUS
<1>1. pc \in {"window", "argv"}
  BY DEF Init
<1>2. asked.lists \in Lists \cup {NoLists}
  <2>1. CASE \E folder \in Folders, lists \in Lists :
                asked = [Nothing EXCEPT !.command = <<"index">>, !.root = folder, !.lists = lists]
    BY <2>1 DEF Nothing
  <2>2. CASE \E folder \in Folders :
                asked = [Nothing EXCEPT !.command = <<"index">>, !.root = folder]
    BY <2>2 DEF Nothing
  <2>3. CASE \E q \in Queries, folder \in Folders \cup {<<>>}, b, c \in BOOLEAN :
                asked = [Nothing EXCEPT !.command = <<"search">>, !.root = folder, !.query = q,
                                        !.onlyName = b, !.caseSensitive = c]
    BY <2>3 DEF Nothing
  <2>4. CASE asked = [Nothing EXCEPT !.command = <<"stop">>] \/ asked = Nothing
    BY <2>4 DEF Nothing
  <2>5. QED
    BY <2>1, <2>2, <2>3, <2>4 DEF Init
<1>3. QED
  BY <1>1, <1>2 DEF ListsTaken

LEMMA ListsKept == ListsTaken /\ ArgumentsArrive /\ [Next]_vars => ListsTaken'
<1> SUFFICES ASSUME ListsTaken, ArgumentsArrive, [Next]_vars
             PROVE  ListsTaken'
  OBVIOUS
<1>1. CASE ScanStep /\ UNCHANGED <<command, config>>
  <2>1. pc \in {"opening", "entry", "stepping"} /\ UNCHANGED <<asked, config>>
    BY <1>1 DEF ScanStep, OpenRoot, RootDenied, RootFails, Advance, Descend, FolderDenied,
                IncrementFails, KindUnknown, Skip, Entry, command
  <2>2. QED
    BY <2>1 DEF ListsTaken
<1>2. CASE IndexLine \/ SearchLine \/ StopLine \/ StartProgram \/ Parse
  BY <1>2 DEF IndexLine, SearchLine, StopLine, StartProgram, Parse, Goes, ListsTaken
<1>3. CASE BeginScan
  <2>1. /\ pc = "parsed" /\ config' = [list \in DOMAIN NoLists |-> config[list]]
        /\ asked' = [Nothing EXCEPT !.lists = asked.lists]
    BY <1>3 DEF BeginScan, Goes
  <2>2. \A list \in DOMAIN NoLists : config[list] = asked.lists[list]
    BY <2>1 DEF ArgumentsArrive
  <2>3. asked'.lists = asked.lists
    BY <2>1 DEF Nothing
  <2>4. config' = [list \in DOMAIN NoLists |-> asked'.lists[list]]
    BY <2>1, <2>2, <2>3
  <2>5. QED
    BY <2>3, <2>4 DEF ListsTaken
<1>4. CASE UNCHANGED vars
  BY <1>4 DEF ListsTaken, vars, command, scan
<1>5. QED
  BY <1>1, <1>2, <1>3, <1>4 DEF Next

-----------------------------------------------------------------------------
(* The rules of names, and what the lists mean. *)

LEMMA SmallText ==
    ASSUME NEW v \in Text
    PROVE  /\ Lower(v) \in Text /\ Len(Lower(v)) = Len(v) /\ DOMAIN Lower(v) = DOMAIN v
           /\ DOMAIN v = 1..Len(v) /\ Len(v) \in Nat
           /\ \A k \in DOMAIN v : \A sign \in {"*", "."} : Lower(v)[k] = sign <=> v[k] = sign
<1>1. v \in Seq(Symbols) /\ Len(v) \in Nat /\ DOMAIN v = 1..Len(v)
  BY TextFacts
<1>2. \A k \in 1..Len(v) : v[k] \in Symbols
  BY TextFacts
<1>3. Lower(v) = [k \in 1..Len(v) |-> IF v[k] \in DOMAIN Small THEN Small[v[k]] ELSE v[k]]
  BY <1>1 DEF Lower
<1>4. \A k \in 1..Len(v) : Lower(v)[k] \in Symbols
  BY <1>2, <1>3, SmallAssumption
<1>5. Lower(v) \in [1..Len(v) -> Symbols]
  BY <1>3, <1>4
<1>6. Lower(v) \in Seq(Symbols) /\ Len(Lower(v)) = Len(v)
  BY <1>1, <1>5
<1>7. ASSUME NEW k \in 1..Len(v), NEW sign \in {"*", "."}
      PROVE  Lower(v)[k] = sign <=> v[k] = sign
  <2>1. CASE v[k] \in DOMAIN Small
    <3>1. {v[k], Small[v[k]]} \cap {"*", "."} = {}
      BY <2>1, RuleSignsAssumption
    <3>2. QED
      BY <1>3, <2>1, <3>1
  <2>2. CASE v[k] \notin DOMAIN Small
    BY <1>3, <2>2
  <2>3. QED
    BY <2>1, <2>2
<1>8. QED
  BY <1>1, <1>3, <1>6, <1>7 DEF Text

LEMMA PrefixIs ==
    ASSUME NEW s \in Text, NEW t \in Text
    PROVE  IsPrefix(s, t) <=> Len(s) <= Len(t) /\ \A k \in 1..Len(s) : s[k] = t[k]
<1>1. s \in Seq(Symbols) /\ t \in Seq(Symbols) /\ Len(s) \in Nat /\ Len(t) \in Nat
  BY DEF Text
<1>2. ASSUME Len(s) <= Len(t)
      PROVE  SubSeq(s, 1, Len(s)) = SubSeq(t, 1, Len(s)) <=> \A k \in 1..Len(s) : s[k] = t[k]
  <2>1. SubSeq(s, 1, Len(s)) = [k \in 1..Len(s) |-> s[k]]
    BY <1>1
  <2>2. SubSeq(t, 1, Len(s)) = [k \in 1..Len(s) |-> t[k]]
    BY <1>1, <1>2
  <2>3. QED
    BY <2>1, <2>2
<1>3. QED
  BY <1>2 DEF IsPrefix

LEMMA SuffixIs ==
    ASSUME NEW s \in Text, NEW t \in Text
    PROVE  IsSuffix(s, t) <=>
             Len(s) <= Len(t) /\ \A k \in 1..Len(s) : s[k] = t[Len(t) - Len(s) + k]
<1>1. s \in Seq(Symbols) /\ t \in Seq(Symbols) /\ Len(s) \in Nat /\ Len(t) \in Nat
  BY DEF Text
<1>2. \A u \in Text : /\ Reverse(u) \in Text /\ Len(Reverse(u)) = Len(u)
                      /\ \A i \in 1..Len(u) : Reverse(u)[i] = u[Len(u) - i + 1]
  <2> TAKE u \in Text
  <2>1. u \in Seq(Symbols) /\ Len(u) \in Nat
    BY DEF Text
  <2>2. Reverse(u) = [i \in 1..Len(u) |-> u[(Len(u) - i) + 1]]
    BY DEF Reverse
  <2>3. \A i \in 1..Len(u) : (Len(u) - i) + 1 \in 1..Len(u)
    BY <2>1
  <2>4. Reverse(u) \in [1..Len(u) -> Symbols]
    BY <2>1, <2>2, <2>3, ElementOfSeq
  <2>5. Reverse(u) \in Seq(Symbols) /\ Len(Reverse(u)) = Len(u)
    BY <2>1, <2>4
  <2>6. QED
    BY <2>2, <2>5 DEF Text
<1>3. IsSuffix(s, t) <=>
        Len(s) <= Len(t) /\ \A i \in 1..Len(s) : Reverse(s)[i] = Reverse(t)[i]
  BY <1>2, PrefixIs DEF IsSuffix
<1>4. ASSUME Len(s) <= Len(t)
      PROVE  (\A i \in 1..Len(s) : Reverse(s)[i] = Reverse(t)[i])
               <=> (\A i \in 1..Len(s) : s[Len(s) - i + 1] = t[Len(t) - i + 1])
  <2>1. \A i \in 1..Len(s) : i \in 1..Len(t)
    BY <1>1, <1>4
  <2>2. QED
    BY <1>2, <2>1
<1>5. (\A i \in 1..Len(s) : s[Len(s) - i + 1] = t[Len(t) - i + 1])
        <=> (\A k \in 1..Len(s) : s[k] = t[Len(t) - Len(s) + k])
  <2>1. ASSUME \A i \in 1..Len(s) : s[Len(s) - i + 1] = t[Len(t) - i + 1], NEW k \in 1..Len(s)
        PROVE  s[k] = t[Len(t) - Len(s) + k]
    <3>1. Len(s) - k + 1 \in 1..Len(s)
      BY <1>1
    <3>2. s[Len(s) - (Len(s) - k + 1) + 1] = t[Len(t) - (Len(s) - k + 1) + 1]
      BY <2>1, <3>1
    <3>3. Len(s) - (Len(s) - k + 1) + 1 = k
          /\ Len(t) - (Len(s) - k + 1) + 1 = Len(t) - Len(s) + k
      BY <1>1
    <3>4. QED
      BY <3>2, <3>3
  <2>2. ASSUME \A k \in 1..Len(s) : s[k] = t[Len(t) - Len(s) + k], NEW i \in 1..Len(s)
        PROVE  s[Len(s) - i + 1] = t[Len(t) - i + 1]
    <3>1. Len(s) - i + 1 \in 1..Len(s)
      BY <1>1
    <3>2. s[Len(s) - i + 1] = t[Len(t) - Len(s) + (Len(s) - i + 1)]
      BY <2>2, <3>1
    <3>3. Len(t) - Len(s) + (Len(s) - i + 1) = Len(t) - i + 1
      BY <1>1
    <3>4. QED
      BY <3>2, <3>3
  <2>3. QED
    BY <2>1, <2>2
<1>6. QED
  BY <1>3, <1>4, <1>5

LEMMA EmptyFits ==
    ASSUME NEW s \in Text, Len(s) = 0, NEW t \in Text
    PROVE  IsPrefix(s, t) /\ IsSuffix(s, t)
BY PrefixIs, SuffixIs, TextFacts

(* A text without its first or its last symbol. *)
LEMMA PartsFit ==
    ASSUME NEW v \in Text, Len(v) > 1
    PROVE  /\ Tail(v) = SubSeq(v, 2, Len(v)) /\ Tail(v) \in Text
           /\ Len(Tail(v)) = Len(v) - 1 /\ IsSuffix(Tail(v), v)
           /\ Front(v) \in Text /\ Len(Front(v)) = Len(v) - 1 /\ IsPrefix(Front(v), v)
<1> DEFINE l == Len(v)
           t == SubSeq(v, 2, l)
           f == SubSeq(v, 1, l - 1)
<1>1. v \in Seq(Symbols) /\ l \in Nat /\ l > 1
  BY TextFacts
<1>2. Tail(v) = t /\ Front(v) = f
  BY <1>1 DEF Front
<1>3. t \in Text /\ Len(t) = l - 1 /\ \A k \in 1..(l - 1) : t[k] = v[l - (l - 1) + k]
  <2>1. /\ t \in Text /\ Len(t) = (l + 1) - 2
        /\ \A k \in 1..((l + 1) - 2) : t[k] = v[(2 + k) - 1]
    BY <1>1, SliceFacts
  <2>2. (l + 1) - 2 = l - 1 /\ \A k \in 1..(l - 1) : (2 + k) - 1 = l - (l - 1) + k
    BY <1>1
  <2>3. QED
    BY <2>1, <2>2
<1>4. f \in Text /\ Len(f) = l - 1 /\ \A k \in 1..(l - 1) : f[k] = v[k]
  <2>1. /\ f \in Text /\ Len(f) = ((l - 1) + 1) - 1
        /\ \A k \in 1..(((l - 1) + 1) - 1) : f[k] = v[(1 + k) - 1]
    BY <1>1, SliceFacts
  <2>2. ((l - 1) + 1) - 1 = l - 1 /\ \A k \in 1..(l - 1) : (1 + k) - 1 = k
    BY <1>1
  <2>3. QED
    BY <2>1, <2>2
<1> HIDE DEF t, f
<1>5. IsSuffix(t, v)
  BY <1>1, <1>3, SuffixIs
<1>6. IsPrefix(f, v)
  BY <1>1, <1>4, PrefixIs
<1>7. QED
  BY <1>2, <1>3, <1>4, <1>5, <1>6 DEF t

(* simpleMatch decides what a plain mask means. *)
LEMMA MaskMeans ==
    ASSUME NEW mask \in Text, mask # <<>>, PlainMask(mask), NEW name \in Text
    PROVE  simpleMatch(mask, name) <=> Glob(mask, name)
<1> DEFINE m == Lower(mask)
           n == Lower(name)
           l == Len(m)
           stars == {k \in 1..l : m[k] = "*"}
<1>1. /\ m \in Text /\ n \in Text /\ l = Len(mask) /\ l \in Nat /\ Len(n) \in Nat
      /\ DOMAIN m = 1..l /\ DOMAIN mask = 1..l
  BY SmallText
<1>2. l > 0
  BY <1>1, TextFacts
<1>3. \A k \in 1..l : \A sign \in {"*", "."} : m[k] = sign <=> mask[k] = sign
  BY <1>1, SmallText
<1>4. stars = {k \in DOMAIN mask : mask[k] = "*"}
  BY <1>1, <1>3
<1>5. \/ stars = {}
      \/ stars = {1} /\ l > 2 /\ m[2] = "."
      \/ stars = {l} /\ l > 1
  <2>1. l > 2 => (m[2] = "." <=> mask[2] = ".")
    BY <1>1, <1>3
  <2>2. QED
    BY <1>1, <1>4, <2>1 DEF PlainMask
<1>6. "*" \in Range(m) <=> stars # {}
  BY <1>1 DEF Range
<1> HIDE DEF m, n, l
<1>7. l >= 2 => (SubSeq(m, 1, 2) = <<"*", ".">> <=> m[1] = "*" /\ m[2] = ".")
  <2> SUFFICES ASSUME l >= 2
               PROVE  SubSeq(m, 1, 2) = <<"*", ".">> <=> m[1] = "*" /\ m[2] = "."
    OBVIOUS
  <2>1. 1 \in Nat /\ 2 \in Nat /\ 1 <= 2 + 1 /\ 2 <= Len(m)
    BY DEF l
  <2>2. /\ SubSeq(m, 1, 2) \in Text /\ Len(SubSeq(m, 1, 2)) = (2 + 1) - 1
        /\ \A i \in 1..((2 + 1) - 1) : SubSeq(m, 1, 2)[i] = m[(1 + i) - 1]
    BY <1>1, <2>1, SliceFacts
  <2>3. m[1] \in Symbols /\ m[2] \in Symbols
    BY <1>1, <2>1, TextFacts
  <2> DEFINE u == SubSeq(m, 1, 2)
             w == <<m[1], m[2]>>
  <2>4. w \in Text /\ Len(w) = 2 /\ w[1] = m[1] /\ w[2] = m[2]
    BY <2>3 DEF Text
  <2>5. u \in Text /\ Len(u) = 2 /\ u[1] = m[1] /\ u[2] = m[2]
    BY <2>2
  <2>6. u = w
    <3> HIDE DEF u, w
    <3>1. QED
      BY <2>4, <2>5, SameText
  <2>7. QED
    BY <2>6
<1>8. Len(m) = l
  BY DEF l
<1>9. CASE stars = {}
  <2>1. Glob(mask, name) <=> m = n
    BY <1>6, <1>9 DEF Glob, m, n, l
  <2>2. m[1] # "*" /\ m[l] # "*"
    BY <1>1, <1>2, <1>9
  <2>3. QED
    BY <1>1, <1>7, <1>8, <2>1, <2>2 DEF simpleMatch, Last, m, n
<1>10. CASE stars = {1} /\ l > 2 /\ m[2] = "."
  <2>1. m[1] = "*" /\ m[l] # "*" /\ \A k \in 1..l : m[k] = "*" <=> k = 1
    BY <1>1, <1>10
  <2>2. /\ Tail(m) = SubSeq(m, 2, l) /\ Tail(m) \in Text /\ Len(Tail(m)) = l - 1
        /\ IsSuffix(Tail(m), m)
    BY <1>1, <1>8, <1>10, PartsFit
  <2>3. SubSeq(m, 1, 0) \in Text /\ Len(SubSeq(m, 1, 0)) = 0
    BY <1>1, <1>8, <1>10, SliceFacts
  <2>4. IsPrefix(SubSeq(m, 1, 0), n)
    <3> DEFINE none == SubSeq(m, 1, 0)
    <3> HIDE DEF none
    <3>1. none \in Text /\ Len(none) = 0
      BY <2>3 DEF none
    <3>2. IsPrefix(none, n)
      BY <1>1, <3>1, EmptyFits
    <3>3. QED
      BY <3>2 DEF none
  <2>5. IsSuffix(Tail(m), n) => Len(n) >= l - 1
    <3> DEFINE rest == Tail(m)
    <3> HIDE DEF rest
    <3>1. rest \in Text /\ Len(rest) = l - 1
      BY <2>2 DEF rest
    <3>2. IsSuffix(rest, n) => Len(n) >= l - 1
      BY <1>1, <3>1, SuffixIs
    <3>3. QED
      BY <3>2 DEF rest
  <2>6. Glob(mask, name) <=> IsSuffix(Tail(m), n)
    <3>1. Glob(mask, name) <=>
            \E k \in 1..l : /\ k = 1 /\ Len(n) >= l - 1
                            /\ IsPrefix(SubSeq(m, 1, k - 1), n) /\ IsSuffix(SubSeq(m, k + 1, l), n)
      BY <1>1, <1>6, <1>10, <2>1 DEF Glob, m, n, l
    <3>2. 1 \in 1..l /\ 1 - 1 = 0 /\ 1 + 1 = 2
      BY <1>1, <1>10
    <3>3. QED
      BY <2>2, <2>4, <2>5, <3>1, <3>2
  <2>7. simpleMatch(mask, name) <=> m = n \/ IsSuffix(Tail(m), n)
    BY <1>1, <1>7, <1>8, <1>10, <2>1 DEF simpleMatch, Last, m, n
  <2>8. QED
    BY <2>2, <2>6, <2>7
<1>11. CASE stars = {l} /\ l > 1
  <2>1. m[l] = "*" /\ m[1] # "*" /\ \A k \in 1..l : m[k] = "*" <=> k = l
    BY <1>1, <1>11
  <2>2. /\ Front(m) = SubSeq(m, 1, l - 1) /\ Front(m) \in Text /\ Len(Front(m)) = l - 1
        /\ IsPrefix(Front(m), m)
    BY <1>1, <1>8, <1>11, PartsFit DEF Front
  <2>3. SubSeq(m, l + 1, l) \in Text /\ Len(SubSeq(m, l + 1, l)) = 0
    BY <1>1, <1>8, <1>11, SliceFacts
  <2>4. IsSuffix(SubSeq(m, l + 1, l), n)
    <3> DEFINE none == SubSeq(m, l + 1, l)
    <3> HIDE DEF none
    <3>1. none \in Text /\ Len(none) = 0
      BY <2>3 DEF none
    <3>2. IsSuffix(none, n)
      BY <1>1, <3>1, EmptyFits
    <3>3. QED
      BY <3>2 DEF none
  <2>5. IsPrefix(Front(m), n) => Len(n) >= l - 1
    BY <1>1, <1>8, <2>2, PrefixIs
  <2>6. Glob(mask, name) <=> IsPrefix(Front(m), n)
    <3>1. Glob(mask, name) <=>
            \E k \in 1..l : /\ k = l /\ Len(n) >= l - 1
                            /\ IsPrefix(SubSeq(m, 1, k - 1), n) /\ IsSuffix(SubSeq(m, k + 1, l), n)
      BY <1>1, <1>6, <1>11, <2>1 DEF Glob, m, n, l
    <3>2. l \in 1..l
      BY <1>1, <1>11
    <3>3. QED
      BY <2>2, <2>4, <2>5, <3>1, <3>2
  <2>7. simpleMatch(mask, name) <=> m = n \/ IsPrefix(Front(m), n)
    BY <1>1, <1>7, <1>8, <1>11, <2>1 DEF simpleMatch, Last, m, n
  <2>8. QED
    BY <2>2, <2>6, <2>7
<1>12. QED
  BY <1>5, <1>9, <1>10, <1>11

(* So does the comparison with the extension of a name, for an extension with one dot. *)
LEMMA ExtensionMeans ==
    ASSUME NEW ext \in Text, PlainExtension(ext), NEW name \in Text
    PROVE  Lower(ext) = Lower(extension(name)) <=> EndsIn(name, ext)
<1> DEFINE d == Len(ext)
           l == Len(name)
           dots == {k \in 2..l : name[k] = "."}
           last == Max(dots)
<1>1. /\ d \in Nat /\ l \in Nat /\ DOMAIN ext = 1..d
      /\ Lower(ext) \in Text /\ Len(Lower(ext)) = d
      /\ Lower(name) \in Text /\ Len(Lower(name)) = l /\ DOMAIN name = 1..l
  BY SmallText
<1>2. d >= 1 /\ \A k \in 1..d : ext[k] = "." <=> k = 1
  BY <1>1 DEF PlainExtension
<1>3. \A k \in 1..d : Lower(ext)[k] = "." <=> k = 1
  BY <1>1, <1>2, SmallText
<1>4. EndsIn(name, ext) <=> l > d /\ \A k \in 1..d : Lower(ext)[k] = Lower(name)[l - d + k]
  <2>1. IsSuffix(Lower(ext), Lower(name)) <=>
          d <= l /\ \A k \in 1..d : Lower(ext)[k] = Lower(name)[l - d + k]
    <3> HIDE DEF d, l
    <3>1. QED
      BY <1>1, SuffixIs
  <2>2. QED
    BY <1>1, <2>1 DEF EndsIn
<1>5. ASSUME dots # {}
      PROVE  /\ last \in dots /\ \A k \in dots : k <= last
             /\ extension(name) = SubSeq(name, last, l) /\ extension(name) \in Text
             /\ Len(extension(name)) = l - last + 1
             /\ \A k \in 1..(l - last + 1) :
                  Lower(extension(name))[k] = Lower(name)[last + k - 1]
  <2>1. dots \in SUBSET 1..l /\ dots \in SUBSET Int
    BY <1>1
  <2>2. last \in dots /\ \A k \in dots : k <= last
    <3>1. PICK m \in dots : \A k \in dots : k <= m
      BY <1>1, <1>5, <2>1, GreatestMember
    <3>2. QED
      BY <2>1, <3>1, MaxIs
  <2>3. extension(name) = SubSeq(name, last, l)
    BY <1>5 DEF extension
  <2> DEFINE x == extension(name)
             n == l - last + 1
  <2>4. last \in 2..l /\ last \in Nat /\ n \in Nat
    BY <1>1, <2>2
  <2>5. x \in Text /\ Len(x) = n /\ \A k \in 1..n : x[k] = name[last + k - 1]
    <3> HIDE DEF last
    <3>1. (l + 1) - last = n
      BY <1>1, <2>4
    <3>2. /\ x \in Text /\ Len(x) = (l + 1) - last
          /\ \A k \in 1..((l + 1) - last) : x[k] = name[(last + k) - 1]
      BY <1>1, <2>3, <2>4, SliceFacts
    <3> HIDE DEF x, n, l
    <3>3. QED
      BY <1>1, <2>4, <3>1, <3>2
  <2> HIDE DEF x
  <2>6. ASSUME NEW k \in 1..n
        PROVE  Lower(x)[k] = Lower(name)[last + k - 1]
    <3>1. last + k - 1 \in 1..l
      <4> HIDE DEF last
      <4>1. QED
        BY <1>1, <2>4
    <3>2. k \in DOMAIN x /\ last + k - 1 \in DOMAIN name
      BY <1>1, <2>5, <3>1, TextFacts
    <3>3. x[k] = name[last + k - 1]
      BY <2>5
    <3>4. QED
      BY <3>2, <3>3 DEF Lower
  <2>7. QED
    BY <2>2, <2>3, <2>5, <2>6 DEF x
<1>6. ASSUME Lower(ext) = Lower(extension(name))
      PROVE  EndsIn(name, ext)
  <2>1. dots # {}
    <3> SUFFICES ASSUME dots = {}
                 PROVE  FALSE
      OBVIOUS
    <3>1. extension(name) = <<>> /\ <<>> \in Text
      BY EmptyText DEF extension
    <3>2. Len(Lower(extension(name))) = 0
      BY <3>1, SmallText
    <3>3. QED
      BY <1>1, <1>2, <1>6, <3>2
  <2>2. Len(Lower(extension(name))) = l - last + 1
    BY <1>5, <2>1, SmallText
  <2>3. d = l - last + 1 /\ last \in 2..l
    BY <1>1, <1>5, <1>6, <2>1, <2>2
  <2>4. l > d /\ l - d = last - 1
    BY <1>1, <2>3
  <2>5. \A k \in 1..d : Lower(ext)[k] = Lower(name)[l - d + k]
    <3> TAKE k \in 1..d
    <3>1. Lower(ext)[k] = Lower(name)[last + k - 1]
      BY <1>5, <1>6, <2>1, <2>3
    <3>2. last + k - 1 = l - d + k
      BY <1>1, <2>3
    <3>3. QED
      BY <3>1, <3>2
  <2>6. QED
    BY <1>4, <2>4, <2>5
<1>7. ASSUME EndsIn(name, ext)
      PROVE  Lower(ext) = Lower(extension(name))
  <2> DEFINE first == l - d + 1
  <2>1. l > d /\ \A k \in 1..d : Lower(ext)[k] = Lower(name)[l - d + k]
    BY <1>4, <1>7
  <2>2. first \in 2..l
    BY <1>1, <1>2, <2>1
  <2>3. \A k \in first..l : Lower(name)[k] = "." <=> k = first
    <3> TAKE k \in first..l
    <3>1. k - first + 1 \in 1..d /\ l - d + (k - first + 1) = k
      BY <1>1, <2>1
    <3>2. Lower(ext)[k - first + 1] = Lower(name)[k]
      BY <2>1, <3>1
    <3>3. QED
      BY <1>1, <1>3, <3>1, <3>2
  <2>4. \A k \in first..l : name[k] = "." <=> k = first
    <3> TAKE k \in first..l
    <3>1. k \in DOMAIN name
      BY <1>1, <2>2
    <3>2. QED
      BY <2>3, <3>1, SmallText
  <2>5. first \in dots /\ \A k \in dots : k <= first
    BY <1>1, <2>2, <2>4
  <2>6. last = first
    <3> HIDE DEF dots, first
    <3>1. dots \in SUBSET Int
      BY DEF dots
    <3>2. QED
      BY <2>5, <3>1, MaxIs
  <2>7. Len(Lower(extension(name))) = d
    <3>1. l - first + 1 = d
      BY <1>1
    <3>2. QED
      BY <1>5, <2>5, <2>6, <3>1, SmallText
  <2>8. \A k \in 1..d : Lower(ext)[k] = Lower(extension(name))[k]
    <3> TAKE k \in 1..d
    <3>1. l - last + 1 = d /\ last + k - 1 = l - d + k
      BY <1>1, <2>6
    <3>2. Lower(extension(name))[k] = Lower(name)[last + k - 1]
      BY <1>5, <2>5, <3>1
    <3>3. QED
      BY <2>1, <3>1, <3>2
  <2>9. Lower(extension(name)) \in Text
    BY <1>5, <2>5, SmallText
  <2>10. QED
    BY <1>1, <2>7, <2>8, <2>9, SameText
<1>8. QED
  BY <1>6, <1>7

(* For plain lists, that is names, "*.x", "x*" and extensions with their dot, the rules of
   DirectoryScanner leave out exactly what the lists ask to leave out, of any tree. *)
THEOREM PlainListsMean ==
    ASSUME PlainLists
    PROVE  MasksMean
<1> SUFFICES ASSUME NEW lists \in Lists \cup {NoLists}, NEW p \in Paths
             PROVE  shouldSkip(lists, p) <=> UnwantedBy(lists, p)
  BY DEF MasksMean
<1> DEFINE masks == Range(IF isDir(p) THEN lists.excludeDirs ELSE lists.excludeFiles)
           name == Last(p)
<1>1. name \in Text
  <2>1. p \in Seq(Text) /\ p # <<>>
    BY ScannerAssumption
  <2>2. Len(p) \in 1..Len(p)
    BY <2>1, EmptySeq
  <2>3. QED
    BY <2>1, <2>2, ElementOfSeq DEF Last
<1>2. /\ \A mask \in masks : mask \in Text /\ mask # <<>> /\ PlainMask(mask)
      /\ \A ext \in Range(lists.includeExt) \cup Range(lists.excludeExt) :
            ext \in Text /\ PlainExtension(ext)
  <2>1. CASE lists = NoLists
    <3>1. /\ lists.excludeDirs = <<>> /\ lists.excludeFiles = <<>>
          /\ lists.includeExt = <<>> /\ lists.excludeExt = <<>>
      BY <2>1 DEF NoLists
    <3>2. Range(<<>>) = {}
      BY DEF Range
    <3>3. QED
      BY <3>1, <3>2
  <2>2. CASE lists \in Lists
    <3>1. /\ lists.excludeDirs \in Seq(Items) /\ lists.excludeFiles \in Seq(Items)
          /\ lists.includeExt \in Seq(Items) /\ lists.excludeExt \in Seq(Items)
      BY <2>2, ListsFacts
    <3>2. \A list \in Seq(Items) : \A v \in Range(list) : v \in Text /\ v # <<>>
      <4>1. \A list \in Seq(Items) : \A v \in Range(list) : v \in Items
        BY ElementOfSeq DEF Range
      <4>2. QED
        BY <4>1 DEF Items, IsItem
    <3>3. /\ \A mask \in Range(lists.excludeDirs) \cup Range(lists.excludeFiles) : PlainMask(mask)
          /\ \A ext \in Range(lists.includeExt) \cup Range(lists.excludeExt) : PlainExtension(ext)
      BY <2>2 DEF PlainLists
    <3>4. QED
      BY <3>1, <3>2, <3>3
  <2>3. QED
    BY <2>1, <2>2
<1>3. isNameExcluded(lists, name, isDir(p)) <=> \E mask \in masks : Glob(mask, name)
  BY <1>1, <1>2, MaskMeans DEF isNameExcluded
<1>4. ~isExtensionAllowed(lists, extension(name)) <=>
        \/ \E ext \in Range(lists.excludeExt) : EndsIn(name, ext)
        \/ /\ lists.includeExt # <<>>
           /\ \A ext \in Range(lists.includeExt) : ~EndsIn(name, ext)
  <2>1. \A ext \in Range(lists.includeExt) \cup Range(lists.excludeExt) :
           Lower(ext) = Lower(extension(name)) <=> EndsIn(name, ext)
    BY <1>1, <1>2, ExtensionMeans
  <2>2. QED
    BY <2>1 DEF isExtensionAllowed
<1>5. QED
  BY <1>3, <1>4 DEF shouldSkip, UnwantedBy

LEMMA RulesMean ==
    ASSUME MasksMean, ListsTaken, pc \in {"opening", "entry", "stepping", "ended"}, NEW p \in Paths
    PROVE  Excluded(p) <=> Unwanted(p)
<1>1. config = [list \in DOMAIN NoLists |-> asked.lists[list]] /\ asked.lists \in Lists \cup {NoLists}
  BY DEF ListsTaken
<1>2. /\ config.excludeDirs = asked.lists.excludeDirs
      /\ config.excludeFiles = asked.lists.excludeFiles
      /\ config.includeExt = asked.lists.includeExt
      /\ config.excludeExt = asked.lists.excludeExt
  BY <1>1 DEF NoLists
<1>3. shouldSkip(config, p) <=> shouldSkip(asked.lists, p)
  BY <1>2 DEF shouldSkip, isNameExcluded, isExtensionAllowed
<1>4. shouldSkip(asked.lists, p) <=> UnwantedBy(asked.lists, p)
  BY <1>1 DEF MasksMean
<1>5. QED
  BY <1>3, <1>4 DEF Excluded, Unwanted

(* If the lists are plain, a scan whose iterator has reached the end has forgotten no entry
   that they do not ask to leave out, whatever else failed. *)
THEOREM NothingIsForgotten ==
    ASSUME PlainLists
    PROVE  Spec => []NothingForgotten
<1>1. CoverInv /\ ListsTaken => NothingForgotten
  <2> SUFFICES ASSUME CoverInv, ListsTaken, outcome = "finished", NEW p \in Paths
               PROVE  Covered(p)
    BY DEF NothingForgotten
  <2>1. pc = "ended" /\ Settled(p)
    BY DEF CoverInv, Coverage
  <2>2. \A q \in Paths : Excluded(q) <=> Unwanted(q)
    BY <2>1, PlainListsMean, RulesMean
  <2>3. \A a \in Above(p) \ {Root} : a \in Paths
    BY AboveFacts
  <2>4. QED
    BY <2>1, <2>2, <2>3 DEF Settled, Covered, Known
<1>2. QED
  BY WalkCovers, CommandsArrive, ListsInitial, ListsKept, <1>1, PTL DEF Spec

(* Under the same condition nothing is reported that the lists leave out, nor anything in
   a folder that they leave out, unless a call failed and that folder was itself passed on. *)
THEOREM ExcludedIsOut ==
    ASSUME PlainLists
    PROVE  Spec => []ExcludedStaysOut
<1>1. WalkInv /\ CoverInv /\ ListsTaken => ExcludedStaysOut
  <2> SUFFICES ASSUME WalkInv, CoverInv, ListsTaken, NEW i \in DOMAIN reported
               PROVE  /\ Unwanted(reported[i].path) => faults > 0
                      /\ \A a \in Above(reported[i].path) \ {Root} :
                            Unwanted(a) => IsComplained(a) \/ IsReported(a)
    BY DEF ExcludedStaysOut
  <2>1. pc \in {"entry", "stepping", "ended"}
    BY DEF WalkInv, NotYet
  <2>2. reported[i].path \in Paths
    BY AtFacts DEF WalkInv
  <2>3. \A q \in Paths : Excluded(q) <=> Unwanted(q)
    BY <2>1, PlainListsMean, RulesMean
  <2>4. QED
    BY <2>2, <2>3 DEF CoverInv, RulesKept, Known
<1>2. QED
  BY WalkInitial, WalkInductive, WalkCovers, CommandsArrive, ListsInitial, ListsKept, <1>1,
     PTL DEF Spec

-----------------------------------------------------------------------------
(* The types. *)

(* Before the command is parsed there are no lists. *)
Kinds ==
    /\ pc \in {"window", "line", "argv", "refused", "parsed", "opening", "entry", "stepping",
               "ended"}
    /\ recursion \in {"pending", "disabled"}
    /\ denied \subseteq Paths \cup {Root}
    /\ outcome \in {"none", "finished", "failed", "broken", "stopped"}
    /\ pc \in {"window", "line", "argv", "refused"} => config = NoLists

LEMMA KindsInitial == Init => Kinds
BY DEF Init, NotBegun, Kinds

LEMMA KindsKept == WalkInv /\ Kinds /\ [Next]_vars => Kinds'
<1> SUFFICES ASSUME WalkInv, Kinds, [Next]_vars
             PROVE  Kinds'
  OBVIOUS
<1>1. CASE ScanStep /\ UNCHANGED <<command, config>>
  <2>1. at \in Paths \cup {Root}
    BY DEF WalkInv, Shape
  <2>2. \A open : MoveTo(open) => /\ pc' \in {"entry", "ended"}
                                  /\ recursion' \in {"pending", "disabled"}
                                  /\ outcome' \in {"none", "finished", "failed", "broken", "stopped"}
    BY DEF MoveTo, Kinds, iterator
  <2>3. CASE OpenRoot \/ Advance \/ Descend
    BY <2>2, <2>3 DEF OpenRoot, Advance, Descend, Kinds
  <2>4. CASE FolderDenied
    BY <2>1, <2>2, <2>4 DEF FolderDenied, Kinds
  <2>5. CASE RootDenied \/ RootFails \/ IncrementFails \/ KindUnknown
    BY <2>5 DEF RootDenied, RootFails, IncrementFails, KindUnknown, Kinds, iterator
  <2>6. CASE Skip
    BY <2>6 DEF Skip, Kinds
  <2>7. CASE Entry
    BY <2>7 DEF Entry, Report, Kinds, iterator
  <2>8. QED
    BY <1>1, <2>3, <2>4, <2>5, <2>6, <2>7 DEF ScanStep
<1>2. CASE IndexLine \/ SearchLine \/ StopLine \/ StartProgram \/ BeginScan
  BY <1>2 DEF IndexLine, SearchLine, StopLine, StartProgram, BeginScan, Goes, Kinds
<1>3. CASE Parse
  BY <1>3 DEF Parse, Goes, Kinds
<1>4. CASE UNCHANGED vars
  BY <1>4 DEF vars, command, scan, Kinds, iterator, output
<1>5. QED
  BY <1>1, <1>2, <1>3, <1>4 DEF Next

(* The lists of the config have no empty item first, for they are none or lists of items. *)
LEMMA ListsOfItems ==
    ASSUME Kinds, OnItsWay, ListsTaken, NEW list \in DOMAIN NoLists
    PROVE  config[list] = <<>> \/ Head(config[list]) # <<>>
<1>1. \A items \in Seq(Items) : items = <<>> \/ Head(items) # <<>>
  <2>1. SUFFICES ASSUME NEW items \in Seq(Items), items # <<>>
                 PROVE  Head(items) # <<>>
    OBVIOUS
  <2>2. Head(items) \in Items
    BY <2>1, HeadTailProperties
  <2>3. QED
    BY <2>2 DEF Items, IsItem
<1>2. DOMAIN NoLists = {"excludeDirs", "excludeFiles", "includeExt", "excludeExt"}
      /\ NoLists[list] = <<>>
  BY DEF NoLists
<1>3. asked.lists[list] = <<>> \/ Head(asked.lists[list]) # <<>>
  <2>1. CASE asked.lists = NoLists
    BY <1>2, <2>1
  <2>2. CASE asked.lists \in Lists
    <3>1. asked.lists[list] \in Seq(Items)
      BY <2>2, CommandAssumption DEF Items
    <3>2. QED
      BY <1>1, <3>1
  <2>3. QED
    BY <2>1, <2>2 DEF ListsTaken
<1>4. CASE pc \in {"window", "line", "argv", "refused"}
  BY <1>2, <1>4 DEF Kinds
<1>5. CASE pc = "parsed"
  <2>1. config[list] = asked.lists[list]
    BY <1>2, <1>5 DEF OnItsWay, Arrived
  <2>2. QED
    BY <1>3, <2>1
<1>6. CASE pc \in {"opening", "entry", "stepping", "ended"}
  <2>1. config[list] = asked.lists[list]
    BY <1>6 DEF ListsTaken
  <2>2. QED
    BY <1>3, <2>1
<1>7. QED
  BY <1>4, <1>5, <1>6 DEF Kinds

(* For every tree, every command and any number of faults each variable holds a value that the
   code can store in it: the iterator stands on an entry or before the first, and no list of
   masks or extensions begins with an empty item. *)
THEOREM CommandTypeCorrect == Spec => []TypeOK
<1>1. WalkInv /\ CoverInv /\ Kinds /\ OnItsWay /\ ListsTaken => TypeOK
  <2> SUFFICES ASSUME WalkInv, CoverInv, Kinds, OnItsWay, ListsTaken
               PROVE  TypeOK
    OBVIOUS
  <2>1. \A list \in {"excludeDirs", "excludeFiles", "includeExt", "excludeExt"} :
          config[list] = <<>> \/ Head(config[list]) # <<>>
    <3>1. DOMAIN NoLists = {"excludeDirs", "excludeFiles", "includeExt", "excludeExt"}
      BY DEF NoLists
    <3>2. QED
      BY <3>1, ListsOfItems
  <2>2. at \in Paths \cup {Root} /\ levels \in Seq(SUBSET Paths)
    BY DEF WalkInv, Shape
  <2>3. \A i \in DOMAIN reported : reported[i].path \in Paths
    <3>1. reported \in Seq(Reports)
      BY DEF WalkInv, Shape
    <3>2. \A i \in DOMAIN reported : reported[i] \in Reports
      BY <3>1, ElementOfSeq, LenProperties
    <3>3. QED
      BY <3>2 DEF Reports
  <2>4. \A i \in DOMAIN complained : complained[i] \in Paths \cup {Root}
    <3>1. complained \in Seq(Paths \cup {Root})
      BY DEF WalkInv, Shape
    <3>2. QED
      BY <3>1, ElementOfSeq, LenProperties
  <2>5. faults \in 0..MaxFaults
    BY DEF CoverInv, RulesKept
  <2>6. QED
    BY <2>1, <2>2, <2>3, <2>4, <2>5 DEF TypeOK, ScanTypeOK, Kinds
<1>2. QED
  BY WalkInitial, WalkInductive, WalkCovers, CommandsArrive, WayInitial, WayKept, ListsInitial,
     ListsKept, KindsInitial, KindsKept, <1>1, PTL DEF Spec
=============================================================================
