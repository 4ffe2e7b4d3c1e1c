---------------------------- MODULE Stream_proofs ----------------------------
(***************************************************************************)
(* Proofs about the output of an agent and the limits of its attempt       *)
(* (Stream): however the two streams are chunked and interleaved, the      *)
(* lines are those of the output, the answer follows from them, and what   *)
(* they report is counted.                                                 *)
(***************************************************************************)
EXTENDS Attempt, SequenceTheorems, WellFoundedInduction, TLAPS

LEMMA Least == \A T \in SUBSET Nat : T # {} => \E n \in T : \A m \in T : n <= m
<1>1. SUFFICES ASSUME NEW T \in SUBSET Nat, T # {} PROVE \E n \in T : \A m \in T : n <= m
  OBVIOUS
<1>2. PICK n \in T : \A m \in T : <<m, n>> \notin OpToRel(<, Nat)
  BY <1>1, NatLessThanWellFounded, WFMin, Zenon
<1>3. \A m \in T : ~(m < n)
  BY <1>1, <1>2, Zenon DEF OpToRel
<1> QED
  BY <1>1, <1>3

LEMMA LeastIsMin ==
    ASSUME NEW S \in SUBSET Nat, S # {}
    PROVE  Output!Min(S) \in S /\ \A x \in S : Output!Min(S) <= x
<1>1. \E n \in S : \A x \in S : n <= x
  BY Least
<1> QED
  BY <1>1 DEF Output!Min

LEMMA MaxIs ==
    ASSUME NEW S \in SUBSET Nat, NEW m \in S, \A x \in S : x <= m
    PROVE  Output!Max(S) = m
<1>1. \A y \in S : (\A x \in S : y >= x) => y = m
  OBVIOUS
<1> QED
  BY <1>1 DEF Output!Max

LEMMA HighestIsMax ==
    ASSUME NEW n \in Nat, NEW S \in SUBSET (0..n), S # {}
    PROVE  Output!Max(S) \in S
<1> DEFINE T == {n - x : x \in S}
<1>1. T \in SUBSET Nat /\ T # {}
  <2>1. \A x \in S : x \in 0..n
    OBVIOUS
  <2>2. \A x \in 0..n : n - x \in Nat
    OBVIOUS
  <2> QED
    BY <2>1, <2>2
<1>2. PICK t \in T : \A u \in T : t <= u
  BY <1>1, Least
<1>3. PICK m \in S : t = n - m
  OBVIOUS
<1>4. \A x \in S : n - x \in T /\ x \in 0..n
  OBVIOUS
<1>5. \A x \in S : x <= m
  <2>1. TAKE x \in S
  <2>2. t <= n - x
    BY <1>2, <1>4
  <2>3. x \in Nat /\ m \in Nat
    BY <1>4
  <2> QED
    BY <1>3, <2>2, <2>3
<1>6. S \in SUBSET Nat
  BY <1>4
<1> QED
  BY <1>5, <1>6, MaxIs

-----------------------------------------------------------------------------
(* The recursive functions of the model exist, and are what they say. *)

Cell == {Output!Newline} \cup UNION {Output!ToSet(line) : line \in Lines}
Line == Seq(Cell \cup {"cut"})

\* A text, cell by cell.
LEMMA Cells ==
    ASSUME NEW said, NEW text \in Seq(Cell)
    PROVE  /\ Output!CellByCell(said, text)[0] = [lines |-> said, open |-> << >>]
           /\ \A n \in 1..Len(text) : Output!CellByCell(said, text)[n]
                                    = Output!Fed(Output!CellByCell(said, text)[n - 1], text[n])
<1> DEFINE Is(f, k) == f = [n \in 0..k |-> IF n = 0 THEN [lines |-> said, open |-> << >>]
                                           ELSE Output!Fed(f[n - 1], text[n])]
           Not == {k \in 0..Len(text) : ~\E f : Is(f, k)}
<1>1. Len(text) \in Nat
  OBVIOUS
<1>2. Not = {}
  <2>1. SUFFICES ASSUME Not # {} PROVE FALSE
    OBVIOUS
  <2>2. PICK k \in Not : \A j \in Not : k <= j
    <3>1. Not \in SUBSET Nat
      OBVIOUS
    <3> QED
      BY <2>1, <3>1, Least
  <2>3. Is([n \in 0..0 |-> [lines |-> said, open |-> << >>]], 0)
    OBVIOUS
  <2>4. k # 0 /\ k - 1 \in 0..Len(text) /\ ~(k <= k - 1)
    <3> HIDE DEF Is
    <3> QED
      BY <1>1, <2>2, <2>3
  <2>5. PICK f : Is(f, k - 1)
    <3> HIDE DEF Is
    <3> QED
      BY <2>2, <2>4
  <2> DEFINE g == [n \in 0..k |-> IF n = k THEN Output!Fed(f[k - 1], text[k]) ELSE f[n]]
  <2>6. \A n \in 0..k : g[n] = IF n = 0 THEN [lines |-> said, open |-> << >>]
                                   ELSE Output!Fed(g[n - 1], text[n])
    BY <2>4, <2>5
  <2>7. Is(g, k)
    BY <2>6
  <2> QED
    BY <2>2, <2>7
<1>3. \E f : Is(f, Len(text))
  <2> HIDE DEF Is
  <2> QED
    BY <1>1, <1>2
<1>4. Output!CellByCell(said, text) = CHOOSE f : Is(f, Len(text))
  BY DEF Output!CellByCell
<1>5. Is(Output!CellByCell(said, text), Len(text))
  BY <1>3, <1>4
<1> QED
  BY <1>1, <1>5

\* A watcher, line by line.
LEMMA Watches ==
    ASSUME NEW s \in Output!Streams, NEW new \in Seq(Line)
    PROVE  /\ Output!Watching(s, new)[0] = watch
           /\ \A n \in 1..Len(new) : Output!Watching(s, new)[n]
                                   = Output!Watched(Output!Watching(s, new)[n - 1], s, new[n])
<1> DEFINE Is(f, k) == f = [n \in 0..k |-> IF n = 0 THEN watch
                                           ELSE Output!Watched(f[n - 1], s, new[n])]
           Not == {k \in 0..Len(new) : ~\E f : Is(f, k)}
<1>1. Len(new) \in Nat
  OBVIOUS
<1>2. Not = {}
  <2>1. SUFFICES ASSUME Not # {} PROVE FALSE
    OBVIOUS
  <2>2. PICK k \in Not : \A j \in Not : k <= j
    <3>1. Not \in SUBSET Nat
      OBVIOUS
    <3> QED
      BY <2>1, <3>1, Least
  <2>3. Is([n \in 0..0 |-> watch], 0)
    OBVIOUS
  <2>4. k # 0 /\ k - 1 \in 0..Len(new) /\ ~(k <= k - 1)
    <3> HIDE DEF Is
    <3> QED
      BY <1>1, <2>2, <2>3
  <2>5. PICK f : Is(f, k - 1)
    <3> HIDE DEF Is
    <3> QED
      BY <2>2, <2>4
  <2> DEFINE g == [n \in 0..k |-> IF n = k THEN Output!Watched(f[k - 1], s, new[k]) ELSE f[n]]
  <2>6. \A n \in 0..k : g[n] = IF n = 0 THEN watch ELSE Output!Watched(g[n - 1], s, new[n])
    BY <2>4, <2>5
  <2>7. Is(g, k)
    BY <2>6
  <2> QED
    BY <2>2, <2>7
<1>3. \E f : Is(f, Len(new))
  <2> HIDE DEF Is
  <2> QED
    BY <1>1, <1>2
<1>4. Output!Watching(s, new) = CHOOSE f : Is(f, Len(new))
  BY DEF Output!Watching
<1>5. Is(Output!Watching(s, new), Len(new))
  BY <1>3, <1>4
<1> QED
  BY <1>1, <1>5

\* A total, report by report.
LEMMA Totals ==
    ASSUME NEW said \in Seq(Line), NEW kind
    PROVE  \E f : /\ f[0] = 0 /\ Output!Total(said, kind) = f[Len(said)]
                  /\ \A n \in 1..Len(said) : f[n] = f[n - 1] + Output!TokensOn(said[n], kind)
<1> DEFINE Is(f, k) == f = [n \in 0..k |-> IF n = 0 THEN 0
                                           ELSE f[n - 1] + Output!TokensOn(said[n], kind)]
           Not == {k \in 0..Len(said) : ~\E f : Is(f, k)}
<1>1. Len(said) \in Nat
  OBVIOUS
<1>2. Not = {}
  <2>1. SUFFICES ASSUME Not # {} PROVE FALSE
    OBVIOUS
  <2>2. PICK k \in Not : \A j \in Not : k <= j
    <3>1. Not \in SUBSET Nat
      OBVIOUS
    <3> QED
      BY <2>1, <3>1, Least
  <2>3. Is([n \in 0..0 |-> 0], 0)
    OBVIOUS
  <2>4. k # 0 /\ k - 1 \in 0..Len(said) /\ ~(k <= k - 1)
    <3> HIDE DEF Is
    <3> QED
      BY <1>1, <2>2, <2>3
  <2>5. PICK f : Is(f, k - 1)
    <3> HIDE DEF Is
    <3> QED
      BY <2>2, <2>4
  <2> DEFINE g == [n \in 0..k |-> IF n = k THEN f[k - 1] + Output!TokensOn(said[k], kind) ELSE f[n]]
  <2>6. \A n \in 0..k : g[n] = IF n = 0 THEN 0 ELSE g[n - 1] + Output!TokensOn(said[n], kind)
    BY <2>4, <2>5
  <2>7. Is(g, k)
    BY <2>6
  <2> QED
    BY <2>2, <2>7
<1>3. \E f : Is(f, Len(said))
  <2> HIDE DEF Is
  <2> QED
    BY <1>1, <1>2
<1>4. Output!Total(said, kind) = (CHOOSE f : Is(f, Len(said)))[Len(said)]
  BY DEF Output!Total
<1>5. \A f : Is(f, Len(said)) => /\ f[0] = 0
                               /\ \A n \in 1..Len(said) :
                                     f[n] = f[n - 1] + Output!TokensOn(said[n], kind)
  BY <1>1
<1>6. Is(CHOOSE f : Is(f, Len(said)), Len(said))
  BY <1>3
<1> HIDE DEF Is
<1> QED
  BY <1>4, <1>5, <1>6

\* A buffer, line after line.
Rest(b) == [lines |-> << >>, rest |-> b]
Round(was) ==
    LET next == Output!Cut(was.rest)
    IN  IF next = << >> THEN was
        ELSE [lines |-> Append(was.lines, next[1]), rest |-> next[2]]


LEMMA Rounds ==
    ASSUME NEW b \in Seq(Cell)
    PROVE  \E f : /\ f[0] = Rest(b) /\ Output!Taken(b) = f[Len(b)]
                  /\ \A n \in 1..Len(b) : f[n] = Round(f[n - 1])
<1> DEFINE Is(f, k) == f = [n \in 0..k |-> IF n = 0 THEN Rest(b) ELSE Round(f[n - 1])]
           Not == {k \in 0..Len(b) : ~\E f : Is(f, k)}
<1>1. Len(b) \in Nat
  OBVIOUS
<1>2. Not = {}
  <2>1. SUFFICES ASSUME Not # {} PROVE FALSE
    OBVIOUS
  <2>2. PICK k \in Not : \A j \in Not : k <= j
    <3>1. Not \in SUBSET Nat
      OBVIOUS
    <3> QED
      BY <2>1, <3>1, Least
  <2>3. Is([n \in 0..0 |-> Rest(b)], 0)
    OBVIOUS
  <2>4. k # 0 /\ k - 1 \in 0..Len(b) /\ ~(k <= k - 1)
    <3> HIDE DEF Is
    <3> QED
      BY <1>1, <2>2, <2>3
  <2>5. PICK f : Is(f, k - 1)
    <3> HIDE DEF Is
    <3> QED
      BY <2>2, <2>4
  <2> DEFINE g == [n \in 0..k |-> IF n = k THEN Round(f[k - 1]) ELSE f[n]]
  <2>6. \A n \in 0..k : g[n] = IF n = 0 THEN Rest(b) ELSE Round(g[n - 1])
    BY <2>4, <2>5
  <2>7. Is(g, k)
    BY <2>6
  <2> QED
    BY <2>2, <2>7
<1>3. \E f : Is(f, Len(b))
  <2> HIDE DEF Is
  <2> QED
    BY <1>1, <1>2
<1>4. Output!Taken(b) = (CHOOSE f : Is(f, Len(b)))[Len(b)]
  BY DEF Output!Taken, Rest, Round
<1>5. \A f : Is(f, Len(b)) => /\ f[0] = Rest(b)
                               /\ \A n \in 1..Len(b) : f[n] = Round(f[n - 1])
  BY <1>1
<1>6. Is(CHOOSE f : Is(f, Len(b)), Len(b))
  BY <1>3
<1> HIDE DEF Is
<1> QED
  BY <1>4, <1>5, <1>6

-----------------------------------------------------------------------------
(* A text read in pieces *)

LEMMA TheLimit == MaxLine \in Nat /\ MaxLine > 0
BY AttemptAssumption DEF AttemptAssumption, Output!StreamAssumption

LEMMA CellTypes == Cell \subseteq Cell \cup {"cut"} /\ Seq(Cell) \subseteq Line
<1>1. \A b \in Seq(Cell) : b \in Seq(Cell \cup {"cut"})
  BY SeqMonotonic
<1> QED
  BY <1>1 DEF Line

\* A cut is at the first newline in reach, or where the line is full.
LEMMA Cuts ==
    ASSUME NEW b \in Seq(Cell)
    PROVE  \/ /\ Output!Cut(b) = << >> /\ Len(b) <= MaxLine
              /\ \A i \in 1..Len(b) : b[i] # Output!Newline
           \/ \E n \in 1..Len(b) :
                /\ b[n] = Output!Newline /\ n - 1 <= MaxLine
                /\ \A i \in 1..(n - 1) : b[i] # Output!Newline
                /\ Output!Cut(b) = <<SubSeq(b, 1, n - 1), SubSeq(b, n + 1, Len(b))>>
           \/ /\ Len(b) > MaxLine
              /\ \A i \in 1..(MaxLine + 1) : b[i] # Output!Newline
              /\ Output!Cut(b) = <<Append(SubSeq(b, 1, MaxLine), "cut"),
                                   SubSeq(b, MaxLine + 1, Len(b))>>
<1> DEFINE ends == {i \in DOMAIN b : b[i] = Output!Newline /\ i - 1 <= MaxLine}
           n == Output!Min(ends)
<1>1. Len(b) \in Nat /\ DOMAIN b = 1..Len(b) /\ MaxLine \in Nat
  BY TheLimit
<1>2. CASE ends # {}
  <2>1. ends \in SUBSET Nat
    BY <1>1
  <2>2. n \in ends /\ \A i \in ends : n <= i
    BY <1>2, <2>1, LeastIsMin
  <2>3. Output!Cut(b) = <<SubSeq(b, 1, n - 1), SubSeq(b, n + 1, Len(b))>>
    BY <1>2 DEF Output!Cut
  <2> HIDE DEF n
  <2>4. n \in 1..Len(b) /\ b[n] = Output!Newline /\ n - 1 <= MaxLine
    BY <1>1, <2>2
  <2>5. \A i \in 1..(n - 1) : b[i] # Output!Newline
    <3>1. SUFFICES ASSUME NEW i \in 1..(n - 1), b[i] = Output!Newline PROVE FALSE
      OBVIOUS
    <3>2. i \in ends
      BY <1>1, <2>4, <3>1
    <3> QED
      BY <1>1, <2>2, <2>4, <3>2
  <2> QED
    BY <2>3, <2>4, <2>5
<1>3. CASE ends = {}
  <2>1. \A i \in 1..Len(b) : i - 1 <= MaxLine => b[i] # Output!Newline
    BY <1>1, <1>3
  <2>2. CASE Len(b) > MaxLine
    <3>1. Output!Cut(b) = <<Append(SubSeq(b, 1, MaxLine), "cut"),
                            SubSeq(b, MaxLine + 1, Len(b))>>
      BY <1>3, <2>2 DEF Output!Cut
    <3>2. \A i \in 1..(MaxLine + 1) : b[i] # Output!Newline
      BY <1>1, <2>1, <2>2
    <3> HIDE DEF ends
    <3> QED
      BY <2>2, <3>1, <3>2
  <2>3. CASE ~(Len(b) > MaxLine)
    <3>1. Output!Cut(b) = << >>
      BY <1>3, <2>3 DEF Output!Cut
    <3>2. /\ Len(b) <= MaxLine
          /\ \A i \in 1..Len(b) : b[i] # Output!Newline
      BY <1>1, <2>1, <2>3
    <3> HIDE DEF ends
    <3> QED
      BY <3>1, <3>2
  <2> QED
    BY <2>2, <2>3
<1> QED
  BY <1>2, <1>3

\* What is told of a text: the lines that are complete, and the cells of the next one.
Held(said, open) == [lines |-> said, open |-> open]
Walks(A, text) == \A n \in 1..Len(text) : A[n] = Output!Fed(A[n - 1], text[n])

\* After the first m cells the lines are these, and the next cell opens another.
Ahead(A, text, m, said) ==
    IF m < Len(text) THEN A[m + 1] = Output!Fed(Held(said, << >>), text[m + 1])
    ELSE A[m] = Held(said, << >>)

LEMMA Feeds ==
    ASSUME NEW said, NEW open \in Seq(Cell), NEW cell
    PROVE  /\ cell = Output!Newline =>
                Output!Fed(Held(said, open), cell) = Held(Append(said, open), << >>)
           /\ cell # Output!Newline /\ Len(open) # MaxLine =>
                Output!Fed(Held(said, open), cell) = Held(said, Append(open, cell))
           /\ cell # Output!Newline /\ Len(open) = MaxLine =>
                Output!Fed(Held(said, open), cell)
                  = Held(Append(said, Append(open, "cut")), <<cell>>)
BY DEF Held, Output!Fed

\* Cells without a newline, that fit a line, open one.
LEMMA Opens ==
    ASSUME NEW text \in Seq(Cell), NEW A, Walks(A, text), NEW said,
           NEW m \in 0..Len(text), NEW k \in Nat, m + k <= Len(text), k <= MaxLine,
           Ahead(A, text, m, said), \A i \in (m + 1)..(m + k) : text[i] # Output!Newline
    PROVE  k > 0 => A[m + k] = Held(said, SubSeq(text, m + 1, m + k))
<1> DEFINE Wrong == {j \in 1..k : A[m + j] # Held(said, SubSeq(text, m + 1, m + j))}
<1>1. Len(text) \in Nat /\ MaxLine \in Nat /\ MaxLine > 0
  BY TheLimit
<1>2. SUFFICES Wrong = {}
  <2>1. k > 0 => k \in 1..k
    OBVIOUS
  <2>2. k \in 1..k => A[m + k] = Held(said, SubSeq(text, m + 1, m + k))
    BY <1>2
  <2> QED
    BY <2>1, <2>2
<1>3. SUFFICES ASSUME Wrong # {} PROVE FALSE
  OBVIOUS
<1>4. PICK j \in Wrong : \A i \in Wrong : j <= i
  <2>1. Wrong \in SUBSET Nat
    OBVIOUS
  <2> QED
    BY <1>3, <2>1, Least
<1>5. j \in 1..k /\ A[m + j] # Held(said, SubSeq(text, m + 1, m + j))
  BY <1>4
<1>6. m + j \in 1..Len(text) /\ m + 1 \in 1..Len(text) /\ j \in Nat /\ m \in Nat
  BY <1>1, <1>5
<1>7. text[m + j] \in Cell /\ text[m + j] # Output!Newline
  BY <1>5, <1>6, ElementOfSeq
<1>8. A[m + j] = Output!Fed(A[m + j - 1], text[m + j])
  BY <1>6 DEF Walks
<1>9. SubSeq(text, m + 1, m + j) = SubSeq(text, m + 1, m + j - 1) \o <<text[m + j]>>
  <2>1. m + j \in (m + 1)..Len(text)
    BY <1>5, <1>6
  <2> QED
    BY <1>6, <2>1, SubSeqRecursiveSecond
<1>10. CASE j = 1
  <2>1. A[m + 1] = Output!Fed(Held(said, << >>), text[m + 1])
    BY <1>1, <1>6 DEF Ahead
  <2>2. A[m + 1] = Held(said, Append(<< >>, text[m + 1]))
    <3>1. << >> \in Seq(Cell) /\ Len(<< >>) # MaxLine
      BY <1>1, EmptySeq
    <3>2. text[m + 1] # Output!Newline
      BY <1>7, <1>10
    <3> QED
      BY <2>1, <3>1, <3>2, Feeds, ZenonT(40)
  <2>3. SubSeq(text, m + 1, m + j - 1) = << >>
    BY <1>6, <1>10, SubSeqEmpty
  <2>4. Append(<< >>, text[m + 1]) = << >> \o <<text[m + 1]>>
    OBVIOUS
  <2>5. SubSeq(text, m + 1, m + 1) = << >> \o <<text[m + 1]>>
    BY <1>9, <1>10, <2>3
  <2> QED
    BY <1>5, <1>10, <2>2, <2>4, <2>5
<1>11. CASE j > 1
  <2> DEFINE sofar == SubSeq(text, m + 1, m + j - 1)
  <2>1. j - 1 \in 1..k /\ ~(j <= j - 1)
    BY <1>5, <1>6, <1>11
  <2>2. A[m + (j - 1)] = Held(said, SubSeq(text, m + 1, m + (j - 1)))
    BY <1>4, <2>1
  <2>3. m + (j - 1) = m + j - 1
    BY <1>6
  <2>4. sofar \in Seq(Cell) /\ Len(sofar) = j - 1
    <3>1. \A i \in (m + 1)..(m + j - 1) : i \in 1..Len(text)
      BY <1>1, <1>6
    <3>2. \A i \in (m + 1)..(m + j - 1) : text[i] \in Cell
      BY <3>1, ElementOfSeq
    <3>3. m + 1 \in Int /\ m + j - 1 \in Int /\ m + j - 1 >= m + 1
      BY <1>6, <1>11
    <3>4. sofar \in Seq(Cell)
      BY <3>2, <3>3, SubSeqProperties
    <3>5. Len(sofar) = (m + j - 1) - (m + 1) + 1
      BY <3>2, <3>3, SubSeqProperties
    <3> QED
      BY <1>6, <3>4, <3>5
  <2>5. A[m + j] = Output!Fed(Held(said, sofar), text[m + j])
    BY <1>8, <2>2, <2>3
  <2>6. Len(sofar) # MaxLine
    BY <1>1, <1>5, <1>6, <2>4
  <2> HIDE DEF sofar
  <2>7. A[m + j] = Held(said, Append(sofar, text[m + j]))
    <3>1. sofar \in Seq(Cell)
      BY <2>4
    <3>2. Output!Fed(Held(said, sofar), text[m + j]) = Held(said, Append(sofar, text[m + j]))
      BY <1>7, <2>6, <3>1, Feeds
    <3> QED
      BY <2>5, <3>2
  <2>8. Append(sofar, text[m + j]) = sofar \o <<text[m + j]>>
    BY <1>7, <2>4, AppendIsConcat
  <2> USE DEF sofar
  <2> QED
    BY <1>5, <1>9, <2>7, <2>8
<1> QED
  BY <1>5, <1>6, <1>10, <1>11

-----------------------------------------------------------------------------
(* Pieces of a sequence *)

LEMMA Piece ==
    ASSUME NEW S, NEW seq \in Seq(S), NEW p \in Nat, p >= 1, NEW q \in Nat, q <= Len(seq)
    PROVE  /\ SubSeq(seq, p, q) \in Seq(S)
           /\ Len(SubSeq(seq, p, q)) = IF p <= q THEN q - p + 1 ELSE 0
           /\ \A i \in 1..(q - p + 1) : SubSeq(seq, p, q)[i] = seq[p + i - 1]
<1>1. \A i \in p..q : seq[i] \in S
  <2>1. \A i \in p..q : i \in 1..Len(seq)
    OBVIOUS
  <2> QED
    BY <2>1, ElementOfSeq
<1> QED
  BY <1>1, SubSeqProperties

\* What is left of a sequence after m elements, and the pieces of that.
IsRest(seq, m, b) ==
    /\ b \in Seq(Cell) /\ Len(b) = Len(seq) - m
    /\ \A i \in 1..Len(b) : b[i] = seq[m + i]

Pieces(seq, m, b) ==
    \A k \in 0..Len(b) :
      /\ SubSeq(b, 1, k) \in Seq(Cell) /\ Len(SubSeq(b, 1, k)) = k
      /\ SubSeq(b, 1, k) = SubSeq(seq, m + 1, m + k)
      /\ SubSeq(b, k + 1, Len(b)) = SubSeq(seq, m + k + 1, Len(seq))

LEMMA Rests ==
    ASSUME NEW seq \in Seq(Cell), NEW m \in 0..Len(seq),
           NEW b, b = SubSeq(seq, m + 1, Len(seq))
    PROVE  IsRest(seq, m, b) /\ Pieces(seq, m, b)
<1>1. Len(seq) \in Nat /\ m \in Nat /\ m + 1 \in Nat /\ m + 1 >= 1
  OBVIOUS
<1>2. b \in Seq(Cell)
  BY <1>1, Piece
<1>3. Len(b) = Len(seq) - m
  <2>1. Len(b) = IF m + 1 <= Len(seq) THEN Len(seq) - (m + 1) + 1 ELSE 0
    BY <1>1, Piece
  <2> QED
    BY <1>1, <2>1
<1>4. ASSUME NEW i \in 1..Len(b) PROVE b[i] = seq[m + i]
  <2>1. \A j \in 1..(Len(seq) - (m + 1) + 1) : b[j] = seq[m + 1 + j - 1]
    BY <1>1, Piece
  <2>2. i \in 1..(Len(seq) - (m + 1) + 1) /\ m + 1 + i - 1 = m + i
    BY <1>1, <1>3
  <2> QED
    BY <2>1, <2>2
<1>5. ASSUME NEW k \in 0..Len(b)
      PROVE  /\ SubSeq(b, 1, k) \in Seq(Cell) /\ Len(SubSeq(b, 1, k)) = k
             /\ SubSeq(b, 1, k) = SubSeq(seq, m + 1, m + k)
  <2> DEFINE x == SubSeq(b, 1, k)
             y == SubSeq(seq, m + 1, m + k)
  <2>1. /\ k \in Nat /\ k <= Len(b) /\ m + k \in Nat /\ m + k <= Len(seq)
        /\ (m + k) - (m + 1) + 1 = k
    BY <1>1, <1>3
  <2>2. x \in Seq(Cell) /\ Len(x) = IF 1 <= k THEN k - 1 + 1 ELSE 0
    BY <1>2, <2>1, Piece
  <2>3. \A i \in 1..(k - 1 + 1) : x[i] = b[1 + i - 1]
    BY <1>2, <2>1, Piece
  <2>4. y \in Seq(Cell) /\ Len(y) = IF m + 1 <= m + k THEN (m + k) - (m + 1) + 1 ELSE 0
    BY <1>1, <2>1, Piece
  <2>5. \A i \in 1..((m + k) - (m + 1) + 1) : y[i] = seq[m + 1 + i - 1]
    BY <1>1, <2>1, Piece
  <2> HIDE DEF x, y
  <2>6. Len(x) = k /\ Len(y) = k
    BY <1>1, <2>1, <2>2, <2>4
  <2>7. ASSUME NEW i \in 1..k PROVE x[i] = y[i]
    <3>1. /\ i \in 1..(k - 1 + 1) /\ 1 + i - 1 = i /\ i \in 1..Len(b)
          /\ i \in 1..((m + k) - (m + 1) + 1) /\ m + 1 + i - 1 = m + i
      BY <1>1, <1>3, <2>1
    <3> QED
      BY <1>4, <2>3, <2>5, <3>1
  <2>8. x = y
    BY <2>2, <2>4, <2>6, <2>7, SeqEqual
  <2> QED
    BY <2>2, <2>6, <2>8 DEF x, y
<1>6. ASSUME NEW k \in 0..Len(b)
      PROVE  SubSeq(b, k + 1, Len(b)) = SubSeq(seq, m + k + 1, Len(seq))
  <2> DEFINE x == SubSeq(b, k + 1, Len(b))
             y == SubSeq(seq, m + k + 1, Len(seq))
             n == Len(b) - k
  <2>1. /\ k \in Nat /\ k + 1 \in Nat /\ k + 1 >= 1 /\ Len(b) \in Nat /\ n \in Nat
        /\ m + k + 1 \in Nat /\ m + k + 1 >= 1
        /\ Len(b) - (k + 1) + 1 = n /\ Len(seq) - (m + k + 1) + 1 = n
    BY <1>1, <1>3
  <2>2. x \in Seq(Cell) /\ Len(x) = IF k + 1 <= Len(b) THEN Len(b) - (k + 1) + 1 ELSE 0
    BY <1>2, <2>1, Piece
  <2>3. \A i \in 1..(Len(b) - (k + 1) + 1) : x[i] = b[k + 1 + i - 1]
    BY <1>2, <2>1, Piece
  <2>4. y \in Seq(Cell)
    BY <1>1, <2>1, Piece
  <2>5. Len(y) = IF m + k + 1 <= Len(seq) THEN Len(seq) - (m + k + 1) + 1 ELSE 0
    BY <1>1, <2>1, Piece
  <2>6. \A i \in 1..(Len(seq) - (m + k + 1) + 1) : y[i] = seq[m + k + 1 + i - 1]
    BY <1>1, <2>1, Piece
  <2> HIDE DEF x, y
  <2>7. Len(x) = n /\ Len(y) = n
    BY <1>1, <1>3, <2>1, <2>2, <2>5
  <2>8. ASSUME NEW i \in 1..n PROVE x[i] = y[i]
    <3>1. /\ i \in Nat /\ k + 1 + i - 1 = k + i /\ k + i \in 1..Len(b)
          /\ m + k + 1 + i - 1 = m + (k + i)
      BY <1>1, <1>3, <2>1
    <3> QED
      BY <1>4, <2>1, <2>3, <2>6, <3>1
  <2> HIDE DEF n
  <2>9. x = y
    BY <2>2, <2>4, <2>7, <2>8, SeqEqual
  <2> QED
    BY <2>9 DEF x, y
<1> QED
  BY <1>2, <1>3, <1>4, <1>5, <1>6 DEF IsRest, Pieces

-----------------------------------------------------------------------------
(* A line off the buffer *)

\* A line that is cut off a buffer takes the reading to where the buffer goes on.
LEMMA OneRound ==
    ASSUME NEW text \in Seq(Cell), NEW A, Walks(A, text), NEW said \in Seq(Line),
           NEW m \in 0..Len(text), Ahead(A, text, m, said),
           NEW b, b = SubSeq(text, m + 1, Len(text)), Output!Cut(b) # << >>
    PROVE  \E n \in (m + 1)..Len(text) :
             /\ Output!Cut(b)[2] = SubSeq(text, n + 1, Len(text))
             /\ Output!Cut(b)[1] \in Line
             /\ Ahead(A, text, n, Append(said, Output!Cut(b)[1]))
<1>1. Len(text) \in Nat /\ MaxLine \in Nat /\ MaxLine > 0 /\ m \in Nat
  BY TheLimit
<1>2. \A i \in 1..Len(text) : text[i] \in Cell
  BY ElementOfSeq
<1>3. IsRest(text, m, b) /\ Pieces(text, m, b)
  BY Rests
<1>4. /\ b \in Seq(Cell) /\ Len(b) = Len(text) - m
      /\ \A i \in 1..Len(b) : b[i] = text[m + i]
  BY <1>3 DEF IsRest
<1>5. \A k \in 0..Len(b) :
        /\ SubSeq(b, 1, k) \in Seq(Cell) /\ Len(SubSeq(b, 1, k)) = k
        /\ SubSeq(b, 1, k) = SubSeq(text, m + 1, m + k)
        /\ SubSeq(b, k + 1, Len(b)) = SubSeq(text, m + k + 1, Len(text))
  BY <1>3 DEF Pieces
<1> DEFINE line == Output!Cut(b)[1]
           Goal == \E n \in (m + 1)..Len(text) :
                     /\ Output!Cut(b)[2] = SubSeq(text, n + 1, Len(text))
                     /\ line \in Line
                     /\ Ahead(A, text, n, Append(said, line))
<1>6. ASSUME NEW k \in 1..Len(b), b[k] = Output!Newline, k - 1 <= MaxLine,
             \A i \in 1..(k - 1) : b[i] # Output!Newline,
             Output!Cut(b) = <<SubSeq(b, 1, k - 1), SubSeq(b, k + 1, Len(b))>>
      PROVE  Goal
  <2>1. line = SubSeq(b, 1, k - 1) /\ Output!Cut(b)[2] = SubSeq(text, m + k + 1, Len(text))
    <3>1. k \in 0..Len(b)
      BY <1>1, <1>4
    <3>2. SubSeq(b, k + 1, Len(b)) = SubSeq(text, m + k + 1, Len(text))
      BY <1>5, <3>1
    <3>3. \A x, y : <<x, y>>[1] = x /\ <<x, y>>[2] = y
      OBVIOUS
    <3> QED
      <4>1. Output!Cut(b) = <<SubSeq(b, 1, k - 1), SubSeq(b, k + 1, Len(b))>>
        BY <1>6
      <4>2. Output!Cut(b)[1] = SubSeq(b, 1, k - 1)
        BY <3>3, <4>1, ZenonT(40)
      <4>3. Output!Cut(b)[2] = SubSeq(b, k + 1, Len(b))
        BY <3>3, <4>1, ZenonT(40)
      <4> QED
        BY <3>2, <4>2, <4>3, Zenon
  <2>2. k - 1 \in 0..Len(b) /\ k - 1 \in Nat /\ m + k \in (m + 1)..Len(text)
    BY <1>1, <1>4
  <2>3. line \in Seq(Cell) /\ line = SubSeq(text, m + 1, m + (k - 1))
    BY <1>5, <2>1, <2>2
  <2>4. A[m + k] = Held(Append(said, line), << >>)
    <3>1. A[m + k] = Output!Fed(A[m + k - 1], text[m + k]) /\ text[m + k] = Output!Newline
      <4>1. m + k \in 1..Len(text)
        BY <1>1, <2>2
      <4>2. b[k] = text[m + k]
        BY <1>4
      <4> QED
        BY <1>6, <4>1, <4>2 DEF Walks
    <3>2. CASE k = 1
      <4>1. A[m + 1] = Output!Fed(Held(said, << >>), text[m + 1])
        BY <1>1, <2>2 DEF Ahead
      <4>2. << >> \in Seq(Cell) /\ line = << >>
        <5>1. k - 1 = 0
          BY <3>2
        <5>2. SubSeq(b, 1, 0) = << >>
          BY SubSeqEmpty
        <5> QED
          BY <2>1, <5>1, <5>2, EmptySeq
      <4>3. Output!Fed(Held(said, << >>), text[m + 1]) = Held(Append(said, << >>), << >>)
        BY <3>1, <3>2, <4>2, Feeds, Zenon
      <4> QED
        BY <3>2, <4>1, <4>2, <4>3
    <3>3. CASE k > 1
      <4>1. m + (k - 1) <= Len(text) /\ m + (k - 1) = m + k - 1 /\ k - 1 > 0
        BY <1>1, <1>4, <3>3
      <4>2. \A i \in (m + 1)..(m + (k - 1)) : text[i] # Output!Newline
        <5>1. TAKE i \in (m + 1)..(m + (k - 1))
        <5>2. i - m \in 1..(k - 1) /\ i - m \in 1..Len(b) /\ m + (i - m) = i
          BY <1>1, <1>4
        <5> QED
          BY <1>4, <1>6, <5>2
      <4>3. A[m + (k - 1)] = Held(said, SubSeq(text, m + 1, m + (k - 1)))
        BY <1>6, <2>2, <4>1, <4>2, Opens
      <4>4. A[m + k - 1] = Held(said, line)
        BY <2>3, <4>1, <4>3
      <4> HIDE DEF line
      <4>5. Output!Fed(Held(said, line), text[m + k]) = Held(Append(said, line), << >>)
        BY <2>3, <3>1, Feeds
      <4> QED
        BY <3>1, <4>4, <4>5
    <3> QED
      BY <1>1, <3>2, <3>3
  <2>5. Ahead(A, text, m + k, Append(said, line))
    <3>1. CASE m + k < Len(text)
      <4>1. m + k + 1 \in 1..Len(text) /\ m + k + 1 - 1 = m + k
        BY <1>1, <3>1
      <4> HIDE DEF line
      <4> QED
        BY <2>4, <3>1, <4>1 DEF Ahead, Walks
    <3>2. CASE ~(m + k < Len(text))
      <4> HIDE DEF line
      <4> QED
        BY <2>4, <3>2 DEF Ahead
    <3> QED
      BY <3>1, <3>2
  <2> HIDE DEF line
  <2>6. line \in Line
    BY <2>3, CellTypes
  <2> QED
    BY <2>1, <2>2, <2>5, <2>6
<1>7. ASSUME Len(b) > MaxLine, \A i \in 1..(MaxLine + 1) : b[i] # Output!Newline,
             Output!Cut(b) = <<Append(SubSeq(b, 1, MaxLine), "cut"),
                               SubSeq(b, MaxLine + 1, Len(b))>>
      PROVE  Goal
  <2> DEFINE open == SubSeq(b, 1, MaxLine)
  <2>1. /\ line = Append(open, "cut")
        /\ Output!Cut(b)[2] = SubSeq(text, m + MaxLine + 1, Len(text))
    <3>1. MaxLine \in 0..Len(b)
      BY <1>1, <1>4, <1>7
    <3>2. SubSeq(b, MaxLine + 1, Len(b)) = SubSeq(text, m + MaxLine + 1, Len(text))
      BY <1>5, <3>1
    <3>3. \A x, y : <<x, y>>[1] = x /\ <<x, y>>[2] = y
      OBVIOUS
    <3> QED
      <4>1. Output!Cut(b) = <<Append(open, "cut"), SubSeq(b, MaxLine + 1, Len(b))>>
        BY <1>7
      <4> HIDE DEF open
      <4>2. Output!Cut(b)[1] = Append(open, "cut")
        BY <3>3, <4>1, ZenonT(40)
      <4>3. Output!Cut(b)[2] = SubSeq(b, MaxLine + 1, Len(b))
        BY <3>3, <4>1, ZenonT(40)
      <4> QED
        BY <3>2, <4>2, <4>3, Zenon
  <2>2. /\ MaxLine \in 0..Len(b) /\ m + MaxLine \in (m + 1)..Len(text)
        /\ m + MaxLine + 1 \in 1..Len(text) /\ m + MaxLine < Len(text)
    BY <1>1, <1>4, <1>7, SMTT(30)
  <2>3. /\ open \in Seq(Cell) /\ Len(open) = MaxLine
        /\ open = SubSeq(text, m + 1, m + MaxLine)
    BY <1>5, <2>2
  <2>4. A[m + MaxLine] = Held(said, open)
    <3>1. \A i \in (m + 1)..(m + MaxLine) : text[i] # Output!Newline
      <4>1. TAKE i \in (m + 1)..(m + MaxLine)
      <4>2. i - m \in 1..(MaxLine + 1) /\ i - m \in 1..Len(b) /\ m + (i - m) = i
        BY <1>1, <1>4, <1>7
      <4> QED
        BY <1>4, <1>7, <4>2
    <3>2. m + MaxLine <= Len(text)
      BY <1>1, <2>2
    <3>3. A[m + MaxLine] = Held(said, SubSeq(text, m + 1, m + MaxLine))
      BY <1>1, <3>1, <3>2, Opens
    <3> QED
      BY <2>3, <3>3
  <2> DEFINE cell == text[m + MaxLine + 1]
  <2>5. cell \in Cell /\ cell # Output!Newline
    <3>1. MaxLine + 1 \in 1..(MaxLine + 1) /\ MaxLine + 1 \in 1..Len(b)
      BY <1>1, <1>4, <1>7
    <3>2. b[MaxLine + 1] = text[m + (MaxLine + 1)] /\ m + (MaxLine + 1) = m + MaxLine + 1
      BY <1>1, <1>4, <3>1
    <3> QED
      BY <1>2, <1>7, <2>2, <3>1, <3>2
  <2>6. A[m + MaxLine + 1] = Output!Fed(Held(said, open), cell)
    <3>1. m + MaxLine + 1 - 1 = m + MaxLine
      BY <1>1
    <3> QED
      BY <2>2, <2>4, <3>1 DEF Walks
  <2> HIDE DEF open, cell
  <2>7. A[m + MaxLine + 1] = Held(Append(said, Append(open, "cut")), <<cell>>)
    BY <2>3, <2>5, <2>6, Feeds, Zenon
  <2>8. Output!Fed(Held(Append(said, Append(open, "cut")), << >>), cell)
          = Held(Append(said, Append(open, "cut")), Append(<< >>, cell))
    <3>1. << >> \in Seq(Cell) /\ Len(<< >>) # MaxLine
      BY <1>1, EmptySeq
    <3> QED
      BY <2>5, <3>1, Feeds, Zenon
  <2>9. Append(<< >>, cell) = <<cell>>
    OBVIOUS
  <2>10. Append(said, line) = Append(said, Append(open, "cut"))
    BY <2>1
  <2> HIDE DEF line
  <2>11. A[m + MaxLine + 1] = Output!Fed(Held(Append(said, line), << >>), cell)
    BY <2>7, <2>8, <2>9, <2>10
  <2>12. Ahead(A, text, m + MaxLine, Append(said, line))
    BY <2>2, <2>11 DEF Ahead, cell
  <2>13. line \in Line
    <3>1. open \in Seq(Cell \cup {"cut"}) /\ "cut" \in Cell \cup {"cut"}
      BY <2>3, CellTypes DEF Line
    <3> QED
      BY <2>1, <3>1, AppendProperties DEF Line
  <2> QED
    BY <2>1, <2>2, <2>12, <2>13
<1> HIDE DEF Goal
<1>8. Goal
  BY <1>4, <1>6, <1>7, Cuts
<1> QED
  BY <1>8 DEF Goal

LEMMA AppendAfter ==
    ASSUME NEW S, NEW x \in Seq(S), NEW y \in Seq(S), NEW e \in S
    PROVE  x \o Append(y, e) = Append(x \o y, e)
<1>1. x \o y \in Seq(S) /\ <<e>> \in Seq(S)
  BY ConcatProperties
<1>2. Append(y, e) = y \o <<e>> /\ Append(x \o y, e) = (x \o y) \o <<e>>
  BY <1>1, AppendIsConcat
<1> QED
  BY <1>1, <1>2, ConcatAssociative

\* All the lines that are complete, one after the other.
LEMMA Takes ==
    ASSUME NEW text \in Seq(Cell), NEW A, Walks(A, text), NEW said \in Seq(Line),
           Ahead(A, text, 0, said)
    PROVE  LET got == Output!Taken(text)
           IN  /\ got.lines \in Seq(Line) /\ got.rest \in Seq(Cell)
               /\ Len(got.rest) <= MaxLine
               /\ \A i \in 1..Len(got.rest) : got.rest[i] # Output!Newline
               /\ A[Len(text)] = Held(said \o got.lines, got.rest)
<1>1. Len(text) \in Nat /\ MaxLine \in Nat /\ MaxLine > 0
  BY TheLimit
<1>2. PICK f : /\ f[0] = Rest(text) /\ Output!Taken(text) = f[Len(text)]
               /\ \A n \in 1..Len(text) : f[n] = Round(f[n - 1])
  BY Rounds
<1> DEFINE At(n, m) == /\ f[n].rest = SubSeq(text, m + 1, Len(text))
                       /\ f[n].lines \in Seq(Line)
                       /\ Ahead(A, text, m, said \o f[n].lines)
                       /\ m >= n \/ Output!Cut(f[n].rest) = << >>
           Wrong == {n \in 0..Len(text) : ~\E m \in 0..Len(text) : At(n, m)}
<1>3. At(0, 0)
  <2>1. f[0].rest = text /\ f[0].lines = << >>
    BY <1>2 DEF Rest
  <2>2. text = SubSeq(text, 1, Len(text))
    BY SubSeqFull
  <2>3. said \o << >> = said /\ << >> \in Seq(Line)
    BY ConcatEmptySeq, EmptySeq
  <2> QED
    BY <2>1, <2>2, <2>3
<1>4. ASSUME NEW n \in 1..Len(text), NEW m \in 0..Len(text), At(n - 1, m)
      PROVE  \E p \in 0..Len(text) : At(n, p)
  <2> DEFINE was == f[n - 1]
             b == was.rest
             next == Output!Cut(b)
  <2>1. f[n] = Round(was) /\ n \in Nat /\ m \in Nat
    BY <1>2
  <2>2. /\ b = SubSeq(text, m + 1, Len(text)) /\ was.lines \in Seq(Line)
        /\ Ahead(A, text, m, said \o was.lines) /\ (m >= n - 1 \/ next = << >>)
    BY <1>4
  <2>3. CASE next = << >>
    <3>1. f[n] = was
      BY <2>1, <2>3 DEF Round
    <3> QED
      BY <2>2, <2>3, <3>1
  <2>4. CASE next # << >>
    <3>1. said \o was.lines \in Seq(Line)
      BY <2>2, ConcatProperties
    <3> HIDE DEF next, was
    <3>2. PICK p \in (m + 1)..Len(text) :
            /\ next[2] = SubSeq(text, p + 1, Len(text)) /\ next[1] \in Line
            /\ Ahead(A, text, p, Append(said \o was.lines, next[1]))
      <4>1. Output!Cut(b) # << >>
        BY <2>4 DEF next
      <4> QED
        BY <2>2, <3>1, <4>1, OneRound DEF next
    <3>3. f[n] = [lines |-> Append(was.lines, next[1]), rest |-> next[2]]
      BY <2>1, <2>4 DEF Round, next
    <3>4. f[n].lines = Append(was.lines, next[1]) /\ f[n].rest = next[2]
      BY <3>3
    <3>5. Append(was.lines, next[1]) \in Seq(Line)
      BY <2>2, <3>2, AppendProperties
    <3>6. said \o Append(was.lines, next[1]) = Append(said \o was.lines, next[1])
      <4>1. was.lines \in Seq(Line)
        BY <2>2
      <4>2. next[1] \in Line
        BY <3>2
      <4>3. \A y \in Seq(Line), e \in Line : said \o Append(y, e) = Append(said \o y, e)
        BY AppendAfter
      <4> QED
        BY <4>1, <4>2, <4>3, Zenon
    <3>7. p \in 0..Len(text) /\ p >= n
      BY <1>1, <2>1, <2>2, <2>4, <3>2
    <3>8. At(n, p)
      BY <3>2, <3>4, <3>5, <3>6, <3>7
    <3> QED
      BY <3>7, <3>8
  <2> QED
    BY <2>3, <2>4
<1>5. Wrong = {}
  <2>1. SUFFICES ASSUME Wrong # {} PROVE FALSE
    OBVIOUS
  <2>2. PICK n \in Wrong : \A j \in Wrong : n <= j
    <3>1. Wrong \in SUBSET Nat
      OBVIOUS
    <3> QED
      BY <2>1, <3>1, Least
  <2>3. n # 0
    <3>1. 0 \in 0..Len(text)
      BY <1>1
    <3> HIDE DEF At
    <3> QED
      BY <1>3, <2>2, <3>1
  <2>4. n \in 1..Len(text) /\ n - 1 \in 0..Len(text) /\ ~(n <= n - 1)
    <3> HIDE DEF At
    <3> QED
      BY <1>1, <2>2, <2>3
  <2>5. PICK m \in 0..Len(text) : At(n - 1, m)
    <3> HIDE DEF At
    <3> QED
      BY <2>2, <2>4
  <2>6. \E p \in 0..Len(text) : At(n, p)
    <3> HIDE DEF At
    <3> QED
      BY <1>4, <2>4, <2>5
  <2> HIDE DEF At
  <2> QED
    BY <2>2, <2>6
<1> DEFINE got == Output!Taken(text)
           last == Len(text)
<1>6. PICK m \in 0..last : At(last, m)
  <2> HIDE DEF At
  <2>1. last \in 0..last
    BY <1>1
  <2> QED
    BY <1>5, <2>1
<1>7. got = f[last]
  BY <1>2
<1>8. /\ got.rest = SubSeq(text, m + 1, Len(text)) /\ got.lines \in Seq(Line)
      /\ Ahead(A, text, m, said \o got.lines)
      /\ m >= last \/ Output!Cut(got.rest) = << >>
  BY <1>6, <1>7
<1> HIDE DEF got
<1>9. /\ got.rest \in Seq(Cell) /\ Len(got.rest) = Len(text) - m
      /\ \A i \in 1..Len(got.rest) : got.rest[i] = text[m + i]
  BY <1>8, Rests DEF IsRest
<1>10. /\ Len(got.rest) <= MaxLine
       /\ \A i \in 1..Len(got.rest) : got.rest[i] # Output!Newline
  <2>1. CASE m >= last
    BY <1>1, <1>9, <2>1
  <2>2. CASE Output!Cut(got.rest) = << >>
    <3>1. \A x, y : <<x, y>> # << >>
      OBVIOUS
    <3> QED
      BY <1>9, <2>2, <3>1, Cuts, Zenon
  <2> QED
    BY <1>8, <2>1, <2>2
<1>11. A[last] = Held(said \o got.lines, got.rest)
  <2> DEFINE all == said \o got.lines
  <2>0. PICK k : k = Len(text) - m
    OBVIOUS
  <2>1. k \in Nat /\ m + k = last /\ m + k <= Len(text) /\ k <= MaxLine /\ m \in Nat
    BY <1>1, <1>9, <1>10, <2>0
  <2>2. CASE k = 0
    <3>1. m = Len(text)
      BY <2>1, <2>2
    <3>2. A[m] = Held(all, << >>)
      BY <1>1, <1>8, <3>1 DEF Ahead
    <3>3. got.rest = << >>
      BY <1>8, <1>1, <3>1, SubSeqEmpty
    <3> QED
      BY <3>1, <3>2, <3>3
  <2>3. CASE k > 0
    <3>1. \A i \in (m + 1)..(m + k) : text[i] # Output!Newline
      <4>1. TAKE i \in (m + 1)..(m + k)
      <4>2. i - m \in 1..Len(got.rest) /\ m + (i - m) = i
        BY <1>9, <2>0, <2>1
      <4> QED
        BY <1>9, <1>10, <4>2
    <3>2. Ahead(A, text, m, all)
      BY <1>8
    <3> HIDE DEF all
    <3>3. A[m + k] = Held(all, SubSeq(text, m + 1, m + k))
      BY <2>1, <2>3, <3>1, <3>2, Opens
    <3> QED
      BY <1>8, <2>1, <3>3 DEF all
  <2> QED
    BY <2>1, <2>2, <2>3
<1> QED
  BY <1>8, <1>9, <1>10, <1>11 DEF got

-----------------------------------------------------------------------------
(* What is read of a text, cell by cell *)

LEMMA Starts ==
    ASSUME NEW said, NEW text \in Seq(Cell)
    PROVE  /\ Output!CellByCell(said, text)[0] = Held(said, << >>)
           /\ Walks(Output!CellByCell(said, text), text)
           /\ Ahead(Output!CellByCell(said, text), text, 0, said)
<1> DEFINE A == Output!CellByCell(said, text)
<1>1. A[0] = Held(said, << >>) /\ Walks(A, text)
  BY Cells DEF Held, Walks
<1>2. Len(text) \in Nat
  OBVIOUS
<1> HIDE DEF A
<1>3. 0 < Len(text) => A[0 + 1] = Output!Fed(Held(said, << >>), text[0 + 1])
  <2>1. 0 < Len(text) => 1 \in 1..Len(text)
    BY <1>2
  <2>2. 0 < Len(text) => A[1] = Output!Fed(A[1 - 1], text[1])
    BY <1>1, <2>1 DEF Walks
  <2> QED
    BY <1>1, <2>2
<1>4. Ahead(A, text, 0, said)
  BY <1>1, <1>3 DEF Ahead
<1> QED
  BY <1>1, <1>4 DEF A

\* Lines that are complete, and an open one that fits.
Fits(h) == \E said \in Seq(Line), open \in Seq(Cell) :
             Len(open) <= MaxLine /\ h = Held(said, open)

LEMMA FedFits ==
    ASSUME NEW said \in Seq(Line), NEW open \in Seq(Cell), Len(open) <= MaxLine,
           NEW cell \in Cell
    PROVE  /\ Fits(Output!Fed(Held(said, open), cell))
           /\ \/ Output!Fed(Held(said, open), cell).lines = said
              \/ \E line \in Line : Output!Fed(Held(said, open), cell).lines = Append(said, line)
<1>1. MaxLine \in Nat /\ MaxLine > 0 /\ Len(open) \in Nat
  BY TheLimit
<1>2. \A x, y : Held(x, y).lines = x
  BY DEF Held
<1>3. << >> \in Seq(Cell) /\ <<cell>> \in Seq(Cell) /\ Len(<< >>) = 0 /\ Len(<<cell>>) = 1
  OBVIOUS
<1>4. /\ Append(open, cell) \in Seq(Cell) /\ Len(Append(open, cell)) = Len(open) + 1
  BY AppendProperties
<1>5. open \in Line /\ Append(open, "cut") \in Line
  <2>1. open \in Seq(Cell \cup {"cut"}) /\ "cut" \in Cell \cup {"cut"}
    BY CellTypes DEF Line
  <2> QED
    BY <2>1, AppendProperties DEF Line
<1>6. \A line \in Line : Append(said, line) \in Seq(Line)
  BY AppendProperties
<1> DEFINE h == Output!Fed(Held(said, open), cell)
<1>7. CASE cell = Output!Newline
  <2>1. h = Held(Append(said, open), << >>)
    BY <1>7, Feeds
  <2> HIDE DEF h
  <2> QED
    <3>1. Append(said, open) \in Seq(Line) /\ Len(<< >>) <= MaxLine
      BY <1>1, <1>3, <1>5, <1>6
    <3>2. Fits(h)
      BY <1>3, <2>1, <3>1, Zenon DEF Fits
    <3>3. h.lines = Append(said, open)
      BY <1>2, <2>1, Zenon
    <3> QED
      BY <1>5, <3>2, <3>3, Zenon DEF h
<1>8. CASE cell # Output!Newline /\ Len(open) # MaxLine
  <2>1. h = Held(said, Append(open, cell))
    BY <1>8, Feeds
  <2>2. Len(Append(open, cell)) <= MaxLine
    BY <1>1, <1>4, <1>8
  <2> HIDE DEF h
  <2> QED
    BY <1>2, <1>4, <2>1, <2>2 DEF Fits, h
<1>9. CASE cell # Output!Newline /\ Len(open) = MaxLine
  <2>1. h = Held(Append(said, Append(open, "cut")), <<cell>>)
    BY <1>9, Feeds
  <2> HIDE DEF h
  <2> QED
    <3>1. Append(said, Append(open, "cut")) \in Seq(Line) /\ Len(<<cell>>) <= MaxLine
      BY <1>1, <1>3, <1>5, <1>6
    <3>2. Fits(h)
      BY <1>3, <2>1, <3>1, Zenon DEF Fits
    <3>3. h.lines = Append(said, Append(open, "cut"))
      BY <1>2, <2>1, Zenon
    <3> QED
      BY <1>5, <3>2, <3>3, Zenon DEF h
<1> QED
  BY <1>7, <1>8, <1>9

LEMMA ReadFits ==
    ASSUME NEW text \in Seq(Cell), NEW k \in 0..Len(text)
    PROVE  Fits(Output!CellByCell(<< >>, text)[k])
<1> DEFINE A == Output!CellByCell(<< >>, text)
           Wrong == {n \in 0..Len(text) : ~Fits(A[n])}
<1>1. A[0] = Held(<< >>, << >>) /\ Walks(A, text)
  BY Starts
<1>2. Len(text) \in Nat /\ MaxLine \in Nat
  BY TheLimit
<1> HIDE DEF A
<1>3. SUFFICES ASSUME Wrong # {} PROVE FALSE
  BY DEF A
<1>4. PICK n \in Wrong : \A j \in Wrong : n <= j
  <2>1. Wrong \in SUBSET Nat
    OBVIOUS
  <2> QED
    BY <1>3, <2>1, Least
<1>5. n # 0
  <2>1. << >> \in Seq(Line) /\ << >> \in Seq(Cell) /\ Len(<< >>) <= MaxLine
    BY <1>2, EmptySeq
  <2>2. Fits(A[0])
    BY <1>1, <2>1 DEF Fits
  <2> QED
    BY <1>4, <2>2
<1>6. n \in 1..Len(text) /\ n - 1 \in 0..Len(text) /\ ~(n <= n - 1)
  BY <1>2, <1>4, <1>5
<1>7. Fits(A[n - 1])
  BY <1>4, <1>6
<1>8. A[n] = Output!Fed(A[n - 1], text[n]) /\ text[n] \in Cell
  BY <1>1, <1>6, ElementOfSeq DEF Walks
<1>9. PICK said \in Seq(Line), open \in Seq(Cell) :
        Len(open) <= MaxLine /\ A[n - 1] = Held(said, open)
  BY <1>7 DEF Fits
<1>10. Fits(A[n])
  BY <1>8, <1>9, FedFits
<1> QED
  BY <1>4, <1>10

\* What is written later changes nothing of what was read.
LEMMA Extends ==
    ASSUME NEW text \in Seq(Cell), NEW more \in Seq(Cell), NEW k \in 0..Len(text)
    PROVE  Output!CellByCell(<< >>, text \o more)[k] = Output!CellByCell(<< >>, text)[k]
<1> DEFINE both == text \o more
           A == Output!CellByCell(<< >>, text)
           B == Output!CellByCell(<< >>, both)
           Wrong == {n \in 0..Len(text) : B[n] # A[n]}
<1>1. /\ both \in Seq(Cell) /\ Len(both) = Len(text) + Len(more)
      /\ \A i \in 1..Len(text) : both[i] = text[i]
  BY ConcatProperties
<1>2. Len(text) \in Nat /\ Len(more) \in Nat
  OBVIOUS
<1> HIDE DEF both
<1>3. A[0] = Held(<< >>, << >>) /\ Walks(A, text)
  BY Starts
<1>4. B[0] = Held(<< >>, << >>) /\ Walks(B, both)
  BY <1>1, Starts
<1> HIDE DEF A, B
<1>5. SUFFICES ASSUME Wrong # {} PROVE FALSE
  BY DEF A, B, both
<1>6. PICK n \in Wrong : \A j \in Wrong : n <= j
  <2>1. Wrong \in SUBSET Nat
    OBVIOUS
  <2> QED
    BY <1>5, <2>1, Least
<1>7. n \in 1..Len(text) /\ n - 1 \in 0..Len(text) /\ ~(n <= n - 1) /\ n \in 1..Len(both)
  BY <1>1, <1>2, <1>3, <1>4, <1>6
<1>8. A[n] = Output!Fed(A[n - 1], text[n]) /\ B[n] = Output!Fed(B[n - 1], both[n])
  BY <1>3, <1>4, <1>7 DEF Walks
<1>9. A[n - 1] = B[n - 1] /\ both[n] = text[n]
  BY <1>1, <1>6, <1>7
<1> QED
  BY <1>6, <1>8, <1>9

-----------------------------------------------------------------------------
(* Prefixes *)

LEMMA PrefixOfItself ==
    ASSUME NEW S, NEW x \in Seq(S)
    PROVE  Output!IsPrefix(x, x)
BY SubSeqFull DEF Output!IsPrefix

LEMMA PrefixOfMore ==
    ASSUME NEW S, NEW x \in Seq(S), NEW y \in Seq(S), Output!IsPrefix(x, y), NEW e \in S
    PROVE  Output!IsPrefix(x, Append(y, e))
<1> DEFINE z == Append(y, e)
<1>1. z \in Seq(S) /\ Len(z) = Len(y) + 1 /\ \A i \in 1..Len(y) : z[i] = y[i]
  BY AppendProperties
<1>2. Len(x) \in Nat /\ Len(y) \in Nat /\ Len(x) <= Len(y)
  BY DEF Output!IsPrefix
<1> HIDE DEF z
<1>3. /\ SubSeq(y, 1, Len(x)) \in Seq(S) /\ SubSeq(z, 1, Len(x)) \in Seq(S)
      /\ Len(SubSeq(y, 1, Len(x))) = Len(x) /\ Len(SubSeq(z, 1, Len(x))) = Len(x)
      /\ \A i \in 1..Len(x) : /\ SubSeq(y, 1, Len(x))[i] = y[i]
                              /\ SubSeq(z, 1, Len(x))[i] = z[i]
  <2>1. ASSUME NEW seq \in Seq(S), Len(x) <= Len(seq)
        PROVE  /\ SubSeq(seq, 1, Len(x)) \in Seq(S)
               /\ Len(SubSeq(seq, 1, Len(x))) = Len(x)
               /\ \A i \in 1..Len(x) : SubSeq(seq, 1, Len(x))[i] = seq[i]
    <3>1. \A i \in 1..(Len(x) - 1 + 1) : SubSeq(seq, 1, Len(x))[i] = seq[1 + i - 1]
      BY <1>2, <2>1, Piece
    <3>2. Len(SubSeq(seq, 1, Len(x))) = IF 1 <= Len(x) THEN Len(x) - 1 + 1 ELSE 0
      BY <1>2, <2>1, Piece
    <3>3. SubSeq(seq, 1, Len(x)) \in Seq(S)
      BY <1>2, <2>1, Piece
    <3>4. ASSUME NEW i \in 1..Len(x) PROVE SubSeq(seq, 1, Len(x))[i] = seq[i]
      <4>1. i \in 1..(Len(x) - 1 + 1) /\ 1 + i - 1 = i
        BY <1>2
      <4> QED
        BY <3>1, <4>1
    <3> QED
      BY <1>2, <3>2, <3>3, <3>4
  <2>2. Len(x) <= Len(z)
    BY <1>1, <1>2
  <2> QED
    BY <1>1, <1>2, <2>1, <2>2
<1>4. \A i \in 1..Len(x) : SubSeq(y, 1, Len(x))[i] = SubSeq(z, 1, Len(x))[i]
  <2>1. TAKE i \in 1..Len(x)
  <2>2. i \in 1..Len(y)
    BY <1>2
  <2> QED
    BY <1>1, <1>3, <2>2
<1>5. SubSeq(y, 1, Len(x)) = SubSeq(z, 1, Len(x))
  BY <1>3, <1>4, SeqEqual
<1>6. Len(x) <= Len(z) /\ SubSeq(x, 1, Len(x)) = SubSeq(y, 1, Len(x))
  BY <1>1, <1>2 DEF Output!IsPrefix
<1> QED
  BY <1>5, <1>6 DEF Output!IsPrefix, z

-----------------------------------------------------------------------------
(* The readers *)

\* What was read stays read.
LEMMA Grows ==
    ASSUME NEW text \in Seq(Cell), NEW k \in 0..Len(text), NEW n \in k..Len(text)
    PROVE  Output!IsPrefix(Output!CellByCell(<< >>, text)[k].lines,
                           Output!CellByCell(<< >>, text)[n].lines)
<1> DEFINE A == Output!CellByCell(<< >>, text)
           Wrong == {j \in k..Len(text) : ~Output!IsPrefix(A[k].lines, A[j].lines)}
<1>1. Walks(A, text)
  BY Starts
<1>2. Len(text) \in Nat /\ k \in Nat
  OBVIOUS
<1>3. \A j \in 0..Len(text) : Fits(A[j])
  BY ReadFits
<1> HIDE DEF A
<1>4. SUFFICES ASSUME Wrong # {} PROVE FALSE
  BY DEF A
<1>5. PICK j \in Wrong : \A i \in Wrong : j <= i
  <2>1. Wrong \in SUBSET Nat
    BY <1>2
  <2> QED
    BY <1>4, <2>1, Least
<1>6. \A i \in 0..Len(text) : A[i].lines \in Seq(Line)
  <2>1. \A x, y : Held(x, y).lines = x
    BY DEF Held
  <2> QED
    BY <1>3, <2>1 DEF Fits
<1>7. j # k
  <2>1. Output!IsPrefix(A[k].lines, A[k].lines)
    BY <1>6, PrefixOfItself
  <2> QED
    BY <1>5, <2>1
<1>8. /\ j - 1 \in k..Len(text) /\ j \in 1..Len(text) /\ j - 1 \in 0..Len(text)
      /\ ~(j <= j - 1)
  BY <1>2, <1>5, <1>7
<1>9. Output!IsPrefix(A[k].lines, A[j - 1].lines)
  BY <1>5, <1>8
<1>10. A[j] = Output!Fed(A[j - 1], text[j]) /\ text[j] \in Cell
  BY <1>1, <1>8, ElementOfSeq DEF Walks
<1>11. PICK said \in Seq(Line), open \in Seq(Cell) :
         Len(open) <= MaxLine /\ A[j - 1] = Held(said, open)
  BY <1>3, <1>8 DEF Fits
<1>12. A[j - 1].lines = said
  BY <1>11 DEF Held
<1>13. A[j].lines = said \/ \E line \in Line : A[j].lines = Append(said, line)
  BY <1>10, <1>11, FedFits
<1>14. A[k].lines \in Seq(Line)
  BY <1>6
<1>15. Output!IsPrefix(A[k].lines, A[j].lines)
  BY <1>9, <1>12, <1>13, <1>14, PrefixOfMore
<1> QED
  BY <1>5, <1>15

\* The lines of a text: those that are complete, and what is open at its end.
LEMMA SplitOf ==
    ASSUME NEW text \in Seq(Cell)
    PROVE  \E said \in Seq(Line), open \in Seq(Cell) :
             /\ Len(open) <= MaxLine
             /\ Output!CellByCell(<< >>, text)[Len(text)] = Held(said, open)
             /\ Output!Split(text) = IF open = << >> THEN said ELSE Append(said, open)
<1>1. Len(text) \in 0..Len(text)
  OBVIOUS
<1>2. PICK said \in Seq(Line), open \in Seq(Cell) :
        /\ Len(open) <= MaxLine
        /\ Output!CellByCell(<< >>, text)[Len(text)] = Held(said, open)
  BY <1>1, ReadFits DEF Fits
<1>3. Held(said, open).lines = said /\ Held(said, open).open = open
  BY DEF Held
<1>4. Output!Split(text) = IF open = << >> THEN said ELSE Append(said, open)
  BY <1>2, <1>3, Zenon DEF Output!Split
<1> QED
  BY <1>2, <1>4

LEMMA ReadIsPrefix ==
    ASSUME NEW text \in Seq(Cell), NEW k \in 0..Len(text),
           NEW said \in Seq(Line), NEW open,
           Output!CellByCell(<< >>, text)[k] = Held(said, open)
    PROVE  Output!IsPrefix(said, Output!Split(text))
<1>1. Held(said, open).lines = said
  BY DEF Held
<1>2. PICK all \in Seq(Line), last \in Seq(Cell) :
        /\ Output!CellByCell(<< >>, text)[Len(text)] = Held(all, last)
        /\ Output!Split(text) = IF last = << >> THEN all ELSE Append(all, last)
  BY SplitOf
<1>3. Held(all, last).lines = all
  BY DEF Held
<1>4. Output!IsPrefix(said, all)
  <2>1. Len(text) \in k..Len(text)
    OBVIOUS
  <2> QED
    BY <1>1, <1>2, <1>3, <2>1, Grows
<1>5. last \in Line
  BY CellTypes
<1>6. Output!IsPrefix(said, Append(all, last))
  BY <1>4, <1>5, PrefixOfMore
<1> QED
  BY <1>2, <1>4, <1>6

\* A chunk is read with what the buffer holds as it is read with all that came before it.
LEMMA Continues ==
    ASSUME NEW text \in Seq(Cell), NEW t \in 0..Len(text), NEW n \in 0..(Len(text) - t),
           NEW said \in Seq(Line), NEW held \in Seq(Cell), Len(held) <= MaxLine,
           \A i \in 1..Len(held) : held[i] # Output!Newline,
           Output!CellByCell(<< >>, text)[t] = Held(said, held)
    PROVE  LET got == Output!Taken(held \o SubSeq(text, t + 1, t + n))
           IN  /\ got.lines \in Seq(Line) /\ got.rest \in Seq(Cell)
               /\ Len(got.rest) <= MaxLine
               /\ \A i \in 1..Len(got.rest) : got.rest[i] # Output!Newline
               /\ Output!CellByCell(<< >>, text)[t + n] = Held(said \o got.lines, got.rest)
<1> DEFINE chunk == SubSeq(text, t + 1, t + n)
           both == held \o chunk
           k == Len(held)
           A == Output!CellByCell(<< >>, text)
           B == Output!CellByCell(said, both)
           Wrong == {j \in 0..n : A[t + j] # B[k + j]}
<1>1. Len(text) \in Nat /\ t \in Nat /\ n \in Nat /\ k \in Nat /\ t + n <= Len(text)
  OBVIOUS
<1>2. /\ chunk \in Seq(Cell) /\ Len(chunk) = n
      /\ \A i \in 1..n : chunk[i] = text[t + i]
  <2>1. chunk \in Seq(Cell) /\ Len(chunk) = IF t + 1 <= t + n THEN t + n - (t + 1) + 1 ELSE 0
    BY <1>1, Piece
  <2>2. \A i \in 1..(t + n - (t + 1) + 1) : chunk[i] = text[t + 1 + i - 1]
    BY <1>1, Piece
  <2> HIDE DEF chunk
  <2>3. Len(chunk) = n
    BY <1>1, <2>1
  <2>4. ASSUME NEW i \in 1..n PROVE chunk[i] = text[t + i]
    <3>1. i \in 1..(t + n - (t + 1) + 1) /\ t + 1 + i - 1 = t + i
      BY <1>1
    <3> QED
      BY <2>2, <3>1
  <2> QED
    BY <2>1, <2>3, <2>4
<1> HIDE DEF chunk
<1>3. /\ both \in Seq(Cell) /\ Len(both) = k + n
      /\ \A i \in 1..(k + n) : both[i] = IF i <= k THEN held[i] ELSE chunk[i - k]
  BY <1>2, ConcatProperties
<1> HIDE DEF both
<1>4. Walks(A, text) /\ Walks(B, both) /\ Ahead(B, both, 0, said) /\ B[0] = Held(said, << >>)
  BY <1>3, Starts
<1>5. A[t] = Held(said, held)
  OBVIOUS
<1> HIDE DEF A, B
<1>6. B[k] = Held(said, held)
  <2>1. CASE k = 0
    <3>1. held = << >>
      BY <2>1
    <3> QED
      BY <1>4, <2>1, <3>1
  <2>2. CASE k > 0
    <3>1. \A i \in (0 + 1)..(0 + k) : both[i] # Output!Newline
      BY <1>1, <1>3
    <3>2. SubSeq(both, 1, k) = held
      <4>1. SubSeq(both, 1, k) \in Seq(Cell)
        BY <1>1, <1>3, Piece
      <4>2. Len(SubSeq(both, 1, k)) = IF 1 <= k THEN k - 1 + 1 ELSE 0
        BY <1>1, <1>3, Piece
      <4>3. \A i \in 1..(k - 1 + 1) : SubSeq(both, 1, k)[i] = both[1 + i - 1]
        BY <1>1, <1>3, Piece
      <4>4. ASSUME NEW i \in 1..k PROVE SubSeq(both, 1, k)[i] = held[i]
        <5>1. i \in 1..(k - 1 + 1) /\ 1 + i - 1 = i /\ i \in 1..(k + n) /\ i <= k
          BY <1>1
        <5> QED
          BY <1>3, <4>3, <5>1
      <4>5. Len(SubSeq(both, 1, k)) = Len(held)
        BY <1>1, <4>2
      <4> QED
        BY <4>1, <4>4, <4>5, SeqEqual
    <3>3. 0 \in 0..Len(both) /\ 0 + k <= Len(both) /\ k <= MaxLine /\ k \in Nat
      BY <1>1, <1>3
    <3> HIDE DEF k
    <3>4. B[0 + k] = Held(said, SubSeq(both, 0 + 1, 0 + k))
      <4>1. ASSUME NEW m \in 0..Len(both), NEW j \in Nat, m + j <= Len(both), j <= MaxLine,
                   Ahead(B, both, m, said), j > 0,
                   \A i \in (m + 1)..(m + j) : both[i] # Output!Newline
            PROVE  B[m + j] = Held(said, SubSeq(both, m + 1, m + j))
        BY <1>3, <1>4, <4>1, Opens
      <4> QED
        BY <1>4, <2>2, <3>1, <3>3, <4>1, Zenon
    <3>5. 0 + k = k /\ 0 + 1 = 1
      BY <3>3
    <3> QED
      BY <3>2, <3>4, <3>5
  <2> QED
    BY <1>1, <2>1, <2>2
<1>7. Wrong = {}
  <2>1. SUFFICES ASSUME Wrong # {} PROVE FALSE
    OBVIOUS
  <2>2. PICK j \in Wrong : \A i \in Wrong : j <= i
    <3>1. Wrong \in SUBSET Nat
      BY <1>1
    <3> QED
      BY <2>1, <3>1, Least
  <2>3. j # 0
    BY <1>1, <1>5, <1>6, <2>2
  <2>4. /\ j - 1 \in 0..n /\ ~(j <= j - 1) /\ j \in 1..n /\ j \in Nat
        /\ t + j \in 1..Len(text) /\ k + j \in 1..Len(both)
        /\ t + j - 1 = t + (j - 1) /\ k + j - 1 = k + (j - 1)
    BY <1>1, <1>3, <2>2, <2>3
  <2>5. A[t + (j - 1)] = B[k + (j - 1)]
    BY <2>2, <2>4
  <2>6. A[t + j] = Output!Fed(A[t + (j - 1)], text[t + j])
    BY <1>4, <2>4 DEF Walks
  <2>7. B[k + j] = Output!Fed(B[k + (j - 1)], both[k + j])
    BY <1>4, <2>4 DEF Walks
  <2>8. both[k + j] = text[t + j]
    <3>1. k + j \in 1..(k + n) /\ ~(k + j <= k) /\ k + j - k = j
      BY <1>1, <2>4
    <3> QED
      BY <1>2, <1>3, <2>4, <3>1, SMTT(40)
  <2> QED
    BY <2>2, <2>5, <2>6, <2>7, <2>8
<1>8. A[t + n] = B[Len(both)]
  BY <1>1, <1>3, <1>7
<1>9. LET got == Output!Taken(both)
      IN  /\ got.lines \in Seq(Line) /\ got.rest \in Seq(Cell)
          /\ Len(got.rest) <= MaxLine
          /\ \A i \in 1..Len(got.rest) : got.rest[i] # Output!Newline
          /\ B[Len(both)] = Held(said \o got.lines, got.rest)
  BY <1>3, <1>4, Takes
<1> QED
  BY <1>8, <1>9 DEF A, both, chunk

-----------------------------------------------------------------------------
(* The watcher: what it counts *)

Watch == [event : BOOLEAN, turn : BOOLEAN, error : BOOLEAN,
          usage : [Output!Kinds -> Nat], total : Nat, overspent : BOOLEAN, tail : Line]

LEMMA MaxOfTwo ==
    ASSUME NEW x \in Nat, NEW y \in Nat
    PROVE  Output!Max({x, y}) = IF x >= y THEN x ELSE y
<1> DEFINE m == IF x >= y THEN x ELSE y
<1>1. m \in {x, y} /\ \A z \in {x, y} : z <= m
  OBVIOUS
<1>2. {x, y} \in SUBSET Nat
  OBVIOUS
<1> HIDE DEF m
<1>3. Output!Max({x, y}) = m
  BY <1>1, <1>2, MaxIs
<1> QED
  BY <1>3 DEF m

LEMMA CountedIs ==
    ASSUME NEW line \in Line, NEW kind
    PROVE  /\ Output!Counted(line, kind).any \in BOOLEAN
           /\ Output!Counted(line, kind).count \in Nat
<1> DEFINE found == {i \in DOMAIN line : line[i] \in DOMAIN Counts /\ Counts[line[i]].kind = kind}
           c == IF found = {} THEN 0 ELSE Counts[line[Output!Max(found)]].count
<1>1. Output!Counted(line, kind) = [any |-> found # {}, count |-> c]
  BY DEF Output!Counted
<1>2. \A x \in DOMAIN Counts : Counts[x].count \in Nat
  BY AttemptAssumption DEF AttemptAssumption, Output!StreamAssumption
<1>3. c \in Nat
  <2>1. CASE found # {}
    <3>1. Len(line) \in Nat /\ found \in SUBSET (0..Len(line))
      BY DEF Line
    <3>2. Output!Max(found) \in found
      BY <2>1, <3>1, HighestIsMax
    <3> QED
      BY <1>2, <2>1, <3>2
  <2> QED
    BY <2>1
<1> HIDE DEF found, c
<1> QED
  BY <1>1, <1>3

LEMMA ReportsIs ==
    ASSUME NEW line \in Line, NEW kind
    PROVE  Output!TokensOn(line, kind) \in Nat
BY CountedIs DEF Output!TokensOn

LEMMA CombineIs ==
    ASSUME NEW old \in Nat, NEW new \in Nat
    PROVE  /\ Output!Combine(old, new) \in Nat /\ Output!Combine(old, new) >= old
           /\ new = 0 => Output!Combine(old, new) = old
           /\ Cumulative => /\ Output!Combine(old, new) >= new
                            /\ Output!Combine(old, new) \in {old, new}
           /\ ~Cumulative => Output!Combine(old, new) = old + new
BY MaxOfTwo DEF Output!Combine

\* A line is counted by its breakdown, or by its total.
LEMMA TokensObserved ==
    ASSUME NEW w \in Watch, NEW line \in Line, NEW v, v = Output!observeTokens(w, line)
    PROVE  /\ v \in Watch
           /\ \A k \in Output!Kinds :
                v.usage[k] = Output!Combine(w.usage[k], Output!TokensOn(line, k))
           /\ v.total = Output!Combine(w.total, Output!TokensOn(line, "used"))
           /\ v.event = w.event /\ v.turn = w.turn /\ v.error = w.error
           /\ v.overspent = w.overspent /\ v.tail = w.tail
<1> DEFINE any(k) == Output!Counted(line, k).any
           count(k) == Output!Counted(line, k).count
<1>1. \A k : any(k) \in BOOLEAN /\ count(k) \in Nat
  BY CountedIs
<1>2. /\ \A k \in Output!Kinds : Output!TokensOn(line, k) = IF any(k) THEN count(k) ELSE 0
      /\ Output!TokensOn(line, "used")
           = IF any("used") /\ \A k \in Output!Kinds : ~any(k) THEN count("used") ELSE 0
  BY DEF Output!TokensOn, Output!Kinds
<1>3. w.usage \in [Output!Kinds -> Nat] /\ w.total \in Nat
  BY DEF Watch
<1>4. CASE \E k \in Output!Kinds : any(k)
  <2> DEFINE u == [k \in Output!Kinds |-> IF any(k) THEN Output!Combine(w.usage[k], count(k))
                                          ELSE w.usage[k]]
  <2>1. v = [w EXCEPT !.usage = u]
    BY <1>4 DEF Output!observeTokens
  <2>2. \A k \in Output!Kinds :
          /\ u[k] \in Nat
          /\ u[k] = Output!Combine(w.usage[k], Output!TokensOn(line, k))
    <3>1. TAKE k \in Output!Kinds
    <3>2. w.usage[k] \in Nat /\ Output!Combine(w.usage[k], 0) = w.usage[k]
      BY <1>3, CombineIs
    <3>3. Output!Combine(w.usage[k], count(k)) \in Nat
      BY <1>1, <3>2, CombineIs
    <3> HIDE DEF any, count
    <3> QED
      BY <1>2, <3>2, <3>3
  <2>3. w.total = Output!Combine(w.total, Output!TokensOn(line, "used"))
    <3>1. Output!TokensOn(line, "used") = 0
      BY <1>2, <1>4
    <3> QED
      BY <1>3, <3>1, CombineIs
  <2>4. u \in [Output!Kinds -> Nat]
    BY <2>2
  <2> HIDE DEF u, any, count
  <2>5. v \in Watch
    BY <2>1, <2>4 DEF Watch
  <2>6. /\ v.usage = u /\ v.total = w.total /\ v.event = w.event /\ v.turn = w.turn
        /\ v.error = w.error /\ v.overspent = w.overspent /\ v.tail = w.tail
    BY <2>1 DEF Watch
  <2> QED
    BY <2>2, <2>3, <2>5, <2>6
<1>5. CASE ~\E k \in Output!Kinds : any(k)
  <2>1. \A k \in Output!Kinds :
          w.usage[k] = Output!Combine(w.usage[k], Output!TokensOn(line, k))
    <3>1. TAKE k \in Output!Kinds
    <3>2. Output!TokensOn(line, k) = 0 /\ w.usage[k] \in Nat
      BY <1>2, <1>3, <1>5
    <3> QED
      BY <3>2, CombineIs
  <2>2. CASE any("used")
    <3> DEFINE n == Output!Combine(w.total, count("used"))
    <3>1. v = [w EXCEPT !.total = n]
      BY <1>5, <2>2 DEF Output!observeTokens
    <3>2. n \in Nat /\ n = Output!Combine(w.total, Output!TokensOn(line, "used"))
      <4>1. Output!TokensOn(line, "used") = count("used")
        BY <1>2, <1>5, <2>2
      <4>2. count("used") \in Nat
        BY <1>1
      <4> HIDE DEF count
      <4> QED
        BY <1>3, <4>1, <4>2, CombineIs
    <3> HIDE DEF n, any, count
    <3>3. v \in Watch
      BY <3>1, <3>2 DEF Watch
    <3>4. /\ v.usage = w.usage /\ v.total = n /\ v.event = w.event /\ v.turn = w.turn
          /\ v.error = w.error /\ v.overspent = w.overspent /\ v.tail = w.tail
      BY <3>1 DEF Watch
    <3> QED
      BY <2>1, <3>2, <3>3, <3>4
  <2>3. CASE ~any("used")
    <3>1. v = w
      BY <1>5, <2>3 DEF Output!observeTokens
    <3>2. w.total = Output!Combine(w.total, Output!TokensOn(line, "used"))
      <4>1. Output!TokensOn(line, "used") = 0
        BY <1>2, <2>3
      <4> QED
        BY <1>3, <4>1, CombineIs
    <3> QED
      BY <2>1, <3>1, <3>2
  <2> QED
    BY <2>2, <2>3
<1> QED
  BY <1>4, <1>5

LEMMA Observed ==
    ASSUME NEW w \in Watch, NEW line \in Line, NEW v, v = Output!observe(w, line)
    PROVE  /\ v \in Watch
           /\ v.event <=> (w.event \/ Output!IsEvent(line))
           /\ v.turn <=> (w.turn \/ (Output!Says(line, "turn") /\ ~Output!Says(line, "error")))
           /\ v.error <=> (Output!Says(line, "error") \/ (w.error /\ ~Output!Says(line, "turn")))
           /\ v.usage = w.usage /\ v.total = w.total
           /\ v.overspent = w.overspent /\ v.tail = w.tail
<1> DEFINE e == w.event \/ Output!IsEvent(line)
           u == w.turn \/ (Output!Says(line, "turn") /\ ~Output!Says(line, "error"))
           r == Output!Says(line, "error") \/ (w.error /\ ~Output!Says(line, "turn"))
<1>1. v = [w EXCEPT !.event = e, !.turn = u, !.error = r]
  BY DEF Output!observe
<1>2. e \in BOOLEAN /\ u \in BOOLEAN /\ r \in BOOLEAN
  OBVIOUS
<1> HIDE DEF e, u, r
<1>3. v \in Watch
  BY <1>1, <1>2 DEF Watch
<1>4. v.event = e /\ v.turn = u /\ v.error = r
  BY <1>1 DEF Watch
<1>5. /\ v.usage = w.usage /\ v.total = w.total /\ v.overspent = w.overspent
      /\ v.tail = w.tail
  BY <1>1 DEF Watch
<1> QED
  BY <1>3, <1>4, <1>5 DEF e, u, r

-----------------------------------------------------------------------------
(* The watcher: what was said *)

Said == [Output!Streams -> Seq(Line)]

LEMMA OneMore ==
    ASSUME NEW x \in Seq(Line), NEW line \in Line, NEW y, y = Append(x, line)
    PROVE  /\ y \in Seq(Line) /\ Len(y) = Len(x) + 1 /\ y[Len(x) + 1] = line
           /\ \A i \in 1..Len(x) : y[i] = x[i]
           /\ DOMAIN y = DOMAIN x \cup {Len(x) + 1} /\ DOMAIN x = 1..Len(x)
<1>1. /\ y \in Seq(Line) /\ Len(y) = Len(x) + 1 /\ y[Len(x) + 1] = line
      /\ \A i \in 1..Len(x) : y[i] = x[i]
  BY AppendProperties
<1>2. DOMAIN x = 1..Len(x) /\ Len(x) \in Nat
  OBVIOUS
<1>3. DOMAIN y = 1..(Len(x) + 1)
  BY <1>1
<1>4. DOMAIN y = DOMAIN x \cup {Len(x) + 1}
  BY <1>2, <1>3
<1> QED
  BY <1>1, <1>2, <1>4

\* An error stands after a line that says one, or that lets the model say nothing.
LEMMA ErrorAfter ==
    ASSUME NEW x \in Seq(Line), NEW line \in Line, NEW y, y = Append(x, line)
    PROVE  Output!ErrorStands(y)
             <=> \/ Output!Says(line, "error")
                 \/ Output!ErrorStands(x) /\ ~Output!Says(line, "turn")
<1> DEFINE Err(l) == Output!Says(l, "error")
           Mute(l) == Output!Says(l, "error") \/ ~Output!Says(l, "turn")
           n == Len(x)
<1>1. /\ Len(y) = n + 1 /\ y[n + 1] = line /\ \A i \in 1..n : y[i] = x[i]
      /\ n \in Nat /\ DOMAIN x = 1..n /\ DOMAIN y = 1..(n + 1)
  <2>1. /\ Len(y) = n + 1 /\ y[n + 1] = line /\ \A i \in 1..n : y[i] = x[i]
        /\ DOMAIN y = DOMAIN x \cup {n + 1} /\ DOMAIN x = 1..n
    BY OneMore
  <2>2. n \in Nat /\ 1..n \cup {n + 1} = 1..(n + 1)
    OBVIOUS
  <2> QED
    BY <2>1, <2>2
<1>2. Output!ErrorStands(x) <=> \E i \in 1..n : Err(x[i]) /\ \A j \in (i + 1)..n : Mute(x[j])
  BY <1>1 DEF Output!ErrorStands
<1>3. Output!ErrorStands(y)
        <=> \E i \in 1..(n + 1) : Err(y[i]) /\ \A j \in (i + 1)..(n + 1) : Mute(y[j])
  BY <1>1 DEF Output!ErrorStands
<1> HIDE DEF n
<1>4. ASSUME Err(line) PROVE Output!ErrorStands(y)
  <2>1. n + 1 \in 1..(n + 1) /\ (n + 1 + 1)..(n + 1) = {}
    BY <1>1
  <2> HIDE DEF Err, Mute
  <2>2. Err(y[n + 1])
    BY <1>1, <1>4
  <2> QED
    BY <1>3, <2>1, <2>2
<1>5. ASSUME Output!ErrorStands(x), Mute(line) PROVE Output!ErrorStands(y)
  <2> HIDE DEF Err, Mute
  <2>1. PICK i \in 1..n : Err(x[i]) /\ \A j \in (i + 1)..n : Mute(x[j])
    BY <1>2, <1>5
  <2>2. ASSUME NEW j \in (i + 1)..(n + 1) PROVE Mute(y[j])
    <3>1. CASE j = n + 1
      BY <1>1, <1>5, <3>1
    <3>2. CASE j # n + 1
      <4>1. j \in (i + 1)..n /\ j \in 1..n
        BY <1>1, <3>2
      <4> QED
        BY <1>1, <2>1, <4>1
    <3> QED
      BY <3>1, <3>2
  <2>3. i \in 1..(n + 1) /\ Err(y[i])
    BY <1>1, <2>1
  <2> QED
    BY <1>3, <2>2, <2>3
<1>6. ASSUME Output!ErrorStands(y), ~Err(line) PROVE Output!ErrorStands(x) /\ Mute(line)
  <2> HIDE DEF Err, Mute
  <2>1. PICK i \in 1..(n + 1) : Err(y[i]) /\ \A j \in (i + 1)..(n + 1) : Mute(y[j])
    BY <1>3, <1>6
  <2>2. i # n + 1
    BY <1>1, <1>6, <2>1
  <2>3. i \in 1..n /\ n + 1 \in (i + 1)..(n + 1)
    BY <1>1, <2>2
  <2>4. Mute(line) /\ Err(x[i])
    BY <1>1, <2>1, <2>3
  <2>5. ASSUME NEW j \in (i + 1)..n PROVE Mute(x[j])
    <3>1. j \in (i + 1)..(n + 1) /\ j \in 1..n
      BY <1>1, <2>3
    <3> QED
      BY <1>1, <2>1, <3>1
  <2> QED
    BY <1>2, <2>3, <2>4, <2>5
<1> QED
  BY <1>4, <1>5, <1>6

Longer(y, x, line) == y = Append(x, line)

LEMMA TotalAfter ==
    ASSUME NEW x \in Seq(Line), NEW line \in Line, NEW y, Longer(y, x, line), NEW kind
    PROVE  Output!Total(y, kind) = Output!Total(x, kind) + Output!TokensOn(line, kind)
<1> DEFINE n == Len(x)
           Rep(l) == Output!TokensOn(l, kind)
<1>1. /\ y \in Seq(Line) /\ Len(y) = n + 1 /\ y[n + 1] = line /\ \A i \in 1..n : y[i] = x[i]
      /\ n \in Nat
  BY OneMore DEF Longer
<1>2. PICK f : /\ f[0] = 0 /\ Output!Total(x, kind) = f[n]
               /\ \A i \in 1..n : f[i] = f[i - 1] + Output!TokensOn(x[i], kind)
  BY Totals
<1>3. PICK g : /\ g[0] = 0 /\ Output!Total(y, kind) = g[Len(y)]
               /\ \A i \in 1..Len(y) : g[i] = g[i - 1] + Output!TokensOn(y[i], kind)
  BY <1>1, Totals
<1> DEFINE Wrong == {i \in 0..n : f[i] # g[i]}
<1> HIDE DEF n
<1>4. Wrong = {}
  <2>1. SUFFICES ASSUME Wrong # {} PROVE FALSE
    OBVIOUS
  <2>2. PICK i \in Wrong : \A j \in Wrong : i <= j
    <3>1. Wrong \in SUBSET Nat
      BY <1>1
    <3> QED
      BY <2>1, <3>1, Least
  <2>3. i # 0
    BY <1>2, <1>3, <2>2
  <2>4. i \in 1..n /\ i - 1 \in 0..n /\ ~(i <= i - 1) /\ i \in 1..Len(y)
    BY <1>1, <2>2, <2>3
  <2>5. f[i - 1] = g[i - 1] /\ x[i] = y[i]
    BY <1>1, <2>2, <2>4
  <2>6. f[i] = f[i - 1] + Output!TokensOn(x[i], kind)
    BY <1>2, <2>4
  <2>7. g[i] = g[i - 1] + Output!TokensOn(y[i], kind)
    BY <1>3, <2>4
  <2> QED
    BY <2>2, <2>5, <2>6, <2>7
<1>5. n \in 0..n /\ n + 1 \in 1..Len(y) /\ n + 1 - 1 = n
  BY <1>1
<1>6. g[n + 1] = g[n] + Output!TokensOn(line, kind)
  BY <1>1, <1>3, <1>5
<1>7. f[n] = g[n]
  BY <1>4, <1>5
<1> QED
  BY <1>1, <1>2, <1>3, <1>6, <1>7

LEMMA TotalIs ==
    ASSUME NEW x \in Seq(Line), NEW kind
    PROVE  Output!Total(x, kind) \in Nat
<1> DEFINE n == Len(x)
<1>1. PICK f : /\ f[0] = 0 /\ Output!Total(x, kind) = f[n]
               /\ \A i \in 1..n : f[i] = f[i - 1] + Output!TokensOn(x[i], kind)
  BY Totals
<1>2. n \in Nat /\ \A i \in 1..n : Output!TokensOn(x[i], kind) \in Nat
  <2>1. \A i \in 1..n : x[i] \in Line
    BY ElementOfSeq
  <2> QED
    BY <2>1, ReportsIs
<1> DEFINE Wrong == {i \in 0..n : f[i] \notin Nat}
<1> HIDE DEF n
<1>3. Wrong = {}
  <2>1. SUFFICES ASSUME Wrong # {} PROVE FALSE
    OBVIOUS
  <2>2. PICK i \in Wrong : \A j \in Wrong : i <= j
    <3>1. Wrong \in SUBSET Nat
      BY <1>2
    <3> QED
      BY <2>1, <3>1, Least
  <2>3. i # 0
    BY <1>1, <2>2
  <2>4. i \in 1..n /\ i - 1 \in 0..n /\ ~(i <= i - 1)
    BY <1>2, <2>2, <2>3
  <2>5. f[i - 1] \in Nat /\ Output!TokensOn(x[i], kind) \in Nat
    BY <1>2, <2>2, <2>4
  <2>6. f[i] = f[i - 1] + Output!TokensOn(x[i], kind)
    BY <1>1, <2>4
  <2> QED
    BY <2>2, <2>5, <2>6
<1> QED
  BY <1>1, <1>2, <1>3

\* Everything the lines report of a kind, and what that amounts to.
AllReports(said, kind) ==
    {0} \cup
    UNION {{Output!TokensOn(said[s][i], kind) : i \in DOMAIN said[s]} : s \in Output!Streams}

LEMMA InReports ==
    ASSUME NEW said, NEW kind, NEW m
    PROVE  m \in AllReports(said, kind)
             <=> \/ m = 0
                 \/ \E s \in Output!Streams : \E i \in DOMAIN said[s] :
                      m = Output!TokensOn(said[s][i], kind)
<1> DEFINE Of(s) == {Output!TokensOn(said[s][i], kind) : i \in DOMAIN said[s]}
           all == UNION {Of(s) : s \in Output!Streams}
<1>1. \A s : m \in Of(s) <=> \E i \in DOMAIN said[s] : m = Output!TokensOn(said[s][i], kind)
  OBVIOUS
<1>2. AllReports(said, kind) = {0} \cup all
  BY DEF AllReports
<1>3. m \in all <=> \E s \in Output!Streams : m \in Of(s)
  <2> HIDE DEF Of
  <2> QED
    OBVIOUS
<1> HIDE DEF Of, all
<1>4. m \in AllReports(said, kind) <=> m = 0 \/ m \in all
  BY <1>2
<1> QED
  BY <1>1, <1>3, <1>4

LEMMA ReportsAre ==
    ASSUME NEW said \in Said, NEW kind
    PROVE  AllReports(said, kind) \in SUBSET Nat
<1>1. ASSUME NEW s \in Output!Streams, NEW i \in DOMAIN said[s]
      PROVE  Output!TokensOn(said[s][i], kind) \in Nat
  <2>1. said[s] \in Seq(Line)
    BY DEF Said
  <2>2. said[s][i] \in Line
    BY <2>1, ElementOfSeq
  <2> QED
    BY <2>2, ReportsIs
<1>2. \A m \in AllReports(said, kind) : m \in Nat
  BY <1>1, InReports
<1> QED
  BY <1>2

IsReported(n, said, kind) ==
    IF Cumulative THEN n \in AllReports(said, kind) /\ \A m \in AllReports(said, kind) : m <= n
    ELSE n = Output!Total(said["stdout"], kind) + Output!Total(said["stderr"], kind)

LEMMA ReportedIs ==
    ASSUME NEW said \in Said, NEW kind, NEW n \in Nat, IsReported(n, said, kind)
    PROVE  Output!Reported(said, kind) = n
<1>1. AllReports(said, kind) \in SUBSET Nat
  BY ReportsAre
<1>2. CASE Cumulative
  <2>1. n \in AllReports(said, kind) /\ \A m \in AllReports(said, kind) : m <= n
    BY <1>2 DEF IsReported
  <2>2. Output!Max(AllReports(said, kind)) = n
    BY <1>1, <2>1, MaxIs
  <2> QED
    BY <1>2, <2>2 DEF Output!Reported, AllReports
<1>3. CASE ~Cumulative
  BY <1>3 DEF IsReported, Output!Reported
<1> QED
  BY <1>2, <1>3

LEMMA ReportedAfter ==
    ASSUME NEW said \in Said, NEW s \in Output!Streams, NEW line \in Line, NEW kind,
           NEW n \in Nat, IsReported(n, said, kind),
           NEW more, more = [said EXCEPT ![s] = Append(said[s], line)]
    PROVE  IsReported(Output!Combine(n, Output!TokensOn(line, kind)), more, kind)
<1> DEFINE new == Output!TokensOn(line, kind)
           best == Output!Combine(n, new)
<1>1. /\ more[s] = Append(said[s], line) /\ said[s] \in Seq(Line)
      /\ \A r \in Output!Streams \ {s} : more[r] = said[r]
  BY DEF Said
<1>2. /\ new \in Nat /\ best \in Nat /\ best >= n
      /\ Cumulative => best >= new /\ best \in {n, new}
      /\ ~Cumulative => best = n + new
  BY ReportsIs, CombineIs
<1>3. CASE Cumulative
  <2>1. AllReports(more, kind) = AllReports(said, kind) \cup {new}
    <3>1. \A r : (\E i \in DOMAIN more[s] : r = Output!TokensOn(more[s][i], kind))
                <=> r = new \/ \E i \in DOMAIN said[s] : r = Output!TokensOn(said[s][i], kind)
      <4> DEFINE x == said[s]
                 y == more[s]
      <4>1. /\ y[Len(x) + 1] = line /\ \A i \in DOMAIN x : y[i] = x[i]
            /\ DOMAIN y = DOMAIN x \cup {Len(x) + 1}
        BY <1>1, OneMore
      <4> HIDE DEF x, y
      <4>2. \A r : (\E i \in DOMAIN y : r = Output!TokensOn(y[i], kind))
                  <=> r = new \/ \E i \in DOMAIN x : r = Output!TokensOn(x[i], kind)
        BY <4>1
      <4> QED
        BY <4>2 DEF x, y
    <3> HIDE DEF new
    <3>2. ASSUME NEW m
          PROVE  m \in AllReports(more, kind) <=> m \in AllReports(said, kind) \/ m = new
      <4> DEFINE In(a, r) == \E i \in DOMAIN a[r] : m = Output!TokensOn(a[r][i], kind)
      <4>1. In(more, s) <=> m = new \/ In(said, s)
        BY <3>1
      <4>2. \A r \in Output!Streams \ {s} : In(more, r) <=> In(said, r)
        BY <1>1
      <4>3. \A a : m \in AllReports(a, kind) <=> m = 0 \/ \E r \in Output!Streams : In(a, r)
        BY InReports
      <4> HIDE DEF In
      <4> QED
        BY <4>1, <4>2, <4>3
    <3> QED
      BY <3>2
  <2>2. n \in AllReports(said, kind) /\ \A m \in AllReports(said, kind) : m <= n
    BY <1>3 DEF IsReported
  <2>3. AllReports(said, kind) \in SUBSET Nat
    BY ReportsAre
  <2> HIDE DEF new, best
  <2>4. best \in AllReports(more, kind)
    BY <1>2, <1>3, <2>1, <2>2
  <2>5. \A m \in AllReports(more, kind) : m <= best
    <3>1. TAKE m \in AllReports(more, kind)
    <3>2. m = new \/ (m \in Nat /\ m <= n)
      BY <2>1, <2>2, <2>3
    <3> QED
      BY <1>2, <1>3, <3>2
  <2> QED
    BY <1>3, <2>4, <2>5 DEF IsReported, best, new
<1>4. CASE ~Cumulative
  <2>1. Output!Total(more[s], kind) = Output!Total(said[s], kind) + new
    <3> DEFINE x == said[s]
               y == more[s]
    <3>1. x \in Seq(Line) /\ Longer(y, x, line)
      BY <1>1 DEF Longer
    <3> HIDE DEF x, y
    <3>2. Output!Total(y, kind) = Output!Total(x, kind) + new
      BY <3>1, TotalAfter
    <3> QED
      BY <3>2 DEF x, y
  <2>2. \A r \in Output!Streams : Output!Total(said[r], kind) \in Nat
    <3>1. \A r \in Output!Streams : said[r] \in Seq(Line)
      BY DEF Said
    <3> QED
      BY <3>1, TotalIs
  <2>3. n = Output!Total(said["stdout"], kind) + Output!Total(said["stderr"], kind)
    BY <1>4 DEF IsReported
  <2> HIDE DEF new, best
  <2>4. best = Output!Total(more["stdout"], kind) + Output!Total(more["stderr"], kind)
    BY <1>1, <1>2, <1>4, <2>1, <2>2, <2>3 DEF Output!Streams
  <2> QED
    BY <1>4, <2>4 DEF IsReported, best, new
<1> QED
  BY <1>3, <1>4

\* A watcher has heard what was said: it knows of events, of turns and of the error that
\* stands, and of the tokens reported; and it has overspent if it is over the budget, and
\* under a cap on tokens alone only then.
Heard(w, said) ==
    /\ w.event <=> \E i \in DOMAIN said["stdout"] : Output!IsEvent(said["stdout"][i])
    /\ w.turn => \E i \in DOMAIN said["stdout"] : Output!Says(said["stdout"][i], "turn")
    /\ w.error <=> Output!ErrorStands(said["stdout"])
    /\ \A k \in Output!Kinds : IsReported(w.usage[k], said, k)
    /\ IsReported(w.total, said, "used")
    /\ Output!OverBudget(w) => w.overspent
    /\ cap.usd = None => (w.overspent => Output!OverBudget(w))

LEMMA SpentIs ==
    ASSUME NEW w \in Watch
    PROVE  /\ Output!Sum(w.usage) = w.usage["input"] + w.usage["cached"]
           /\ w.usage["input"] \in Nat /\ w.usage["cached"] \in Nat /\ w.total \in Nat
           /\ Output!Spent(w) = IF Output!Sum(w.usage) >= w.total THEN Output!Sum(w.usage)
                                ELSE w.total
<1>1. w.usage["input"] \in Nat /\ w.usage["cached"] \in Nat /\ w.total \in Nat
  BY DEF Watch, Output!Kinds
<1>2. Output!Sum(w.usage) = w.usage["input"] + w.usage["cached"]
  BY DEF Output!Sum
<1>3. Output!Sum(w.usage) \in Nat
  BY <1>1, <1>2
<1> QED
  BY <1>1, <1>2, <1>3, MaxOfTwo DEF Output!Spent

\* Nothing that is counted later brings an attempt back under a cap on tokens.
LEMMA BudgetStaysOver ==
    ASSUME NEW w \in Watch, NEW v \in Watch, cap \in Caps, cap.usd = None,
           \A k \in Output!Kinds : v.usage[k] >= w.usage[k], v.total >= w.total,
           Output!OverBudget(w)
    PROVE  Output!OverBudget(v)
<1>1. cap.tokens # None /\ Output!Spent(w) > cap.tokens
  BY DEF Output!OverBudget
<1>2. cap.tokens \in Nat
  BY <1>1, AttemptAssumption DEF AttemptAssumption, Output!StreamAssumption, Output!Limits
<1>3. /\ v.usage["input"] >= w.usage["input"] /\ v.usage["cached"] >= w.usage["cached"]
  BY DEF Output!Kinds
<1> DEFINE a == Output!Sum(w.usage)
           b == Output!Sum(v.usage)
<1>4. /\ a \in Nat /\ b \in Nat /\ b >= a /\ w.total \in Nat /\ v.total \in Nat
  BY <1>3, SpentIs
<1>5. /\ Output!Spent(w) = IF a >= w.total THEN a ELSE w.total
      /\ Output!Spent(v) = IF b >= v.total THEN b ELSE v.total
  BY SpentIs
<1> HIDE DEF a, b
<1>6. Output!Spent(v) > cap.tokens
  BY <1>1, <1>2, <1>4, <1>5
<1> QED
  BY <1>1, <1>6 DEF Output!OverBudget

\* A line that the watcher is given is heard.
LEMMA HearsALine ==
    ASSUME NEW w \in Watch, NEW said \in Said, Heard(w, said), cap \in Caps,
           NEW s \in Output!Streams, NEW line \in Line,
           NEW v, v = Output!Watched(w, s, line),
           NEW more, more = [said EXCEPT ![s] = Append(said[s], line)]
    PROVE  v \in Watch /\ more \in Said /\ Heard(v, more) /\ (w.overspent => v.overspent)
<1> DEFINE seen_ == IF s = "stdout" THEN Output!observe(w, line) ELSE w
           told == Output!observeTokens(seen_, line)
           spent == told.overspent \/ Output!OverBudget(told)
           last == IF s = "stderr" THEN line ELSE told.tail
<1>1. /\ seen_ \in Watch /\ seen_.usage = w.usage /\ seen_.total = w.total
      /\ seen_.overspent = w.overspent
  BY Observed
<1>2. s = "stdout" =>
        /\ seen_.event <=> (w.event \/ Output!IsEvent(line))
        /\ seen_.turn => (w.turn \/ Output!Says(line, "turn"))
        /\ seen_.error <=> (Output!Says(line, "error") \/ (w.error /\ ~Output!Says(line, "turn")))
  BY Observed
<1>3. s = "stderr" => seen_ = w
  OBVIOUS
<1> HIDE DEF seen_
<1>4. /\ told \in Watch
      /\ \A k \in Output!Kinds :
           told.usage[k] = Output!Combine(seen_.usage[k], Output!TokensOn(line, k))
      /\ told.total = Output!Combine(seen_.total, Output!TokensOn(line, "used"))
      /\ told.event = seen_.event /\ told.turn = seen_.turn /\ told.error = seen_.error
      /\ told.overspent = seen_.overspent
  BY <1>1, TokensObserved
<1>5. v = [told EXCEPT !.tail = last, !.overspent = spent]
  BY DEF Output!Watched, seen_
<1> HIDE DEF told
<1>6. spent \in BOOLEAN /\ last \in Line
  BY <1>4 DEF Watch, Output!OverBudget
<1> HIDE DEF spent, last
<1>7. v \in Watch
  BY <1>4, <1>5, <1>6 DEF Watch
<1>8. /\ v.event = told.event /\ v.turn = told.turn /\ v.error = told.error
      /\ v.usage = told.usage /\ v.total = told.total /\ v.overspent = spent
  BY <1>4, <1>5 DEF Watch
<1>9. /\ more \in Said /\ said[s] \in Seq(Line) /\ more[s] = Append(said[s], line)
      /\ \A r \in Output!Streams \ {s} : more[r] = said[r]
  <2>1. said[s] \in Seq(Line)
    BY DEF Said
  <2>2. Append(said[s], line) \in Seq(Line)
    BY <2>1, AppendProperties
  <2> QED
    BY <2>1, <2>2 DEF Said
<1>10. /\ \A k \in Output!Kinds : w.usage[k] \in Nat /\ IsReported(w.usage[k], said, k)
       /\ w.total \in Nat /\ IsReported(w.total, said, "used")
  BY DEF Watch, Heard
<1>11. /\ \A k \in Output!Kinds : IsReported(v.usage[k], more, k)
       /\ IsReported(v.total, more, "used")
  <2>1. ASSUME NEW k \in Output!Kinds PROVE IsReported(v.usage[k], more, k)
    <3>1. IsReported(Output!Combine(w.usage[k], Output!TokensOn(line, k)), more, k)
      BY <1>10, ReportedAfter
    <3> QED
      BY <1>1, <1>4, <1>8, <3>1
  <2>2. IsReported(Output!Combine(w.total, Output!TokensOn(line, "used")), more, "used")
    BY <1>10, ReportedAfter
  <2> QED
    BY <1>1, <1>4, <1>8, <2>1, <2>2
<1>12. \A k \in Output!Kinds : told.usage[k] >= w.usage[k]
  <2>1. TAKE k \in Output!Kinds
  <2>2. told.usage[k] = Output!Combine(w.usage[k], Output!TokensOn(line, k))
    BY <1>1, <1>4
  <2>3. Output!TokensOn(line, k) \in Nat /\ w.usage[k] \in Nat
    BY <1>10, ReportsIs
  <2> QED
    BY <2>2, <2>3, CombineIs
<1>13. told.total >= w.total
  <2>1. told.total = Output!Combine(w.total, Output!TokensOn(line, "used"))
    BY <1>1, <1>4
  <2>2. Output!TokensOn(line, "used") \in Nat /\ w.total \in Nat
    BY <1>10, ReportsIs
  <2> QED
    BY <2>1, <2>2, CombineIs
<1>14. Output!OverBudget(v) <=> Output!OverBudget(told)
  BY <1>8 DEF Output!OverBudget, Output!Spent, Output!Usd
<1>15. Output!OverBudget(v) => v.overspent
  BY <1>8, <1>14 DEF spent
<1>16. w.overspent => v.overspent
  BY <1>1, <1>4, <1>8 DEF spent
<1>17. cap.usd = None => (v.overspent => Output!OverBudget(v))
  <2>1. SUFFICES ASSUME cap.usd = None, v.overspent PROVE Output!OverBudget(v)
    OBVIOUS
  <2>2. CASE Output!OverBudget(told)
    BY <1>14, <2>2
  <2>3. CASE told.overspent
    <3>1. Output!OverBudget(w)
      BY <1>1, <1>4, <2>1, <2>3 DEF Heard
    <3>2. Output!OverBudget(told)
      BY <1>4, <1>12, <1>13, <2>1, <3>1, BudgetStaysOver
    <3> QED
      BY <1>14, <3>2
  <2> QED
    BY <1>8, <2>1, <2>2, <2>3 DEF spent
<1> DEFINE x == said["stdout"]
           y == more["stdout"]
<1>18. CASE s = "stdout"
  <2>1. x \in Seq(Line) /\ y = Append(x, line)
    BY <1>9, <1>18
  <2>2. /\ w.event <=> \E i \in DOMAIN x : Output!IsEvent(x[i])
        /\ w.turn => \E i \in DOMAIN x : Output!Says(x[i], "turn")
        /\ w.error <=> Output!ErrorStands(x)
    BY DEF Heard
  <2> HIDE DEF x, y
  <2>3. /\ y[Len(x) + 1] = line /\ \A i \in DOMAIN x : y[i] = x[i]
        /\ DOMAIN y = DOMAIN x \cup {Len(x) + 1}
    BY <2>1, OneMore
  <2>4. /\ v.event <=> (w.event \/ Output!IsEvent(line))
        /\ v.turn => (w.turn \/ Output!Says(line, "turn"))
        /\ v.error <=> (Output!Says(line, "error") \/ (w.error /\ ~Output!Says(line, "turn")))
    BY <1>2, <1>4, <1>8, <1>18
  <2>5. v.event <=> \E i \in DOMAIN y : Output!IsEvent(y[i])
    BY <2>2, <2>3, <2>4
  <2>6. v.turn => \E i \in DOMAIN y : Output!Says(y[i], "turn")
    BY <2>2, <2>3, <2>4
  <2>7. v.error <=> Output!ErrorStands(y)
    <3>1. Output!ErrorStands(y) <=> \/ Output!Says(line, "error")
                                    \/ Output!ErrorStands(x) /\ ~Output!Says(line, "turn")
      BY <2>1, ErrorAfter
    <3> QED
      BY <2>2, <2>4, <3>1
  <2> QED
    BY <1>7, <1>9, <1>11, <1>15, <1>16, <1>17, <2>5, <2>6, <2>7 DEF Heard, y
<1>19. CASE s = "stderr"
  <2>1. x = y
    BY <1>9, <1>19 DEF Output!Streams
  <2>2. v.event = w.event /\ v.turn = w.turn /\ v.error = w.error
    BY <1>3, <1>4, <1>8, <1>19
  <2>3. /\ v.event <=> \E i \in DOMAIN y : Output!IsEvent(y[i])
        /\ v.turn => \E i \in DOMAIN y : Output!Says(y[i], "turn")
        /\ v.error <=> Output!ErrorStands(y)
    BY <2>1, <2>2 DEF Heard
  <2> QED
    BY <1>7, <1>9, <1>11, <1>15, <1>16, <1>17, <2>3 DEF Heard
<1> QED
  BY <1>18, <1>19 DEF Output!Streams

\* The watcher, given lines one after the other, has heard them all.
LEMMA HearsTheLines ==
    ASSUME watch \in Watch, lines \in Said, Heard(watch, lines), cap \in Caps,
           NEW s \in Output!Streams, NEW new \in Seq(Line),
           NEW v, v = Output!Watching(s, new)[Len(new)],
           NEW more, more = [lines EXCEPT ![s] = lines[s] \o new]
    PROVE  v \in Watch /\ more \in Said /\ Heard(v, more) /\ (watch.overspent => v.overspent)
<1> DEFINE W == Output!Watching(s, new)
           upTo(n) == [lines EXCEPT ![s] = lines[s] \o SubSeq(new, 1, n)]
           Fine(n) == /\ W[n] \in Watch /\ upTo(n) \in Said /\ Heard(W[n], upTo(n))
                      /\ watch.overspent => W[n].overspent
           Wrong == {n \in 0..Len(new) : ~Fine(n)}
<1>1. W[0] = watch /\ \A n \in 1..Len(new) : W[n] = Output!Watched(W[n - 1], s, new[n])
  BY Watches
<1>2. Len(new) \in Nat /\ lines[s] \in Seq(Line)
  BY DEF Said
<1>3. SubSeq(new, 1, 0) = << >> /\ SubSeq(new, 1, Len(new)) = new
  BY SubSeqEmpty, SubSeqFull
<1> HIDE DEF W
<1>4. Fine(0)
  <2>1. upTo(0) = lines
    <3>1. lines[s] \o << >> = lines[s]
      BY <1>2, ConcatEmptySeq
    <3> QED
      BY <1>3, <3>1 DEF Said
  <2> HIDE DEF upTo
  <2> QED
    BY <1>1, <2>1
<1>5. ASSUME NEW n \in 1..Len(new), Fine(n - 1) PROVE Fine(n)
  <2>1. SubSeq(new, 1, n) = Append(SubSeq(new, 1, n - 1), new[n]) /\ new[n] \in Line
    <3>1. 1 \in 1..Len(new) /\ n \in 1..Len(new) /\ n \in Nat /\ n - 1 \in Nat
          /\ n - 1 <= Len(new)
      BY <1>2
    <3>2. SubSeq(new, 1, n) = SubSeq(new, 1, n - 1) \o <<new[n]>>
      BY <3>1, SubSeqRecursiveSecond
    <3>3. SubSeq(new, 1, n - 1) \in Seq(Line) /\ new[n] \in Line
      BY <3>1, Piece, ElementOfSeq
    <3> QED
      BY <3>2, <3>3, AppendIsConcat
  <2>2. SubSeq(new, 1, n - 1) \in Seq(Line)
    <3>1. n - 1 \in Nat /\ n - 1 <= Len(new)
      BY <1>2
    <3> QED
      BY <3>1, Piece
  <2> DEFINE was == upTo(n - 1)
             is == upTo(n)
             line == new[n]
  <2>3. is = [was EXCEPT ![s] = Append(was[s], line)]
    <3>1. was[s] = lines[s] \o SubSeq(new, 1, n - 1)
      BY DEF Said
    <3>2. lines[s] \o SubSeq(new, 1, n) = Append(was[s], line)
      <4>1. lines[s] \o Append(SubSeq(new, 1, n - 1), line)
              = Append(lines[s] \o SubSeq(new, 1, n - 1), line)
        <5>1. \A x \in Seq(Line), y \in Seq(Line), e \in Line :
                x \o Append(y, e) = Append(x \o y, e)
          BY AppendAfter
        <5>2. line \in Line
          BY <2>1
        <5> HIDE DEF line
        <5> QED
          BY <1>2, <2>2, <5>1, <5>2, Zenon
      <4> QED
        BY <2>1, <3>1, <4>1
    <3> QED
      BY <3>2 DEF Said
  <2>4. W[n] = Output!Watched(W[n - 1], s, line)
    BY <1>1
  <2>5. W[n - 1] \in Watch /\ was \in Said /\ Heard(W[n - 1], was)
        /\ (watch.overspent => W[n - 1].overspent)
    BY <1>5
  <2>6. line \in Line
    BY <2>1
  <2> HIDE DEF was, is, line
  <2>7. /\ W[n] \in Watch /\ is \in Said /\ Heard(W[n], is)
        /\ W[n - 1].overspent => W[n].overspent
    BY <2>3, <2>4, <2>5, <2>6, HearsALine
  <2> QED
    BY <2>5, <2>7 DEF is
<1>6. Wrong = {}
  <2> HIDE DEF Fine
  <2>1. SUFFICES ASSUME Wrong # {} PROVE FALSE
    OBVIOUS
  <2>2. PICK n \in Wrong : \A j \in Wrong : n <= j
    <3>1. Wrong \in SUBSET Nat
      OBVIOUS
    <3> QED
      BY <2>1, <3>1, Least
  <2>3. n # 0
    BY <1>4, <2>2
  <2>4. n \in 1..Len(new) /\ n - 1 \in 0..Len(new) /\ ~(n <= n - 1)
    BY <1>2, <2>2, <2>3
  <2>5. Fine(n - 1)
    BY <2>2, <2>4
  <2> QED
    BY <1>5, <2>2, <2>4, <2>5
<1>7. Fine(Len(new))
  <2>1. Len(new) \in 0..Len(new)
    BY <1>2
  <2> HIDE DEF Fine
  <2> QED
    BY <1>6, <2>1
<1>8. W[Len(new)] = v
  BY DEF W
<1>9. upTo(Len(new)) = more
  BY <1>3
<1> HIDE DEF upTo
<1> QED
  BY <1>7, <1>8, <1>9

-----------------------------------------------------------------------------
(* The invariant *)

Types ==
    /\ clock \in Clocks /\ cap \in Caps /\ now \in Nat /\ began \in Nat
    /\ part \in {"setup", "agent", "over"} /\ proc \in {"up", "zero", "nonzero", "killed"}
    /\ written \in [Output!Streams -> Seq(Cell)] /\ buffer \in [Output!Streams -> Seq(Cell)]
    /\ taken \in [Output!Streams -> Nat] /\ closed \subseteq Output!Streams
    /\ watch \in Watch /\ lines \in Said /\ timedOut \in BOOLEAN

\* What a reader has read is what was written, cell by cell; at the end it is all of it.
Read(s) ==
    /\ taken[s] <= Len(written[s]) /\ Len(buffer[s]) <= MaxLine
    /\ \A i \in 1..Len(buffer[s]) : buffer[s][i] # Output!Newline
    /\ s \notin closed =>
         Output!CellByCell(<< >>, written[s])[taken[s]] = Held(lines[s], buffer[s])
    /\ s \in closed => /\ taken[s] = Len(written[s]) /\ proc # "up"
                       /\ lines[s] = Output!Split(written[s])

\* The watcher has heard the lines, and stopped the agent once if it overspent.
Watched == Heard(watch, lines) /\ stops = (IF watch.overspent THEN 1 ELSE 0)

\* The phase began when it did, and the wall clock is not over.
Clocked ==
    /\ part = "setup" => began = 0
    /\ began <= now
    /\ Output!WallClock # None => now <= Output!WallClock

\* Who answered, and what.
Answered ==
    /\ part # "over" => answer = None /\ ~timedOut
    /\ Output!AnswerIsOfTheOutput
    /\ timedOut /\ began > 0 /\ ~watch.overspent =>
         answer = (IF clock.budget = Output!WallClock THEN "BUDGET_EXCEEDED" ELSE "TIMED_OUT")

OutputInv ==
    Types /\ (\A s \in Output!Streams : Read(s)) /\ Watched /\ Clocked /\ Answered

LEMMA OutputStays ==
    ASSUME OutputInv, UNCHANGED output
    PROVE  OutputInv'
<1>1. Types'
  BY DEF OutputInv, output, Types
<1>2. \A s \in Output!Streams : Read(s)'
  BY DEF OutputInv, output, Read
<1>3. Watched'
  BY DEF OutputInv, output, Watched, Heard, Output!OverBudget
<1>4. Clocked'
  BY DEF OutputInv, output, Clocked, Output!WallClock
<1>5. Answered'
  BY DEF OutputInv, output, Answered, Output!WallClock, Output!AnswerIsOfTheOutput
<1> QED
  BY <1>1, <1>2, <1>3, <1>4, <1>5 DEF OutputInv

LEMMA NothingSaid ==
    ASSUME NEW said \in Said, \A s \in Output!Streams : said[s] = << >>, cap \in Caps
    PROVE  Output!Fresh \in Watch /\ Heard(Output!Fresh, said)
<1> DEFINE w == Output!Fresh
<1>1. << >> \in Line
  BY EmptySeq DEF Line
<1>2. w \in Watch
  BY <1>1 DEF Output!Fresh, Watch
<1>3. \A kind : IsReported(0, said, kind)
  <2>1. TAKE kind
  <2>2. \A m \in AllReports(said, kind) : m = 0
    BY InReports
  <2>3. 0 \in AllReports(said, kind)
    BY InReports
  <2>4. \A s \in Output!Streams : Output!Total(said[s], kind) = 0
    <3>1. TAKE s \in Output!Streams
    <3>2. << >> \in Seq(Line) /\ Len(<< >>) = 0
      BY EmptySeq
    <3>3. Output!Total(<< >>, kind) = 0
      BY <3>2, Totals
    <3> QED
      BY <3>3
  <2>5. 0 = Output!Total(said["stdout"], kind) + Output!Total(said["stderr"], kind)
    BY <2>4 DEF Output!Streams
  <2> QED
    BY <2>2, <2>3, <2>5 DEF IsReported
<1>4. said["stdout"] = << >> /\ DOMAIN << >> = {}
  BY DEF Output!Streams
<1>5. /\ w.event = FALSE /\ w.turn = FALSE /\ w.error = FALSE /\ w.overspent = FALSE
      /\ \A k \in Output!Kinds : w.usage[k] = 0
      /\ w.total = 0
  BY DEF Output!Fresh
<1>6. ~Output!OverBudget(w)
  <2>1. Output!Sum(w.usage) = 0
    BY <1>2, <1>5, SpentIs DEF Output!Kinds
  <2>2. Output!Spent(w) = 0
    BY <1>2, <1>5, <2>1, SpentIs
  <2>3. Output!Usd(w) = 0
    <3>1. w.total - Output!Sum(w.usage) = 0
      BY <1>5, <2>1
    <3>2. Output!Max({0, 0}) = 0
      BY MaxOfTwo
    <3>3. Output!Max({w.total - Output!Sum(w.usage), 0}) = 0
      BY <3>1, <3>2
    <3>4. w.usage["input"] = 0
      BY <1>5 DEF Output!Kinds
    <3> QED
      BY <3>3, <3>4 DEF Output!Usd
  <2>4. /\ cap.tokens # None => cap.tokens \in Nat
        /\ cap.usd # None => cap.usd \in Nat
    BY AttemptAssumption DEF AttemptAssumption, Output!StreamAssumption, Output!Limits
  <2> QED
    BY <2>2, <2>3, <2>4 DEF Output!OverBudget
<1>7. ~Output!ErrorStands(said["stdout"])
  BY <1>4 DEF Output!ErrorStands
<1> HIDE DEF w
<1> QED
  BY <1>2, <1>3, <1>4, <1>5, <1>6, <1>7 DEF Heard, w

LEMMA LeastOfIs ==
    ASSUME NEW x \in Nat \cup {None}, NEW y \in Nat \cup {None},
           NEW m, m = Output!LeastOf({x, y})
    PROVE  /\ m \in Nat \cup {None} /\ m \in {x, y}
           /\ m = None <=> (x = None /\ y = None)
           /\ x # None => m <= x
           /\ y # None => m <= y
<1>1. None \notin Nat
  BY AttemptAssumption DEF AttemptAssumption, Output!StreamAssumption
<1> DEFINE S == {x, y} \ {None}
<1>2. CASE S = {}
  BY <1>2 DEF Output!LeastOf
<1>3. CASE S # {}
  <2>1. S \in SUBSET Nat
    OBVIOUS
  <2>2. m = Output!Min(S)
    BY <1>3 DEF Output!LeastOf
  <2>3. m \in S /\ \A z \in S : m <= z
    BY <1>3, <2>1, <2>2, LeastIsMin
  <2> QED
    BY <1>1, <2>3
<1> QED
  BY <1>2, <1>3

LEMMA WallClockIs ==
    ASSUME clock \in Clocks
    PROVE  /\ Output!WallClock \in Nat \cup {None}
           /\ Output!WallClock \in {clock.budget, clock.caps}
           /\ clock.budget \in Nat \cup {None} /\ clock.caps \in Nat \cup {None}
           /\ Output!WallClock = None <=> (clock.budget = None /\ clock.caps = None)
           /\ clock.budget # None => Output!WallClock <= clock.budget
           /\ clock.caps # None => Output!WallClock <= clock.caps
<1>1. clock.budget \in Nat \cup {None} /\ clock.caps \in Nat \cup {None}
  BY AttemptAssumption DEF AttemptAssumption, Output!StreamAssumption, Output!Limits
<1> DEFINE x == clock.budget
           y == clock.caps
<1>2. Output!WallClock = Output!LeastOf({x, y})
  BY DEF Output!WallClock
<1> HIDE DEF x, y
<1>3. x \in Nat \cup {None} /\ y \in Nat \cup {None}
  BY <1>1 DEF x, y
<1>4. /\ Output!WallClock \in Nat \cup {None} /\ Output!WallClock \in {x, y}
      /\ Output!WallClock = None <=> (x = None /\ y = None)
      /\ x # None => Output!WallClock <= x
      /\ y # None => Output!WallClock <= y
  BY <1>2, <1>3, LeastOfIs
<1> QED
  BY <1>3, <1>4 DEF x, y

LEMMA OutputInit == Init => OutputInv
<1> SUFFICES ASSUME Init PROVE OutputInv
  OBVIOUS
<1> USE DEF Init, Output!Init
<1>1. Types
  <2>1. << >> \in Seq(Cell) /\ << >> \in Seq(Line)
    BY EmptySeq
  <2>2. lines \in Said /\ \A s \in Output!Streams : lines[s] = << >>
    BY <2>1 DEF Said
  <2>3. watch \in Watch
    BY <2>2, NothingSaid
  <2> QED
    BY <2>1, <2>2, <2>3 DEF Types
<1>2. \A s \in Output!Streams : Read(s)
  <2>1. TAKE s \in Output!Streams
  <2>2. << >> \in Seq(Cell) /\ Len(<< >>) = 0
    BY EmptySeq
  <2>3. Output!CellByCell(<< >>, << >>)[0] = Held(<< >>, << >>)
    BY <2>2, Starts
  <2>4. 0 <= MaxLine
    BY TheLimit
  <2> QED
    BY <2>2, <2>3, <2>4 DEF Read
<1>3. Watched
  <2>1. lines \in Said /\ \A s \in Output!Streams : lines[s] = << >>
    BY <1>1 DEF Types
  <2>2. Heard(watch, lines)
    BY <2>1, NothingSaid
  <2>3. watch.overspent = FALSE
    BY DEF Output!Fresh
  <2> QED
    BY <2>2, <2>3 DEF Watched
<1>4. Clocked
  BY <1>1, WallClockIs DEF Clocked, Types
<1>5. Answered
  BY DEF Answered, Output!AnswerIsOfTheOutput
<1> QED
  BY <1>1, <1>2, <1>3, <1>4, <1>5 DEF OutputInv

-----------------------------------------------------------------------------
(* The steps *)

\* Delivered lines are heard, and the agent is stopped for them at most once.
LEMMA Delivers ==
    ASSUME Types, Watched, NEW s \in Output!Streams, NEW new \in Seq(Line),
           Output!Deliver(s, new), UNCHANGED cap
    PROVE  /\ watch' \in Watch /\ lines' \in Said /\ lines' = [lines EXCEPT ![s] = lines[s] \o new]
           /\ Watched'
<1> DEFINE v == Output!Watching(s, new)[Len(new)]
           more == [lines EXCEPT ![s] = lines[s] \o new]
<1>1. watch' = v /\ lines' = more
  BY DEF Output!Deliver
<1>2. v \in Watch /\ more \in Said /\ Heard(v, more) /\ (watch.overspent => v.overspent)
  BY HearsTheLines DEF Types, Watched
<1>3. stops' = IF v.overspent THEN 1 ELSE 0
  <2>1. stops' = stops + (IF v.overspent /\ ~watch.overspent THEN 1 ELSE 0)
    BY DEF Output!Deliver
  <2>2. stops = IF watch.overspent THEN 1 ELSE 0
    BY DEF Watched
  <2> HIDE DEF v
  <2> QED
    BY <1>2, <2>1, <2>2
<1> HIDE DEF v, more
<1>4. Heard(watch, lines)'
  BY <1>1, <1>2 DEF Heard, Output!OverBudget
<1>5. Watched'
  BY <1>1, <1>3, <1>4 DEF Watched
<1> QED
  BY <1>1, <1>2, <1>5 DEF more

\* Until it is answered.
LEMMA NotAnswered ==
    ASSUME Answered, part # "over", part' # "over", UNCHANGED <<answer, timedOut>>
    PROVE  Answered'
BY DEF Answered, Output!AnswerIsOfTheOutput

LEMMA ReadsStep ==
    ASSUME OutputInv, NEW s \in Output!Streams, Output!Reads(s)
    PROVE  OutputInv'
<1> USE DEF OutputInv
<1>1. PICK n \in 1..Output!Unread(s) :
        LET got == Output!Taken(buffer[s] \o SubSeq(written[s], taken[s] + 1, taken[s] + n))
        IN  /\ taken' = [taken EXCEPT ![s] = taken[s] + n]
            /\ buffer' = [buffer EXCEPT ![s] = got.rest]
            /\ Output!Deliver(s, got.lines)
  BY DEF Output!Reads
<1> DEFINE got == Output!Taken(buffer[s] \o SubSeq(written[s], taken[s] + 1, taken[s] + n))
<1>2. /\ taken' = [taken EXCEPT ![s] = taken[s] + n]
      /\ buffer' = [buffer EXCEPT ![s] = got.rest]
      /\ Output!Deliver(s, got.lines)
  BY <1>1
<1>3. /\ part = "agent"
      /\ UNCHANGED <<printed, clock, cap, part, now, began, proc, written, closed,
                     timedOut, answer>>
  BY DEF Output!Reads
<1>4. /\ written[s] \in Seq(Cell) /\ taken[s] \in Nat /\ buffer[s] \in Seq(Cell)
      /\ lines[s] \in Seq(Line)
  BY DEF Types, Said
<1>5. n \in Nat /\ n > 0 /\ taken[s] + n <= Len(written[s]) /\ taken[s] <= Len(written[s])
  BY <1>4 DEF Output!Unread, Read
<1>6. s \notin closed
  BY <1>4, <1>5 DEF Read
<1>7. /\ got.lines \in Seq(Line) /\ got.rest \in Seq(Cell) /\ Len(got.rest) <= MaxLine
      /\ \A i \in 1..Len(got.rest) : got.rest[i] # Output!Newline
      /\ Output!CellByCell(<< >>, written[s])[taken[s] + n] = Held(lines[s] \o got.lines, got.rest)
  <2>1. taken[s] \in 0..Len(written[s]) /\ n \in 0..(Len(written[s]) - taken[s])
    BY <1>4, <1>5
  <2>2. /\ Len(buffer[s]) <= MaxLine
        /\ \A i \in 1..Len(buffer[s]) : buffer[s][i] # Output!Newline
        /\ Output!CellByCell(<< >>, written[s])[taken[s]] = Held(lines[s], buffer[s])
    BY <1>6 DEF Read
  <2> DEFINE Goes(text, t, j, said, held, more) ==
               /\ more.lines \in Seq(Line) /\ more.rest \in Seq(Cell)
               /\ Len(more.rest) <= MaxLine
               /\ \A i \in 1..Len(more.rest) : more.rest[i] # Output!Newline
               /\ Output!CellByCell(<< >>, text)[t + j] = Held(said \o more.lines, more.rest)
  <2>3. ASSUME NEW text \in Seq(Cell), NEW t \in 0..Len(text), NEW j \in 0..(Len(text) - t),
               NEW said \in Seq(Line), NEW held \in Seq(Cell), Len(held) <= MaxLine,
               \A i \in 1..Len(held) : held[i] # Output!Newline,
               Output!CellByCell(<< >>, text)[t] = Held(said, held)
        PROVE  Goes(text, t, j, said, held,
                    Output!Taken(held \o SubSeq(text, t + 1, t + j)))
    BY <2>3, Continues, ZenonT(30)
  <2>4. Goes(written[s], taken[s], n, lines[s], buffer[s], got)
    <3> HIDE DEF Goes
    <3> QED
      BY <1>4, <2>1, <2>2, <2>3, ZenonT(30)
  <2> QED
    BY <2>4
<1> HIDE DEF got
<1>8. /\ watch' \in Watch /\ lines' \in Said
      /\ lines' = [lines EXCEPT ![s] = lines[s] \o got.lines]
      /\ Watched'
  BY <1>2, <1>3, <1>7, Delivers
<1>9. Types'
  BY <1>2, <1>3, <1>5, <1>7, <1>8 DEF Types
<1>10. ASSUME NEW r \in Output!Streams PROVE Read(r)'
  <2>1. CASE r = s
    <3>1. taken'[s] = taken[s] + n /\ buffer'[s] = got.rest /\ lines'[s] = lines[s] \o got.lines
      BY <1>2, <1>8 DEF Types, Said
    <3> QED
      BY <1>3, <1>5, <1>6, <1>7, <2>1, <3>1 DEF Read
  <2>2. CASE r # s
    <3>1. taken'[r] = taken[r] /\ buffer'[r] = buffer[r] /\ lines'[r] = lines[r]
      BY <1>2, <1>8, <2>2 DEF Types, Said
    <3> QED
      BY <1>3, <3>1 DEF Read
  <2> QED
    BY <2>1, <2>2
<1>11. Clocked'
  BY <1>3 DEF Clocked, Output!WallClock
<1>12. Answered'
  BY <1>3, NotAnswered
<1> QED
  BY <1>8, <1>9, <1>10, <1>11, <1>12

LEMMA ReadsEndStep ==
    ASSUME OutputInv, NEW s \in Output!Streams, Output!ReadsEnd(s)
    PROVE  OutputInv'
<1> USE DEF OutputInv
<1> DEFINE new == IF buffer[s] = << >> THEN << >> ELSE <<buffer[s]>>
<1>1. /\ part = "agent" /\ proc # "up" /\ Output!Unread(s) = 0 /\ s \notin closed
      /\ closed' = closed \cup {s} /\ buffer' = [buffer EXCEPT ![s] = << >>]
      /\ Output!Deliver(s, new)
      /\ UNCHANGED <<printed, clock, cap, part, now, began, proc, written, taken, timedOut, answer>>
  BY DEF Output!ReadsEnd
<1>2. /\ written[s] \in Seq(Cell) /\ taken[s] \in Nat /\ buffer[s] \in Seq(Cell)
      /\ lines[s] \in Seq(Line)
  BY DEF Types, Said
<1>3. new \in Seq(Line)
  <2>1. buffer[s] \in Line
    BY <1>2, CellTypes
  <2> QED
    BY <2>1
<1>4. lines[s] \o new = IF buffer[s] = << >> THEN lines[s] ELSE Append(lines[s], buffer[s])
  <2>1. lines[s] \o << >> = lines[s]
    BY <1>2, ConcatEmptySeq
  <2>2. buffer[s] \in Line
    BY <1>2, CellTypes
  <2>3. Append(lines[s], buffer[s]) = lines[s] \o <<buffer[s]>>
    BY <1>2, <2>2, AppendIsConcat
  <2> QED
    BY <2>1, <2>3
<1>5. taken[s] = Len(written[s])
  BY <1>1, <1>2 DEF Output!Unread, Read
<1>6. Output!CellByCell(<< >>, written[s])[Len(written[s])] = Held(lines[s], buffer[s])
  BY <1>1, <1>5 DEF Read
<1>7. lines[s] \o new = Output!Split(written[s])
  <2>1. Held(lines[s], buffer[s]).lines = lines[s] /\ Held(lines[s], buffer[s]).open = buffer[s]
    BY DEF Held
  <2>2. Output!Split(written[s]) = IF buffer[s] = << >> THEN lines[s]
                                   ELSE Append(lines[s], buffer[s])
    BY <1>6, <2>1, Zenon DEF Output!Split
  <2> HIDE DEF new
  <2> QED
    BY <1>4, <2>2
<1> HIDE DEF new
<1>8. /\ watch' \in Watch /\ lines' \in Said /\ lines' = [lines EXCEPT ![s] = lines[s] \o new]
      /\ Watched'
  BY <1>1, <1>3, Delivers
<1>9. << >> \in Seq(Cell) /\ Len(<< >>) = 0 /\ 0 <= MaxLine
  BY TheLimit, EmptySeq
<1>10. Types'
  BY <1>1, <1>8, <1>9 DEF Types
<1>11. ASSUME NEW r \in Output!Streams PROVE Read(r)'
  <2>1. CASE r = s
    <3>1. buffer'[s] = << >> /\ lines'[s] = lines[s] \o new
      BY <1>1, <1>8 DEF Types, Said
    <3> QED
      BY <1>1, <1>2, <1>5, <1>7, <1>9, <2>1, <3>1 DEF Read
  <2>2. CASE r # s
    <3>1. buffer'[r] = buffer[r] /\ lines'[r] = lines[r]
      BY <1>1, <1>8, <2>2 DEF Types, Said
    <3>2. r \in closed' <=> r \in closed
      BY <1>1, <2>2
    <3> QED
      BY <1>1, <3>1, <3>2 DEF Read
  <2> QED
    BY <2>1, <2>2
<1>12. Clocked'
  BY <1>1 DEF Clocked, Output!WallClock
<1>13. Answered'
  BY <1>1, NotAnswered
<1> QED
  BY <1>8, <1>10, <1>11, <1>12, <1>13

\* What is printed after what was read leaves it read.
LEMMA PrintsStep ==
    ASSUME OutputInv, NEW s \in Output!Streams, Output!Prints(s)
    PROVE  OutputInv'
<1> USE DEF OutputInv
<1>1. PICK line \in Lines, ending \in {<<Output!Newline>>, << >>} :
        written' = [written EXCEPT ![s] = written[s] \o line \o ending]
  BY DEF Output!Prints
<1>2. /\ part = "agent" /\ proc = "up"
      /\ UNCHANGED <<clock, cap, part, now, began, proc, taken, buffer, closed, watch, lines,
                     stops, timedOut, answer>>
  BY DEF Output!Prints
<1>3. PICK more \in Seq(Cell) : written' = [written EXCEPT ![s] = written[s] \o more]
  <2>1. line \in Seq(Cell)
    <3>1. line \in Seq(Output!ToSet(line))
      BY AttemptAssumption DEF AttemptAssumption, Output!StreamAssumption
    <3>2. Output!ToSet(line) \subseteq Cell
      BY DEF Cell
    <3> QED
      BY <3>1, <3>2, SeqMonotonic
  <2>2. ending \in Seq(Cell)
    <3>1. Output!Newline \in Cell
      BY DEF Cell
    <3>2. \A c \in Cell : <<c>> \in Seq(Cell)
      OBVIOUS
    <3>3. << >> \in Seq(Cell) /\ <<Output!Newline>> \in Seq(Cell)
      BY <3>1, <3>2, EmptySeq
    <3>4. ending = <<Output!Newline>> \/ ending = << >>
      BY <1>1
    <3> QED
      BY <3>3, <3>4, Zenon
  <2>3. written[s] \in Seq(Cell)
    BY DEF Types
  <2>4. /\ line \o ending \in Seq(Cell)
        /\ written[s] \o line \o ending = written[s] \o (line \o ending)
    <3>1. \A x \in Seq(Cell), y \in Seq(Cell), z \in Seq(Cell) :
            y \o z \in Seq(Cell) /\ (x \o y) \o z = x \o (y \o z)
      BY ConcatProperties, ConcatAssociative
    <3> QED
      BY <2>1, <2>2, <2>3, <3>1, Zenon
  <2> QED
    BY <1>1, <2>4
<1>4. written[s] \in Seq(Cell) /\ taken[s] \in Nat
  BY DEF Types
<1>5. /\ written'[s] = written[s] \o more /\ written'[s] \in Seq(Cell)
      /\ \A r \in Output!Streams \ {s} : written'[r] = written[r]
      /\ Len(written'[s]) >= Len(written[s])
  <2>1. written[s] \o more \in Seq(Cell) /\ Len(written[s] \o more) = Len(written[s]) + Len(more)
    BY <1>4, ConcatProperties
  <2>2. written'[s] = written[s] \o more
    BY <1>3 DEF Types
  <2>3. \A r \in Output!Streams \ {s} : written'[r] = written[r]
    BY <1>3 DEF Types
  <2>4. Len(written[s]) \in Nat /\ Len(more) \in Nat
    BY <1>4
  <2> QED
    BY <2>1, <2>2, <2>3, <2>4
<1>6. Types'
  <2>1. written' \in [Output!Streams -> Seq(Cell)]
    BY <1>3, <1>5 DEF Types
  <2> QED
    BY <1>2, <2>1 DEF Types
<1>7. ASSUME NEW r \in Output!Streams PROVE Read(r)'
  <2>1. r \notin closed
    BY <1>2 DEF Read
  <2>2. CASE r = s
    <3>1. taken[s] \in 0..Len(written[s])
      BY <1>4 DEF Read
    <3>2. Output!CellByCell(<< >>, written[s] \o more)[taken[s]]
            = Output!CellByCell(<< >>, written[s])[taken[s]]
      BY <1>4, <3>1, Extends
    <3>3. Output!CellByCell(<< >>, written'[s])[taken[s]] = Held(lines[s], buffer[s])
      BY <1>5, <2>1, <2>2, <3>2 DEF Read
    <3>4. Len(written[s]) \in Nat /\ Len(written'[s]) \in Nat
      BY <1>4, <1>5
    <3>5. taken[s] <= Len(written'[s])
      BY <1>4, <1>5, <3>1, <3>4
    <3> QED
      BY <1>2, <2>1, <2>2, <3>3, <3>5 DEF Read
  <2>3. CASE r # s
    <3>1. written'[r] = written[r]
      BY <1>5, <2>3
    <3> QED
      BY <1>2, <3>1 DEF Read
  <2> QED
    BY <2>2, <2>3
<1>8. Watched'
  BY <1>2 DEF Watched, Heard, Output!OverBudget
<1>9. Clocked'
  BY <1>2 DEF Clocked, Output!WallClock
<1>10. Answered'
  BY <1>2, NotAnswered
<1> QED
  BY <1>6, <1>7, <1>8, <1>9, <1>10

LEMMA SetupExitsStep == ASSUME OutputInv, Output!SetupExits PROVE OutputInv'
<1> USE DEF OutputInv, Output!SetupExits
<1>1. Types' /\ \A s \in Output!Streams : Read(s)'
  BY DEF Types, Read
<1>2. Watched'
  BY DEF Watched, Heard, Output!OverBudget
<1>3. Clocked'
  BY DEF Clocked, Output!WallClock, Types
<1>4. Answered'
  BY NotAnswered
<1> QED
  BY <1>1, <1>2, <1>3, <1>4

LEMMA ExitsStep == ASSUME OutputInv, Output!Exits PROVE OutputInv'
<1> USE DEF OutputInv, Output!Exits
<1>1. Types' /\ \A s \in Output!Streams : Read(s)'
  BY DEF Types, Read
<1>2. Watched'
  BY DEF Watched, Heard, Output!OverBudget
<1>3. Clocked'
  BY DEF Clocked, Output!WallClock
<1>4. Answered'
  BY NotAnswered
<1> QED
  BY <1>1, <1>2, <1>3, <1>4

\* What is left of the wall clock when a phase begins is what it may take of it.
LEMMA LimitIs ==
    ASSUME Types, Clocked, Output!Limit # None
    PROVE  /\ Output!Limit \in Nat
           /\ Output!WallClock # None => began + Output!Limit <= Output!WallClock
           /\ part # "setup" => Output!WallClock # None
<1> DEFINE wall == Output!WallClock
           rest == Output!Left(began)
           own == IF part = "setup" THEN clock.setup ELSE None
<1>1. None \notin Nat /\ own \in Nat \cup {None}
  BY AttemptAssumption DEF AttemptAssumption, Output!StreamAssumption, Output!Limits, Types
<1>2. wall \in Nat \cup {None} /\ began \in Nat /\ now \in Nat
  BY WallClockIs DEF Types
<1>3. wall # None => began <= wall
  BY <1>1, <1>2 DEF Clocked
<1>4. wall # None => rest = wall - began
  <2>1. SUFFICES ASSUME wall # None PROVE rest = wall - began
    OBVIOUS
  <2>2. rest = Output!Max({wall - began, 0})
    BY <2>1 DEF Output!Left
  <2>3. wall - began \in Nat
    BY <1>2, <1>3, <2>1
  <2> QED
    BY <2>2, <2>3, MaxOfTwo
<1>5. wall = None => rest = None
  BY DEF Output!Left
<1>6. rest \in Nat \cup {None}
  <2> HIDE DEF rest, wall
  <2> QED
    BY <1>2, <1>3, <1>4, <1>5
<1>7. Output!Limit = Output!LeastOf({rest, own})
  BY DEF Output!Limit, Output!Remaining
<1> HIDE DEF rest, own
<1>8. /\ Output!Limit \in Nat
      /\ rest # None => Output!Limit <= rest
      /\ Output!Limit \in {rest, own}
  BY <1>1, <1>6, <1>7, LeastOfIs
<1> HIDE DEF wall
<1>9. wall # None => began + Output!Limit <= wall
  BY <1>1, <1>2, <1>3, <1>4, <1>6, <1>8
<1>10. part # "setup" => wall # None
  BY <1>5, <1>8 DEF own
<1> QED
  BY <1>8, <1>9, <1>10 DEF wall

LEMMA TickStep == ASSUME OutputInv, Output!Tick PROVE OutputInv'
<1> USE DEF OutputInv
<1>1. /\ part # "over" /\ Output!Limit # None /\ ~Output!Expired /\ now' = now + 1
      /\ UNCHANGED <<printed, clock, cap, part, began, proc, written, taken, buffer, closed,
                     watch, lines, stops, timedOut, answer>>
  BY DEF Output!Tick
<1>2. Types' /\ \A s \in Output!Streams : Read(s)'
  BY <1>1 DEF Types, Read
<1>3. Watched'
  BY <1>1 DEF Watched, Heard, Output!OverBudget
<1>4. Clocked'
  <2>1. now < began + Output!Limit
    BY <1>1, LimitIs DEF Output!Expired, Types
  <2>2. Output!WallClock' = Output!WallClock
    BY <1>1 DEF Output!WallClock
  <2>3. Output!WallClock # None => /\ Output!WallClock \in Nat
                                   /\ began + Output!Limit <= Output!WallClock
    BY <1>1, LimitIs, WallClockIs DEF Types
  <2>4. Output!Limit \in Nat /\ now \in Nat /\ began \in Nat
    BY <1>1, LimitIs DEF Types
  <2>5. Output!WallClock # None => now + 1 <= Output!WallClock
    BY <2>1, <2>3, <2>4
  <2>6. (part = "setup" => began = 0) /\ began <= now + 1
    BY <2>4 DEF Clocked
  <2> QED
    BY <1>1, <2>2, <2>5, <2>6 DEF Clocked
<1>5. Answered'
  BY <1>1, NotAnswered
<1> QED
  BY <1>2, <1>3, <1>4, <1>5

-----------------------------------------------------------------------------
(* The answer *)

LEMMA NamedAfter ==
    ASSUME NEW c \in SUBSET Output!Signals, c # {}
    PROVE  \E i \in 1..15 : /\ Output!Rank[i].signal \in c
                            /\ \A j \in 1..(i - 1) : Output!Rank[j].signal \notin c
                            /\ Output!classify(c) = Output!Rank[i].outcome
<1> DEFINE ranks == {i \in 1..15 : Output!Rank[i].signal \in c}
           Top(i) == /\ Output!Rank[i].signal \in c
                     /\ \A j \in 1..(i - 1) : Output!Rank[j].signal \notin c
<1>1. DOMAIN Output!Rank = 1..15
  BY DEF Output!Rank
<1>2. ranks # {} /\ ranks \in SUBSET Nat
  BY <1>1 DEF Output!Signals
<1>3. PICK i \in ranks : \A j \in ranks : i <= j
  BY <1>2, Least
<1>4. i \in 1..15 /\ Top(i)
  BY <1>3
<1>5. LET n == CHOOSE n \in 1..15 : Top(n) IN n \in 1..15 /\ Top(n)
  BY <1>4
<1>6. Output!classify(c) = Output!Rank[CHOOSE n \in 1..15 : Top(n)].outcome
  BY <1>1 DEF Output!classify
<1> QED
  BY <1>5, <1>6

LEMMA SignalledIs ==
    ASSUME NEW w, NEW code, NEW late \in BOOLEAN, NEW c, c = Output!Signalled(w, code, late)
    PROVE  /\ c \in SUBSET Output!Signals
           /\ "cancelled" \notin c /\ "startup_error" \notin c
           /\ "budget_exceeded" \in c <=> (w.overspent \/ (late /\ Output!IsBudget))
           /\ "timed_out" \in c <=> (late /\ ~Output!IsBudget)
           /\ "no_model_turn" \in c <=> (part = "agent" /\ w.event /\ ~w.turn)
           /\ "provider_error" \in c <=> (part = "agent" /\ w.error)
           /\ "exit_code" \in c <=> code # "zero"
<1>1. /\ Output!Rank[3].signal = "budget_exceeded" /\ Output!Rank[4].signal = "timed_out"
      /\ Output!Rank[6].signal = "disk_full" /\ Output!Rank[8].signal = "setup_error"
      /\ Output!Rank[9].signal = "no_model_turn" /\ Output!Rank[10].signal = "provider_error"
      /\ Output!Rank[11].signal = "exit_code" /\ DOMAIN Output!Rank = 1..15
  BY DEF Output!Rank
<1>2. {"budget_exceeded", "timed_out", "disk_full", "setup_error", "no_model_turn",
       "provider_error", "exit_code"} \subseteq Output!Signals
  BY <1>1 DEF Output!Signals
<1>3. c \subseteq {"budget_exceeded", "timed_out", "disk_full", "setup_error", "no_model_turn",
                   "provider_error", "exit_code"}
  BY DEF Output!Signalled
<1>4. /\ "budget_exceeded" \in c <=> (w.overspent \/ (late /\ Output!IsBudget))
      /\ "timed_out" \in c <=> (late /\ ~Output!IsBudget)
      /\ "no_model_turn" \in c <=> (part = "agent" /\ w.event /\ ~w.turn)
      /\ "provider_error" \in c <=> (part = "agent" /\ w.error)
      /\ "exit_code" \in c <=> code # "zero"
  BY DEF Output!Signalled
<1> QED
  BY <1>2, <1>3, <1>4

LEMMA EndsStep == ASSUME OutputInv, Output!Ends PROVE OutputInv'
<1> USE DEF OutputInv
<1> DEFINE c == Output!Signalled(watch, proc, FALSE)
<1>1. /\ part = "agent" /\ closed = Output!Streams /\ part' = "over"
      /\ answer' = Output!classify(c)
      /\ UNCHANGED <<printed, clock, cap, now, began, proc, written, taken, buffer, closed,
                     watch, lines, stops, timedOut>>
  BY DEF Output!Ends
<1>2. Types' /\ \A s \in Output!Streams : Read(s)'
  BY <1>1 DEF Types, Read
<1>3. Watched'
  BY <1>1 DEF Watched, Heard, Output!OverBudget
<1>4. Clocked'
  BY <1>1 DEF Clocked, Output!WallClock
<1>5. /\ c \in SUBSET Output!Signals
      /\ "budget_exceeded" \in c <=> watch.overspent
      /\ "no_model_turn" \in c <=> (watch.event /\ ~watch.turn)
      /\ "provider_error" \in c <=> watch.error
      /\ "exit_code" \in c <=> proc # "zero"
  <2>1. PICK late \in BOOLEAN : late = FALSE
    OBVIOUS
  <2>2. c = Output!Signalled(watch, proc, late)
    BY <2>1
  <2> HIDE DEF c
  <2>3. /\ c \in SUBSET Output!Signals
        /\ "budget_exceeded" \in c <=> (watch.overspent \/ (late /\ Output!IsBudget))
        /\ "no_model_turn" \in c <=> (part = "agent" /\ watch.event /\ ~watch.turn)
        /\ "provider_error" \in c <=> (part = "agent" /\ watch.error)
        /\ "exit_code" \in c <=> proc # "zero"
    BY <2>2, SignalledIs
  <2> QED
    BY <1>1, <2>1, <2>3
<1> HIDE DEF c
<1> DEFINE said == Output!Split(written["stdout"])
<1>6. said = lines["stdout"]
  BY <1>1 DEF Read, Output!Streams
<1>7. answer' = "PROVIDER_ERROR" => Output!ErrorStands(said)
  <2>1. SUFFICES ASSUME answer' = "PROVIDER_ERROR" PROVE Output!ErrorStands(said)
    OBVIOUS
  <2>2. c # {}
    BY <1>1, <2>1 DEF Output!classify
  <2>3. PICK i \in 1..15 : /\ Output!Rank[i].signal \in c
                           /\ Output!classify(c) = Output!Rank[i].outcome
    BY <1>5, <2>2, NamedAfter
  <2>4. \A j \in 1..15 : Output!Rank[j].outcome = "PROVIDER_ERROR"
                           => Output!Rank[j].signal = "provider_error"
    BY DEF Output!Rank
  <2>5. watch.error
    BY <1>1, <1>5, <2>1, <2>3, <2>4
  <2> QED
    BY <1>6, <2>5 DEF Watched, Heard
<1>8. answer' = "SUCCEEDED" => /\ ~Output!ErrorStands(said) /\ proc = "zero" /\ stops = 0
                               /\ (\E i \in DOMAIN said : Output!IsEvent(said[i])) =>
                                    \E i \in DOMAIN said : Output!Says(said[i], "turn")
  <2>1. SUFFICES ASSUME answer' = "SUCCEEDED"
                 PROVE  /\ ~Output!ErrorStands(said) /\ proc = "zero" /\ stops = 0
                        /\ (\E i \in DOMAIN said : Output!IsEvent(said[i])) =>
                             \E i \in DOMAIN said : Output!Says(said[i], "turn")
    OBVIOUS
  <2>2. c = {}
    <3>1. SUFFICES ASSUME c # {} PROVE FALSE
      OBVIOUS
    <3>2. PICK i \in 1..15 : Output!classify(c) = Output!Rank[i].outcome
      BY <1>5, <3>1, NamedAfter
    <3>3. \A j \in 1..15 : Output!Rank[j].outcome # "SUCCEEDED"
      BY DEF Output!Rank
    <3> QED
      BY <1>1, <2>1, <3>2, <3>3
  <2>3. ~watch.overspent /\ ~watch.error /\ proc = "zero" /\ (watch.event => watch.turn)
    BY <1>5, <2>2
  <2>4. Heard(watch, lines) /\ stops = 0
    BY <2>3 DEF Watched
  <2>5. ~Output!ErrorStands(said)
    BY <1>6, <2>3, <2>4 DEF Heard
  <2>6. (\E i \in DOMAIN said : Output!IsEvent(said[i])) =>
           \E i \in DOMAIN said : Output!Says(said[i], "turn")
    BY <1>6, <2>3, <2>4 DEF Heard
  <2> QED
    BY <2>3, <2>4, <2>5, <2>6
<1>9. Output!AnswerIsOfTheOutput'
  BY <1>1, <1>7, <1>8 DEF Output!AnswerIsOfTheOutput
<1>10. Answered'
  BY <1>1, <1>9 DEF Answered
<1> QED
  BY <1>2, <1>3, <1>4, <1>10

LEMMA TimesOutStep == ASSUME OutputInv, Output!TimesOut PROVE OutputInv'
<1> USE DEF OutputInv
<1> DEFINE c == Output!Signalled(watch, "killed", TRUE)
<1>1. /\ part # "over" /\ Output!Expired /\ part' = "over" /\ timedOut' = TRUE
      /\ proc' = "killed" /\ answer' = Output!classify(c)
      /\ UNCHANGED <<printed, clock, cap, now, began, written, taken, buffer, closed, watch,
                     lines, stops>>
  BY DEF Output!TimesOut
<1>2. Types' /\ \A s \in Output!Streams : Read(s)'
  BY <1>1 DEF Types, Read
<1>3. Watched'
  BY <1>1 DEF Watched, Heard, Output!OverBudget
<1>4. Clocked'
  BY <1>1 DEF Clocked, Output!WallClock
<1>5. /\ c \in SUBSET Output!Signals /\ "cancelled" \notin c /\ "startup_error" \notin c
      /\ "budget_exceeded" \in c <=> (watch.overspent \/ Output!IsBudget)
      /\ "timed_out" \in c <=> ~Output!IsBudget
  <2>1. PICK late \in BOOLEAN : late = TRUE
    OBVIOUS
  <2>2. c = Output!Signalled(watch, "killed", late)
    BY <2>1
  <2> HIDE DEF c
  <2>3. /\ c \in SUBSET Output!Signals /\ "cancelled" \notin c /\ "startup_error" \notin c
        /\ "budget_exceeded" \in c <=> (watch.overspent \/ (late /\ Output!IsBudget))
        /\ "timed_out" \in c <=> (late /\ ~Output!IsBudget)
    BY <2>2, SignalledIs
  <2> QED
    BY <2>1, <2>3
<1> HIDE DEF c
<1>6. ASSUME began > 0, ~watch.overspent
      PROVE  answer' = (IF clock.budget = Output!WallClock THEN "BUDGET_EXCEEDED"
                        ELSE "TIMED_OUT")
  <2>1. Output!WallClock # None
    <3>1. part # "setup" /\ Output!Limit # None
      BY <1>1, <1>6 DEF Clocked, Output!Expired
    <3> QED
      BY <3>1, LimitIs
  <2>2. Output!IsBudget <=> clock.budget = Output!WallClock
    <3> DEFINE wall == Output!WallClock
               x == clock.budget
               y == clock.caps
    <3>1. /\ None \notin Nat /\ wall \in {x, y} /\ wall \in Nat
          /\ x \in Nat \cup {None} /\ y \in Nat \cup {None}
          /\ x # None => wall <= x
          /\ y # None => wall <= y
      BY <2>1, WallClockIs, AttemptAssumption
      DEF AttemptAssumption, Output!StreamAssumption, Types
    <3>2. Output!IsBudget <=> x # None /\ (y = None \/ x <= y)
      BY DEF Output!IsBudget
    <3> HIDE DEF wall, x, y
    <3>3. Output!IsBudget <=> x = wall
      BY <3>1, <3>2
    <3> QED
      BY <3>3 DEF wall, x
  <2>3. c # {}
    BY <1>5
  <2>4. PICK i \in 1..15 : /\ Output!Rank[i].signal \in c
                           /\ \A j \in 1..(i - 1) : Output!Rank[j].signal \notin c
                           /\ Output!classify(c) = Output!Rank[i].outcome
    BY <1>5, <2>3, NamedAfter
  <2>5. /\ Output!Rank[1].signal = "cancelled" /\ Output!Rank[2].signal = "startup_error"
        /\ Output!Rank[3].signal = "budget_exceeded" /\ Output!Rank[4].signal = "timed_out"
        /\ Output!Rank[3].outcome = "BUDGET_EXCEEDED" /\ Output!Rank[4].outcome = "TIMED_OUT"
    BY DEF Output!Rank
  <2>6. i # 1 /\ i # 2
    BY <1>5, <2>4, <2>5
  <2>7. CASE Output!IsBudget
    <3>1. "budget_exceeded" \in c
      BY <1>5, <2>7
    <3>2. ~(3 \in 1..(i - 1))
      BY <2>4, <2>5, <3>1
    <3>3. i = 3
      BY <2>6, <3>2
    <3> QED
      BY <1>1, <2>2, <2>4, <2>5, <2>7, <3>3
  <2>8. CASE ~Output!IsBudget
    <3>1. "timed_out" \in c /\ "budget_exceeded" \notin c
      BY <1>5, <1>6, <2>8
    <3>2. ~(4 \in 1..(i - 1)) /\ i # 3
      BY <2>4, <2>5, <3>1
    <3>3. i = 4
      BY <2>6, <3>2
    <3> QED
      BY <1>1, <2>2, <2>4, <2>5, <2>8, <3>3
  <2> QED
    BY <2>7, <2>8
<1>7. Output!AnswerIsOfTheOutput'
  BY <1>1 DEF Output!AnswerIsOfTheOutput
<1>8. Output!WallClock' = Output!WallClock
  BY <1>1 DEF Output!WallClock
<1>9. Answered'
  BY <1>1, <1>6, <1>7, <1>8 DEF Answered
<1> QED
  BY <1>2, <1>3, <1>4, <1>9

LEMMA NextOutput == OutputInv /\ [Next]_vars => OutputInv'
<1> SUFFICES ASSUME OutputInv, [Next]_vars PROVE OutputInv'
  OBVIOUS
<1>1. CASE Output!Next
  <2>1. \A s \in Output!Streams :
          Output!Prints(s) \/ Output!Reads(s) \/ Output!ReadsEnd(s) => OutputInv'
    BY PrintsStep, ReadsStep, ReadsEndStep
  <2> QED
    BY <1>1, <2>1, SetupExitsStep, TickStep, ExitsStep, EndsStep, TimesOutStep DEF Output!Next
<1>2. CASE UNCHANGED output
  BY <1>2, OutputStays
<1> QED
  BY <1>1, <1>2 DEF Next, CheckoutMoves, WorkMoves, ContainersMove, OutputMoves, vars

(***************************************************************************)
(* The lines delivered are those of the output, none missing at its end,   *)
(* and the answer follows from them: for any output in any chunks, any     *)
(* interleaving of the two streams and any length at which a line is cut.  *)
(***************************************************************************)
THEOREM OutputIsRead == Spec => []OutputIsReadAsWritten
<1>1. ASSUME OutputInv PROVE OutputIsReadAsWritten
  <2>1. ASSUME NEW s \in Output!Streams
        PROVE  /\ Output!IsPrefix(lines[s], Output!Split(written[s]))
               /\ s \in closed => lines[s] = Output!Split(written[s])
    <3>1. written[s] \in Seq(Cell) /\ lines[s] \in Seq(Line) /\ taken[s] \in Nat
      BY <1>1 DEF OutputInv, Types, Said
    <3>2. CASE s \in closed
      <4>1. lines[s] = Output!Split(written[s])
        BY <1>1, <3>2 DEF OutputInv, Read
      <4> QED
        BY <3>1, <4>1, PrefixOfItself
    <3>3. CASE s \notin closed
      <4>1. /\ taken[s] \in 0..Len(written[s])
            /\ Output!CellByCell(<< >>, written[s])[taken[s]] = Held(lines[s], buffer[s])
        BY <1>1, <3>1, <3>3 DEF OutputInv, Read
      <4> QED
        BY <3>1, <3>3, <4>1, ReadIsPrefix
    <3> QED
      BY <3>2, <3>3
  <2>2. Output!LinesAreOfTheOutput
    BY <2>1 DEF Output!LinesAreOfTheOutput
  <2>3. Output!AnswerIsOfTheOutput
    BY <1>1 DEF OutputInv, Answered
  <2> QED
    BY <2>2, <2>3 DEF OutputIsReadAsWritten
<1> QED
  BY <1>1, OutputInit, NextOutput, PTL DEF Spec

(***************************************************************************)
(* A budget is overspent from the line that reports it on and stops its    *)
(* agent once, in no order of the reports under a cap on tokens alone      *)
(* later or sooner, and both phases fit one wall clock and are named for   *)
(* its limit: for any limits, counts and reports, counted either way.      *)
(***************************************************************************)
THEOREM LimitsAreKept == Spec => []AttemptKeepsItsLimits
<1>1. ASSUME OutputInv PROVE AttemptKeepsItsLimits
  <2>1. /\ cap \in Caps /\ watch \in Watch /\ lines \in Said /\ Heard(watch, lines)
        /\ stops = IF watch.overspent THEN 1 ELSE 0
    BY <1>1 DEF OutputInv, Types, Watched
  <2>2. /\ Output!Reported(lines, "input") = watch.usage["input"]
        /\ Output!Reported(lines, "cached") = watch.usage["cached"]
        /\ Output!Reported(lines, "used") = watch.total
    BY <2>1, SpentIs, ReportedIs DEF Heard, Output!Kinds
  <2>3. ASSUME cap.usd = None, cap.tokens # None
        PROVE  watch.overspent
                 <=> \/ Output!Reported(lines, "input") + Output!Reported(lines, "cached")
                          > cap.tokens
                     \/ Output!Reported(lines, "used") > cap.tokens
    <3>1. watch.overspent <=> Output!Spent(watch) > cap.tokens
      BY <2>1, <2>3 DEF Heard, Output!OverBudget
    <3>2. cap.tokens \in Nat
      BY <2>1, <2>3, AttemptAssumption
      DEF AttemptAssumption, Output!StreamAssumption, Output!Limits
    <3>3. /\ watch.usage["input"] \in Nat /\ watch.usage["cached"] \in Nat /\ watch.total \in Nat
          /\ Output!Sum(watch.usage) = watch.usage["input"] + watch.usage["cached"]
          /\ Output!Spent(watch) = IF Output!Sum(watch.usage) >= watch.total
                                   THEN Output!Sum(watch.usage) ELSE watch.total
      BY <2>1, SpentIs
    <3> QED
      BY <2>2, <3>1, <3>2, <3>3
  <2>4. Output!OverspendIsNoticed
    BY <2>1, <2>3 DEF Output!OverspendIsNoticed, Heard
  <2>5. Output!AttemptFitsItsClock
    BY <1>1 DEF OutputInv, Clocked, Answered, Output!AttemptFitsItsClock
  <2> QED
    BY <2>4, <2>5 DEF AttemptKeepsItsLimits
<1> QED
  BY <1>1, OutputInit, NextOutput, PTL DEF Spec
=============================================================================
