------------------------- MODULE VsrAnnotationProofs -------------------------
(***************************************************************************)
(* Proofs about the annotation that holds the snapshots of a namespace,    *)
(* for any number of snapshots and whatever their fields.                  *)
(*                                                                         *)
(* Encode joins the fields of a row and the rows of the text, Decode takes *)
(* them apart.  The proof follows the text: what Split has of a text when  *)
(* one word more is read, when a row is added, and when a row is added     *)
(* after a separator.  Each step is repeated for all the words, fields or  *)
(* rows by taking the least number of them for which its claim would not   *)
(* hold.                                                                   *)
(***************************************************************************)
EXTENDS VsrAnnotation, SequenceTheorems, WellFoundedInduction, TLAPS

(* Least elements.                                                         *)

(* What holds of some numbers holds of a first one. *)
LEMMA Least ==
  ASSUME NEW T, T \subseteq Nat, T # {}
  PROVE  \E n \in T : \A m \in T : n <= m
<1> DEFINE R == {ss \in Nat \X Nat : ss[1] < ss[2]}
<1>1. IsWellFoundedOn(R, Nat)
  BY NatLessThanWellFounded DEF OpToRel
<1>2. \E n \in T : \A m \in T : ~(<<m, n>> \in R)
  <2> HIDE DEF R
  <2> QED BY <1>1, WFMin
<1>3. PICK n \in T : \A m \in T : ~(<<m, n>> \in R)
  BY <1>2
<1>4. \A m \in T : ~(m < n)
  BY <1>3
<1> QED BY <1>4

LEMMA MaxIs ==
  ASSUME NEW n \in Nat, NEW s, s \subseteq 1..n, s # {}
  PROVE  Max(s) \in s /\ \A y \in s : y <= Max(s)
<1> DEFINE T == {m \in Nat : \A y \in s : y <= m}
<1>1. n \in T
  OBVIOUS
<1>2. PICK m \in T : \A k \in T : m <= k
  <2> HIDE DEF T
  <2>1. T \subseteq Nat
    BY DEF T
  <2> QED BY <1>1, <2>1, Least
<1>3. m \in s
  <2>1. SUFFICES ASSUME m \notin s PROVE FALSE
    OBVIOUS
  <2>2. \A y \in s : y \in 1..n /\ y <= m - 1
    BY <1>2, <2>1
  <2>3. m >= 1
    <3>1. PICK y \in s : y \in 1..n /\ y <= m - 1
      BY <2>2
    <3> QED BY <1>2, <3>1
  <2>4. m - 1 \in T
    BY <1>2, <2>2, <2>3
  <2> QED BY <1>2, <2>4
<1>4. \E x \in s : \A y \in s : x >= y
  BY <1>2, <1>3
<1>5. Max(s) \in s /\ \A y \in s : Max(s) >= y
  BY <1>4 DEF Max
<1> QED BY <1>5

LEMMA MaxOfInterval ==
  ASSUME NEW k \in Nat, k # 0
  PROVE  k \in 1..k /\ Max(1..k) = k
<1>1. k \in 1..k
  OBVIOUS
<1>2. Max(1..k) \in 1..k /\ \A y \in 1..k : y <= Max(1..k)
  BY <1>1, MaxIs
<1>3. \A x \in 1..k : k <= x => x = k
  OBVIOUS
<1> QED BY <1>1, <1>2, <1>3

-----------------------------------------------------------------------------
(* Split, word by word.                                                    *)

(* The parts of a text, when the next word is read.                        *)
Step(parts, word, sep) ==
  IF word = sep THEN Append(parts, <<>>)
  ELSE [parts EXCEPT ![Len(parts)] = Append(@, word)]

(* The fold over the first words of a text, as a function of their places. *)
Folded(g, text, sep, s) ==
  IF s = {} THEN << <<>> >> ELSE Step(g[s \ {Max(s)}], text[Max(s)], sep)

IsFold(g, text, sep, n) == g = [s \in SUBSET (1..n) |-> Folded(g, text, sep, s)]

LEMMA FoldExtends ==
  ASSUME NEW text, NEW sep, NEW n \in Nat, NEW g, IsFold(g, text, sep, n)
  PROVE  \E h : IsFold(h, text, sep, n + 1)
<1> DEFINE h == [s \in SUBSET (1..n + 1) |->
                   IF n + 1 \in s THEN Step(g[s \ {n + 1}], text[n + 1], sep) ELSE g[s]]
<1>1. \A s \in SUBSET (1..n) :
         /\ s \in SUBSET (1..n + 1) /\ n + 1 \notin s
         /\ g[s] = Folded(g, text, sep, s)
  BY DEF IsFold
<1>2. \A s \in SUBSET (1..n) : h[s] = g[s]
  BY <1>1
<1>3. ASSUME NEW s \in SUBSET (1..n + 1)
      PROVE  h[s] = Folded(h, text, sep, s)
  <2>1. CASE n + 1 \in s
    <3>1. Max(s) = n + 1
      <4>1. n + 1 \in Nat /\ s \subseteq 1..n + 1 /\ s # {}
        BY <2>1
      <4>2. Max(s) \in s /\ \A y \in s : y <= Max(s)
        BY <4>1, MaxIs
      <4>3. \A x \in 1..n + 1 : n + 1 <= x => x = n + 1
        OBVIOUS
      <4>4. Max(s) \in 1..n + 1 /\ n + 1 <= Max(s)
        BY <2>1, <4>2
      <4> QED BY <4>3, <4>4
    <3>2. s \ {n + 1} \in SUBSET (1..n)
      OBVIOUS
    <3>3. h[s] = Step(g[s \ {n + 1}], text[n + 1], sep)
      BY <2>1
    <3> HIDE DEF h
    <3>4. h[s \ {n + 1}] = g[s \ {n + 1}]
      BY <1>2, <3>2
    <3> QED BY <2>1, <3>1, <3>3, <3>4 DEF Folded
  <2>2. CASE n + 1 \notin s
    <3>1. s \in SUBSET (1..n)
      BY <2>2
    <3>2. h[s] = Folded(g, text, sep, s)
      BY <1>1, <1>2, <3>1
    <3> HIDE DEF h
    <3>3. CASE s = {}
      BY <3>2, <3>3 DEF Folded
    <3>4. CASE s # {}
      <4>1. s \ {Max(s)} \in SUBSET (1..n)
        BY <3>1
      <4>2. h[s \ {Max(s)}] = g[s \ {Max(s)}]
        BY <1>2, <4>1
      <4> QED BY <3>2, <3>4, <4>2 DEF Folded
    <3> QED BY <3>3, <3>4
  <2> QED BY <2>1, <2>2
<1>4. h = [s \in SUBSET (1..n + 1) |-> Folded(h, text, sep, s)]
  <2>1. h = [s \in SUBSET (1..n + 1) |-> h[s]]
    OBVIOUS
  <2> HIDE DEF h
  <2> QED BY <1>3, <2>1
<1> QED BY <1>4 DEF IsFold

LEMMA FoldExists ==
  ASSUME NEW text, NEW sep, NEW n \in Nat
  PROVE  \E g : IsFold(g, text, sep, n)
<1> DEFINE Bad == {m \in Nat : ~\E g : IsFold(g, text, sep, m)}
<1>1. SUFFICES ASSUME Bad # {} PROVE FALSE
  OBVIOUS
<1>2. PICK m \in Bad : \A k \in Bad : m <= k
  <2>1. Bad \subseteq Nat
    OBVIOUS
  <2> HIDE DEF Bad
  <2> QED BY <1>1, <2>1, Least
<1>3. CASE m = 0
  <2> DEFINE g == [s \in SUBSET (1..0) |-> << <<>> >>]
  <2>1. \A f : [s \in SUBSET (1..0) |-> Folded(f, text, sep, s)] = g
    BY DEF Folded
  <2>2. IsFold(g, text, sep, 0)
    BY <2>1 DEF IsFold
  <2> QED BY <1>2, <1>3, <2>2
<1>4. CASE m # 0
  <2>1. m - 1 \in Nat /\ m - 1 \notin Bad
    BY <1>2, <1>4
  <2>2. PICK g : IsFold(g, text, sep, m - 1)
    BY <2>1
  <2>3. \E h : IsFold(h, text, sep, (m - 1) + 1)
    BY <2>1, <2>2, FoldExtends
  <2>4. (m - 1) + 1 = m
    BY <1>2
  <2> QED BY <1>2, <2>3, <2>4
<1> QED BY <1>3, <1>4

(* The parts Split goes through, one value for each word of the text.      *)
IsSplitting(parts, text, sep) ==
  /\ parts[0] = << <<>> >>
  /\ \A k \in 1..Len(text) : parts[k] = Step(parts[k - 1], text[k], sep)

LEMMA SplitStepwise ==
  ASSUME NEW S, NEW text \in Seq(S), NEW sep
  PROVE  \E parts : IsSplitting(parts, text, sep) /\ Split(text, sep) = parts[Len(text)]
<1> DEFINE n == Len(text)
           g == CHOOSE f : IsFold(f, text, sep, n)
           parts == [k \in 0..n |-> g[1..k]]
<1>1. n \in Nat /\ DOMAIN text = 1..n
  OBVIOUS
<1>2. IsFold(g, text, sep, n)
  BY <1>1, FoldExists
<1>3. Split(text, sep) = g[1..n]
  <2>1. Split(text, sep) = (CHOOSE f : f = [s \in SUBSET DOMAIN text |-> Folded(f, text, sep, s)])
                            [DOMAIN text]
    BY DEF Split, FoldLeft, MapThenFoldSet, Folded, Step
  <2> QED BY <1>1, <2>1 DEF IsFold
<1> HIDE DEF g
<1>4. ASSUME NEW k \in 0..n
      PROVE  g[1..k] = IF k = 0 THEN << <<>> >> ELSE Step(g[1..k - 1], text[k], sep)
  <2>1. g[1..k] = Folded(g, text, sep, 1..k)
    BY <1>2 DEF IsFold
  <2>2. CASE k = 0
    <3>1. 1..k = {}
      BY <2>2
    <3> QED BY <2>1, <2>2, <3>1 DEF Folded
  <2>3. CASE k # 0
    <3>1. k \in Nat /\ k \in 1..k /\ Max(1..k) = k
      BY <2>3, MaxOfInterval
    <3>3. (1..k) \ {k} = 1..k - 1
      OBVIOUS
    <3> QED BY <2>1, <2>3, <3>1, <3>3 DEF Folded
  <2> QED BY <2>2, <2>3
<1>5. parts[0] = << <<>> >>
  BY <1>1, <1>4
<1>6. \A k \in 1..n : parts[k] = Step(parts[k - 1], text[k], sep)
  BY <1>1, <1>4
<1>7. Split(text, sep) = parts[n]
  BY <1>1, <1>3
<1> HIDE DEF parts
<1> QED BY <1>5, <1>6, <1>7 DEF IsSplitting

LEMMA SplitEmpty ==
  ASSUME NEW sep
  PROVE  Split(<<>>, sep) = << <<>> >>
<1>1. <<>> \in Seq({}) /\ Len(<<>>) = 0
  OBVIOUS
<1> QED BY <1>1, SplitStepwise DEF IsSplitting

LEMMA SplitAppend ==
  ASSUME NEW S, NEW text \in Seq(S), NEW word \in S, NEW sep
  PROVE  Split(Append(text, word), sep) = Step(Split(text, sep), word, sep)
<1> DEFINE more == Append(text, word)
           n == Len(text)
<1>1. /\ n \in Nat /\ more \in Seq(S) /\ Len(more) = n + 1 /\ more[n + 1] = word
      /\ \A k \in 1..n : more[k] = text[k]
  OBVIOUS
<1> HIDE DEF more, n
<1>2. PICK a : IsSplitting(a, text, sep) /\ Split(text, sep) = a[n]
  BY SplitStepwise DEF n
<1>3. PICK b : IsSplitting(b, more, sep) /\ Split(more, sep) = b[n + 1]
  BY <1>1, SplitStepwise
<1> DEFINE Bad == {k \in 0..n : a[k] # b[k]}
<1>4. Bad = {}
  <2>1. SUFFICES ASSUME Bad # {} PROVE FALSE
    OBVIOUS
  <2>2. PICK m \in Bad : \A k \in Bad : m <= k
    <3>1. Bad \subseteq Nat
      BY <1>1
    <3> HIDE DEF Bad
    <3> QED BY <2>1, <3>1, Least
  <2>3. m # 0
    BY <1>2, <1>3, <2>2 DEF IsSplitting
  <2>4. m \in 1..n /\ m \in 1..n + 1 /\ m - 1 \in 0..n /\ m - 1 \notin Bad
    BY <1>1, <2>2, <2>3
  <2>5. a[m - 1] = b[m - 1]
    BY <2>4
  <2>6. a[m] = Step(a[m - 1], text[m], sep) /\ b[m] = Step(b[m - 1], more[m], sep)
    BY <1>1, <1>2, <1>3, <2>4 DEF IsSplitting, n
  <2> QED BY <1>1, <2>2, <2>4, <2>5, <2>6
<1>5. a[n] = b[n]
  BY <1>1, <1>4
<1>6. n + 1 \in 1..Len(more) /\ (n + 1) - 1 = n
  BY <1>1
<1>7. b[n + 1] = Step(b[n], more[n + 1], sep)
  BY <1>3, <1>6 DEF IsSplitting
<1> QED BY <1>1, <1>2, <1>3, <1>5, <1>7 DEF more

-----------------------------------------------------------------------------
(* Rows of a text *)

LEMMA ReplaceEnd ==
  ASSUME NEW T, NEW parts \in Seq(T), NEW old \in T, NEW new \in T
  PROVE  [Append(parts, old) EXCEPT ![Len(parts) + 1] = new] = Append(parts, new)
<1> DEFINE n == Len(parts)
           a == Append(parts, old)
           b == Append(parts, new)
<1>1. /\ n \in Nat /\ a \in [1..n + 1 -> T] /\ b \in [1..n + 1 -> T]
      /\ a[n + 1] = old /\ b[n + 1] = new
      /\ \A k \in 1..n : a[k] = parts[k] /\ b[k] = parts[k]
  <2>1. /\ n \in Nat /\ a \in Seq(T) /\ Len(a) = n + 1 /\ a[n + 1] = old
        /\ \A k \in 1..n : a[k] = parts[k]
    OBVIOUS
  <2>2. /\ b \in Seq(T) /\ Len(b) = n + 1 /\ b[n + 1] = new
        /\ \A k \in 1..n : b[k] = parts[k]
    OBVIOUS
  <2> HIDE DEF a, b
  <2> QED BY <2>1, <2>2
<1> HIDE DEF n, a, b
<1>2. \A k \in 1..n + 1 : [a EXCEPT ![n + 1] = new][k] = b[k]
  BY <1>1
<1>3. [a EXCEPT ![n + 1] = new] \in [1..n + 1 -> T]
  BY <1>1
<1>4. [a EXCEPT ![n + 1] = new] = b
  <2> DEFINE c == [a EXCEPT ![n + 1] = new]
  <2>1. c \in [1..n + 1 -> T] /\ \A k \in 1..n + 1 : c[k] = b[k]
    BY <1>2, <1>3
  <2> HIDE DEF c
  <2>2. c = b
    BY <1>1, <2>1
  <2> QED BY <2>2 DEF c
<1> QED BY <1>4 DEF n, a, b

(* The words of a row, none of which is the separator. *)
Without(row, sep) == \A k \in 1..Len(row) : row[k] # sep

(* Words that are no separator go to the last part. *)
LEMMA SplitRow ==
  ASSUME NEW S, NEW sep, NEW text \in Seq(S), NEW row \in Seq(S),
         Without(row, sep),
         NEW parts \in Seq(Seq(S)), NEW last \in Seq(S),
         Split(text, sep) = Append(parts, last)
  PROVE  Split(text \o row, sep) = Append(parts, last \o row)
<1> DEFINE Cut(k) == [i \in 1..k |-> row[i]]
           Good(k) == Split(text \o Cut(k), sep) = Append(parts, last \o Cut(k))
           Bad == {k \in 0..Len(row) : ~Good(k)}
<1>1. Len(row) \in Nat /\ \A k \in 1..Len(row) : row[k] \in S
  OBVIOUS
<1>2. Good(0)
  <2>1. Cut(0) = <<>>
    OBVIOUS
  <2>2. text \o <<>> = text /\ last \o <<>> = last
    OBVIOUS
  <2> HIDE DEF Cut
  <2> QED BY <2>1, <2>2
<1>3. ASSUME NEW k \in 1..Len(row), Good(k - 1) PROVE Good(k)
  <2> DEFINE before == Cut(k - 1)
  <2>1. before \in Seq(S) /\ Cut(k) = Append(before, row[k])
    BY <1>1
  <2>2. Split(text \o before, sep) = Append(parts, last \o before)
    BY <1>3
  <2> HIDE DEF before, Cut
  <2>3. text \o Append(before, row[k]) = Append(text \o before, row[k])
    BY <1>1, <2>1
  <2>4. last \o Append(before, row[k]) = Append(last \o before, row[k])
    BY <1>1, <2>1
  <2>5. text \o before \in Seq(S) /\ last \o before \in Seq(S)
    BY <2>1
  <2>6. Split(Append(text \o before, row[k]), sep)
          = Step(Append(parts, last \o before), row[k], sep)
    BY <1>1, <2>2, <2>5, SplitAppend
  <2>7. ASSUME NEW end \in Seq(S), NEW word \in S, word # sep
        PROVE  Step(Append(parts, end), word, sep) = Append(parts, Append(end, word))
    <3>1. Step(Append(parts, end), word, sep)
            = [Append(parts, end) EXCEPT ![Len(Append(parts, end))] = Append(@, word)]
      BY <2>7 DEF Step
    <3>2. /\ Len(Append(parts, end)) = Len(parts) + 1
          /\ Append(parts, end)[Len(parts) + 1] = end
          /\ Append(parts, end) \in Seq(Seq(S))
      OBVIOUS
    <3>3. Append(end, word) \in Seq(S)
      BY <2>7
    <3>4. [Append(parts, end) EXCEPT ![Len(parts) + 1] = Append(end, word)]
            = Append(parts, Append(end, word))
      <4> DEFINE new == Append(end, word)
      <4>1. end \in Seq(S) /\ new \in Seq(S) /\ parts \in Seq(Seq(S))
        BY <3>3
      <4> HIDE DEF new
      <4>2. [Append(parts, end) EXCEPT ![Len(parts) + 1] = new] = Append(parts, new)
        BY <4>1, ReplaceEnd
      <4> QED BY <4>2 DEF new
    <3>5. [Append(parts, end) EXCEPT ![Len(parts) + 1] = Append(@, word)]
            = [Append(parts, end) EXCEPT ![Len(parts) + 1] = Append(end, word)]
      BY <3>2
    <3> QED BY <3>1, <3>2, <3>4, <3>5
  <2>8. row[k] \in S /\ row[k] # sep
    BY <1>1 DEF Without
  <2>9. Step(Append(parts, last \o before), row[k], sep)
          = Append(parts, Append(last \o before, row[k]))
    BY <2>5, <2>7, <2>8
  <2> QED BY <2>1, <2>3, <2>4, <2>6, <2>9
<1>4. Bad = {}
  <2>1. SUFFICES ASSUME Bad # {} PROVE FALSE
    OBVIOUS
  <2>2. PICK m \in Bad : \A k \in Bad : m <= k
    <3>1. Bad \subseteq Nat
      BY <1>1
    <3> HIDE DEF Bad
    <3> QED BY <2>1, <3>1, Least
  <2> HIDE DEF Good
  <2>3. m # 0
    BY <1>2, <2>2
  <2>4. m \in 1..Len(row) /\ m - 1 \in 0..Len(row) /\ m - 1 \notin Bad
    BY <1>1, <2>2, <2>3
  <2> QED BY <1>3, <2>2, <2>4
<1>5. Good(Len(row))
  <2> HIDE DEF Good
  <2> QED BY <1>1, <1>4
<1>6. Cut(Len(row)) = row
  OBVIOUS
<1> HIDE DEF Cut
<1> QED BY <1>5, <1>6

IsRow(S, sep, row) == row \in Seq(S) /\ Without(row, sep)

(* A text is split into parts and a last one. *)
Ends(S, sep, text, parts, last) ==
  /\ text \in Seq(S) /\ parts \in Seq(Seq(S)) /\ last \in Seq(S)
  /\ Split(text, sep) = Append(parts, last)

LEMMA EndsLonger ==
  ASSUME NEW S, NEW sep, NEW text, NEW row, NEW parts, NEW last,
         IsRow(S, sep, row), Ends(S, sep, text, parts, last)
  PROVE  Ends(S, sep, text \o row, parts, last \o row)
<1>1. /\ text \in Seq(S) /\ parts \in Seq(Seq(S)) /\ last \in Seq(S)
      /\ Split(text, sep) = Append(parts, last)
  BY DEF Ends
<1>2. row \in Seq(S) /\ Without(row, sep)
  BY DEF IsRow
<1>3. Split(text \o row, sep) = Append(parts, last \o row)
  BY <1>1, <1>2, SplitRow
<1>4. text \o row \in Seq(S) /\ last \o row \in Seq(S)
  BY <1>1, <1>2
<1> QED BY <1>1, <1>3, <1>4 DEF Ends

(* A text without separator is one part. *)
LEMMA EndsFirst ==
  ASSUME NEW S, NEW sep, NEW row, IsRow(S, sep, row)
  PROVE  Ends(S, sep, row, <<>>, row)
<1>1. Ends(S, sep, <<>>, <<>>, <<>>)
  <2>1. \A T : <<>> \in Seq(T)
    OBVIOUS
  <2>2. Append(<<>>, <<>>) = << <<>> >>
    OBVIOUS
  <2> QED BY <2>1, <2>2, SplitEmpty DEF Ends
<1>2. Ends(S, sep, <<>> \o row, <<>>, <<>> \o row)
  BY <1>1, EndsLonger
<1>3. <<>> \o row = row
  BY DEF IsRow
<1> QED BY <1>2, <1>3

(* Words after a separator make a part of their own. *)
LEMMA EndsNext ==
  ASSUME NEW S, NEW sep \in S, NEW text, NEW row, NEW parts, NEW last,
         IsRow(S, sep, row), Ends(S, sep, text, parts, last)
  PROVE  Ends(S, sep, Append(text, sep) \o row, Append(parts, last), row)
<1>1. Ends(S, sep, Append(text, sep), Append(parts, last), <<>>)
  <2>1. /\ text \in Seq(S) /\ parts \in Seq(Seq(S)) /\ last \in Seq(S)
        /\ Split(text, sep) = Append(parts, last)
    BY DEF Ends
  <2>2. Split(Append(text, sep), sep) = Append(Append(parts, last), <<>>)
    BY <2>1, SplitAppend DEF Step
  <2>3. /\ Append(text, sep) \in Seq(S) /\ Append(parts, last) \in Seq(Seq(S))
        /\ <<>> \in Seq(S)
    BY <2>1
  <2> QED BY <2>2, <2>3 DEF Ends
<1>2. Ends(S, sep, Append(text, sep) \o row, Append(parts, last), <<>> \o row)
  BY <1>1, EndsLonger
<1>3. <<>> \o row = row
  BY DEF IsRow
<1> QED BY <1>2, <1>3

-----------------------------------------------------------------------------
(* FlattenSeq *)

IsFlat(f, seqs, n) ==
  f = [i \in 1..n |-> IF i = 1 THEN seqs[i] ELSE f[i - 1] \o seqs[i]]

LEMMA FlatExtends ==
  ASSUME NEW seqs, NEW n \in Nat, NEW g, IsFlat(g, seqs, n)
  PROVE  \E h : IsFlat(h, seqs, n + 1)
<1> DEFINE h == [i \in 1..n + 1 |->
                   IF i = n + 1 THEN (IF i = 1 THEN seqs[i] ELSE g[n] \o seqs[i])
                   ELSE g[i]]
<1>1. \A i \in 1..n : g[i] = IF i = 1 THEN seqs[i] ELSE g[i - 1] \o seqs[i]
  BY DEF IsFlat
<1>2. ASSUME NEW i \in 1..n + 1
      PROVE  h[i] = IF i = 1 THEN seqs[i] ELSE h[i - 1] \o seqs[i]
  <2>1. CASE i = n + 1
    <3>1. CASE i = 1
      BY <2>1, <3>1
    <3>2. CASE i # 1
      <4>1. i - 1 = n /\ n \in 1..n + 1 /\ n # n + 1
        BY <2>1, <3>2
      <4>2. h[i - 1] = g[n]
        BY <4>1
      <4>3. h[i] = g[n] \o seqs[i]
        BY <2>1, <3>2
      <4> HIDE DEF h
      <4> QED BY <3>2, <4>2, <4>3
    <3> QED BY <3>1, <3>2
  <2>2. CASE i # n + 1
    <3>1. i \in 1..n /\ h[i] = g[i]
      BY <2>2
    <3>2. CASE i = 1
      BY <1>1, <3>1, <3>2
    <3>3. CASE i # 1
      <4>1. i - 1 \in 1..n + 1 /\ i - 1 # n + 1
        BY <3>1, <3>3
      <4>2. h[i - 1] = g[i - 1]
        BY <4>1
      <4> HIDE DEF h
      <4> QED BY <1>1, <3>1, <3>3, <4>2
    <3> QED BY <3>2, <3>3
  <2> QED BY <2>1, <2>2
<1>3. h = [i \in 1..n + 1 |-> IF i = 1 THEN seqs[i] ELSE h[i - 1] \o seqs[i]]
  <2>1. h = [i \in 1..n + 1 |-> h[i]]
    OBVIOUS
  <2> HIDE DEF h
  <2> QED BY <1>2, <2>1
<1> QED BY <1>3 DEF IsFlat

LEMMA FlatExists ==
  ASSUME NEW seqs, NEW n \in Nat
  PROVE  \E f : IsFlat(f, seqs, n)
<1> DEFINE Bad == {m \in Nat : ~\E f : IsFlat(f, seqs, m)}
<1>1. SUFFICES ASSUME Bad # {} PROVE FALSE
  OBVIOUS
<1>2. PICK m \in Bad : \A k \in Bad : m <= k
  <2>1. Bad \subseteq Nat
    OBVIOUS
  <2> HIDE DEF Bad
  <2> QED BY <1>1, <2>1, Least
<1>3. CASE m = 0
  <2> DEFINE none == [i \in 1..0 |-> <<>>]
  <2>1. \A f : [i \in 1..0 |-> IF i = 1 THEN seqs[i] ELSE f[i - 1] \o seqs[i]] = none
    OBVIOUS
  <2>2. IsFlat(none, seqs, 0)
    BY <2>1 DEF IsFlat
  <2> QED BY <1>2, <1>3, <2>2
<1>4. CASE m # 0
  <2>1. m - 1 \in Nat /\ m - 1 \notin Bad
    BY <1>2, <1>4
  <2>2. PICK g : IsFlat(g, seqs, m - 1)
    BY <2>1
  <2>3. \E h : IsFlat(h, seqs, (m - 1) + 1)
    BY <2>1, <2>2, FlatExtends
  <2>4. (m - 1) + 1 = m
    BY <1>2
  <2> QED BY <1>2, <2>3, <2>4
<1> QED BY <1>3, <1>4

(* The texts that FlattenSeq goes through, one value for each piece. *)
LEMMA FlattenStepwise ==
  ASSUME NEW S, NEW seqs \in Seq(Seq(S)), seqs # <<>>
  PROVE  \E flat :
           /\ flat[0] = <<>>
           /\ \A k \in 0..Len(seqs) : flat[k] \in Seq(S)
           /\ \A k \in 1..Len(seqs) : flat[k] = flat[k - 1] \o seqs[k]
           /\ FlattenSeq(seqs) = flat[Len(seqs)]
<1> DEFINE n == Len(seqs)
           g == CHOOSE f : IsFlat(f, seqs, n)
           flat == [k \in 0..n |-> IF k = 0 THEN <<>> ELSE g[k]]
<1>1. n \in Nat /\ n # 0 /\ \A k \in 1..n : seqs[k] \in Seq(S)
  OBVIOUS
<1>2. IsFlat(g, seqs, n)
  BY <1>1, FlatExists
<1>3. FlattenSeq(seqs) = g[n]
  BY <1>1 DEF FlattenSeq, IsFlat
<1> HIDE DEF g
<1>4. flat[0] = <<>> /\ flat[n] = g[n]
  BY <1>1
<1>5. ASSUME NEW k \in 1..n
      PROVE  flat[k] = IF k = 1 THEN seqs[1] ELSE flat[k - 1] \o seqs[k]
  <2>1. g[k] = IF k = 1 THEN seqs[k] ELSE g[k - 1] \o seqs[k]
    BY <1>2 DEF IsFlat
  <2>2. flat[k] = g[k]
    BY <1>1
  <2>3. k # 1 => flat[k - 1] = g[k - 1]
    BY <1>1
  <2> HIDE DEF flat
  <2> QED BY <2>1, <2>2, <2>3
<1> HIDE DEF flat
<1>6. ASSUME NEW k \in 1..n, flat[k - 1] \in Seq(S)
      PROVE  flat[k] \in Seq(S) /\ flat[k] = flat[k - 1] \o seqs[k]
  <2>1. CASE k = 1
    <3>1. flat[k] = seqs[1] /\ flat[k - 1] = <<>> /\ seqs[1] \in Seq(S)
      BY <1>1, <1>4, <1>5, <2>1
    <3>2. <<>> \o seqs[1] = seqs[1]
      BY <3>1
    <3> QED BY <2>1, <3>1, <3>2
  <2>2. CASE k # 1
    <3>1. flat[k] = flat[k - 1] \o seqs[k] /\ seqs[k] \in Seq(S)
      BY <1>1, <1>5, <2>2
    <3> QED BY <1>6, <3>1
  <2> QED BY <2>1, <2>2
<1> DEFINE Bad == {k \in 0..n : flat[k] \notin Seq(S)}
<1>7. Bad = {}
  <2>1. SUFFICES ASSUME Bad # {} PROVE FALSE
    OBVIOUS
  <2>2. PICK m \in Bad : \A k \in Bad : m <= k
    <3>1. Bad \subseteq Nat
      BY <1>1
    <3> HIDE DEF Bad
    <3> QED BY <2>1, <3>1, Least
  <2>3. m # 0
    <3>1. <<>> \in Seq(S)
      OBVIOUS
    <3> QED BY <1>4, <2>2, <3>1
  <2>4. m \in 1..n /\ m - 1 \in 0..n /\ m - 1 \notin Bad
    BY <1>1, <2>2, <2>3
  <2> QED BY <1>6, <2>2, <2>4
<1>8. \A k \in 0..n : flat[k] \in Seq(S)
  BY <1>7
<1>9. \A k \in 1..n : flat[k] = flat[k - 1] \o seqs[k]
  <2> SUFFICES ASSUME NEW k \in 1..n PROVE flat[k] = flat[k - 1] \o seqs[k]
    OBVIOUS
  <2>1. k - 1 \in 0..n
    BY <1>1
  <2> QED BY <1>6, <1>8, <2>1
<1> QED BY <1>3, <1>4, <1>8, <1>9

-----------------------------------------------------------------------------
(* Fields *)

(* The separators, by name: the provers' arithmetic does not take the texts. *)
Comma == ","
Semicolon == ";"

RowWord == Words \union {Comma}
TextWord == RowWord \union {Semicolon}

LEMMA Separators ==
  Comma \notin Words /\ Semicolon \notin Words /\ Comma # Semicolon
<1>1. Comma \notin Words /\ Semicolon \notin Words
  BY AnnotationAssumption, Zenon DEF Comma, Semicolon
<1>2. Comma # Semicolon
  BY Zenon DEF Comma, Semicolon
<1> QED BY <1>1, <1>2

LEMMA RowWritten ==
  ASSUME NEW vsr
  PROVE  Row(vsr)
           = Field(vsr[1]) \o FlattenSeq([k \in 1..5 |-> <<Comma>> \o Field(vsr[k + 1])])
<1>1. Fields - 1 = 5
  BY DEF Fields
<1> QED BY <1>1, Zenon DEF Row, Comma

LEMMA RowRead ==
  ASSUME NEW row
  PROVE  Parse(row) = [k \in DOMAIN Split(row, Comma) |-> Word(Split(row, Comma)[k])]
BY Zenon DEF Parse, Comma

LEMMA OneWord ==
  ASSUME NEW T, NEW word \in T
  PROVE  /\ <<word>> \in Seq(T) /\ <<word>> # <<>> /\ <<word>>[1] = word
         /\ Len(<<word>>) = 1 /\ \A k \in 1..Len(<<word>>) : <<word>>[k] = word
<1>1. <<word>> \in Seq(T) /\ Len(<<word>>) = 1 /\ <<word>>[1] = word
  OBVIOUS
<1>2. <<word>> # <<>>
  OBVIOUS
<1>3. \A k \in 1..1 : k = 1
  OBVIOUS
<1> QED BY <1>1, <1>2, <1>3

IsText(T, text) == text \in Seq(T)

Joining(a, b, word, c) == a \o (b \o (<<word>> \o c)) = Append(a \o b, word) \o c

LEMMA JoinedBy ==
  ASSUME NEW T, NEW a, NEW b, NEW c, NEW word \in T,
         IsText(T, a), IsText(T, b), IsText(T, c)
  PROVE  Joining(a, b, word, c)
<1> DEFINE more == Append(b, word)
<1>1. a \in Seq(T) /\ b \in Seq(T) /\ c \in Seq(T)
  BY DEF IsText
<1>2. b \o (<<word>> \o c) = more \o c
  BY <1>1
<1>3. a \o more = Append(a \o b, word)
  BY <1>1
<1>4. more \in Seq(T)
  BY <1>1
<1> HIDE DEF more
<1>5. a \o (more \o c) = (a \o more) \o c
  BY <1>1, <1>4
<1> QED BY <1>2, <1>3, <1>5, Zenon DEF Joining

LEMMA FunctionIsSequence ==
  ASSUME NEW T, NEW n \in Nat, NEW f \in [1..n -> T]
  PROVE  f \in Seq(T) /\ Len(f) = n
OBVIOUS

LEMMA FieldIs ==
  ASSUME NEW word \in Words \union {Empty}
  PROVE  /\ IsRow(RowWord, Comma, Field(word)) /\ Field(word) \in Seq(Words)
         /\ Word(Field(word)) = word
<1>1. Comma \notin Words
  BY Separators
<1>2. CASE word = Empty
  <2>1. Field(word) = <<>>
    BY <1>2 DEF Field
  <2>2. Len(<<>>) = 0 /\ \A T : <<>> \in Seq(T)
    OBVIOUS
  <2> QED BY <1>2, <2>1, <2>2 DEF IsRow, Without, Word
<1>3. CASE word # Empty
  <2>1. Field(word) = <<word>> /\ word \in Words
    BY <1>3 DEF Field
  <2>2. /\ <<word>> \in Seq(Words) /\ <<word>> \in Seq(RowWord) /\ <<word>> # <<>>
        /\ <<word>>[1] = word /\ \A k \in 1..Len(<<word>>) : <<word>>[k] = word
    <3>1. word \in RowWord
      BY <2>1 DEF RowWord
    <3> QED BY <2>1, <3>1, OneWord
  <2>3. word # Comma
    BY <1>1, <2>1
  <2> QED BY <2>1, <2>2, <2>3 DEF IsRow, Without, Word
<1> QED BY <1>2, <1>3

(* A row has as many parts as a resource has fields, whichever are empty.  *)
LEMMA RowIs ==
  ASSUME NEW vsr \in Vsr
  PROVE  /\ Row(vsr) \in Seq(RowWord)
         /\ Split(Row(vsr), Comma) = [k \in 1..6 |-> Field(vsr[k])]
<1> DEFINE F == [k \in 1..6 |-> Field(vsr[k])]
           pieces == [k \in 1..5 |-> <<Comma>> \o F[k + 1]]
           P(k) == [j \in 1..k |-> F[j]]
<1>1. \A k \in 1..6 : IsRow(RowWord, Comma, F[k]) /\ F[k] \in Seq(RowWord)
  <2>1. \A k \in 1..6 : vsr[k] \in Words \union {Empty}
    BY DEF Vsr, Fields
  <2>2. \A k \in 1..6 : IsRow(RowWord, Comma, F[k])
    BY <2>1, FieldIs
  <2> HIDE DEF F
  <2> QED BY <2>2 DEF IsRow
<1> HIDE DEF F
<1>2. pieces \in Seq(Seq(RowWord)) /\ pieces # <<>> /\ Len(pieces) = 5
  <2>1. Comma \in RowWord
    BY DEF RowWord
  <2>2. <<Comma>> \in Seq(RowWord)
    BY <2>1, OneWord
  <2>3. \A k \in 1..5 : k + 1 \in 1..6
    OBVIOUS
  <2>4. \A k \in 1..5 : <<Comma>> \o F[k + 1] \in Seq(RowWord)
    <3> SUFFICES ASSUME NEW k \in 1..5 PROVE <<Comma>> \o F[k + 1] \in Seq(RowWord)
      OBVIOUS
    <3> DEFINE comma == <<Comma>>
               row == F[k + 1]
    <3>1. comma \in Seq(RowWord) /\ row \in Seq(RowWord)
      BY <1>1, <2>2, <2>3
    <3> HIDE DEF comma, row
    <3>2. comma \o row \in Seq(RowWord)
      BY <3>1
    <3> QED BY <3>2 DEF comma, row
  <2> HIDE DEF F
  <2>5. ASSUME NEW T, NEW f \in [1..5 -> T] PROVE f \in Seq(T) /\ f # <<>> /\ Len(f) = 5
    <3>1. f \in Seq(T) /\ Len(f) = 5
      BY <2>5, FunctionIsSequence
    <3>2. Len(<<>>) # 5
      OBVIOUS
    <3> QED BY <3>1, <3>2
  <2>6. pieces \in [1..5 -> Seq(RowWord)]
    BY <2>4
  <2> QED BY <2>5, <2>6
<1>3. Row(vsr) = F[1] \o FlattenSeq(pieces)
  <2>1. F[1] = Field(vsr[1])
    BY DEF F
  <2>2. pieces = [k \in 1..5 |-> <<Comma>> \o Field(vsr[k + 1])]
    <3>1. \A k \in 1..5 : F[k + 1] = Field(vsr[k + 1])
      BY DEF F
    <3> QED BY <3>1, Zenon
  <2> HIDE DEF pieces
  <2> QED BY <2>1, <2>2, RowWritten, Zenon
<1>4. PICK flat :
        /\ flat[0] = <<>>
        /\ \A k \in 0..5 : flat[k] \in Seq(RowWord)
        /\ \A k \in 1..5 : flat[k] = flat[k - 1] \o pieces[k]
        /\ FlattenSeq(pieces) = flat[5]
  <2> HIDE DEF pieces
  <2>1. \E flat :
          /\ flat[0] = <<>>
          /\ \A k \in 0..Len(pieces) : flat[k] \in Seq(RowWord)
          /\ \A k \in 1..Len(pieces) : flat[k] = flat[k - 1] \o pieces[k]
          /\ FlattenSeq(pieces) = flat[Len(pieces)]
    BY <1>2, FlattenStepwise
  <2> QED BY <1>2, <2>1
<1> DEFINE Good(k) == Ends(RowWord, Comma, F[1] \o flat[k], P(k), F[k + 1])
           Bad == {k \in 0..5 : ~Good(k)}
<1>5. Good(0)
  <2>1. Ends(RowWord, Comma, F[1], <<>>, F[1])
    <3>1. IsRow(RowWord, Comma, F[1])
      BY <1>1
    <3> QED BY <3>1, EndsFirst
  <2>2. P(0) = <<>> /\ 0 + 1 = 1
    OBVIOUS
  <2> HIDE DEF F, P
  <2>3. F[1] \o flat[0] = F[1]
    <3>1. F[1] \in Seq(RowWord)
      BY <1>1
    <3>2. F[1] \o <<>> = F[1]
      BY <3>1
    <3> QED BY <1>4, <3>2
  <2> QED BY <2>1, <2>2, <2>3
<1>6. ASSUME NEW k \in 1..5, Good(k - 1) PROVE Good(k)
  <2>1. /\ k \in 1..6 /\ k + 1 \in 1..6 /\ (k - 1) + 1 = k /\ k - 1 \in 0..5
        /\ k - 1 \in Nat /\ 1 \in 1..6
    OBVIOUS
  <2>2. P(k) = Append(P(k - 1), F[k])
    <3>1. P(k - 1) \in Seq(Seq(RowWord)) /\ Len(P(k - 1)) = k - 1
      <4>1. \A j \in 1..k - 1 : F[j] \in Seq(RowWord)
        BY <1>1
      <4> HIDE DEF F
      <4> QED BY <2>1, <4>1
    <3> HIDE DEF F
    <3> QED BY <3>1
  <2>3. pieces[k] = <<Comma>> \o F[k + 1]
    OBVIOUS
  <2>4. flat[k] = flat[k - 1] \o pieces[k] /\ flat[k - 1] \in Seq(RowWord)
    BY <1>4, <2>1
  <2>5. /\ IsRow(RowWord, Comma, F[k + 1]) /\ F[k + 1] \in Seq(RowWord)
        /\ F[1] \in Seq(RowWord)
    BY <1>1, <2>1
  <2>6. Ends(RowWord, Comma, F[1] \o flat[k - 1], P(k - 1), F[k])
    BY <1>6, <2>1
  <2>7. Comma \in RowWord
    BY DEF RowWord
  <2> HIDE DEF F, P, pieces
  <2>8. Ends(RowWord, Comma, Append(F[1] \o flat[k - 1], Comma) \o F[k + 1],
             Append(P(k - 1), F[k]), F[k + 1])
    BY <2>5, <2>6, <2>7, EndsNext
  <2>9. F[1] \o flat[k] = Append(F[1] \o flat[k - 1], Comma) \o F[k + 1]
    <3>1. /\ IsText(RowWord, F[1]) /\ IsText(RowWord, flat[k - 1])
          /\ IsText(RowWord, F[k + 1])
      BY <2>4, <2>5 DEF IsText
    <3>2. Joining(F[1], flat[k - 1], Comma, F[k + 1])
      BY <2>7, <3>1, JoinedBy
    <3> QED BY <2>3, <2>4, <3>2, Zenon DEF Joining
  <2> QED BY <2>2, <2>8, <2>9
<1>7. Good(5)
  <2>1. SUFFICES ASSUME Bad # {} PROVE FALSE
    <3> HIDE DEF Good
    <3> QED BY <2>1
  <2> HIDE DEF Good
  <2>2. PICK m \in Bad : \A k \in Bad : m <= k
    <3>1. Bad \subseteq Nat
      OBVIOUS
    <3> HIDE DEF Bad
    <3> QED BY <2>1, <3>1, Least
  <2>3. m # 0
    BY <1>5, <2>2
  <2>4. m \in 1..5 /\ m - 1 \in 0..5 /\ m - 1 \notin Bad
    BY <2>2, <2>3
  <2> QED BY <1>6, <2>2, <2>4
<1>8. Ends(RowWord, Comma, Row(vsr), P(5), F[6])
  <2>1. 5 + 1 = 6
    OBVIOUS
  <2> HIDE DEF F, P, pieces
  <2> QED BY <1>3, <1>4, <1>7, <2>1
<1>9. Row(vsr) \in Seq(RowWord) /\ Split(Row(vsr), Comma) = Append(P(5), F[6])
  BY <1>8 DEF Ends
<1>10. Append(P(5), F[6]) = [k \in 1..6 |-> F[k]]
  <2>1. P(5) \in Seq(Seq(RowWord)) /\ Len(P(5)) = 5
    <3>1. \A j \in 1..5 : F[j] \in Seq(RowWord)
      BY <1>1
    <3> HIDE DEF F
    <3> QED BY <3>1
  <2> HIDE DEF F
  <2> QED BY <2>1
<1> QED BY <1>9, <1>10 DEF F

(* What was written of a resource is read, the field that is not set too.  *)
LEMMA Parsed ==
  ASSUME NEW vsr \in Vsr
  PROVE  Parse(Row(vsr)) = vsr /\ Row(vsr) # <<>> /\ IsRow(TextWord, Semicolon, Row(vsr))
<1> DEFINE parts == Split(Row(vsr), Comma)
<1>1. parts = [k \in 1..6 |-> Field(vsr[k])] /\ Row(vsr) \in Seq(RowWord)
  BY RowIs
<1>2. Parse(Row(vsr)) = [k \in DOMAIN parts |-> Word(parts[k])]
  BY RowRead
<1>3. Row(vsr) # <<>>
  <2>1. Row(vsr) = <<>> => DOMAIN parts = {1}
    <3>1. Row(vsr) = <<>> => parts = << <<>> >>
      BY SplitEmpty
    <3> HIDE DEF parts
    <3> QED BY <3>1
  <2> HIDE DEF parts
  <2>2. DOMAIN parts = 1..6 /\ 2 \in 1..6
    BY <1>1
  <2> QED BY <2>1, <2>2
<1> HIDE DEF parts
<1>4. vsr \in [1..6 -> Words \union {Empty}]
  BY DEF Vsr, Fields
<1>5. \A k \in 1..6 : Word(parts[k]) = vsr[k]
  BY <1>1, <1>4, FieldIs
<1>6. Parse(Row(vsr)) = vsr
  <2>1. DOMAIN parts = 1..6
    BY <1>1
  <2> QED BY <1>2, <1>4, <1>5, <2>1
<1>7. IsRow(TextWord, Semicolon, Row(vsr))
  <2>1. Row(vsr) \in Seq(TextWord)
    <3>1. RowWord \subseteq TextWord
      BY DEF TextWord
    <3> DEFINE row == Row(vsr)
    <3>2. row \in Seq(RowWord)
      BY <1>1
    <3> HIDE DEF row
    <3>3. row \in Seq(TextWord)
      BY <3>1, <3>2
    <3> QED BY <3>3 DEF row
  <2>2. \A k \in 1..Len(Row(vsr)) : Row(vsr)[k] \in RowWord
    BY <1>1
  <2>3. Semicolon \notin RowWord
    BY Separators DEF RowWord
  <2> QED BY <2>1, <2>2, <2>3 DEF IsRow, Without
<1> QED BY <1>3, <1>6, <1>7

-----------------------------------------------------------------------------
(* The list *)

LEMMA ListWritten ==
  ASSUME NEW list
  PROVE  Encode(list)
           = Front(FlattenSeq([k \in DOMAIN list |-> Append(Row(list[k]), Semicolon)]))
BY Zenon DEF Encode, Semicolon

LEMMA ListRead ==
  ASSUME NEW text
  PROVE  Decode(text)
           = IF text = <<>> THEN <<>>
             ELSE [k \in DOMAIN Split(text, Semicolon) |-> Parse(Split(text, Semicolon)[k])]
BY Zenon DEF Decode, Semicolon

LEMMA FrontOfAppend ==
  ASSUME NEW T, NEW text \in Seq(T), NEW word \in T
  PROVE  Front(Append(text, word)) = text
<1> DEFINE more == Append(text, word)
<1>1. /\ more \in Seq(T) /\ Len(more) = Len(text) + 1 /\ Len(text) \in Nat
      /\ \A k \in 1..Len(text) : more[k] = text[k]
  OBVIOUS
<1> HIDE DEF more
<1>2. Front(more) = SubSeq(more, 1, Len(text))
  BY <1>1 DEF Front
<1>3. SubSeq(more, 1, Len(text)) = text
  BY <1>1
<1> QED BY <1>2, <1>3 DEF more

(* An annotation has as many parts as there are resources.                 *)
LEMMA ListSplits ==
  ASSUME NEW list \in Seq(Vsr), list # <<>>
  PROVE  /\ Split(Encode(list), Semicolon) = [k \in 1..Len(list) |-> Row(list[k])]
         /\ Encode(list) # <<>>
<1> DEFINE n == Len(list)
           R == [k \in 1..n |-> Row(list[k])]
           pieces == [k \in 1..n |-> Append(R[k], Semicolon)]
           P(k) == [j \in 1..k |-> R[j]]
<1>1. n \in Nat /\ n # 0 /\ DOMAIN list = 1..n /\ \A k \in 1..n : list[k] \in Vsr
  OBVIOUS
<1>2. \A k \in 1..n : IsRow(TextWord, Semicolon, R[k]) /\ R[k] # <<>>
  BY <1>1, Parsed
<1>3. Encode(list) = Front(FlattenSeq(pieces))
  <2>1. pieces = [k \in DOMAIN list |-> Append(Row(list[k]), Semicolon)]
    BY <1>1
  <2> HIDE DEF pieces
  <2> QED BY <2>1, ListWritten
<1> HIDE DEF n, R
<1>4. \A k \in 1..n : R[k] \in Seq(TextWord)
  BY <1>2 DEF IsRow
<1>5. Semicolon \in TextWord
  BY DEF TextWord
<1>6. pieces \in Seq(Seq(TextWord)) /\ pieces # <<>> /\ Len(pieces) = n
  <2>1. \A k \in 1..n : Append(R[k], Semicolon) \in Seq(TextWord)
    BY <1>4, <1>5
  <2>2. pieces \in [1..n -> Seq(TextWord)]
    BY <2>1
  <2> HIDE DEF pieces
  <2>3. pieces \in Seq(Seq(TextWord)) /\ Len(pieces) = n
    BY <1>1, <2>2, FunctionIsSequence
  <2>4. Len(<<>>) = 0
    OBVIOUS
  <2> QED BY <1>1, <2>3, <2>4
<1>7. PICK flat :
        /\ flat[0] = <<>>
        /\ \A k \in 0..n : flat[k] \in Seq(TextWord)
        /\ \A k \in 1..n : flat[k] = flat[k - 1] \o pieces[k]
        /\ FlattenSeq(pieces) = flat[n]
  <2> HIDE DEF pieces
  <2>1. \E flat :
          /\ flat[0] = <<>>
          /\ \A k \in 0..Len(pieces) : flat[k] \in Seq(TextWord)
          /\ \A k \in 1..Len(pieces) : flat[k] = flat[k - 1] \o pieces[k]
          /\ FlattenSeq(pieces) = flat[Len(pieces)]
    BY <1>6, FlattenStepwise
  <2> QED BY <1>6, <2>1
<1> DEFINE whole == [k \in 1..n |-> flat[k - 1] \o R[k]]
           Good(k) == Ends(TextWord, Semicolon, whole[k], P(k - 1), R[k])
           Bad == {k \in 1..n : ~Good(k)}
<1>8. ASSUME NEW k \in 1..n
      PROVE  flat[k] = Append(whole[k], Semicolon) /\ whole[k] \in Seq(TextWord)
  <2>1. k - 1 \in 0..n
    BY <1>1
  <2>2. flat[k - 1] \in Seq(TextWord) /\ R[k] \in Seq(TextWord)
    BY <1>4, <1>7, <2>1
  <2>3. flat[k] = flat[k - 1] \o Append(R[k], Semicolon)
    BY <1>7
  <2>4. whole[k] = flat[k - 1] \o R[k]
    OBVIOUS
  <2> HIDE DEF whole
  <2>5. flat[k - 1] \o Append(R[k], Semicolon) = Append(flat[k - 1] \o R[k], Semicolon)
    <3>1. ASSUME NEW a \in Seq(TextWord), NEW b \in Seq(TextWord)
          PROVE  a \o Append(b, Semicolon) = Append(a \o b, Semicolon)
      BY <1>5, <3>1
    <3> QED BY <2>2, <3>1, Zenon
  <2>6. flat[k - 1] \o R[k] \in Seq(TextWord)
    BY <2>2
  <2> QED BY <2>3, <2>4, <2>5, <2>6, Zenon
<1>9. Good(1)
  <2>1. 1 \in 1..n /\ 1 - 1 = 0
    BY <1>1
  <2>2. IsRow(TextWord, Semicolon, R[1]) /\ R[1] \in Seq(TextWord)
    BY <1>2, <1>4, <2>1
  <2>3. whole[1] = flat[0] \o R[1]
    BY <2>1
  <2>4. <<>> \o R[1] = R[1]
    BY <2>2
  <2>5. whole[1] = R[1]
    BY <1>7, <2>3, <2>4, Zenon
  <2>6. P(0) = <<>>
    OBVIOUS
  <2>7. Ends(TextWord, Semicolon, R[1], <<>>, R[1])
    BY <2>2, EndsFirst
  <2> HIDE DEF P, whole
  <2> QED BY <2>1, <2>5, <2>6, <2>7
<1>10. ASSUME NEW k \in 1..n, k # 1, Good(k - 1) PROVE Good(k)
  <2>1. k - 1 \in 1..n /\ k - 1 \in Nat /\ (k - 1) - 1 \in Nat /\ k \in Nat
    BY <1>1, <1>10
  <2>2. P(k - 1) = Append(P((k - 1) - 1), R[k - 1])
    <3>1. ASSUME NEW i \in Nat, i + 1 \in 1..n PROVE P(i + 1) = Append(P(i), R[i + 1])
      <4>1. \A j \in 1..i : R[j] \in Seq(TextWord)
        BY <1>1, <1>4, <3>1
      <4>2. P(i) \in [1..i -> Seq(TextWord)]
        BY <4>1
      <4>3. P(i) \in Seq(Seq(TextWord)) /\ Len(P(i)) = i
        BY <4>2, FunctionIsSequence
      <4> QED BY <4>3
    <3>2. ((k - 1) - 1) + 1 = k - 1
      BY <2>1
    <3> HIDE DEF P
    <3>3. P(((k - 1) - 1) + 1) = Append(P((k - 1) - 1), R[((k - 1) - 1) + 1])
      BY <2>1, <3>1, <3>2
    <3> QED BY <3>2, <3>3
  <2>3. whole[k] = Append(whole[k - 1], Semicolon) \o R[k]
    <3>1. whole[k] = flat[k - 1] \o R[k]
      OBVIOUS
    <3> HIDE DEF whole
    <3>2. flat[k - 1] = Append(whole[k - 1], Semicolon)
      BY <1>8, <2>1
    <3> QED BY <3>1, <3>2, Zenon
  <2> HIDE DEF P, whole
  <2>4. Ends(TextWord, Semicolon, whole[k - 1], P((k - 1) - 1), R[k - 1])
    BY <1>10
  <2>5. IsRow(TextWord, Semicolon, R[k])
    BY <1>2
  <2>6. Ends(TextWord, Semicolon, Append(whole[k - 1], Semicolon) \o R[k],
             Append(P((k - 1) - 1), R[k - 1]), R[k])
    BY <1>5, <2>4, <2>5, EndsNext
  <2> QED BY <2>2, <2>3, <2>6, Zenon
<1>11. Good(n)
  <2>1. SUFFICES ASSUME Bad # {} PROVE FALSE
    <3> HIDE DEF Good
    <3> QED BY <1>1, <2>1
  <2> HIDE DEF Good
  <2>2. PICK m \in Bad : \A k \in Bad : m <= k
    <3>1. Bad \subseteq Nat
      BY <1>1
    <3> HIDE DEF Bad
    <3> QED BY <2>1, <3>1, Least
  <2>3. m # 1
    BY <1>9, <2>2
  <2>4. m \in 1..n /\ m - 1 \in 1..n /\ m - 1 \notin Bad
    BY <1>1, <2>2, <2>3
  <2> QED BY <1>10, <2>2, <2>3, <2>4
<1>12. n \in 1..n
  BY <1>1
<1> HIDE DEF whole, pieces, P
<1>13. Encode(list) = whole[n]
  <2>1. flat[n] = Append(whole[n], Semicolon) /\ whole[n] \in Seq(TextWord)
    BY <1>8, <1>12
  <2>2. Front(Append(whole[n], Semicolon)) = whole[n]
    BY <1>5, <2>1, FrontOfAppend
  <2> QED BY <1>3, <1>7, <2>1, <2>2, Zenon
<1>14. Split(whole[n], Semicolon) = Append(P(n - 1), R[n])
  BY <1>11 DEF Ends
<1>15. Append(P(n - 1), R[n]) = R
  <2>1. n - 1 \in Nat /\ (n - 1) + 1 = n
    BY <1>1
  <2>2. \A j \in 1..n - 1 : R[j] \in Seq(TextWord)
    BY <1>1, <1>4
  <2>3. P(n - 1) \in [1..n - 1 -> Seq(TextWord)]
    BY <2>2 DEF P
  <2>4. P(n - 1) \in Seq(Seq(TextWord)) /\ Len(P(n - 1)) = n - 1
    BY <2>1, <2>3, FunctionIsSequence
  <2>5. \A j \in 1..n - 1 : P(n - 1)[j] = R[j]
    BY DEF P
  <2>6. R \in [1..n -> Seq(TextWord)]
    <3>1. R = [k \in 1..n |-> R[k]]
      BY DEF R
    <3> QED BY <1>4, <3>1
  <2>7. R \in Seq(Seq(TextWord)) /\ Len(R) = n
    BY <1>1, <2>6, FunctionIsSequence
  <2>8. R[n] \in Seq(TextWord)
    BY <1>4, <1>12
  <2> HIDE DEF P
  <2> QED BY <2>1, <2>4, <2>5, <2>7, <2>8
<1>16. whole[n] # <<>>
  <2>1. ASSUME NEW a \in Seq(TextWord), NEW b \in Seq(TextWord), b # <<>>
        PROVE  a \o b # <<>>
    BY <2>1
  <2>2. n - 1 \in 0..n
    BY <1>1
  <2>3. flat[n - 1] \in Seq(TextWord) /\ R[n] \in Seq(TextWord) /\ R[n] # <<>>
    BY <1>2, <1>4, <1>7, <1>12, <2>2
  <2>4. whole[n] = flat[n - 1] \o R[n]
    BY <1>12 DEF whole
  <2> QED BY <2>1, <2>3, <2>4
<1> QED BY <1>13, <1>14, <1>15, <1>16 DEF R, n

(* Whatever list of resources was written is read, in its order. *)
LEMMA DecodesEncoded ==
  ASSUME NEW list \in Seq(Vsr), list # <<>>
  PROVE  Encode(list) # <<>> /\ Decode(Encode(list)) = list
<1> DEFINE parts == Split(Encode(list), Semicolon)
<1>1. /\ parts = [k \in 1..Len(list) |-> Row(list[k])]
      /\ Encode(list) # <<>>
  BY ListSplits
<1>2. Decode(Encode(list)) = [k \in DOMAIN parts |-> Parse(parts[k])]
  BY <1>1, ListRead
<1> HIDE DEF parts
<1>3. DOMAIN parts = 1..Len(list) /\ \A k \in 1..Len(list) : parts[k] = Row(list[k])
  BY <1>1
<1>4. \A k \in 1..Len(list) : list[k] \in Vsr
  OBVIOUS
<1>5. \A k \in 1..Len(list) : Parse(parts[k]) = list[k]
  BY <1>3, <1>4, Parsed
<1>6. [k \in 1..Len(list) |-> list[k]] = list
  OBVIOUS
<1> QED BY <1>1, <1>2, <1>3, <1>5, <1>6

-----------------------------------------------------------------------------
(* The annotation *)

(* The inductive invariant: the list and the annotation agree. *)
Inv ==
  /\ vsrl \in Seq(Vsr)
  /\ annotation # <<>> => vsrl # <<>>
  /\ RoundTrip

LEMMA InvInit == Init => Inv
<1> SUFFICES ASSUME Init PROVE Inv
  OBVIOUS
<1>1. PICK m \in 0..MaxVsrs : vsrl \in [1..m -> Created]
  BY DEF Init, SeqOf
<1>2. m \in Nat /\ vsrl \in [1..m -> Vsr]
  <2>1. MaxVsrs \in Nat
    BY AnnotationAssumption, Zenon
  <2>2. Created \subseteq Vsr
    BY DEF Created
  <2> QED BY <1>1, <2>1, <2>2
<1>3. vsrl \in Seq(Vsr)
  BY <1>2, FunctionIsSequence
<1> QED BY <1>3 DEF Init, Inv, RoundTrip

LEMMA InvNext == Inv /\ [Next]_vars => Inv'
<1> SUFFICES ASSUME Inv, [Next]_vars PROVE Inv'
  OBVIOUS
<1>1. vsrl \in Seq(Vsr) /\ (annotation # <<>> => vsrl # <<>>) /\ RoundTrip
  BY DEF Inv
<1>2. CASE UNCHANGED <<vsrl, annotation>>
  BY <1>1, <1>2 DEF Inv, RoundTrip
<1>3. CASE CreateVolumeSnapshot
  <2>1. CASE vsrl = <<>>
    BY <1>2, <1>3, <2>1 DEF CreateVolumeSnapshot
  <2>2. CASE vsrl # <<>>
    <3>1. annotation' = Encode(vsrl) /\ vsrl' = vsrl
      BY <1>3, <2>2 DEF CreateVolumeSnapshot
    <3>2. Encode(vsrl) # <<>> /\ Decode(Encode(vsrl)) = vsrl
      BY <1>1, <2>2, DecodesEncoded
    <3> QED BY <1>1, <2>2, <3>1, <3>2 DEF Inv, RoundTrip
  <2> QED BY <2>1, <2>2
<1>4. CASE CheckPvcReady
  <2>1. annotation # <<>> /\ Decode(annotation) = vsrl /\ vsrl # <<>>
    BY <1>1, <1>4 DEF CheckPvcReady, RoundTrip
  <2>2. PICK names \in [DOMAIN vsrl -> Words] :
          /\ vsrl' = [k \in DOMAIN names |->
                        [vsrl[k] EXCEPT ![PersistentVolumeName] = names[k]]]
          /\ annotation' = Encode(vsrl')
    BY <1>4, <2>1 DEF CheckPvcReady
  <2>3. Len(vsrl) \in Nat /\ Len(vsrl) # 0 /\ DOMAIN names = 1..Len(vsrl)
    BY <1>1, <2>1
  <2>4. \A k \in 1..Len(vsrl) : [vsrl[k] EXCEPT ![PersistentVolumeName] = names[k]] \in Vsr
    <3> SUFFICES ASSUME NEW k \in 1..Len(vsrl)
                 PROVE  [vsrl[k] EXCEPT ![PersistentVolumeName] = names[k]] \in Vsr
      OBVIOUS
    <3>1. vsrl[k] \in Vsr /\ names[k] \in Words
      BY <1>1, <2>2, <2>3
    <3> QED BY <3>1 DEF Vsr
  <2>5. vsrl' \in [1..Len(vsrl) -> Vsr]
    BY <2>2, <2>3, <2>4
  <2>6. vsrl' \in Seq(Vsr) /\ vsrl' # <<>>
    <3>1. vsrl' \in Seq(Vsr) /\ Len(vsrl') = Len(vsrl)
      BY <2>3, <2>5, FunctionIsSequence
    <3>2. Len(<<>>) = 0
      OBVIOUS
    <3> QED BY <2>3, <3>1, <3>2
  <2>7. annotation' # <<>> /\ Decode(annotation') = vsrl'
    BY <2>2, <2>6, DecodesEncoded
  <2> QED BY <2>6, <2>7 DEF Inv, RoundTrip
<1>5. CASE UNCHANGED vars
  BY <1>2, <1>5 DEF vars
<1> QED BY <1>3, <1>4, <1>5 DEF Next

(* However many snapshots there are, whatever their fields and whichever    *)
(* of them are not set yet, a phase that reads the annotation finds the     *)
(* list that the phase before it has written.                               *)
THEOREM AnnotationRoundTrips == Spec => []RoundTrip
<1>1. Inv => RoundTrip
  BY DEF Inv
<1> QED BY <1>1, InvInit, InvNext, PTL DEF Spec
=============================================================================
