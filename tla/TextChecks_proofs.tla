------------------------- MODULE TextChecks_proofs --------------------------
(***************************************************************************)
(* What holds of every text, answer, conversation and config on its way    *)
(* through the server, whatever LanguageTool, the context checker and the  *)
(* language detection say, for all rules, defects and notes.               *)
(*                                                                         *)
(* The operators of the steps are folds and recursive functions over       *)
(* lists; the first part is about those, by induction over their lengths.  *)
(* The invariant then says of a job where it stands in its text and among  *)
(* its texts, and that what it has found are findings.                     *)
(***************************************************************************)
EXTENDS TextChecks, TLAPS, WellFoundedInduction, FiniteSetTheorems, SequenceTheorems

-----------------------------------------------------------------------------
\* Induction over the naturals, from their well-foundedness: the provers cannot instantiate
\* the induction theorems of the library, whose conclusion is an operator.

LessThan == {ss \in Nat \X Nat : ss[1] < ss[2]}

LEMMA NatWF == IsWellFoundedOn(LessThan, Nat)
<1>1. OpToRel(<, Nat) = LessThan
  BY Zenon DEF OpToRel, LessThan
<1>. QED  BY <1>1, NatLessThanWellFounded, Zenon

LEMMA Least ==
  ASSUME NEW T, T \subseteq Nat, T # {}
  PROVE  \E m \in T : \A k \in T : m <= k
<1>1. PICK m \in T : \A k \in T : ~(<<k, m>> \in LessThan)
  BY NatWF, WFMin
<1>2. ASSUME NEW k \in T PROVE m <= k
  <2>1. m \in Nat /\ k \in Nat  BY Zenon
  <2>2. ~(k < m)  BY <1>1, <2>1 DEF LessThan
  <2>. QED  BY <2>1, <2>2
<1>. QED  BY <1>2

LEMMA Induct ==
  ASSUME NEW S, 0 \in S, \A n \in Nat : n \in S => n + 1 \in S
  PROVE  Nat \subseteq S
<1>. SUFFICES ASSUME Nat \ S # {} PROVE FALSE  OBVIOUS
<1>1. PICK m \in Nat \ S : \A k \in Nat \ S : m <= k  BY Least
<1>2. m - 1 \in Nat  BY <1>1
<1>. QED  BY <1>1, <1>2

LEMMA InductTo ==
  ASSUME NEW n \in Nat, NEW T, 0 \in T, \A k \in 0 .. n - 1 : k \in T => k + 1 \in T
  PROVE  \A k \in 0 .. n : k \in T
<1>. DEFINE S == {k \in Nat : k <= n => k \in T}
<1>1. 0 \in S  OBVIOUS
<1>2. ASSUME NEW k \in Nat, k \in S PROVE k + 1 \in S
  <2>1. k + 1 <= n => k \in 0 .. n - 1 /\ k \in T  BY <1>2
  <2>. QED  BY <2>1
<1>. HIDE DEF S
<1>3. Nat \subseteq S  BY <1>1, <1>2, Induct
<1>. QED  BY <1>3 DEF S

-----------------------------------------------------------------------------
\* Lists.

LEMMA ListOf ==
  ASSUME NEW S, NEW s \in Seq(S)
  PROVE  IsList(s) /\ Len(s) \in Nat /\ DOMAIN s = 1 .. Len(s)
<1>1. s \in Seq(Range(s))  BY SeqOfRange
<1>2. IsList(s)  BY <1>1 DEF IsList, Range
<1>. QED  BY <1>2, LenProperties

LEMMA ListLen ==
  ASSUME NEW s, IsList(s)
  PROVE  Len(s) \in Nat /\ DOMAIN s = 1 .. Len(s)
BY LenProperties DEF IsList

LEMMA ListIn ==
  ASSUME NEW s, IsList(s), NEW S, \A i \in 1 .. Len(s) : s[i] \in S
  PROVE  s \in Seq(S)
<1>. DEFINE T == {s[i] : i \in DOMAIN s}
<1>1. s \in Seq(T)  BY DEF IsList
<1>2. DOMAIN s = 1 .. Len(s)  BY <1>1, LenProperties
<1>3. T \subseteq S  BY <1>2
<1>. QED  BY <1>1, <1>3, SeqMonotonic

\* A function on 1..n is a list of n.
LEMMA Listed ==
  ASSUME NEW n \in Nat, NEW S, NEW f \in [1 .. n -> S]
  PROVE  f \in Seq(S) /\ IsList(f) /\ Len(f) = n /\ DOMAIN f = 1 .. n
<1>1. f \in Seq(S)  BY SeqDef
<1>2. DOMAIN f = 1 .. Len(f) /\ Len(f) \in Nat  BY <1>1, LenProperties
<1>3. DOMAIN f = 1 .. n  OBVIOUS
<1>4. Len(f) = n  BY <1>2, <1>3
<1>. QED  BY <1>1, <1>3, <1>4, ListOf

LEMMA Joined ==
  ASSUME NEW s, IsList(s), NEW t, IsList(t)
  PROVE  /\ IsList(s \o t) /\ Len(s \o t) = Len(s) + Len(t)
         /\ DOMAIN (s \o t) = 1 .. Len(s) + Len(t)
         /\ \A i \in 1 .. Len(s) : (s \o t)[i] = s[i]
         /\ \A i \in 1 .. Len(t) : (s \o t)[Len(s) + i] = t[i]
<1>. DEFINE S == {s[i] : i \in DOMAIN s} \union {t[i] : i \in DOMAIN t}
<1>1. s \in Seq(S) /\ t \in Seq(S)
  <2>1. s \in Seq({s[i] : i \in DOMAIN s}) /\ t \in Seq({t[i] : i \in DOMAIN t})  BY DEF IsList
  <2>. QED  BY <2>1, SeqMonotonic
<1>2. Len(s) \in Nat /\ Len(t) \in Nat  BY ListLen
<1>. HIDE DEF S
<1>3. /\ s \o t \in Seq(S)
      /\ Len(s \o t) = Len(s) + Len(t)
      /\ \A i \in 1 .. Len(s) + Len(t) : (s \o t)[i] =
                     IF i <= Len(s) THEN s[i] ELSE t[i - Len(s)]
  BY <1>1, ConcatProperties
<1>4. IsList(s \o t) /\ DOMAIN (s \o t) = 1 .. Len(s \o t)  BY <1>3, ListOf
<1>5. \A i \in 1 .. Len(s) : (s \o t)[i] = s[i]  BY <1>3, <1>2
<1>6. ASSUME NEW i \in 1 .. Len(t) PROVE (s \o t)[Len(s) + i] = t[i]
  <2>1. Len(s) + i \in 1 .. Len(s) + Len(t) /\ ~(Len(s) + i <= Len(s)) /\ Len(s) + i - Len(s) = i
    BY <1>2
  <2>. QED  BY <2>1, <1>3
<1>. QED  BY <1>3, <1>4, <1>5, <1>6

LEMMA Appended ==
  ASSUME NEW s, IsList(s), NEW e
  PROVE  /\ IsList(Append(s, e)) /\ Len(Append(s, e)) = Len(s) + 1
         /\ DOMAIN Append(s, e) = 1 .. Len(s) + 1
         /\ \A i \in 1 .. Len(s) : Append(s, e)[i] = s[i]
         /\ Append(s, e)[Len(s) + 1] = e
<1>. DEFINE S == {s[i] : i \in DOMAIN s} \union {e}
<1>1. s \in Seq(S)
  <2>1. s \in Seq({s[i] : i \in DOMAIN s})  BY DEF IsList
  <2>. QED  BY <2>1, SeqMonotonic
<1>2. e \in S  OBVIOUS
<1>. HIDE DEF S
<1>3. /\ Append(s, e) \in Seq(S) /\ Len(Append(s, e)) = Len(s) + 1
      /\ \A i \in 1 .. Len(s) : Append(s, e)[i] = s[i]
      /\ Append(s, e)[Len(s) + 1] = e
  BY <1>1, <1>2, AppendProperties
<1>. QED  BY <1>3, ListOf

LEMMA Cutout ==
  ASSUME NEW s, IsList(s), NEW m \in Nat \ {0}, NEW n \in 0 .. Len(s)
  PROVE  /\ IsList(SubSeq(s, m, n))
         /\ Len(SubSeq(s, m, n)) = IF m <= n THEN n - m + 1 ELSE 0
         /\ DOMAIN SubSeq(s, m, n) = 1 .. Len(SubSeq(s, m, n))
         /\ \A i \in 1 .. Len(SubSeq(s, m, n)) : SubSeq(s, m, n)[i] = s[m + i - 1]
<1>. DEFINE S == {s[i] : i \in DOMAIN s}
<1>1. s \in Seq(S)  BY DEF IsList
<1>2. Len(s) \in Nat /\ DOMAIN s = 1 .. Len(s)  BY ListLen
<1>3. m \in Int /\ n \in Int /\ \A i \in m .. n : s[i] \in S  BY <1>2
<1>. HIDE DEF S
<1>4. /\ SubSeq(s, m, n) \in Seq(S)
      /\ Len(SubSeq(s, m, n)) = IF m <= n THEN n - m + 1 ELSE 0
      /\ \A i \in 1 .. n - m + 1 : SubSeq(s, m, n)[i] = s[m + i - 1]
  BY <1>3, SubSeqProperties
<1>5. 1 .. Len(SubSeq(s, m, n)) \subseteq 1 .. n - m + 1  BY <1>4, <1>3
<1>. QED  BY <1>4, <1>5, ListOf

LEMMA EmptyList == IsList(<<>>) /\ Len(<<>>) = 0 /\ DOMAIN <<>> = {}
<1>1. <<>> \in Seq({}) /\ Len(<<>>) = 0  BY EmptySeq
<1>2. IsList(<<>>) /\ DOMAIN <<>> = 1 .. Len(<<>>)  BY <1>1, ListOf
<1>. QED  BY <1>1, <1>2

LEMMA LenZero == ASSUME NEW s, IsList(s) PROVE s = <<>> <=> Len(s) = 0
<1>1. s \in Seq({s[i] : i \in DOMAIN s})  BY DEF IsList
<1>. QED  BY <1>1, EmptySeq, EmptyList

LEMMA OneIn == ASSUME NEW e PROVE IsList(<<e>>) /\ Len(<<e>>) = 1 /\ <<e>>[1] = e
<1>1. <<e>> \in Seq({e})  OBVIOUS
<1>. QED  BY <1>1, ListOf

\* A slice lies in the text it is of.
LEMMA Sliced ==
  ASSUME NEW s, IsList(s), NEW from \in Nat, NEW to \in Nat
  PROVE  /\ IsList(Slice(s, from, to)) /\ Len(Slice(s, from, to)) <= Len(s)
         /\ Len(Slice(s, from, to)) \in Nat
         /\ from <= to /\ to <= Len(s) => Len(Slice(s, from, to)) = to - from
         /\ from <= Len(s) /\ Len(s) <= to => Len(Slice(s, from, to)) = Len(s) - from
         /\ \A i \in 1 .. Len(Slice(s, from, to)) : Slice(s, from, to)[i] = s[from + i]
<1>. DEFINE n == IF to < Len(s) THEN to ELSE Len(s)
<1>1. Len(s) \in Nat  BY ListLen
<1>2. n \in 0 .. Len(s) /\ from + 1 \in Nat \ {0}  BY <1>1
<1>3. Slice(s, from, to) = SubSeq(s, from + 1, n)  BY DEF Slice
<1>4. \A i \in Int : from + 1 + i - 1 = from + i  OBVIOUS
<1>. DEFINE c == SubSeq(s, from + 1, n)
<1>5. /\ IsList(c) /\ Len(c) = IF from + 1 <= n THEN n - (from + 1) + 1 ELSE 0
      /\ \A i \in 1 .. Len(c) : c[i] = s[from + 1 + i - 1]
  BY <1>2, Cutout
<1>6. Len(c) \in Nat  BY <1>5, ListLen
<1>. QED  BY <1>1, <1>2, <1>3, <1>4, <1>5, <1>6

-----------------------------------------------------------------------------
\* What is kept of a list: those at some indexes, in their order.

\* The positions kept are in order, and those in the set.
KeptRightly(order, positions, n) ==
  /\ IsList(order) /\ Len(order) <= n
  /\ \A i \in 1 .. Len(order) : order[i] \in positions \intersect (1 .. n)
  /\ \A i, k \in 1 .. Len(order) : i < k => order[i] < order[k]
  /\ \A p \in positions \intersect (1 .. n) : \E i \in 1 .. Len(order) : order[i] = p

LEMMA EmptyOrder == \A positions : KeptRightly(<<>>, positions, 0)
BY EmptyList DEF KeptRightly

LEMMA LongerOrder ==
  ASSUME NEW order, NEW positions, NEW n \in Nat, KeptRightly(order, positions, n)
  PROVE  KeptRightly(IF n + 1 \in positions THEN Append(order, n + 1) ELSE order,
                     positions, n + 1)
<1>1. Len(order) \in Nat /\ Len(order) <= n /\ IsList(order)  BY ListLen DEF KeptRightly
<1>2. CASE n + 1 \in positions
  <2>. DEFINE longer == Append(order, n + 1)
  <2>1. /\ IsList(longer) /\ Len(longer) = Len(order) + 1
        /\ \A i \in 1 .. Len(order) : longer[i] = order[i]
        /\ longer[Len(order) + 1] = n + 1
    BY <1>1, Appended
  <2>. HIDE DEF longer
  <2>2. \A i \in 1 .. Len(longer) : i \in 1 .. Len(order) \/ i = Len(order) + 1  BY <1>1, <2>1
  <2>3. \A i \in 1 .. Len(longer) : longer[i] \in positions \intersect (1 .. n + 1)
    BY <1>1, <1>2, <2>1, <2>2 DEF KeptRightly
  <2>4. \A i, k \in 1 .. Len(longer) : i < k => longer[i] < longer[k]
    BY <1>1, <2>1, <2>2 DEF KeptRightly
  <2>5. ASSUME NEW p \in positions \intersect (1 .. n + 1)
        PROVE  \E i \in 1 .. Len(longer) : longer[i] = p
    <3>1. CASE p \in 1 .. n
      <4>1. PICK i \in 1 .. Len(order) : order[i] = p  BY <3>1 DEF KeptRightly
      <4>2. i \in 1 .. Len(longer) /\ longer[i] = p  BY <4>1, <1>1, <2>1
      <4>. QED  BY <4>2
    <3>2. CASE p = n + 1
      <4>1. Len(order) + 1 \in 1 .. Len(longer)  BY <1>1, <2>1
      <4>. QED  BY <4>1, <3>2, <2>1
    <3>. QED  BY <3>1, <3>2
  <2>6. KeptRightly(longer, positions, n + 1)
    BY <1>1, <2>1, <2>3, <2>4, <2>5 DEF KeptRightly
  <2>. QED  BY <1>2, <2>6 DEF longer
<1>3. CASE n + 1 \notin positions
  <2>1. \A p \in positions \intersect (1 .. n + 1) : p \in 1 .. n  BY <1>3
  <2>. QED  BY <1>1, <1>3, <2>1 DEF KeptRightly
<1>. QED  BY <1>2, <1>3

\* f is the recursive function of InOrder.
IsOrder(f, positions, n) ==
  f = [k \in 0 .. n |->
         IF k = 0 THEN <<>>
         ELSE IF k \in positions THEN Append(f[k - 1], k) ELSE f[k - 1]]

LEMMA OrderExists ==
  ASSUME NEW positions
  PROVE  \A n \in Nat : \E f : IsOrder(f, positions, n)
<1>. DEFINE S == {n \in Nat : \E f : IsOrder(f, positions, n)}
<1>1. 0 \in S
  <2>1. IsOrder([k \in 0 .. 0 |-> <<>>], positions, 0)  BY DEF IsOrder
  <2>. QED  BY <2>1
<1>2. ASSUME NEW n \in Nat, n \in S PROVE n + 1 \in S
  <2>1. PICK f : IsOrder(f, positions, n)  BY <1>2
  <2>. DEFINE g == [k \in 0 .. n + 1 |->
                IF k \in 0 .. n THEN f[k]
                ELSE IF k \in positions THEN Append(f[n], k) ELSE f[n]]
  <2>2. \A k \in 0 .. n + 1 : g[k] =
              IF k = 0 THEN <<>>
              ELSE IF k \in positions THEN Append(g[k - 1], k) ELSE g[k - 1]
    <3>1. TAKE k \in 0 .. n + 1
    <3>2. CASE k = 0  BY <3>2, <2>1 DEF IsOrder
    <3>3. CASE k \in 1 .. n
      <4>1. k - 1 \in 0 .. n /\ k \in 0 .. n /\ k # 0  BY <3>3
      <4>2. g[k] = f[k] /\ g[k - 1] = f[k - 1]  BY <4>1
      <4>3. f[k] = IF k \in positions THEN Append(f[k - 1], k) ELSE f[k - 1]
        BY <2>1, <4>1 DEF IsOrder
      <4>. QED  BY <4>1, <4>2, <4>3
    <3>4. CASE k = n + 1
      <4>1. k - 1 = n /\ k # 0 /\ k \notin 0 .. n /\ n \in 0 .. n  BY <3>4
      <4>2. g[n] = f[n]  BY <4>1
      <4>. QED  BY <4>1, <4>2
    <3>. QED  BY <3>2, <3>3, <3>4
  <2>3. g = [k \in 0 .. n + 1 |-> g[k]]  OBVIOUS
  <2>. HIDE DEF g
  <2>4. IsOrder(g, positions, n + 1)  BY <2>2, <2>3 DEF IsOrder
  <2>. QED  BY <2>4
<1>. HIDE DEF S
<1>3. Nat \subseteq S  BY <1>1, <1>2, Induct
<1>. QED  BY <1>3 DEF S

LEMMA InOrderKeeps ==
  ASSUME NEW positions, NEW n \in Nat
  PROVE  KeptRightly(InOrder(positions, n), positions, n)
<1>. DEFINE order == CHOOSE f : IsOrder(f, positions, n)
<1>1. /\ order[0] = <<>>
      /\ \A k \in 1 .. n : order[k] = IF k \in positions THEN Append(order[k - 1], k)
                                      ELSE order[k - 1]
  <2>1. \E f : IsOrder(f, positions, n)  BY OrderExists
  <2>2. IsOrder(order, positions, n)  BY <2>1, Zenon
  <2>. HIDE DEF order
  <2>3. 0 \in 0 .. n /\ \A k \in 1 .. n : k \in 0 .. n /\ k # 0  OBVIOUS
  <2>. QED  BY <2>2, <2>3 DEF IsOrder
<1>2. InOrder(positions, n) = order[n]  BY DEF InOrder, IsOrder
<1>. HIDE DEF order
<1>. DEFINE S == {k \in Nat : k <= n => KeptRightly(order[k], positions, k)}
<1>3. 0 \in S
  BY <1>1, EmptyOrder
<1>4. ASSUME NEW k \in Nat, k \in S PROVE k + 1 \in S
  <2>1. SUFFICES ASSUME k + 1 <= n PROVE KeptRightly(order[k + 1], positions, k + 1)  OBVIOUS
  <2>2. KeptRightly(order[k], positions, k)  BY <1>4, <2>1
  <2>3. order[k + 1] = IF k + 1 \in positions THEN Append(order[k], k + 1) ELSE order[k]
    <3>1. k + 1 \in 1 .. n /\ k + 1 - 1 = k  BY <2>1
    <3>. QED  BY <1>1, <3>1
  <2>. QED  BY <2>2, <2>3, LongerOrder
<1>. HIDE DEF S
<1>5. Nat \subseteq S  BY <1>3, <1>4, Induct
<1>. QED  BY <1>2, <1>5 DEF S

\* What KeptAt keeps of a list, and that it keeps all of it.
LEMMA KeptAtKeeps ==
  ASSUME NEW seq, Len(seq) \in Nat, NEW keys
  PROVE  /\ KeptRightly(InOrder(keys, Len(seq)), keys, Len(seq))
         /\ IsList(KeptAt(seq, keys)) /\ Len(KeptAt(seq, keys)) = Len(InOrder(keys, Len(seq)))
         /\ DOMAIN KeptAt(seq, keys) = 1 .. Len(InOrder(keys, Len(seq)))
         /\ \A i \in 1 .. Len(InOrder(keys, Len(seq))) :
              KeptAt(seq, keys)[i] = seq[InOrder(keys, Len(seq))[i]]
<1>. DEFINE order == InOrder(keys, Len(seq))
            kept == [i \in DOMAIN order |-> seq[order[i]]]
<1>1. KeptRightly(order, keys, Len(seq))  BY InOrderKeeps
<1>2. IsList(order) /\ Len(order) \in Nat /\ DOMAIN order = 1 .. Len(order)
  BY <1>1, ListLen DEF KeptRightly
<1>3. KeptAt(seq, keys) = kept  BY DEF KeptAt
<1>. HIDE DEF order
<1>. DEFINE S == {seq[order[i]] : i \in 1 .. Len(order)}
<1>4. kept \in [1 .. Len(order) -> S] /\ \A i \in 1 .. Len(order) : kept[i] = seq[order[i]]
  BY <1>2
<1>. HIDE DEF kept, S
<1>5. IsList(kept) /\ Len(kept) = Len(order) /\ DOMAIN kept = 1 .. Len(order)
  BY <1>2, <1>4, Listed
<1>. QED  BY <1>1, <1>3, <1>4, <1>5 DEF order

LEMMA KeptAtFrom ==
  ASSUME NEW seq, Len(seq) \in Nat, NEW keys
  PROVE  /\ IsList(KeptAt(seq, keys))
         /\ \A i \in DOMAIN KeptAt(seq, keys) :
              \E k \in keys \intersect (1 .. Len(seq)) : KeptAt(seq, keys)[i] = seq[k]
         /\ \A k \in keys \intersect (1 .. Len(seq)) :
              \E i \in DOMAIN KeptAt(seq, keys) : KeptAt(seq, keys)[i] = seq[k]
<1>. DEFINE order == InOrder(keys, Len(seq))
            kept == KeptAt(seq, keys)
<1>1. /\ KeptRightly(order, keys, Len(seq))
      /\ IsList(kept) /\ DOMAIN kept = 1 .. Len(order)
      /\ \A i \in 1 .. Len(order) : kept[i] = seq[order[i]]
  BY KeptAtKeeps
<1>. HIDE DEF order, kept
<1>2. /\ \A i \in 1 .. Len(order) : order[i] \in keys \intersect (1 .. Len(seq))
      /\ \A k \in keys \intersect (1 .. Len(seq)) : \E i \in 1 .. Len(order) : order[i] = k
  BY <1>1 DEF KeptRightly
<1>3. /\ IsList(kept)
      /\ \A i \in DOMAIN kept : \E k \in keys \intersect (1 .. Len(seq)) : kept[i] = seq[k]
      /\ \A k \in keys \intersect (1 .. Len(seq)) : \E i \in DOMAIN kept : kept[i] = seq[k]
  BY <1>1, <1>2
<1>. QED  BY <1>3 DEF kept

-----------------------------------------------------------------------------
\* The greatest and the least of some numbers.

LEMMA MaxIn ==
  ASSUME NEW n \in Nat, NEW T \in SUBSET (0 .. n), T # {}
  PROVE  Max(T) \in T /\ \A y \in T : y <= Max(T)
<1>. DEFINE D == {n - y : y \in T}
<1>1. D \subseteq Nat /\ D # {}  OBVIOUS
<1>2. PICK m \in D : \A k \in D : m <= k  BY <1>1, Least
<1>3. PICK x \in T : m = n - x  BY <1>2
<1>4. \A y \in T : x >= y
  <2>1. ASSUME NEW y \in T PROVE x >= y
    <3>1. n - y \in D  BY <2>1
    <3>2. m <= n - y  BY <3>1, <1>2
    <3>3. x \in 0 .. n /\ y \in 0 .. n  OBVIOUS
    <3>. QED  BY <3>2, <3>3, <1>3
  <2>. QED  BY <2>1
<1>5. Max(T) \in T /\ \A y \in T : Max(T) >= y  BY <1>3, <1>4, Zenon DEF Max
<1>6. Max(T) \in 0 .. n /\ \A y \in T : y \in 0 .. n  BY <1>5
<1>. QED  BY <1>5, <1>6

LEMMA MaxOf ==
  ASSUME NEW T, T \subseteq Nat, NEW m \in T, \A y \in T : y <= m
  PROVE  Max(T) = m
<1>1. \A y \in T : m >= y  OBVIOUS
<1>2. Max(T) \in T /\ \A y \in T : Max(T) >= y  BY <1>1, Zenon DEF Max
<1>3. Max(T) \in Nat /\ m \in Nat /\ Max(T) >= m /\ Max(T) <= m  BY <1>2
<1>. QED  BY <1>3

LEMMA MinIn ==
  ASSUME NEW T, T \subseteq Nat, T # {}
  PROVE  Min(T) \in T /\ \A y \in T : Min(T) <= y
<1>1. \E m \in T : \A k \in T : m <= k  BY Least
<1>. QED  BY <1>1, Zenon DEF Min

-----------------------------------------------------------------------------
\* Folds.  A fold over a list of n goes through its indexes from the last; E is one step of
\* it, as a function of an index and of what there was before.

IsFold(f, base, E, n) ==
  f = [T \in SUBSET (1 .. n) |-> IF T = {} THEN base ELSE E[<<Max(T), f[T \ {Max(T)}]>>]]

FoldsIn(X, base, E, n) == \E f \in [SUBSET (1 .. n) -> X] : IsFold(f, base, E, n)

LEMMA FoldExists ==
  ASSUME NEW X, NEW base \in X, NEW n \in Nat, NEW E, \A k \in 1 .. n, x \in X : E[<<k, x>>] \in X
  PROVE  FoldsIn(X, base, E, n)
<1>. DEFINE S == {m \in Nat : m <= n => FoldsIn(X, base, E, m)}
<1>1. 0 \in S
  <2>. DEFINE f == [T \in SUBSET (1 .. 0) |-> base]
  <2>1. \A T \in SUBSET (1 .. 0) : T = {}  OBVIOUS
  <2>2. f \in [SUBSET (1 .. 0) -> X]  OBVIOUS
  <2>3. IsFold(f, base, E, 0)  BY <2>1 DEF IsFold
  <2>. HIDE DEF f
  <2>. QED  BY <2>2, <2>3 DEF FoldsIn
<1>2. ASSUME NEW m \in Nat, m \in S PROVE m + 1 \in S
  <2>. SUFFICES ASSUME m + 1 <= n PROVE FoldsIn(X, base, E, m + 1)
    OBVIOUS
  <2>0. FoldsIn(X, base, E, m)  BY <1>2
  <2>1. PICK f \in [SUBSET (1 .. m) -> X] : IsFold(f, base, E, m)  BY <2>0 DEF FoldsIn
  <2>. DEFINE g == [T \in SUBSET (1 .. m + 1) |->
                      IF m + 1 \in T THEN E[<<m + 1, f[T \ {m + 1}]>>] ELSE f[T]]
  <2>2. ASSUME NEW T \in SUBSET (1 .. m + 1), m + 1 \in T
        PROVE  /\ g[T] = E[<<m + 1, f[T \ {m + 1}]>>] /\ g[T] \in X
               /\ g[T \ {m + 1}] = f[T \ {m + 1}] /\ T \ {m + 1} \in SUBSET (1 .. m)
               /\ Max(T) = m + 1
    <3>1. T \ {m + 1} \in SUBSET (1 .. m)
      <4>1. \A y \in T : y \in 1 .. m + 1  OBVIOUS
      <4>2. \A y \in T \ {m + 1} : y \in 1 .. m  BY <4>1
      <4>. QED  BY <4>2
    <3>2. f[T \ {m + 1}] \in X /\ m + 1 \in 1 .. n  BY <3>1
    <3>3. g[T] = E[<<m + 1, f[T \ {m + 1}]>>]  BY <2>2
    <3>4. E[<<m + 1, f[T \ {m + 1}]>>] \in X  BY <3>2
    <3>5. T \ {m + 1} \in SUBSET (1 .. m + 1) /\ m + 1 \notin T \ {m + 1}  OBVIOUS
    <3>6. g[T \ {m + 1}] = f[T \ {m + 1}]  BY <3>5
    <3>7. Max(T) = m + 1
      <4>1. T \subseteq Nat /\ m + 1 \in T /\ \A y \in T : y <= m + 1  BY <2>2
      <4>. QED  BY <4>1, MaxOf
    <3>. QED  BY <3>1, <3>3, <3>4, <3>6, <3>7
  <2>3. ASSUME NEW T \in SUBSET (1 .. m + 1), m + 1 \notin T
        PROVE  /\ g[T] = f[T] /\ T \in SUBSET (1 .. m) /\ g[T] \in X
               /\ T # {} => g[T \ {Max(T)}] = f[T \ {Max(T)}]
    <3>1. T \in SUBSET (1 .. m)
      <4>1. \A y \in T : y \in 1 .. m + 1 /\ y # m + 1  BY <2>3
      <4>2. \A y \in T : y \in 1 .. m  BY <4>1
      <4>. QED  BY <4>2
    <3>2. g[T] = f[T]  BY <2>3
    <3>3. T \ {Max(T)} \in SUBSET (1 .. m + 1) /\ m + 1 \notin T \ {Max(T)}  BY <2>3
    <3>4. g[T \ {Max(T)}] = f[T \ {Max(T)}]  BY <3>3
    <3>. QED  BY <3>1, <3>2, <3>4
  <2>4. g \in [SUBSET (1 .. m + 1) -> X]
    <3>1. \A T \in SUBSET (1 .. m + 1) : g[T] \in X  BY <2>2, <2>3
    <3>2. g = [T \in SUBSET (1 .. m + 1) |-> g[T]]  OBVIOUS
    <3>. HIDE DEF g
    <3>. QED  BY <3>1, <3>2
  <2>5. \A T \in SUBSET (1 .. m + 1) :
          g[T] = IF T = {} THEN base ELSE E[<<Max(T), g[T \ {Max(T)}]>>]
    <3>. TAKE T \in SUBSET (1 .. m + 1)
    <3>1. CASE m + 1 \in T
      <4>1. T # {}  BY <3>1
      <4>. HIDE DEF g
      <4>. QED  BY <4>1, <3>1, <2>2
    <3>2. CASE m + 1 \notin T
      <4>1. f[T] = IF T = {} THEN base ELSE E[<<Max(T), f[T \ {Max(T)}]>>]
        <5>1. T \in SUBSET (1 .. m)  BY <3>2, <2>3
        <5>. QED  BY <5>1, <2>1 DEF IsFold
      <4>. HIDE DEF g
      <4>. QED  BY <4>1, <3>2, <2>3
    <3>. QED  BY <3>1, <3>2
  <2>6. g = [T \in SUBSET (1 .. m + 1) |-> g[T]]  OBVIOUS
  <2>. HIDE DEF g
  <2>7. IsFold(g, base, E, m + 1)  BY <2>5, <2>6 DEF IsFold
  <2>. QED  BY <2>4, <2>7 DEF FoldsIn
<1>. HIDE DEF S
<1>3. Nat \subseteq S  BY <1>1, <1>2, Induct
<1>. QED  BY <1>3 DEF S

\* What there was after k of the n elements, if each step is E's: the fold is the last of them.
FoldSteps(h, base, E, n) ==
  /\ h[0] = base
  /\ \A k \in 0 .. n - 1 : h[k + 1] = E[<<k + 1, h[k]>>]

StepsIn(X, base, E, n, last) ==
  \E h \in [0 .. n -> X] : FoldSteps(h, base, E, n) /\ last = h[n]

LEMMA FoldIsSteps ==
  ASSUME NEW X, NEW base \in X, NEW n \in Nat, NEW E, \A k \in 1 .. n, x \in X : E[<<k, x>>] \in X,
         NEW iter, iter[{}] = base,
         \A T \in SUBSET (1 .. n) :
           T # {} /\ iter[T \ {Max(T)}] \in X => iter[T] = E[<<Max(T), iter[T \ {Max(T)}]>>]
  PROVE  StepsIn(X, base, E, n, iter[1 .. n])
<1>. DEFINE h == [k \in 0 .. n |-> iter[1 .. k]]
            S == {k \in Nat : k <= n =>
                    /\ iter[1 .. k] \in X
                    /\ k > 0 => iter[1 .. k] = E[<<k, iter[1 .. k - 1]>>]}
<1>1. 0 \in S
  <2>1. 1 .. 0 = {}  OBVIOUS
  <2>. QED  BY <2>1
<1>2. ASSUME NEW k \in Nat, k \in S PROVE k + 1 \in S
  <2>. SUFFICES ASSUME k + 1 <= n
                PROVE  /\ iter[1 .. k + 1] \in X
                       /\ iter[1 .. k + 1] = E[<<k + 1, iter[1 .. k]>>]
    <3>1. k + 1 - 1 = k  OBVIOUS
    <3>. QED  BY <3>1
  <2>1. iter[1 .. k] \in X  BY <1>2
  <2>2. 1 .. k + 1 \in SUBSET (1 .. n) /\ 1 .. k + 1 # {}
    <3>1. 1 \in 1 .. k + 1  OBVIOUS
    <3>2. \A y \in 1 .. k + 1 : y \in 1 .. n  OBVIOUS
    <3>. QED  BY <3>1, <3>2
  <2>3. Max(1 .. k + 1) = k + 1
    <3>1. k + 1 \in 1 .. k + 1  OBVIOUS
    <3>2. 1 .. k + 1 \subseteq Nat /\ \A y \in 1 .. k + 1 : y <= k + 1  OBVIOUS
    <3>. QED  BY <3>1, <3>2, MaxOf
  <2>4. (1 .. k + 1) \ {k + 1} = 1 .. k  OBVIOUS
  <2>5. iter[1 .. k + 1] = E[<<k + 1, iter[1 .. k]>>]  BY <2>1, <2>2, <2>3, <2>4
  <2>6. k + 1 \in 1 .. n  OBVIOUS
  <2>. QED  BY <2>1, <2>5, <2>6
<1>. HIDE DEF S
<1>3. Nat \subseteq S  BY <1>1, <1>2, Induct
<1>4. \A k \in 0 .. n : iter[1 .. k] \in X /\ (k > 0 => iter[1 .. k] = E[<<k, iter[1 .. k - 1]>>])
  BY <1>3 DEF S
<1>5. h \in [0 .. n -> X]  BY <1>4
<1>6. FoldSteps(h, base, E, n)
  <2>1. h[0] = base
    <3>1. 1 .. 0 = {} /\ 0 \in 0 .. n  OBVIOUS
    <3>. QED  BY <3>1
  <2>2. ASSUME NEW k \in 0 .. n - 1 PROVE h[k + 1] = E[<<k + 1, h[k]>>]
    <3>1. k + 1 \in 0 .. n /\ k \in 0 .. n /\ k + 1 > 0 /\ k + 1 - 1 = k  OBVIOUS
    <3>2. iter[1 .. k + 1] = E[<<k + 1, iter[1 .. k + 1 - 1]>>]  BY <3>1, <1>4
    <3>3. h[k + 1] = iter[1 .. k + 1] /\ h[k] = iter[1 .. k]  BY <3>1
    <3>. QED  BY <3>1, <3>2, <3>3
  <2>. HIDE DEF h
  <2>. QED  BY <2>1, <2>2 DEF FoldSteps
<1>7. iter[1 .. n] = h[n]  OBVIOUS
<1>. HIDE DEF h
<1>. QED  BY <1>5, <1>6, <1>7 DEF StepsIn

-----------------------------------------------------------------------------
\* A set as a list, and a list of lists as one.

LEMMA SetListed ==
  ASSUME NEW T, IsFiniteSet(T)
  PROVE  /\ IsList(SetToSeq(T)) /\ Len(SetToSeq(T)) = Cardinality(T)
         /\ \A i \in DOMAIN SetToSeq(T) : SetToSeq(T)[i] \in T
         /\ \A t \in T : \E i \in DOMAIN SetToSeq(T) : SetToSeq(T)[i] = t
         /\ \A i, k \in DOMAIN SetToSeq(T) : SetToSeq(T)[i] = SetToSeq(T)[k] => i = k
<1>. DEFINE n == Cardinality(T)
            f == SetToSeq(T)
<1>1. n \in Nat /\ ExistsBijection(1 .. n, T)  BY FS_CardinalityType
<1>2. \E g : g \in [1 .. n -> T] /\ IsInjective(g)
  BY <1>1 DEF ExistsBijection, Bijection, Injection
<1>3. f \in [1 .. n -> T] /\ IsInjective(f)  BY <1>2, Zenon DEF SetToSeq
<1>. HIDE DEF n, f
<1>4. IsList(f) /\ Len(f) = n /\ DOMAIN f = 1 .. n  BY <1>1, <1>3, Listed
<1>5. f \in Injection(1 .. n, T) /\ IsFiniteSet(1 .. n) /\ Cardinality(1 .. n) = n
  BY <1>1, <1>3, FS_Interval DEF Injection
<1>6. f \in Surjection(1 .. n, T)  BY <1>5, FS_Injection DEF n
<1>7. \A t \in T : \E i \in 1 .. n : f[i] = t  BY <1>6 DEF Surjection
<1>8. \A i, k \in 1 .. n : f[i] = f[k] => i = k  BY <1>3, <1>4 DEF IsInjective
<1>9. \A i \in 1 .. n : f[i] \in T  BY <1>3
<1>. QED  BY <1>4, <1>7, <1>8, <1>9 DEF n, f

\* flat[k] is what the first k lists make together.
FlattenSteps(flat, seqs, n) ==
  /\ flat[0] = <<>>
  /\ \A k \in 0 .. n - 1 : flat[k + 1] = flat[k] \o seqs[k + 1]

IsFlatten(f, seqs, n) ==
  f = [i \in 1 .. n |-> IF i = 1 THEN seqs[i] ELSE f[i - 1] \o seqs[i]]

LEMMA FlattenExists ==
  ASSUME NEW seqs
  PROVE  \A n \in Nat : \E f : IsFlatten(f, seqs, n)
<1>. DEFINE S == {n \in Nat : \E f : IsFlatten(f, seqs, n)}
<1>1. 0 \in S
  <2>. DEFINE f == [i \in 1 .. 0 |-> <<>>]
  <2>1. \A i \in 1 .. 0 : FALSE  OBVIOUS
  <2>2. IsFlatten(f, seqs, 0)  BY <2>1 DEF IsFlatten
  <2>. HIDE DEF f
  <2>. QED  BY <2>2
<1>2. ASSUME NEW n \in Nat, n \in S PROVE n + 1 \in S
  <2>1. PICK f : IsFlatten(f, seqs, n)  BY <1>2
  <2>. DEFINE g == [i \in 1 .. n + 1 |->
                      IF i \in 1 .. n THEN f[i] ELSE IF i = 1 THEN seqs[i] ELSE f[n] \o seqs[i]]
  <2>2. \A i \in 1 .. n + 1 : g[i] = IF i = 1 THEN seqs[i] ELSE g[i - 1] \o seqs[i]
    <3>. TAKE i \in 1 .. n + 1
    <3>1. CASE i \in 1 .. n
      <4>1. g[i] = f[i]  BY <3>1
      <4>2. f[i] = IF i = 1 THEN seqs[i] ELSE f[i - 1] \o seqs[i]  BY <3>1, <2>1 DEF IsFlatten
      <4>3. i # 1 => g[i - 1] = f[i - 1]
        <5>1. i # 1 => i - 1 \in 1 .. n /\ i - 1 \in 1 .. n + 1  BY <3>1
        <5>. QED  BY <5>1
      <4>. HIDE DEF g
      <4>. QED  BY <4>1, <4>2, <4>3
    <3>2. CASE i = n + 1
      <4>1. i \notin 1 .. n /\ i - 1 = n  BY <3>2
      <4>2. g[i] = IF i = 1 THEN seqs[i] ELSE f[n] \o seqs[i]  BY <4>1
      <4>3. i # 1 => g[n] = f[n]
        <5>1. i # 1 => n \in 1 .. n /\ n \in 1 .. n + 1  BY <3>2
        <5>. QED  BY <5>1
      <4>. HIDE DEF g
      <4>. QED  BY <4>1, <4>2, <4>3
    <3>. QED  BY <3>1, <3>2
  <2>3. g = [i \in 1 .. n + 1 |-> g[i]]  OBVIOUS
  <2>. HIDE DEF g
  <2>4. IsFlatten(g, seqs, n + 1)  BY <2>2, <2>3 DEF IsFlatten
  <2>. QED  BY <2>4
<1>. HIDE DEF S
<1>3. Nat \subseteq S  BY <1>1, <1>2, Induct
<1>. QED  BY <1>3 DEF S

LEMMA EmptyLeft ==
  ASSUME NEW s, IsList(s)
  PROVE  <<>> \o s = s
<1>1. s \in Seq({s[i] : i \in DOMAIN s})  BY DEF IsList
<1>. QED  BY <1>1, ConcatEmptySeq

LEMMA Flattens ==
  ASSUME NEW seqs, IsList(seqs), \A i \in 1 .. Len(seqs) : IsList(seqs[i])
  PROVE  \E flat : /\ FlattenSteps(flat, seqs, Len(seqs)) /\ FlattenSeq(seqs) = flat[Len(seqs)]
                   /\ \A k \in 0 .. Len(seqs) : IsList(flat[k])
<1>. DEFINE n == Len(seqs)
            f == CHOOSE g : IsFlatten(g, seqs, n)
            flat == [k \in 0 .. n |-> IF k = 0 THEN <<>> ELSE f[k]]
<1>1. n \in Nat  BY ListLen
<1>2. IsFlatten(f, seqs, n)
  <2>1. \E g : IsFlatten(g, seqs, n)  BY <1>1, FlattenExists
  <2>. QED  BY <2>1, Zenon
<1>3. FlattenSeq(seqs) = IF n = 0 THEN seqs ELSE f[n]  BY DEF FlattenSeq, IsFlatten
<1>. HIDE DEF f
<1>4. /\ n > 0 => f[1] = seqs[1]
      /\ \A k \in 1 .. n - 1 : f[k + 1] = f[k] \o seqs[k + 1]
  <2>1. \A i \in 1 .. n : f[i] = IF i = 1 THEN seqs[i] ELSE f[i - 1] \o seqs[i]
    BY <1>2 DEF IsFlatten
  <2>2. n > 0 => f[1] = seqs[1]  BY <1>1, <2>1
  <2>3. ASSUME NEW k \in 1 .. n - 1 PROVE f[k + 1] = f[k] \o seqs[k + 1]
    <3>1. k + 1 \in 1 .. n /\ k + 1 # 1 /\ k + 1 - 1 = k  BY <1>1
    <3>. DEFINE i == k + 1
    <3>2. i \in 1 .. n /\ i # 1 /\ i - 1 = k  BY <3>1
    <3>. HIDE DEF i
    <3>3. f[i] = f[i - 1] \o seqs[i]  BY <3>2, <2>1
    <3>4. f[i] = f[k] \o seqs[i]  BY <3>2, <3>3
    <3>. QED  BY <3>4 DEF i
  <2>. QED  BY <2>2, <2>3
<1>5. \A k \in 0 .. n - 1 : flat[k + 1] = flat[k] \o seqs[k + 1]
  <2>. TAKE k \in 0 .. n - 1
  <2>1. k + 1 \in 1 .. n /\ k + 1 \in 0 .. n /\ k \in 0 .. n /\ k + 1 # 0  BY <1>1
  <2>2. flat[k + 1] = f[k + 1] /\ IsList(seqs[k + 1])  BY <2>1
  <2>3. CASE k = 0
    <3>1. flat[k] = <<>> /\ f[k + 1] = seqs[k + 1]  BY <2>1, <2>3, <1>1, <1>4
    <3>. HIDE DEF flat
    <3>. QED  BY <2>2, <3>1, EmptyLeft
  <2>4. CASE k # 0
    <3>1. k \in 1 .. n - 1  BY <2>1, <2>4, <1>1
    <3>2. flat[k] = f[k]  BY <2>1, <2>4
    <3>3. f[k + 1] = f[k] \o seqs[k + 1]  BY <3>1, <1>4
    <3>. HIDE DEF flat
    <3>. QED  BY <2>2, <3>2, <3>3
  <2>. QED  BY <2>3, <2>4
<1>6. flat[0] = <<>>  BY <1>1
<1>7. FlattenSeq(seqs) = flat[n]
  <2>1. CASE n = 0  BY <2>1, <1>3, <1>6, LenZero
  <2>2. CASE n # 0  BY <2>2, <1>1, <1>3
  <2>. QED  BY <2>1, <2>2
<1>. HIDE DEF flat
<1>8. \A k \in 0 .. n : IsList(flat[k])
  <2>. DEFINE T == {k \in 0 .. n : IsList(flat[k])}
  <2>1. 0 \in T  BY <1>1, <1>6, EmptyList
  <2>2. ASSUME NEW k \in 0 .. n - 1, k \in T PROVE k + 1 \in T
    <3>1. k + 1 \in 0 .. n /\ k + 1 \in 1 .. n  BY <1>1
    <3>2. flat[k + 1] = flat[k] \o seqs[k + 1]  BY <1>5
    <3>3. IsList(flat[k]) /\ IsList(seqs[k + 1])  BY <2>2, <3>1
    <3>4. IsList(flat[k + 1])  BY <3>2, <3>3, Joined
    <3>. QED  BY <3>1, <3>4
  <2>. HIDE DEF T
  <2>3. \A k \in 0 .. n : k \in T  BY <1>1, <2>1, <2>2, InductTo
  <2>. QED  BY <2>3 DEF T
<1>9. FlattenSteps(flat, seqs, n)  BY <1>5, <1>6 DEF FlattenSteps
<1>. QED  BY <1>7, <1>8, <1>9 DEF n

\* What stands in flat stands in one of the first k lists.
StandIn(flat, seqs, k) ==
  \A i \in DOMAIN flat : \E m \in 1 .. k : \E j \in DOMAIN seqs[m] : flat[i] = seqs[m][j]

LEMMA JoinedStandIn ==
  ASSUME NEW flat, IsList(flat), NEW seqs, NEW k \in Nat, IsList(seqs[k + 1]),
         StandIn(flat, seqs, k)
  PROVE  StandIn(flat \o seqs[k + 1], seqs, k + 1)
<1>. DEFINE b == seqs[k + 1]
            c == flat \o b
<1>1. /\ DOMAIN c = 1 .. Len(flat) + Len(b)
      /\ \A i \in 1 .. Len(flat) : c[i] = flat[i]
      /\ \A i \in 1 .. Len(b) : c[Len(flat) + i] = b[i]
  BY Joined
<1>2. /\ DOMAIN flat = 1 .. Len(flat) /\ Len(flat) \in Nat
      /\ DOMAIN b = 1 .. Len(b) /\ Len(b) \in Nat
  BY ListLen
<1>. HIDE DEF b, c
<1>3. ASSUME NEW i \in DOMAIN c
      PROVE  \E m \in 1 .. k + 1 : \E j \in DOMAIN seqs[m] : c[i] = seqs[m][j]
  <2>1. CASE i \in 1 .. Len(flat)
    <3>1. PICK m \in 1 .. k : \E j \in DOMAIN seqs[m] : flat[i] = seqs[m][j]
      BY <2>1, <1>2 DEF StandIn
    <3>2. m \in 1 .. k + 1 /\ c[i] = flat[i]  BY <2>1, <1>1
    <3>. QED  BY <3>1, <3>2
  <2>2. CASE i \notin 1 .. Len(flat)
    <3>1. i - Len(flat) \in 1 .. Len(b) /\ Len(flat) + (i - Len(flat)) = i  BY <2>2, <1>1, <1>2
    <3>2. c[i] = b[i - Len(flat)] /\ i - Len(flat) \in DOMAIN b  BY <3>1, <1>1, <1>2
    <3>3. k + 1 \in 1 .. k + 1  OBVIOUS
    <3>. QED  BY <3>2, <3>3 DEF b
  <2>. QED  BY <2>1, <2>2
<1>4. StandIn(c, seqs, k + 1)  BY <1>3 DEF StandIn
<1>. QED  BY <1>4 DEF b, c

\* Whatever stands in the list that lists make stands in one of them.
LEMMA FlattenedFrom ==
  ASSUME NEW seqs, IsList(seqs), \A i \in 1 .. Len(seqs) : IsList(seqs[i])
  PROVE  IsList(FlattenSeq(seqs)) /\ StandIn(FlattenSeq(seqs), seqs, Len(seqs))
<1>1. PICK flat : /\ FlattenSteps(flat, seqs, Len(seqs)) /\ FlattenSeq(seqs) = flat[Len(seqs)]
                  /\ \A k \in 0 .. Len(seqs) : IsList(flat[k])
  BY Flattens
<1>2. Len(seqs) \in Nat  BY ListLen
<1>. DEFINE T == {k \in 0 .. Len(seqs) : StandIn(flat[k], seqs, k)}
<1>3. 0 \in T
  <2>1. flat[0] = <<>> /\ 0 \in 0 .. Len(seqs)  BY <1>1, <1>2 DEF FlattenSteps
  <2>. QED  BY <2>1, EmptyList DEF StandIn
<1>4. ASSUME NEW k \in 0 .. Len(seqs) - 1, k \in T PROVE k + 1 \in T
  <2>1. flat[k + 1] = flat[k] \o seqs[k + 1]  BY <1>1 DEF FlattenSteps
  <2>2. k \in 0 .. Len(seqs) /\ k + 1 \in 1 .. Len(seqs) /\ k + 1 \in 0 .. Len(seqs) /\ k \in Nat
    BY <1>2
  <2>3. IsList(flat[k]) /\ IsList(seqs[k + 1]) /\ StandIn(flat[k], seqs, k)  BY <1>1, <1>4, <2>2
  <2>4. StandIn(flat[k + 1], seqs, k + 1)  BY <2>1, <2>2, <2>3, JoinedStandIn
  <2>. QED  BY <2>2, <2>4
<1>. HIDE DEF T
<1>5. \A k \in 0 .. Len(seqs) : k \in T  BY <1>2, <1>3, <1>4, InductTo
<1>6. Len(seqs) \in 0 .. Len(seqs)  BY <1>2
<1>. QED  BY <1>1, <1>5, <1>6 DEF T

-----------------------------------------------------------------------------
\* The alternatives of a finding.

AreAlternatives(alternatives) ==
  /\ IsList(alternatives)
  /\ \A i \in DOMAIN alternatives : IsAlternative(alternatives[i])

LEMMA TailList ==
  ASSUME NEW s, IsList(s), s # <<>>
  PROVE  IsList(Tail(s))
<1>1. s \in Seq({s[i] : i \in DOMAIN s})  BY DEF IsList
<1>2. Tail(s) \in Seq({s[i] : i \in DOMAIN s})  BY <1>1, HeadTailProperties
<1>. QED  BY <1>2, ListOf

LEMMA UpperFirstList ==
  ASSUME NEW text, IsList(text)
  PROVE  IsList(upper_first(text))
<1>1. CASE text # <<>> /\ text[1] \in DOMAIN CapitalOf
  <2>1. upper_first(text) = <<CapitalOf[text[1]]>> \o Tail(text)  BY <1>1 DEF upper_first
  <2>2. IsList(Tail(text)) /\ IsList(<<CapitalOf[text[1]]>>)  BY <1>1, TailList, OneIn
  <2>. QED  BY <2>1, <2>2, Joined
<1>2. CASE ~(text # <<>> /\ text[1] \in DOMAIN CapitalOf)  BY <1>2 DEF upper_first
<1>. QED  BY <1>1, <1>2

LEMMA CasedAlternative ==
  ASSUME NEW a, IsAlternative(a), NEW is_upper, NEW category
  PROVE  IsAlternative(Cased(a, is_upper, category))
<1>1. CASE a.remove \/ ~is_upper \/ category = "orthography"
  BY <1>1 DEF Cased
<1>2. CASE ~(a.remove \/ ~is_upper \/ category = "orthography")
  <2>. DEFINE lemma == upper_first(a.lemma)
              b == [a EXCEPT !.lemma = lemma]
  <2>1. Cased(a, is_upper, category) = b  BY <1>2 DEF Cased
  <2>2. IsList(lemma)  BY UpperFirstList DEF IsAlternative
  <2>. HIDE DEF lemma
  <2>3. DOMAIN b = DOMAIN a /\ b.lemma = lemma  BY DEF IsAlternative
  <2>. HIDE DEF b
  <2>4. IsAlternative(b)  BY <2>2, <2>3 DEF IsAlternative
  <2>. QED  BY <2>1, <2>4
<1>. QED  BY <1>1, <1>2

LEMMA IncludingIn ==
  ASSUME NEW A, NEW kept \in Seq(A), NEW a \in A, NEW found, NEW max
  PROVE  Including(kept, a, found, max) \in Seq(A)
<1>. DEFINE same == {i \in DOMAIN kept : kept[i].lemma = a.lemma}
            at == CHOOSE i \in same : TRUE
<1>1. Append(kept, a) \in Seq(A)  BY AppendProperties
<1>2. same # {} => [kept EXCEPT ![at] = a] \in Seq(A)
  <2>1. DOMAIN kept = 1 .. Len(kept)  BY LenProperties
  <2>2. same # {} => at \in same  BY Zenon
  <2>3. same # {} => at \in 1 .. Len(kept)  BY <2>1, <2>2
  <2>. HIDE DEF at, same
  <2>. QED  BY <2>3, ExceptSeq
<1>3. \/ Including(kept, a, found, max) = kept
      \/ same # {} /\ Including(kept, a, found, max) = [kept EXCEPT ![at] = a]
      \/ Including(kept, a, found, max) = Append(kept, a)
  BY DEF Including
<1>. HIDE DEF at, same
<1>. QED  BY <1>1, <1>2, <1>3

\* f is the recursive function of the fold in clean_alternatives.
IsCleanFold(f, found, is_upper, alternatives, category, max) ==
  f = [T \in SUBSET DOMAIN alternatives |->
         IF T = {} THEN <<>>
         ELSE Including(f[T \ {Max(T)}], Cased(alternatives[Max(T)], is_upper, category),
                        found, max)]

Cleaned(found, is_upper, alternatives, category, max) ==
  FoldLeft(LAMBDA kept, given : Including(kept, Cased(given, is_upper, category), found, max),
           <<>>, alternatives)

LEMMA CleanedIsFold ==
  ASSUME NEW found, NEW is_upper, NEW alternatives, NEW category, NEW max
  PROVE  Cleaned(found, is_upper, alternatives, category, max) =
           (CHOOSE f : IsCleanFold(f, found, is_upper, alternatives, category, max))
             [DOMAIN alternatives]
BY DEF Cleaned, IsCleanFold, FoldLeft, MapThenFoldSet

\* Each alternative that stays is one of those given, with the case of what was found.
LEMMA CleanedFrom ==
  ASSUME NEW found, NEW is_upper, NEW alternatives, IsList(alternatives), NEW category,
         NEW max \in Nat \union {Nothing}
  PROVE  LET cleaned == clean_alternatives(found, is_upper, alternatives, category, max)
         IN  /\ IsList(cleaned)
             /\ \A i \in DOMAIN cleaned : \E k \in DOMAIN alternatives :
                  cleaned[i] = Cased(alternatives[k], is_upper, category)
<1>. DEFINE n == Len(alternatives)
            Given(k) == Cased(alternatives[k], is_upper, category)
            A == {Given(k) : k \in 1 .. n}
            X == Seq(A)
            E == [p \in (1 .. n) \X X |-> Including(p[2], Given(p[1]), found, max)]
            iter == CHOOSE f : IsCleanFold(f, found, is_upper, alternatives, category, max)
            cleaned == Cleaned(found, is_upper, alternatives, category, max)
<1>1. n \in Nat /\ DOMAIN alternatives = 1 .. n  BY ListLen
<1>2. <<>> \in X  BY EmptySeq
<1>3. \A k \in 1 .. n, x \in X : /\ E[<<k, x>>] = Including(x, Given(k), found, max)
                                 /\ E[<<k, x>>] \in X
  BY IncludingIn
<1>4. \E f : IsCleanFold(f, found, is_upper, alternatives, category, max)
  <2>1. FoldsIn(X, <<>>, E, n)
    <3>. HIDE DEF E, X, n
    <3>. QED  BY <1>1, <1>2, <1>3, FoldExists
  <2>2. PICK f \in [SUBSET (1 .. n) -> X] : IsFold(f, <<>>, E, n)  BY <2>1 DEF FoldsIn
  <2>3. ASSUME NEW T \in SUBSET (1 .. n)
        PROVE  f[T] = IF T = {} THEN <<>> ELSE Including(f[T \ {Max(T)}], Given(Max(T)), found, max)
    <3>1. CASE T = {}  BY <2>2, <3>1 DEF IsFold
    <3>2. CASE T # {}
      <4>1. Max(T) \in 1 .. n
        <5>1. T \in SUBSET (0 .. n)  BY <1>1
        <5>2. Max(T) \in T  BY <1>1, <5>1, <3>2, MaxIn
        <5>. QED  BY <5>2
      <4>2. f[T \ {Max(T)}] \in X  BY <2>2
      <4>3. f[T] = E[<<Max(T), f[T \ {Max(T)}]>>]  BY <2>2, <3>2 DEF IsFold
      <4>. HIDE DEF E, X, Given
      <4>. QED  BY <1>3, <4>1, <4>2, <4>3, <3>2
    <3>. QED  BY <3>1, <3>2
  <2>4. f = [T \in SUBSET (1 .. n) |-> f[T]]  BY <2>2
  <2>. HIDE DEF E, X
  <2>5. IsCleanFold(f, found, is_upper, alternatives, category, max)
    BY <1>1, <2>3, <2>4 DEF IsCleanFold
  <2>. QED  BY <2>5
<1>5. IsCleanFold(iter, found, is_upper, alternatives, category, max)  BY <1>4, Zenon
<1>6. cleaned = iter[1 .. n]  BY <1>1, CleanedIsFold
<1>. HIDE DEF iter, cleaned
<1>7. \A T \in SUBSET (1 .. n) :
        iter[T] = IF T = {} THEN <<>>
                  ELSE Including(iter[T \ {Max(T)}], Given(Max(T)), found, max)
  BY <1>1, <1>5 DEF IsCleanFold
<1>8. iter[{}] = <<>>  BY <1>7
<1>9. ASSUME NEW T \in SUBSET (1 .. n), T # {} /\ iter[T \ {Max(T)}] \in X
      PROVE  iter[T] = E[<<Max(T), iter[T \ {Max(T)}]>>]
  <2>1. Max(T) \in 1 .. n
    <3>1. T \in SUBSET (0 .. n)  BY <1>1
    <3>2. Max(T) \in T  BY <1>1, <3>1, <1>9, MaxIn
    <3>. QED  BY <3>2
  <2>2. iter[T] = Including(iter[T \ {Max(T)}], Given(Max(T)), found, max)  BY <1>7, <1>9
  <2>. HIDE DEF E, X, Given
  <2>. QED  BY <1>3, <1>9, <2>1, <2>2
<1>10. cleaned \in X
  <2>. HIDE DEF E, X, n
  <2>1. StepsIn(X, <<>>, E, n, iter[1 .. n])
    BY <1>1, <1>2, <1>3, <1>8, <1>9, FoldIsSteps
  <2>2. n \in 0 .. n  BY <1>1
  <2>. QED  BY <1>6, <2>1, <2>2 DEF StepsIn
<1>11. \A a \in A : \E k \in DOMAIN alternatives : a = Given(k)  BY <1>1
<1>. HIDE DEF A
<1>12. IsList(cleaned) /\ Len(cleaned) \in Nat /\ DOMAIN cleaned = 1 .. Len(cleaned)
       /\ \A i \in 1 .. Len(cleaned) : cleaned[i] \in A
  BY <1>10, ListOf, ElementOfSeq
<1>13. \A i \in DOMAIN cleaned : \E k \in DOMAIN alternatives : cleaned[i] = Given(k)
  BY <1>11, <1>12
<1>14. CASE max # Nothing /\ Len(cleaned) >= max
  <2>1. max \in 0 .. Len(cleaned)  BY <1>12, <1>14
  <2>2. clean_alternatives(found, is_upper, alternatives, category, max) = SubSeq(cleaned, 1, max)
    BY <1>14 DEF clean_alternatives, Cleaned, cleaned
  <2>. DEFINE c == SubSeq(cleaned, 1, max)
  <2>3. /\ IsList(c) /\ DOMAIN c = 1 .. Len(c) /\ Len(c) = (IF 1 <= max THEN max - 1 + 1 ELSE 0)
        /\ \A i \in 1 .. Len(c) : c[i] = cleaned[1 + i - 1]
    <3>1. IsList(cleaned) /\ 1 \in Nat \ {0}  BY <1>12
    <3>. HIDE DEF Given
    <3>. QED  BY <2>1, <3>1, Cutout
  <2>4. \A i \in 1 .. Len(c) : 1 + i - 1 \in DOMAIN cleaned  BY <1>12, <2>1, <2>3
  <2>. HIDE DEF c, Given
  <2>5. \A i \in DOMAIN c : \E k \in DOMAIN alternatives : c[i] = Given(k)
    BY <1>13, <2>3, <2>4
  <2>. QED  BY <2>2, <2>3, <2>5 DEF c, Given
<1>15. CASE ~(max # Nothing /\ Len(cleaned) >= max)
  <2>1. clean_alternatives(found, is_upper, alternatives, category, max) = cleaned
    BY <1>15 DEF clean_alternatives, Cleaned, cleaned
  <2>. QED  BY <2>1, <1>12, <1>13
<1>. QED  BY <1>14, <1>15

LEMMA CleanedAlternatives ==
  ASSUME NEW found, NEW is_upper, NEW alternatives, AreAlternatives(alternatives), NEW category,
         NEW max \in Nat \union {Nothing}
  PROVE  AreAlternatives(clean_alternatives(found, is_upper, alternatives, category, max))
<1>1. /\ IsList(clean_alternatives(found, is_upper, alternatives, category, max))
      /\ \A i \in DOMAIN clean_alternatives(found, is_upper, alternatives, category, max) :
           \E k \in DOMAIN alternatives :
             clean_alternatives(found, is_upper, alternatives, category, max)[i]
               = Cased(alternatives[k], is_upper, category)
  BY CleanedFrom DEF AreAlternatives
<1>2. \A k \in DOMAIN alternatives : IsAlternative(Cased(alternatives[k], is_upper, category))
  BY CasedAlternative DEF AreAlternatives
<1>. QED  BY <1>1, <1>2 DEF AreAlternatives

-----------------------------------------------------------------------------
\* Findings.

FindingFields ==
  {"text", "text_id", "category", "subcategory", "gravity", "explained", "start", "end",
   "alternatives", "bulk"}

IsFinding(f) ==
  /\ DOMAIN f = FindingFields /\ IsList(f.text) /\ AreAlternatives(f.alternatives)
  /\ f.start \in Nat /\ f.end \in Nat

AreFindings(findings) == IsList(findings) /\ \A i \in DOMAIN findings : IsFinding(findings[i])

LEMMA CountIs ==
  ASSUME NEW text, NEW index \in Nat, NEW characters
  PROVE  CountUpTo(text, index, characters) \in Nat
<1>. DEFINE C == {i \in 1 .. index : text[i] \in characters}
<1>1. IsFiniteSet(1 .. index)  BY FS_Interval
<1>2. C \subseteq 1 .. index  OBVIOUS
<1>. HIDE DEF C
<1>3. IsFiniteSet(C)  BY <1>1, <1>2, FS_Subset
<1>4. Cardinality(C) \in Nat  BY <1>3, FS_CardinalityType
<1>. QED  BY <1>4 DEF CountUpTo, C

\* The table of the offsets of a text.
LEMMA OffsetsAre ==
  ASSUME NEW text, IsList(text)
  PROVE  /\ DOMAIN utf16_offsets(text) = 0 .. Len(text)
         /\ \A i \in 0 .. Len(text) :
              /\ utf16_offsets(text)[i] = i + CountUpTo(text, i, CountedTwice)
              /\ utf16_offsets(text)[i] \in Nat
<1>1. Len(text) \in Nat  BY ListLen
<1>2. \A i \in 0 .. Len(text) : utf16_offsets(text)[i] = i + CountUpTo(text, i, CountedTwice)
  BY DEF utf16_offsets
<1>3. \A i \in 0 .. Len(text) : CountUpTo(text, i, CountedTwice) \in Nat  BY <1>1, CountIs
<1>4. \A i \in 0 .. Len(text) : utf16_offsets(text)[i] \in Nat  BY <1>1, <1>2, <1>3
<1>. QED  BY <1>2, <1>4 DEF utf16_offsets

LEMMA ResultIsFinding ==
  ASSUME NEW rule, AreAlternatives(rule.alternatives), NEW text, IsList(text),
         NEW start \in Nat, NEW end \in Nat, end <= Len(text) => start <= Len(text),
         NEW lang, NEW config, IsConfig(config)
  PROVE  IsFinding(Result(rule, text, start, end, lang, config))
<1>. DEFINE found == Slice(text, start, end)
            is_upper == isUpper(found, rule, text, start, lang)
            r == Result(rule, text, start, end, lang, config)
<1>1. IsList(found)  BY Sliced
<1>2. config.alternatives_max_count \in Nat \union {Nothing}  BY DEF IsConfig
<1>3. AreAlternatives(clean_alternatives(found, is_upper, rule.alternatives, rule.category,
                                         config.alternatives_max_count))
  BY <1>2, CleanedAlternatives
<1>4. /\ DOMAIN r = FindingFields /\ r.text = found
      /\ r.alternatives = clean_alternatives(found, is_upper, rule.alternatives, rule.category,
                                             config.alternatives_max_count)
  BY DEF Result, FindingFields
<1>5. /\ r.start = IF end <= Len(text) THEN utf16_offsets(text)[start] ELSE start
      /\ r.end = IF end <= Len(text) THEN utf16_offsets(text)[end] ELSE end
  BY DEF Result, to_utf16
<1>. HIDE DEF r
<1>6. r.start \in Nat /\ r.end \in Nat
  <2>1. CASE end <= Len(text)
    <3>1. start \in 0 .. Len(text) /\ end \in 0 .. Len(text)  BY <2>1, ListLen
    <3>2. utf16_offsets(text)[start] \in Nat /\ utf16_offsets(text)[end] \in Nat
      BY <3>1, OffsetsAre
    <3>. QED  BY <1>5, <2>1, <3>2
  <2>2. CASE ~(end <= Len(text))  BY <1>5, <2>2
  <2>. QED  BY <2>1, <2>2
<1>7. IsFinding(r)  BY <1>1, <1>3, <1>4, <1>6 DEF IsFinding
<1>. QED  BY <1>7 DEF r

LEMMA MarkedBulk ==
  ASSUME NEW f, IsFinding(f), NEW index
  PROVE  /\ IsFinding(mark_bulk(f, index))
         /\ \A field \in FindingFields \ {"bulk"} : mark_bulk(f, index)[field] = f[field]
<1>. DEFINE b == [f EXCEPT !.bulk = index]
<1>1. mark_bulk(f, index) = b \/ mark_bulk(f, index) = f  BY DEF mark_bulk
<1>2. DOMAIN b = DOMAIN f /\ \A field \in FindingFields \ {"bulk"} : b[field] = f[field]
  BY DEF IsFinding
<1>3. /\ b.text = f.text /\ b.alternatives = f.alternatives
      /\ b.start = f.start /\ b.end = f.end
  BY <1>2 DEF FindingFields
<1>. HIDE DEF b
<1>4. IsFinding(b)  BY <1>2, <1>3 DEF IsFinding
<1>. QED  BY <1>1, <1>2, <1>4

LEMMA KeptFindings ==
  ASSUME NEW findings, AreFindings(findings), NEW keys
  PROVE  AreFindings(KeptAt(findings, keys))
<1>1. Len(findings) \in Nat /\ DOMAIN findings = 1 .. Len(findings)  BY ListLen DEF AreFindings
<1>2. /\ IsList(KeptAt(findings, keys))
      /\ \A i \in DOMAIN KeptAt(findings, keys) :
           \E k \in keys \intersect (1 .. Len(findings)) : KeptAt(findings, keys)[i] = findings[k]
  BY <1>1, KeptAtFrom
<1>. QED  BY <1>1, <1>2 DEF AreFindings

LEMMA JoinedFindings ==
  ASSUME NEW a, AreFindings(a), NEW b, AreFindings(b)
  PROVE  AreFindings(a \o b)
<1>. DEFINE c == a \o b
<1>1. /\ IsList(c) /\ DOMAIN c = 1 .. Len(a) + Len(b)
      /\ \A i \in 1 .. Len(a) : c[i] = a[i]
      /\ \A i \in 1 .. Len(b) : c[Len(a) + i] = b[i]
  BY Joined DEF AreFindings
<1>2. /\ DOMAIN a = 1 .. Len(a) /\ Len(a) \in Nat
      /\ DOMAIN b = 1 .. Len(b) /\ Len(b) \in Nat
  BY ListLen DEF AreFindings
<1>. HIDE DEF c
<1>3. ASSUME NEW i \in DOMAIN c PROVE IsFinding(c[i])
  <2>1. CASE i \in 1 .. Len(a)  BY <2>1, <1>1, <1>2 DEF AreFindings
  <2>2. CASE i \notin 1 .. Len(a)
    <3>1. i - Len(a) \in 1 .. Len(b) /\ Len(a) + (i - Len(a)) = i  BY <2>2, <1>1, <1>2
    <3>2. c[i] = b[i - Len(a)]  BY <3>1, <1>1
    <3>. QED  BY <3>1, <3>2, <1>2 DEF AreFindings
  <2>. QED  BY <2>1, <2>2
<1>. QED  BY <1>1, <1>3 DEF AreFindings, c

\* Lists of findings make a list of findings.
LEMMA FlatFindings ==
  ASSUME NEW seqs, IsList(seqs), \A i \in 1 .. Len(seqs) : AreFindings(seqs[i])
  PROVE  AreFindings(FlattenSeq(seqs))
<1>1. \A i \in 1 .. Len(seqs) : IsList(seqs[i])  BY DEF AreFindings
<1>2. IsList(FlattenSeq(seqs)) /\ StandIn(FlattenSeq(seqs), seqs, Len(seqs))
  BY <1>1, FlattenedFrom
<1>3. ASSUME NEW i \in DOMAIN FlattenSeq(seqs) PROVE IsFinding(FlattenSeq(seqs)[i])
  <2>1. PICK m \in 1 .. Len(seqs) : \E j \in DOMAIN seqs[m] : FlattenSeq(seqs)[i] = seqs[m][j]
    BY <1>2 DEF StandIn
  <2>. QED  BY <2>1 DEF AreFindings
<1>. QED  BY <1>2, <1>3 DEF AreFindings

\* A list over 1..n whose members are findings.
LEMMA MadeFindings ==
  ASSUME NEW n \in Nat, NEW f, f = [i \in 1 .. n |-> f[i]], \A i \in 1 .. n : IsFinding(f[i])
  PROVE  AreFindings(f) /\ Len(f) = n
<1>. DEFINE S == {f[i] : i \in 1 .. n}
<1>1. f \in [1 .. n -> S]  OBVIOUS
<1>. HIDE DEF S
<1>2. IsList(f) /\ DOMAIN f = 1 .. n /\ Len(f) = n  BY <1>1, Listed
<1>. QED  BY <1>2 DEF AreFindings

LEMMA RulesKept ==
  ASSUME NEW lang, NEW config, IsConfig(config)
  PROVE  LET rules == {r \in Rules : r.lang = lang /\ Enabled(r, config)}
                        \union TermRules(config, lang)
         IN  IsFiniteSet(rules) /\ \A r \in rules : IsRule(r)
<1>. DEFINE a == {r \in Rules : r.lang = lang /\ Enabled(r, config)}
            b == TermRules(config, lang)
<1>1. IsFiniteSet(a) /\ \A r \in a : IsRule(r)
  <2>1. a \subseteq Rules  OBVIOUS
  <2>2. IsFiniteSet(Rules) /\ \A r \in Rules : IsRule(r)  BY FindingsAssumption
  <2>. HIDE DEF a
  <2>. QED  BY <2>1, <2>2, FS_Subset
<1>2. IsFiniteSet(b) /\ \A r \in b : IsRule(r)
  <2>1. b \subseteq config.term_replacements  BY DEF TermRules
  <2>2. /\ IsFiniteSet(config.term_replacements)
        /\ \A r \in config.term_replacements : IsRule(r)
    BY DEF IsConfig
  <2>. HIDE DEF b
  <2>. QED  BY <2>1, <2>2, FS_Subset
<1>. HIDE DEF a, b
<1>3. IsFiniteSet(a \union b)  BY <1>1, <1>2, FS_Union
<1>. QED  BY <1>1, <1>2, <1>3 DEF a, b

LEMMA WittyFindings ==
  ASSUME NEW text, IsList(text), NEW lang, NEW config, IsConfig(config)
  PROVE  AreFindings(witty_rules(text, lang, config))
<1>. DEFINE rules == {r \in Rules : r.lang = lang /\ Enabled(r, config)}
                       \union TermRules(config, lang)
            Rep(start, rule) ==
              LET result == Result(rule, text, start, start + Len(rule.words), lang, config)
              IN  IF rule.form THEN mark_bulk(result, 1) ELSE result
            Of(start, n) == {r \in rules : Len(r.words) = n /\ Matches(r, text, start)}
            OfLength(start, n) ==
              LET found == SetToSeq(Of(start, n)) IN [i \in DOMAIN found |-> Rep(start, found[i])]
            At(start) == FlattenSeq([n \in DOMAIN text |-> OfLength(start, n)])
            all == [i \in DOMAIN text |-> At(i - 1)]
<1>1. IsFiniteSet(rules) /\ \A r \in rules : IsRule(r)  BY RulesKept
<1>2. Len(text) \in Nat /\ DOMAIN text = 1 .. Len(text)  BY ListLen
<1>3. witty_rules(text, lang, config) = FlattenSeq(all)  BY DEF witty_rules
<1>. HIDE DEF rules
<1>4. ASSUME NEW start \in Nat, NEW rule \in rules, Matches(rule, text, start)
      PROVE  IsFinding(Rep(start, rule))
  <2>. DEFINE result == Result(rule, text, start, start + Len(rule.words), lang, config)
  <2>1. Len(rule.words) \in Nat /\ AreAlternatives(rule.alternatives)
    BY <1>1, ListLen DEF IsRule, AreAlternatives
  <2>2. start + Len(rule.words) \in Nat /\ start + Len(rule.words) <= Len(text)
        /\ start <= Len(text)
    BY <1>2, <1>4, <2>1 DEF Matches
  <2>3. IsFinding(result)  BY <2>1, <2>2, ResultIsFinding
  <2>. HIDE DEF result
  <2>4. IsFinding(mark_bulk(result, 1))  BY <2>3, MarkedBulk
  <2>. QED  BY <2>3, <2>4 DEF result
<1>. HIDE DEF Rep
<1>5. ASSUME NEW start \in Nat, NEW n PROVE AreFindings(OfLength(start, n))
  <2>. DEFINE found == SetToSeq(Of(start, n))
              f == [i \in DOMAIN found |-> Rep(start, found[i])]
  <2>1. Of(start, n) \subseteq rules /\ \A r \in Of(start, n) : Matches(r, text, start)
    OBVIOUS
  <2>2. IsFiniteSet(Of(start, n))  BY <2>1, <1>1, FS_Subset
  <2>. HIDE DEF Of
  <2>3. IsList(found) /\ \A i \in DOMAIN found : found[i] \in Of(start, n)  BY <2>2, SetListed
  <2>. HIDE DEF found
  <2>4. Len(found) \in Nat /\ DOMAIN found = 1 .. Len(found)  BY <2>3, ListLen
  <2>5. \A i \in 1 .. Len(found) : f[i] = Rep(start, found[i])  BY <2>4
  <2>6. \A i \in 1 .. Len(found) : IsFinding(f[i])  BY <2>1, <2>3, <2>4, <2>5, <1>4
  <2>7. f = [i \in 1 .. Len(found) |-> f[i]]  BY <2>4
  <2>. HIDE DEF f
  <2>8. AreFindings(f)  BY <2>4, <2>6, <2>7, MadeFindings
  <2>. QED  BY <2>8 DEF f, found
<1>. HIDE DEF OfLength
<1>6. ASSUME NEW start \in Nat PROVE AreFindings(At(start))
  <2>. DEFINE f == [n \in DOMAIN text |-> OfLength(start, n)]
  <2>1. \A n \in 1 .. Len(text) : AreFindings(f[n])  BY <1>2, <1>5
  <2>2. f \in [1 .. Len(text) -> {f[n] : n \in 1 .. Len(text)}]  BY <1>2
  <2>. HIDE DEF f
  <2>3. IsList(f) /\ Len(f) = Len(text)  BY <1>2, <2>2, Listed
  <2>4. AreFindings(FlattenSeq(f))  BY <2>1, <2>3, FlatFindings
  <2>. QED  BY <2>4 DEF f
<1>. HIDE DEF At
<1>7. AreFindings(FlattenSeq(all))
  <2>1. ASSUME NEW i \in 1 .. Len(text) PROVE AreFindings(all[i])
    <3>1. i - 1 \in Nat  BY <1>2
    <3>. QED  BY <3>1, <1>2, <1>6
  <2>2. all \in [1 .. Len(text) -> {all[i] : i \in 1 .. Len(text)}]  BY <1>2
  <2>. HIDE DEF all
  <2>3. IsList(all) /\ Len(all) = Len(text)  BY <1>2, <2>2, Listed
  <2>. QED  BY <2>1, <2>3, FlatFindings
<1>. QED  BY <1>3, <1>7

-----------------------------------------------------------------------------
\* Removing from a list, from behind: what is left is what is kept of the others.

LEMMA SameList ==
  ASSUME NEW a, IsList(a), NEW b, IsList(b), Len(a) = Len(b), \A i \in 1 .. Len(a) : a[i] = b[i]
  PROVE  a = b
<1>. DEFINE S == {a[i] : i \in DOMAIN a} \union {b[i] : i \in DOMAIN b}
<1>1. a \in Seq(S) /\ b \in Seq(S)
  <2>1. a \in Seq({a[i] : i \in DOMAIN a}) /\ b \in Seq({b[i] : i \in DOMAIN b})  BY DEF IsList
  <2>. QED  BY <2>1, SeqMonotonic
<1>. HIDE DEF S
<1>. QED  BY <1>1, SeqEqual

LEMMA OrdersAgree ==
  ASSUME NEW P, NEW n, n \in Nat, NEW a, NEW b, KeptRightly(a, P, n), KeptRightly(b, P, n)
  PROVE  Len(a) <= Len(b) /\ \A i \in 1 .. Len(a) : a[i] = b[i]
<1>1. Len(a) \in Nat /\ Len(b) \in Nat  BY ListLen DEF KeptRightly
<1>. DEFINE T == {k \in 0 .. Len(a) : k <= Len(b) /\ \A i \in 1 .. k : a[i] = b[i]}
<1>2. 0 \in T  BY <1>1
<1>3. ASSUME NEW k \in 0 .. Len(a) - 1, k \in T PROVE k + 1 \in T
  <2>1. k + 1 \in 1 .. Len(a) /\ k <= Len(b) /\ \A i \in 1 .. k : a[i] = b[i]  BY <1>1, <1>3
  <2>2. PICK i \in 1 .. Len(b) : b[i] = a[k + 1]  BY <2>1 DEF KeptRightly
  <2>3. \A j \in 1 .. Len(a) : a[j] \in 1 .. n  BY DEF KeptRightly
  <2>4. i > k
    <3>1. ASSUME i \in 1 .. k PROVE FALSE
      <4>1. a[i] < a[k + 1] /\ a[i] = b[i]  BY <2>1, <3>1, <1>1 DEF KeptRightly
      <4>2. a[k + 1] \in Int  BY <2>1, <2>3
      <4>. QED  BY <4>1, <4>2, <2>2
    <3>. QED  BY <3>1, <1>1
  <2>5. k + 1 \in 1 .. Len(b)  BY <2>4, <1>1
  <2>6. \A j \in 1 .. Len(b) : b[j] \in 1 .. n  BY DEF KeptRightly
  <2>7. b[k + 1] <= a[k + 1]
    <3>1. i = k + 1 \/ k + 1 < i  BY <2>4, <1>1
    <3>2. k + 1 < i => b[k + 1] < b[i]  BY <2>5 DEF KeptRightly
    <3>. QED  BY <3>1, <3>2, <2>2, <2>3, <2>5, <2>6, <2>1
  <2>8. PICK j \in 1 .. Len(a) : a[j] = b[k + 1]  BY <2>5 DEF KeptRightly
  <2>9. j > k
    <3>1. ASSUME j \in 1 .. k PROVE FALSE
      <4>1. j \in 1 .. Len(b) /\ j < k + 1  BY <2>5, <3>1, <1>1
      <4>2. b[j] < b[k + 1]  BY <2>5, <4>1 DEF KeptRightly
      <4>3. a[j] = b[j] /\ b[k + 1] \in Int  BY <2>1, <3>1, <2>5, <2>6
      <4>. QED  BY <4>2, <4>3, <2>8
    <3>. QED  BY <3>1, <1>1
  <2>10. a[k + 1] <= b[k + 1]
    <3>1. j = k + 1 \/ k + 1 < j  BY <2>9, <1>1
    <3>2. k + 1 < j => a[k + 1] < a[j]  BY <2>1 DEF KeptRightly
    <3>. QED  BY <3>1, <3>2, <2>8, <2>3, <2>5, <2>6, <2>1
  <2>11. a[k + 1] = b[k + 1]  BY <2>7, <2>10, <2>3, <2>6, <2>1, <2>5
  <2>. QED  BY <2>1, <2>5, <2>11, <1>1
<1>. HIDE DEF T
<1>4. \A k \in 0 .. Len(a) : k \in T  BY <1>1, <1>2, <1>3, InductTo
<1>5. Len(a) \in 0 .. Len(a)  BY <1>1
<1>. QED  BY <1>4, <1>5 DEF T

LEMMA OneOrder ==
  ASSUME NEW P, NEW n, n \in Nat, NEW a, NEW b, KeptRightly(a, P, n), KeptRightly(b, P, n)
  PROVE  a = b
<1>1. Len(a) <= Len(b)  BY OrdersAgree
<1>2. Len(b) <= Len(a)  BY OrdersAgree
<1>3. \A i \in 1 .. Len(a) : a[i] = b[i]  BY OrdersAgree
<1>4. IsList(a) /\ IsList(b) /\ Len(a) \in Nat /\ Len(b) \in Nat  BY ListLen DEF KeptRightly
<1>. QED  BY <1>1, <1>2, <1>3, <1>4, SameList

LEMMA RemovedOne ==
  ASSUME NEW s, IsList(s), NEW r \in 1 .. Len(s)
  PROVE  /\ IsList(RemoveAt(s, r)) /\ Len(RemoveAt(s, r)) = Len(s) - 1
         /\ \A j \in 1 .. Len(s) - 1 : RemoveAt(s, r)[j] = IF j < r THEN s[j] ELSE s[j + 1]
<1>. DEFINE a == SubSeq(s, 1, r - 1)
            b == SubSeq(s, r + 1, Len(s))
<1>1. Len(s) \in Nat  BY ListLen
<1>2. IsList(a) /\ Len(a) = r - 1 /\ \A i \in 1 .. Len(a) : a[i] = s[i]
  <2>1. 1 \in Nat \ {0} /\ r - 1 \in 0 .. Len(s)  BY <1>1
  <2>2. /\ IsList(a) /\ Len(a) = IF 1 <= r - 1 THEN r - 1 - 1 + 1 ELSE 0
        /\ \A i \in 1 .. Len(a) : a[i] = s[1 + i - 1]
    BY <2>1, Cutout
  <2>. HIDE DEF a
  <2>. QED  BY <2>1, <2>2
<1>3. IsList(b) /\ Len(b) = Len(s) - r /\ \A i \in 1 .. Len(b) : b[i] = s[r + i]
  <2>1. r + 1 \in Nat \ {0} /\ Len(s) \in 0 .. Len(s)  BY <1>1
  <2>2. /\ IsList(b) /\ Len(b) = IF r + 1 <= Len(s) THEN Len(s) - (r + 1) + 1 ELSE 0
        /\ \A i \in 1 .. Len(b) : b[i] = s[r + 1 + i - 1]
    BY <2>1, Cutout
  <2>3. \A i \in Int : r + 1 + i - 1 = r + i  OBVIOUS
  <2>. HIDE DEF b
  <2>. QED  BY <2>1, <2>2, <2>3, <1>1
<1>. HIDE DEF a, b
<1>4. /\ IsList(a \o b) /\ Len(a \o b) = Len(a) + Len(b)
      /\ \A i \in 1 .. Len(a) : (a \o b)[i] = a[i]
      /\ \A i \in 1 .. Len(b) : (a \o b)[Len(a) + i] = b[i]
  <2>1. IsList(a) /\ IsList(b)  BY <1>2, <1>3
  <2>2. IsList(a \o b) /\ Len(a \o b) = Len(a) + Len(b)  BY <2>1, Joined
  <2>3. \A i \in 1 .. Len(a) : (a \o b)[i] = a[i]  BY <2>1, Joined
  <2>4. \A i \in 1 .. Len(b) : (a \o b)[Len(a) + i] = b[i]  BY <2>1, Joined
  <2>. QED  BY <2>2, <2>3, <2>4
<1>5. RemoveAt(s, r) = a \o b  BY DEF RemoveAt, a, b
<1>6. ASSUME NEW j \in 1 .. Len(s) - 1 PROVE (a \o b)[j] = IF j < r THEN s[j] ELSE s[j + 1]
  <2>1. CASE j < r
    <3>1. j \in 1 .. Len(a)  BY <2>1, <1>1, <1>2
    <3>. QED  BY <3>1, <2>1, <1>2, <1>4
  <2>2. CASE ~(j < r)
    <3>1. j - Len(a) \in 1 .. Len(b) /\ Len(a) + (j - Len(a)) = j /\ r + (j - Len(a)) = j + 1
      BY <2>2, <1>1, <1>2, <1>3
    <3>2. (a \o b)[j] = b[j - Len(a)]  BY <3>1, <1>4
    <3>3. b[j - Len(a)] = s[j + 1]  BY <3>1, <1>3
    <3>. QED  BY <3>2, <3>3, <2>2
  <2>. QED  BY <2>1, <2>2
<1>7. Len(a \o b) = Len(s) - 1
  <2>1. Len(a \o b) = Len(a) + Len(b) /\ Len(a) = r - 1 /\ Len(b) = Len(s) - r
    BY <1>2, <1>3, <1>4
  <2>. QED  BY <2>1, <1>1
<1>. QED  BY <1>4, <1>5, <1>6, <1>7

\* `left` is what the list has but for the positions gone, and in front of those it is as it was.
LeftBut(left, order, seq, gone, n) ==
  /\ KeptRightly(order, (1 .. n) \ gone, n)
  /\ IsList(left) /\ Len(left) = Len(order)
  /\ \A i \in 1 .. Len(order) : left[i] = seq[order[i]]
  /\ \A j \in 1 .. n : (\A g \in gone : j < g) => j <= Len(order) /\ order[j] = j

LEMMA LeftButOne ==
  ASSUME NEW left, NEW order, NEW seq, NEW n \in Nat, NEW gone, gone \subseteq 1 .. n,
         LeftBut(left, order, seq, gone, n), NEW r \in 1 .. n, \A g \in gone : r < g
  PROVE  LeftBut(RemoveAt(left, r), RemoveAt(order, r), seq, gone \union {r}, n)
<1>. DEFINE L == RemoveAt(left, r)
            O == RemoveAt(order, r)
            P == (1 .. n) \ gone
            Q == (1 .. n) \ (gone \union {r})
<1>1. /\ IsList(order) /\ Len(order) \in Nat /\ Len(order) <= n
      /\ \A i \in 1 .. Len(order) : order[i] \in P /\ order[i] \in 1 .. n
      /\ \A i, k \in 1 .. Len(order) : i < k => order[i] < order[k]
      /\ \A p \in P : \E i \in 1 .. Len(order) : order[i] = p
  BY ListLen DEF LeftBut, KeptRightly
<1>2. r \in 1 .. Len(order) /\ order[r] = r  BY <1>1 DEF LeftBut
<1>3. IsList(left) /\ Len(left) = Len(order) /\ \A i \in 1 .. Len(order) : left[i] = seq[order[i]]
  BY DEF LeftBut
<1>4. /\ IsList(O) /\ Len(O) = Len(order) - 1
      /\ \A j \in 1 .. Len(order) - 1 : O[j] = IF j < r THEN order[j] ELSE order[j + 1]
  BY <1>1, <1>2, RemovedOne
<1>5. /\ IsList(L) /\ Len(L) = Len(order) - 1
      /\ \A j \in 1 .. Len(order) - 1 : L[j] = IF j < r THEN left[j] ELSE left[j + 1]
  BY <1>1, <1>2, <1>3, RemovedOne
<1>. HIDE DEF L, O
<1>6. \A j \in 1 .. Len(O) : /\ j \in 1 .. Len(order) /\ j + 1 \in 1 .. Len(order)
                             /\ O[j] = IF j < r THEN order[j] ELSE order[j + 1]
                             /\ L[j] = IF j < r THEN left[j] ELSE left[j + 1]
  BY <1>1, <1>4, <1>5
<1>7. \A j \in 1 .. Len(O) : L[j] = seq[O[j]]  BY <1>3, <1>6
<1>8. ASSUME NEW j \in 1 .. Len(O) PROVE O[j] \in Q \intersect (1 .. n)
  <2>1. CASE j < r
    <3>1. order[j] < order[r]  BY <1>1, <1>2, <1>6, <2>1
    <3>2. order[j] # r /\ order[j] \in P  BY <3>1, <1>1, <1>2, <1>6
    <3>. QED  BY <3>2, <2>1, <1>6
  <2>2. CASE ~(j < r)
    <3>1. r < j + 1 /\ j + 1 \in 1 .. Len(order)  BY <2>2, <1>6
    <3>2. order[r] < order[j + 1]  BY <3>1, <1>1, <1>2
    <3>3. order[j + 1] # r /\ order[j + 1] \in P  BY <3>1, <3>2, <1>1, <1>2
    <3>. QED  BY <3>3, <2>2, <1>6
  <2>. QED  BY <2>1, <2>2
<1>9. ASSUME NEW i \in 1 .. Len(O), NEW k \in 1 .. Len(O), i < k PROVE O[i] < O[k]
  <2>. DEFINE a == IF i < r THEN i ELSE i + 1
              b == IF k < r THEN k ELSE k + 1
  <2>1. a \in 1 .. Len(order) /\ b \in 1 .. Len(order) /\ a < b  BY <1>6, <1>9
  <2>2. O[i] = order[a] /\ O[k] = order[b]  BY <1>6
  <2>. QED  BY <2>1, <2>2, <1>1
<1>10. ASSUME NEW p \in Q \intersect (1 .. n) PROVE \E i \in 1 .. Len(O) : O[i] = p
  <2>1. PICK i \in 1 .. Len(order) : order[i] = p  BY <1>1
  <2>2. i # r  BY <2>1, <1>2
  <2>. DEFINE a == IF i < r THEN i ELSE i - 1
  <2>3. a \in 1 .. Len(O) /\ (IF a < r THEN a ELSE a + 1) = i  BY <2>1, <2>2, <1>1, <1>2, <1>4
  <2>4. O[a] = order[IF a < r THEN a ELSE a + 1]  BY <2>3, <1>6
  <2>. HIDE DEF a
  <2>5. O[a] = p  BY <2>1, <2>3, <2>4
  <2>. QED  BY <2>3, <2>5
<1>11. KeptRightly(O, Q, n)
  <2>1. IsList(O) /\ Len(O) <= n  BY <1>1, <1>4
  <2>. HIDE DEF Q
  <2>. QED  BY <2>1, <1>8, <1>9, <1>10 DEF KeptRightly
<1>12. ASSUME NEW j \in 1 .. n, \A g \in gone \union {r} : j < g PROVE j <= Len(O) /\ O[j] = j
  <2>1. j < r /\ \A g \in gone : j < g  BY <1>12
  <2>2. j <= Len(order) /\ order[j] = j  BY <2>1 DEF LeftBut
  <2>3. j \in 1 .. Len(O)  BY <2>1, <1>1, <1>2, <1>4
  <2>. QED  BY <2>1, <2>2, <2>3, <1>6
<1>. QED  BY <1>4, <1>5, <1>7, <1>11, <1>12 DEF LeftBut, L, O

\* f is the recursive function of the fold in RemovedAt.
IsRemoveFold(f, results, order, n) ==
  f = [T \in SUBSET (1 .. n) |->
         IF T = {} THEN results ELSE RemoveAt(f[T \ {Max(T)}], order[Max(T)])]

LEMMA RemoveFoldExists ==
  ASSUME NEW results, NEW order
  PROVE  \A n \in Nat : \E f : IsRemoveFold(f, results, order, n)
<1>. DEFINE S == {n \in Nat : \E f : IsRemoveFold(f, results, order, n)}
<1>1. 0 \in S
  <2>. DEFINE f == [T \in SUBSET (1 .. 0) |-> results]
  <2>1. \A T \in SUBSET (1 .. 0) : T = {}  OBVIOUS
  <2>2. IsRemoveFold(f, results, order, 0)  BY <2>1 DEF IsRemoveFold
  <2>. HIDE DEF f
  <2>. QED  BY <2>2
<1>2. ASSUME NEW m \in Nat, m \in S PROVE m + 1 \in S
  <2>1. PICK f : IsRemoveFold(f, results, order, m)  BY <1>2
  <2>. DEFINE g == [T \in SUBSET (1 .. m + 1) |->
                      IF m + 1 \in T THEN RemoveAt(f[T \ {m + 1}], order[m + 1]) ELSE f[T]]
  <2>2. ASSUME NEW T \in SUBSET (1 .. m + 1), m + 1 \in T
        PROVE  /\ g[T] = RemoveAt(f[T \ {m + 1}], order[m + 1])
               /\ g[T \ {m + 1}] = f[T \ {m + 1}] /\ Max(T) = m + 1
    <3>1. g[T] = RemoveAt(f[T \ {m + 1}], order[m + 1])  BY <2>2
    <3>2. T \ {m + 1} \in SUBSET (1 .. m + 1) /\ m + 1 \notin T \ {m + 1}  OBVIOUS
    <3>3. g[T \ {m + 1}] = f[T \ {m + 1}]  BY <3>2
    <3>4. Max(T) = m + 1
      <4>1. T \subseteq Nat /\ m + 1 \in T /\ \A y \in T : y <= m + 1  BY <2>2
      <4>. QED  BY <4>1, MaxOf
    <3>. QED  BY <3>1, <3>3, <3>4
  <2>3. ASSUME NEW T \in SUBSET (1 .. m + 1), m + 1 \notin T
        PROVE  /\ g[T] = f[T] /\ T \in SUBSET (1 .. m)
               /\ T # {} => g[T \ {Max(T)}] = f[T \ {Max(T)}]
    <3>1. T \in SUBSET (1 .. m)
      <4>1. \A y \in T : y \in 1 .. m + 1 /\ y # m + 1  BY <2>3
      <4>2. \A y \in T : y \in 1 .. m  BY <4>1
      <4>. QED  BY <4>2
    <3>2. g[T] = f[T]  BY <2>3
    <3>3. T \ {Max(T)} \in SUBSET (1 .. m + 1) /\ m + 1 \notin T \ {Max(T)}  BY <2>3
    <3>4. g[T \ {Max(T)}] = f[T \ {Max(T)}]  BY <3>3
    <3>. QED  BY <3>1, <3>2, <3>4
  <2>4. \A T \in SUBSET (1 .. m + 1) :
          g[T] = IF T = {} THEN results ELSE RemoveAt(g[T \ {Max(T)}], order[Max(T)])
    <3>. TAKE T \in SUBSET (1 .. m + 1)
    <3>1. CASE m + 1 \in T
      <4>1. T # {}  BY <3>1
      <4>. HIDE DEF g
      <4>. QED  BY <4>1, <3>1, <2>2
    <3>2. CASE m + 1 \notin T
      <4>1. f[T] = IF T = {} THEN results ELSE RemoveAt(f[T \ {Max(T)}], order[Max(T)])
        <5>1. T \in SUBSET (1 .. m)  BY <3>2, <2>3
        <5>. QED  BY <5>1, <2>1 DEF IsRemoveFold
      <4>. HIDE DEF g
      <4>. QED  BY <4>1, <3>2, <2>3
    <3>. QED  BY <3>1, <3>2
  <2>5. g = [T \in SUBSET (1 .. m + 1) |-> g[T]]  OBVIOUS
  <2>. HIDE DEF g
  <2>6. IsRemoveFold(g, results, order, m + 1)  BY <2>4, <2>5 DEF IsRemoveFold
  <2>. QED  BY <2>6
<1>. HIDE DEF S
<1>3. Nat \subseteq S  BY <1>1, <1>2, Induct
<1>. QED  BY <1>3 DEF S

\* Those of the list named last.
Behinds(keys, n) == Reverse(InOrder(keys, n))

LEMMA RemovedIsFold ==
  ASSUME NEW results, NEW keys
  PROVE  RemovedAt(results, keys) =
           (CHOOSE f : f = [T \in SUBSET DOMAIN Behinds(keys, Len(results)) |->
                              IF T = {} THEN results
                              ELSE RemoveAt(f[T \ {Max(T)}], Behinds(keys, Len(results))[Max(T)])])
             [DOMAIN Behinds(keys, Len(results))]
BY DEF RemovedAt, Behinds, FoldLeft, MapThenFoldSet

\* h[k] is what is left after k of them.
RemoveSteps(h, results, order, m) ==
  /\ h[0] = results
  /\ \A k \in 0 .. m - 1 : h[k + 1] = RemoveAt(h[k], order[k + 1])

RemovedInSteps(results, keys, m) ==
  \E h : /\ RemoveSteps(h, results, Behinds(keys, Len(results)), m)
         /\ RemovedAt(results, keys) = h[m]

LEMMA RemovedSteps ==
  ASSUME NEW results, NEW keys, NEW m \in Nat, DOMAIN Behinds(keys, Len(results)) = 1 .. m
  PROVE  RemovedInSteps(results, keys, m)
<1>. DEFINE order == Behinds(keys, Len(results))
            iter == CHOOSE f : IsRemoveFold(f, results, order, m)
            h == [k \in 0 .. m |-> iter[1 .. k]]
<1>1. IsRemoveFold(iter, results, order, m)
  <2>1. \E f : IsRemoveFold(f, results, order, m)  BY RemoveFoldExists
  <2>. QED  BY <2>1, Zenon
<1>2. RemovedAt(results, keys) = iter[1 .. m]
  BY RemovedIsFold DEF IsRemoveFold
<1>. HIDE DEF iter
<1>3. \A T \in SUBSET (1 .. m) :
        iter[T] = IF T = {} THEN results ELSE RemoveAt(iter[T \ {Max(T)}], order[Max(T)])
  <2>. HIDE DEF order
  <2>. QED  BY <1>1 DEF IsRemoveFold
<1>. HIDE DEF order
<1>4. h[0] = results
  <2>1. 1 .. 0 = {} /\ 0 \in 0 .. m  OBVIOUS
  <2>2. iter[{}] = results  BY <1>3
  <2>. QED  BY <2>1, <2>2
<1>5. ASSUME NEW k \in 0 .. m - 1 PROVE h[k + 1] = RemoveAt(h[k], order[k + 1])
  <2>1. 1 .. k + 1 \in SUBSET (1 .. m) /\ 1 .. k + 1 # {}
    <3>1. 1 \in 1 .. k + 1  OBVIOUS
    <3>2. \A y \in 1 .. k + 1 : y \in 1 .. m  OBVIOUS
    <3>. QED  BY <3>1, <3>2
  <2>2. Max(1 .. k + 1) = k + 1
    <3>1. k + 1 \in 1 .. k + 1  OBVIOUS
    <3>2. 1 .. k + 1 \subseteq Nat /\ \A y \in 1 .. k + 1 : y <= k + 1  OBVIOUS
    <3>. QED  BY <3>1, <3>2, MaxOf
  <2>3. (1 .. k + 1) \ {k + 1} = 1 .. k  OBVIOUS
  <2>4. iter[1 .. k + 1] = RemoveAt(iter[1 .. k], order[k + 1])  BY <1>3, <2>1, <2>2, <2>3
  <2>5. k \in 0 .. m /\ k + 1 \in 0 .. m  OBVIOUS
  <2>. QED  BY <2>4, <2>5
<1>6. h[m] = iter[1 .. m]  OBVIOUS
<1>. HIDE DEF h
<1>7. RemoveSteps(h, results, order, m)  BY <1>4, <1>5 DEF RemoveSteps
<1>. QED  BY <1>2, <1>6, <1>7 DEF order, RemovedInSteps

\* The indexes to remove, from the last to the first.
LEMMA BehindsFall ==
  ASSUME NEW keys, NEW n \in Nat
  PROVE  LET order == Behinds(keys, n)
             m == Len(InOrder(keys, n))
         IN  /\ m \in Nat /\ DOMAIN order = 1 .. m
             /\ \A i \in 1 .. m : order[i] \in keys \intersect (1 .. n)
             /\ \A i, k \in 1 .. m : i < k => order[k] < order[i]
             /\ \A p \in keys \intersect (1 .. n) : \E i \in 1 .. m : order[i] = p
<1>. DEFINE f == InOrder(keys, n)
            m == Len(f)
            order == Behinds(keys, n)
<1>1. KeptRightly(f, keys, n)  BY InOrderKeeps
<1>2. m \in Nat  BY <1>1, ListLen DEF KeptRightly
<1>3. /\ \A i \in 1 .. m : f[i] \in keys \intersect (1 .. n)
      /\ \A i, k \in 1 .. m : i < k => f[i] < f[k]
      /\ \A p \in keys \intersect (1 .. n) : \E i \in 1 .. m : f[i] = p
  BY <1>1 DEF KeptRightly
<1>4. order = [i \in 1 .. m |-> f[m - i + 1]]  BY DEF Behinds, Reverse
<1>. HIDE DEF f, m, order
<1>5. DOMAIN order = 1 .. m /\ \A i \in 1 .. m : m - i + 1 \in 1 .. m /\ order[i] = f[m - i + 1]
  BY <1>2, <1>4
<1>6. \A i \in 1 .. m : order[i] \in keys \intersect (1 .. n)  BY <1>3, <1>5
<1>7. ASSUME NEW i \in 1 .. m, NEW k \in 1 .. m, i < k PROVE order[k] < order[i]
  <2>1. m - k + 1 < m - i + 1  BY <1>2, <1>7
  <2>. QED  BY <2>1, <1>3, <1>5
<1>8. ASSUME NEW p \in keys \intersect (1 .. n) PROVE \E i \in 1 .. m : order[i] = p
  <2>1. PICK i \in 1 .. m : f[i] = p  BY <1>3
  <2>2. m - i + 1 \in 1 .. m /\ m - (m - i + 1) + 1 = i  BY <1>2
  <2>3. order[m - i + 1] = p  BY <2>1, <2>2, <1>5
  <2>. QED  BY <2>2, <2>3
<1>. QED  BY <1>2, <1>5, <1>6, <1>7, <1>8 DEF f, m, order

LeftButSome(left, seq, gone, n) == \E order : LeftBut(left, order, seq, gone, n)

\* What context_false_positives removes is what it names, and the others stay in their order.
LEMMA RemovedIsKept ==
  ASSUME NEW results, IsList(results), NEW keys
  PROVE  RemovedAt(results, keys) = KeptAt(results, (1 .. Len(results)) \ keys)
<1>. DEFINE n == Len(results)
            order == Behinds(keys, n)
            m == Len(InOrder(keys, n))
            Gone(k) == {order[i] : i \in 1 .. k}
<1>1. n \in Nat  BY ListLen
<1>2. /\ m \in Nat /\ DOMAIN order = 1 .. m
      /\ \A i \in 1 .. m : order[i] \in keys \intersect (1 .. n)
      /\ \A i, k \in 1 .. m : i < k => order[k] < order[i]
      /\ \A p \in keys \intersect (1 .. n) : \E i \in 1 .. m : order[i] = p
  BY <1>1, BehindsFall
<1>3. PICK h : RemoveSteps(h, results, order, m) /\ RemovedAt(results, keys) = h[m]
  <2>1. RemovedInSteps(results, keys, m)  BY <1>2, RemovedSteps
  <2>. QED  BY <2>1 DEF RemovedInSteps
<1>. HIDE DEF n, order, m
<1>. DEFINE T == {k \in 0 .. m : LeftButSome(h[k], results, Gone(k), n)}
<1>4. 0 \in T
  <2>. DEFINE all == [i \in 1 .. n |-> i]
  <2>1. all \in [1 .. n -> 1 .. n] /\ \A i \in 1 .. n : all[i] = i  OBVIOUS
  <2>2. IsList(all) /\ Len(all) = n  BY <1>1, <2>1, Listed
  <2>. HIDE DEF all
  <2>3. Gone(0) = {}  OBVIOUS
  <2>4. KeptRightly(all, (1 .. n) \ {}, n)
    <3>1. \A p \in ((1 .. n) \ {}) \intersect (1 .. n) : \E i \in 1 .. Len(all) : all[i] = p
      BY <2>1, <2>2
    <3>. QED  BY <1>1, <2>1, <2>2, <3>1 DEF KeptRightly
  <2>5. LeftBut(results, all, results, {}, n)
    BY <1>1, <2>1, <2>2, <2>4 DEF LeftBut, n
  <2>6. h[0] = results /\ 0 \in 0 .. m  BY <1>2, <1>3 DEF RemoveSteps
  <2>7. LeftButSome(results, results, {}, n)  BY <2>5 DEF LeftButSome
  <2>. HIDE DEF Gone
  <2>. QED  BY <2>3, <2>6, <2>7
<1>5. ASSUME NEW k \in 0 .. m - 1, k \in T PROVE k + 1 \in T
  <2>1. PICK o : LeftBut(h[k], o, results, Gone(k), n)
    <3>1. LeftButSome(h[k], results, Gone(k), n)  BY <1>5
    <3>. QED  BY <3>1 DEF LeftButSome
  <2>2. k + 1 \in 1 .. m /\ k + 1 \in 0 .. m  BY <1>2
  <2>3. order[k + 1] \in 1 .. n  BY <1>2, <2>2
  <2>4. Gone(k) \subseteq 1 .. n  BY <1>2
  <2>5. \A g \in Gone(k) : order[k + 1] < g  BY <1>2, <2>2
  <2>6. Gone(k + 1) = Gone(k) \union {order[k + 1]}
    <3>1. \A i \in 1 .. k + 1 : i \in 1 .. k \/ i = k + 1  OBVIOUS
    <3>2. 1 .. k \subseteq 1 .. k + 1 /\ k + 1 \in 1 .. k + 1  OBVIOUS
    <3>. QED  BY <3>1, <3>2
  <2>. HIDE DEF Gone
  <2>7. LeftBut(RemoveAt(h[k], order[k + 1]), RemoveAt(o, order[k + 1]), results,
                Gone(k) \union {order[k + 1]}, n)
    BY <1>1, <2>1, <2>3, <2>4, <2>5, LeftButOne
  <2>8. h[k + 1] = RemoveAt(h[k], order[k + 1])  BY <1>3 DEF RemoveSteps
  <2>9. LeftButSome(h[k + 1], results, Gone(k + 1), n)
    BY <2>6, <2>7, <2>8 DEF LeftButSome
  <2>. QED  BY <2>2, <2>9
<1>. HIDE DEF T
<1>6. \A k \in 0 .. m : k \in T  BY <1>2, <1>4, <1>5, InductTo
<1>7. m \in T  BY <1>2, <1>6
<1>8. PICK o : LeftBut(h[m], o, results, Gone(m), n)
  <2>1. LeftButSome(h[m], results, Gone(m), n)  BY <1>7 DEF T
  <2>. QED  BY <2>1 DEF LeftButSome
<1>9. (1 .. n) \ Gone(m) = (1 .. n) \ keys
  <2>1. \A p \in 1 .. n : p \in Gone(m) <=> p \in keys  BY <1>2
  <2>. HIDE DEF Gone
  <2>. QED  BY <2>1
<1>. HIDE DEF Gone
<1>. DEFINE keep == (1 .. n) \ keys
            kept == KeptAt(results, keep)
<1>10. /\ KeptRightly(o, keep, n) /\ IsList(h[m]) /\ Len(h[m]) = Len(o)
       /\ \A i \in 1 .. Len(o) : h[m][i] = results[o[i]]
  BY <1>8, <1>9 DEF LeftBut
<1>11. /\ KeptRightly(InOrder(keep, n), keep, n)
       /\ IsList(kept) /\ Len(kept) = Len(InOrder(keep, n))
       /\ \A i \in 1 .. Len(InOrder(keep, n)) : kept[i] = results[InOrder(keep, n)[i]]
  BY <1>1, KeptAtKeeps DEF n
<1>. HIDE DEF keep, kept
<1>12. o = InOrder(keep, n)  BY <1>1, <1>10, <1>11, OneOrder
<1>13. Len(h[m]) = Len(kept) /\ \A i \in 1 .. Len(h[m]) : h[m][i] = kept[i]
  BY <1>10, <1>11, <1>12
<1>14. h[m] = kept  BY <1>10, <1>11, <1>13, SameList
<1>. QED  BY <1>3, <1>14 DEF keep, kept, n

-----------------------------------------------------------------------------
\* The switch of the gender format.

\* f is the recursive function of the fold in mark_masculines_for_bulk.
IsMarkFold(f, results, text, lang, words) ==
  f = [T \in SUBSET DOMAIN ByStart(results) |->
         IF T = {} THEN results
         ELSE Marked(f[T \ {Max(T)}], ByStart(results)[Max(T)], text, lang, words)]

LEMMA MarkedIsFold ==
  ASSUME NEW results, NEW text, NEW lang, NEW words
  PROVE  mark_masculines_for_bulk(results, text, lang, words) =
           (CHOOSE f : IsMarkFold(f, results, text, lang, words))[DOMAIN ByStart(results)]
BY DEF mark_masculines_for_bulk, IsMarkFold, FoldLeft, MapThenFoldSet

\* What each step keeps, all of them keep.
LEMMA MarkedIn ==
  ASSUME NEW results, IsList(results), NEW text, NEW lang, NEW words,
         NEW X, results \in X, \A fs \in X : \A i : Marked(fs, i, text, lang, words) \in X
  PROVE  mark_masculines_for_bulk(results, text, lang, words) \in X
<1>. DEFINE n == Len(results)
            order == ByStart(results)
            E == [p \in (1 .. n) \X X |-> Marked(p[2], order[p[1]], text, lang, words)]
            iter == CHOOSE f : IsMarkFold(f, results, text, lang, words)
<1>1. n \in Nat /\ DOMAIN order = 1 .. n  BY ListLen DEF ByStart
<1>2. \A k \in 1 .. n, x \in X : /\ E[<<k, x>>] = Marked(x, order[k], text, lang, words)
                                 /\ E[<<k, x>>] \in X
  OBVIOUS
<1>3. ASSUME NEW T \in SUBSET (1 .. n), T # {} PROVE Max(T) \in 1 .. n
  <2>1. T \in SUBSET (0 .. n)  BY <1>1
  <2>2. Max(T) \in T  BY <1>1, <1>3, <2>1, MaxIn
  <2>. QED  BY <2>2
<1>4. \E f : IsMarkFold(f, results, text, lang, words)
  <2>1. FoldsIn(X, results, E, n)
    <3>. HIDE DEF E, n
    <3>. QED  BY <1>1, <1>2, FoldExists
  <2>2. PICK f \in [SUBSET (1 .. n) -> X] : IsFold(f, results, E, n)  BY <2>1 DEF FoldsIn
  <2>3. ASSUME NEW T \in SUBSET (1 .. n)
        PROVE  f[T] = IF T = {} THEN results
                      ELSE Marked(f[T \ {Max(T)}], order[Max(T)], text, lang, words)
    <3>1. CASE T = {}  BY <2>2, <3>1 DEF IsFold
    <3>2. CASE T # {}
      <4>1. f[T \ {Max(T)}] \in X  BY <2>2
      <4>2. f[T] = E[<<Max(T), f[T \ {Max(T)}]>>]  BY <2>2, <3>2 DEF IsFold
      <4>3. Max(T) \in 1 .. n  BY <1>3, <3>2
      <4>. HIDE DEF E, order
      <4>. QED  BY <1>2, <4>1, <4>2, <4>3, <3>2
    <3>. QED  BY <3>1, <3>2
  <2>4. f = [T \in SUBSET (1 .. n) |-> f[T]]  BY <2>2
  <2>. HIDE DEF E
  <2>5. IsMarkFold(f, results, text, lang, words)  BY <1>1, <2>3, <2>4 DEF IsMarkFold
  <2>. QED  BY <2>5
<1>5. IsMarkFold(iter, results, text, lang, words)  BY <1>4, Zenon
<1>6. mark_masculines_for_bulk(results, text, lang, words) = iter[1 .. n]
  BY <1>1, MarkedIsFold
<1>. HIDE DEF iter
<1>7. \A T \in SUBSET (1 .. n) :
        iter[T] = IF T = {} THEN results
                  ELSE Marked(iter[T \ {Max(T)}], order[Max(T)], text, lang, words)
  BY <1>1, <1>5 DEF IsMarkFold
<1>8. iter[{}] = results  BY <1>7
<1>9. ASSUME NEW T \in SUBSET (1 .. n), T # {} /\ iter[T \ {Max(T)}] \in X
      PROVE  iter[T] = E[<<Max(T), iter[T \ {Max(T)}]>>]
  <2>1. Max(T) \in 1 .. n  BY <1>3, <1>9
  <2>2. iter[T] = Marked(iter[T \ {Max(T)}], order[Max(T)], text, lang, words)  BY <1>7, <1>9
  <2>. HIDE DEF E, order
  <2>. QED  BY <1>2, <1>9, <2>1, <2>2
<1>. HIDE DEF E, n
<1>10. StepsIn(X, results, E, n, iter[1 .. n])
  BY <1>1, <1>2, <1>8, <1>9, FoldIsSteps
<1>11. n \in 0 .. n  BY <1>1
<1>. QED  BY <1>6, <1>10, <1>11 DEF StepsIn

LEMMA InclusiveIsThere ==
  ASSUME NEW result, AreAlternatives(result.alternatives)
  PROVE  /\ InclusiveAlternative(result) \in Nat
         /\ InclusiveAlternative(result) # 0 =>
              /\ InclusiveAlternative(result) \in DOMAIN result.alternatives
              /\ ~result.alternatives[InclusiveAlternative(result)].remove
<1>. DEFINE s == result.alternatives
            I == {i \in 1 .. Len(s) : s[i].role = "inclusive_gender" /\ ~s[i].remove}
<1>1. Len(s) \in Nat /\ DOMAIN s = 1 .. Len(s)  BY ListLen DEF AreAlternatives
<1>2. InclusiveAlternative(result) = IF I # {} THEN Min(I) ELSE 0
  BY DEF InclusiveAlternative, SelectInSeq
<1>3. I # {} => Min(I) \in I
  <2>1. I \subseteq Nat  OBVIOUS
  <2>. HIDE DEF I
  <2>. QED  BY <2>1, MinIn
<1>4. \A i \in I : i \in DOMAIN s /\ i \in Nat /\ ~s[i].remove  BY <1>1
<1>. HIDE DEF I
<1>5. CASE I = {}
  <2>1. InclusiveAlternative(result) = 0  BY <1>2, <1>5
  <2>. QED  BY <2>1
<1>6. CASE I # {}
  <2>1. InclusiveAlternative(result) \in I  BY <1>2, <1>3, <1>6
  <2>. QED  BY <2>1, <1>4
<1>. QED  BY <1>5, <1>6

\* The lists that a list of findings may become by marking some: each stays what it was, but
\* for the switch.
Variants(f) == {f} \union {[f EXCEPT !.bulk = b] : b \in Nat}

MarkedVariants(results) ==
  {fs \in [1 .. Len(results) -> UNION {Variants(results[i]) : i \in 1 .. Len(results)}] :
     \A i \in 1 .. Len(results) : fs[i] \in Variants(results[i])}

LEMMA VariantIs ==
  ASSUME NEW f, IsFinding(f), NEW v \in Variants(f)
  PROVE  /\ IsFinding(v) /\ \A field \in FindingFields \ {"bulk"} : v[field] = f[field]
         /\ v.text = f.text /\ v.alternatives = f.alternatives
         /\ v.start = f.start /\ v.end = f.end
         /\ \A b \in Nat : [v EXCEPT !.bulk = b] \in Variants(f)
<1>1. DOMAIN f = FindingFields  BY DEF IsFinding
<1>2. PICK b : v = f \/ (b \in Nat /\ v = [f EXCEPT !.bulk = b])  BY DEF Variants
<1>3. DOMAIN v = FindingFields /\ \A field \in FindingFields \ {"bulk"} : v[field] = f[field]
  BY <1>1, <1>2
<1>4. /\ v.text = f.text /\ v.alternatives = f.alternatives
      /\ v.start = f.start /\ v.end = f.end
  BY <1>3 DEF FindingFields
<1>5. IsFinding(v)  BY <1>3, <1>4 DEF IsFinding
<1>6. ASSUME NEW c \in Nat PROVE [v EXCEPT !.bulk = c] \in Variants(f)
  <2>1. [v EXCEPT !.bulk = c] = [f EXCEPT !.bulk = c]  BY <1>2
  <2>. QED  BY <2>1 DEF Variants
<1>. QED  BY <1>3, <1>4, <1>5, <1>6

LEMMA OneMarked ==
  ASSUME NEW results, AreFindings(results), NEW fs \in MarkedVariants(results), NEW i,
         NEW text, NEW lang, NEW words
  PROVE  Marked(fs, i, text, lang, words) \in MarkedVariants(results)
<1>. DEFINE n == Len(results)
            U == UNION {Variants(results[j]) : j \in 1 .. n}
            g == [fs EXCEPT ![i] = mark_bulk(@, InclusiveAlternative(@))]
<1>1. n \in Nat /\ DOMAIN results = 1 .. n  BY ListLen DEF AreFindings
<1>2. fs \in [1 .. n -> U] /\ \A j \in 1 .. n : fs[j] \in Variants(results[j])
  BY DEF MarkedVariants
<1>3. ASSUME NEW j \in 1 .. n
      PROVE  mark_bulk(fs[j], InclusiveAlternative(fs[j])) \in Variants(results[j])
  <2>1. IsFinding(results[j]) /\ fs[j] \in Variants(results[j])  BY <1>1, <1>2 DEF AreFindings
  <2>2. /\ AreAlternatives(fs[j].alternatives)
        /\ \A b \in Nat : [fs[j] EXCEPT !.bulk = b] \in Variants(results[j])
    BY <2>1, VariantIs DEF IsFinding
  <2>3. InclusiveAlternative(fs[j]) \in Nat  BY <2>2, InclusiveIsThere
  <2>. QED  BY <2>1, <2>2, <2>3 DEF mark_bulk
<1>4. g \in MarkedVariants(results)
  <2>1. DOMAIN g = 1 .. n  BY <1>2
  <2>2. ASSUME NEW j \in 1 .. n PROVE g[j] \in Variants(results[j])
    <3>1. g[j] = IF j = i THEN mark_bulk(fs[j], InclusiveAlternative(fs[j])) ELSE fs[j]
      BY <1>2
    <3>. QED  BY <3>1, <1>2, <1>3
  <2>3. \A j \in 1 .. n : g[j] \in U  BY <2>2
  <2>4. g = [j \in 1 .. n |-> g[j]]  BY <1>2
  <2>. HIDE DEF g
  <2>5. g \in [1 .. n -> U]  BY <2>3, <2>4
  <2>. QED  BY <2>2, <2>5 DEF MarkedVariants
<1>5. Marked(fs, i, text, lang, words) = g \/ Marked(fs, i, text, lang, words) = fs
  BY DEF Marked
<1>. QED  BY <1>4, <1>5

LEMMA VariantsAreFindings ==
  ASSUME NEW results, AreFindings(results)
  PROVE  /\ results \in MarkedVariants(results)
         /\ \A fs \in MarkedVariants(results) : AreFindings(fs) /\ Len(fs) = Len(results)
<1>. DEFINE n == Len(results)
            U == UNION {Variants(results[j]) : j \in 1 .. n}
<1>1. n \in Nat /\ DOMAIN results = 1 .. n /\ IsList(results)  BY ListLen DEF AreFindings
<1>2. \A j \in 1 .. n : IsFinding(results[j])  BY <1>1 DEF AreFindings
<1>3. results \in MarkedVariants(results)
  <2>1. \A j \in 1 .. n : results[j] \in Variants(results[j])  BY DEF Variants
  <2>2. \A j \in 1 .. n : results[j] \in U  BY <2>1
  <2>. HIDE DEF U
  <2>3. results \in Seq(U)  BY <1>1, <2>2, ListIn
  <2>4. results \in [1 .. n -> U]  BY <2>3, LenProperties
  <2>. QED  BY <2>1, <2>4 DEF MarkedVariants, U
<1>4. ASSUME NEW fs \in MarkedVariants(results) PROVE AreFindings(fs) /\ Len(fs) = n
  <2>1. fs = [j \in 1 .. n |-> fs[j]] /\ \A j \in 1 .. n : fs[j] \in Variants(results[j])
    BY DEF MarkedVariants
  <2>2. \A j \in 1 .. n : IsFinding(fs[j])  BY <1>2, <2>1, VariantIs
  <2>. QED  BY <1>1, <2>1, <2>2, MadeFindings
<1>. QED  BY <1>3, <1>4

LEMMA MarkedAreVariants ==
  ASSUME NEW results, AreFindings(results), NEW text, NEW lang, NEW words
  PROVE  mark_masculines_for_bulk(results, text, lang, words) \in MarkedVariants(results)
<1>1. results \in MarkedVariants(results)  BY VariantsAreFindings
<1>2. \A fs \in MarkedVariants(results) : \A i :
        Marked(fs, i, text, lang, words) \in MarkedVariants(results)
  BY OneMarked
<1>3. IsList(results)  BY DEF AreFindings
<1>. QED  BY <1>1, <1>2, <1>3, MarkedIn

\* What is left of the findings behind the last call to a service.
LEMMA SortedOutFindings ==
  ASSUME NEW lt_results, AreFindings(lt_results), NEW results, AreFindings(results),
         NEW sentences, NEW genuine, NEW text, NEW lang, NEW config
  PROVE  AreFindings(SortedOut(lt_results, results, sentences, genuine, text, lang, config))
<1>. DEFINE there == {i \in DOMAIN results : /\ LooksAt(results[i], sentences)
                                             /\ SentenceOf(results[i], sentences) \notin genuine}
            left == context_false_positives(results, sentences, genuine)
            wanted == apply_false_positives(lt_results \o left, config)
<1>1. left = KeptAt(results, (1 .. Len(results)) \ there)
  BY RemovedIsKept DEF context_false_positives, AreFindings
<1>. HIDE DEF there
<1>2. AreFindings(left)  BY <1>1, KeptFindings
<1>. HIDE DEF left
<1>3. AreFindings(lt_results \o left)  BY <1>2, JoinedFindings
<1>4. AreFindings(wanted)  BY <1>3, KeptFindings DEF apply_false_positives
<1>5. SortedOut(lt_results, results, sentences, genuine, text, lang, config) =
        IF bulk_actions(lang, config) = {} THEN wanted
        ELSE mark_masculines_for_bulk(wanted, text, lang, InklusivumWords(wanted, lang))
  BY DEF SortedOut, left, wanted
<1>. HIDE DEF wanted
<1>6. AreFindings(mark_masculines_for_bulk(wanted, text, lang, InklusivumWords(wanted, lang)))
  BY <1>4, MarkedAreVariants, VariantsAreFindings
<1>. QED  BY <1>4, <1>5, <1>6

-----------------------------------------------------------------------------
\* What LanguageTool finds.

LEMMA FromUtf16In ==
  ASSUME NEW text, IsList(text), NEW index \in Nat
  PROVE  from_utf16(utf16_offsets(text), index) \in Nat
<1>. DEFINE offsets == utf16_offsets(text)
<1>1. DOMAIN offsets = 0 .. Len(text)  BY OffsetsAre
<1>. HIDE DEF offsets
<1>2. CASE \E i \in DOMAIN offsets : offsets[i] = index
  <2>1. (CHOOSE i \in DOMAIN offsets : offsets[i] = index) \in DOMAIN offsets  BY <1>2
  <2>2. Len(text) \in Nat  BY ListLen
  <2>. QED  BY <1>1, <1>2, <2>1, <2>2 DEF from_utf16, offsets
<1>3. CASE ~\E i \in DOMAIN offsets : offsets[i] = index
  BY <1>3 DEF from_utf16, offsets
<1>. QED  BY <1>2, <1>3

LEMMA UnitsIn ==
  ASSUME NEW text, NEW index \in Nat
  PROVE  UnitsBefore(text, index) \in Nat /\ UnitsBefore(text, index) >= index
<1>1. CountUpTo(text, index, Wide) \in Nat  BY CountIs
<1>. QED  BY <1>1 DEF UnitsBefore

\* One character more counts one more or none.
LEMMA CountMore ==
  ASSUME NEW text, NEW index \in Nat, NEW characters
  PROVE  CountUpTo(text, index + 1, characters) =
           CountUpTo(text, index, characters) + IF text[index + 1] \in characters THEN 1 ELSE 0
<1>. DEFINE C == {i \in 1 .. index : text[i] \in characters}
            D == {i \in 1 .. index + 1 : text[i] \in characters}
<1>1. IsFiniteSet(1 .. index)  BY FS_Interval
<1>2. C \subseteq 1 .. index  OBVIOUS
<1>3. D = IF text[index + 1] \in characters THEN C \union {index + 1} ELSE C  OBVIOUS
<1>4. index + 1 \notin C  OBVIOUS
<1>. HIDE DEF C
<1>5. IsFiniteSet(C)  BY <1>1, <1>2, FS_Subset
<1>6. Cardinality(C \union {index + 1}) = Cardinality(C) + 1  BY <1>4, <1>5, FS_AddElement
<1>7. Cardinality(C) \in Nat  BY <1>5, FS_CardinalityType
<1>. HIDE DEF D
<1>8. Cardinality(D) = Cardinality(C) + IF text[index + 1] \in characters THEN 1 ELSE 0
  BY <1>3, <1>6, <1>7
<1>. QED  BY <1>8 DEF CountUpTo, C, D

\* In a text without any that counts twice, none counts twice up to anywhere.
LEMMA CountNone ==
  ASSUME NEW text, NEW n \in Nat, NEW characters, CountUpTo(text, n, characters) = 0
  PROVE  \A i \in 1 .. n : text[i] \notin characters
<1>. DEFINE C == {i \in 1 .. n : text[i] \in characters}
<1>1. IsFiniteSet(1 .. n)  BY FS_Interval
<1>2. C \subseteq 1 .. n  OBVIOUS
<1>3. Cardinality(C) = 0  BY DEF CountUpTo
<1>. HIDE DEF C
<1>4. IsFiniteSet(C)  BY <1>1, <1>2, FS_Subset
<1>5. C = {}  BY <1>3, <1>4, FS_EmptySet
<1>. QED  BY <1>5 DEF C

LEMMA NoneCounts ==
  ASSUME NEW text, NEW n \in Nat, NEW characters, \A i \in 1 .. n : text[i] \notin characters
  PROVE  CountUpTo(text, n, characters) = 0
<1>. DEFINE C == {i \in 1 .. n : text[i] \in characters}
<1>1. C = {}  OBVIOUS
<1>. HIDE DEF C
<1>2. Cardinality(C) = 0  BY <1>1, FS_EmptySet
<1>. QED  BY <1>2 DEF CountUpTo, C

\* Where nothing counts twice, positions are characters.
LEMMA PlainOffsets ==
  ASSUME NEW text, IsList(text), \A i \in 1 .. Len(text) : text[i] \notin CountedTwice
  PROVE  \A i \in 0 .. Len(text) : /\ utf16_offsets(text)[i] = i /\ UnitsBefore(text, i) = i
                                   /\ from_utf16(utf16_offsets(text), i) = i
<1>1. Len(text) \in Nat  BY ListLen
<1>2. ASSUME NEW i \in 0 .. Len(text)
      PROVE  utf16_offsets(text)[i] = i /\ UnitsBefore(text, i) = i
  <2>1. i \in Nat /\ \A k \in 1 .. i : text[k] \notin CountedTwice /\ text[k] \notin Wide
    BY <1>1 DEF CountedTwice
  <2>2. CountUpTo(text, i, CountedTwice) = 0  BY <2>1, NoneCounts
  <2>3. CountUpTo(text, i, Wide) = 0  BY <2>1, NoneCounts
  <2>4. utf16_offsets(text)[i] = i + CountUpTo(text, i, CountedTwice)  BY OffsetsAre
  <2>. QED  BY <2>1, <2>2, <2>3, <2>4 DEF UnitsBefore
<1>3. ASSUME NEW i \in 0 .. Len(text) PROVE from_utf16(utf16_offsets(text), i) = i
  <2>. DEFINE offsets == utf16_offsets(text)
              c == CHOOSE k \in DOMAIN offsets : offsets[k] = i
  <2>1. DOMAIN offsets = 0 .. Len(text) /\ \A k \in DOMAIN offsets : offsets[k] = k
    BY <1>2, OffsetsAre
  <2>. HIDE DEF offsets
  <2>2. \E k \in DOMAIN offsets : offsets[k] = i  BY <2>1
  <2>3. c \in DOMAIN offsets /\ offsets[c] = i  BY <2>2
  <2>4. c = i  BY <2>1, <2>3
  <2>. QED  BY <2>2, <2>4 DEF from_utf16, offsets
<1>. QED  BY <1>2, <1>3

\* A match is about a character of the text, and what a server calls its offset is what that
\* counts before it.
IsMatch(match, text) ==
  /\ match.defect \in Defects
  /\ \E i \in 1 .. Len(text) :
       /\ match.offset = UnitsBefore(text, i - 1)
       /\ match.length = UnitsBefore(text, i) - UnitsBefore(text, i - 1)
       /\ match.defect.word = text[i]

LEMMA ServerMatchesAre ==
  ASSUME NEW text, IsList(text), NEW lang, NEW payload
  PROVE  /\ IsList(ServerMatches(text, lang, payload))
         /\ \A k \in DOMAIN ServerMatches(text, lang, payload) :
              IsMatch(ServerMatches(text, lang, payload)[k], text)
<1>. DEFINE Of(i) == {d \in Defects : d.lang = lang /\ d.word = text[i] /\ Applies(d, payload)}
            M(i, defect) ==
              [offset |-> UnitsBefore(text, i - 1), defect |-> defect,
               length |-> UnitsBefore(text, i) - UnitsBefore(text, i - 1)]
            At(i) == LET found == SetToSeq(Of(i)) IN [k \in DOMAIN found |-> M(i, found[k])]
            all == [i \in DOMAIN text |-> At(i)]
<1>1. Len(text) \in Nat /\ DOMAIN text = 1 .. Len(text)  BY ListLen
<1>2. ServerMatches(text, lang, payload) = FlattenSeq(all)  BY DEF ServerMatches
<1>3. ASSUME NEW i \in 1 .. Len(text)
      PROVE  IsList(At(i)) /\ \A k \in DOMAIN At(i) : IsMatch(At(i)[k], text)
  <2>. DEFINE found == SetToSeq(Of(i))
              f == [k \in DOMAIN found |-> M(i, found[k])]
  <2>1. Of(i) \subseteq Defects /\ \A d \in Of(i) : d.word = text[i]  OBVIOUS
  <2>2. IsFiniteSet(Of(i))  BY <2>1, LanguageToolAssumption, FS_Subset
  <2>. HIDE DEF Of
  <2>3. IsList(found) /\ \A k \in DOMAIN found : found[k] \in Of(i)  BY <2>2, SetListed
  <2>. HIDE DEF found
  <2>4. Len(found) \in Nat /\ DOMAIN found = 1 .. Len(found)  BY <2>3, ListLen
  <2>5. f \in [1 .. Len(found) -> {f[k] : k \in 1 .. Len(found)}]  BY <2>4
  <2>6. ASSUME NEW k \in 1 .. Len(found) PROVE IsMatch(f[k], text)
    <3>1. f[k] = M(i, found[k]) /\ found[k] \in Defects /\ found[k].word = text[i]
      BY <2>1, <2>3, <2>4
    <3>2. /\ f[k].offset = UnitsBefore(text, i - 1) /\ f[k].defect = found[k]
          /\ f[k].length = UnitsBefore(text, i) - UnitsBefore(text, i - 1)
      BY <3>1
    <3>. QED  BY <3>1, <3>2 DEF IsMatch
  <2>. HIDE DEF f
  <2>7. IsList(f) /\ DOMAIN f = 1 .. Len(found)  BY <2>4, <2>5, Listed
  <2>8. IsList(f) /\ \A k \in DOMAIN f : IsMatch(f[k], text)  BY <2>6, <2>7
  <2>. QED  BY <2>8 DEF f, found
<1>. HIDE DEF At
<1>4. all \in [1 .. Len(text) -> {all[i] : i \in 1 .. Len(text)}] 
      /\ \A i \in 1 .. Len(text) : all[i] = At(i)
  BY <1>1
<1>. HIDE DEF all
<1>5. IsList(all) /\ Len(all) = Len(text) /\ \A i \in 1 .. Len(all) : IsList(all[i])
  BY <1>1, <1>3, <1>4, Listed
<1>6. IsList(FlattenSeq(all)) /\ StandIn(FlattenSeq(all), all, Len(all))
  BY <1>5, FlattenedFrom
<1>7. ASSUME NEW k \in DOMAIN FlattenSeq(all) PROVE IsMatch(FlattenSeq(all)[k], text)
  <2>1. PICK m \in 1 .. Len(all) : \E j \in DOMAIN all[m] : FlattenSeq(all)[k] = all[m][j]
    BY <1>6 DEF StandIn
  <2>2. all[m] = At(m) /\ m \in 1 .. Len(text)  BY <1>4, <1>5
  <2>. QED  BY <1>3, <2>1, <2>2
<1>. QED  BY <1>2, <1>6, <1>7

LEMMA ReportedAreMatches ==
  ASSUME NEW text, IsList(text), NEW locale, NEW lang, NEW config
  PROVE  /\ IsList(ReportedMatches(text, locale, lang, config))
         /\ \A k \in DOMAIN ReportedMatches(text, locale, lang, config) :
              IsMatch(ReportedMatches(text, locale, lang, config)[k], text)
<1>. DEFINE matches == ServerMatches(text, lang, Payload(locale, lang, config))
            keys == {i \in DOMAIN matches : IsReported(matches[i], text, lang, config)}
<1>1. IsList(matches) /\ \A k \in DOMAIN matches : IsMatch(matches[k], text)
  BY ServerMatchesAre
<1>2. ReportedMatches(text, locale, lang, config) = KeptAt(matches, keys)
  BY DEF ReportedMatches
<1>. HIDE DEF matches
<1>3. Len(matches) \in Nat /\ DOMAIN matches = 1 .. Len(matches)  BY <1>1, ListLen
<1>. HIDE DEF keys
<1>4. /\ IsList(KeptAt(matches, keys))
      /\ \A i \in DOMAIN KeptAt(matches, keys) :
           \E k \in keys \intersect (1 .. Len(matches)) : KeptAt(matches, keys)[i] = matches[k]
  BY <1>3, KeptAtFrom
<1>. QED  BY <1>1, <1>2, <1>3, <1>4

\* The span of a match: positions, and characters of the text where it has a result.
LEMMA SpanIn ==
  ASSUME NEW text, IsList(text), NEW match, IsMatch(match, text)
  PROVE  /\ CharacterSpan(text, match)[1] \in Nat /\ CharacterSpan(text, match)[2] \in Nat
         /\ MatchHasResult(match, text) /\ CharacterSpan(text, match)[2] <= Len(text) =>
              CharacterSpan(text, match)[1] <= Len(text)
<1>1. PICK i \in 1 .. Len(text) :
        /\ match.offset = UnitsBefore(text, i - 1)
        /\ match.length = UnitsBefore(text, i) - UnitsBefore(text, i - 1)
  BY DEF IsMatch
<1>2. Len(text) \in Nat /\ i - 1 \in 0 .. Len(text) /\ i \in Nat /\ i - 1 \in Nat  BY ListLen
<1>3. /\ UnitsBefore(text, i - 1) \in Nat /\ UnitsBefore(text, i) \in Nat
  BY <1>2, UnitsIn
<1>4. match.offset \in Nat /\ match.offset + match.length \in Nat  BY <1>1, <1>3
<1>5. /\ CharacterSpan(text, match)[1] = from_utf16(utf16_offsets(text), match.offset)
      /\ CharacterSpan(text, match)[2] =
           from_utf16(utf16_offsets(text), match.offset + match.length)
  BY DEF CharacterSpan
<1>6. CharacterSpan(text, match)[1] \in Nat /\ CharacterSpan(text, match)[2] \in Nat
  BY <1>4, <1>5, FromUtf16In
<1>7. ASSUME MatchHasResult(match, text), CharacterSpan(text, match)[2] <= Len(text)
      PROVE  CharacterSpan(text, match)[1] <= Len(text)
  <2>1. CASE CountUpTo(text, Len(text), CountedTwice) = 0
    <3>1. \A k \in 1 .. Len(text) : text[k] \notin CountedTwice  BY <1>2, <2>1, CountNone
    <3>2. /\ UnitsBefore(text, i - 1) = i - 1
          /\ from_utf16(utf16_offsets(text), i - 1) = i - 1
      BY <1>2, <3>1, PlainOffsets
    <3>. QED  BY <1>1, <1>2, <1>5, <3>2
  <2>2. CASE CountUpTo(text, Len(text), CountedTwice) # 0
    BY <1>7, <2>2 DEF MatchHasResult, HasResult
  <2>. QED  BY <2>1, <2>2
<1>. QED  BY <1>6, <1>7

LEMMA ReplacementsAre ==
  ASSUME NEW defect \in Defects
  PROVE  AreAlternatives(fetch_alternatives(defect))
<1>. DEFINE given == defect.replacements
            f == fetch_alternatives(defect)
<1>1. IsList(given) /\ \A i \in DOMAIN given : IsList(given[i])  BY LanguageToolAssumption
<1>2. Len(given) \in Nat /\ DOMAIN given = 1 .. Len(given)  BY <1>1, ListLen
<1>3. ASSUME NEW i \in 1 .. Len(given) PROVE IsAlternative(f[i])
  <2>. DEFINE lemma == IF given[i] = <<>> THEN <<"-">> ELSE given[i]
  <2>1. f[i] = [lemma |-> lemma, remove |-> FALSE, role |-> Nothing]
    BY <1>2 DEF fetch_alternatives
  <2>2. IsList(lemma)  BY <1>1, <1>2, OneIn
  <2>. HIDE DEF lemma
  <2>. QED  BY <2>1, <2>2 DEF IsAlternative
<1>4. f \in [1 .. Len(given) -> {f[i] : i \in 1 .. Len(given)}]  BY <1>2 DEF fetch_alternatives
<1>. HIDE DEF f
<1>5. IsList(f) /\ DOMAIN f = 1 .. Len(given)  BY <1>2, <1>4, Listed
<1>. QED  BY <1>3, <1>5 DEF AreAlternatives, f

LEMMA LanguageToolFindings ==
  ASSUME NEW text, IsList(text), NEW lang, NEW config, IsConfig(config),
         NEW matches, IsList(matches), \A k \in DOMAIN matches : IsMatch(matches[k], text),
         AllHaveResults(matches, text)
  PROVE  /\ AreFindings(languagetool_matches(matches, text, lang, config))
         /\ Len(languagetool_matches(matches, text, lang, config)) = Len(matches)
<1>. DEFINE f == languagetool_matches(matches, text, lang, config)
<1>1. Len(matches) \in Nat /\ DOMAIN matches = 1 .. Len(matches)  BY ListLen
<1>2. /\ f = [k \in 1 .. Len(matches) |-> f[k]]
      /\ \A k \in 1 .. Len(matches) : f[k] = MatchResult(matches[k], text, lang, config)
  BY <1>1 DEF languagetool_matches
<1>3. ASSUME NEW k \in 1 .. Len(matches) PROVE IsFinding(f[k])
  <2>. DEFINE m == matches[k]
              rule == AsRule(m, text)
              start == CharacterSpan(text, m)[1]
              end == CharacterSpan(text, m)[2]
  <2>1. IsMatch(m, text) /\ MatchHasResult(m, text)  BY <1>1 DEF AllHaveResults
  <2>. HIDE DEF m
  <2>2. start \in Nat /\ end \in Nat /\ (end <= Len(text) => start <= Len(text))
    BY <2>1, SpanIn
  <2>3. rule.alternatives = fetch_alternatives(m.defect)  BY DEF AsRule
  <2>4. AreAlternatives(rule.alternatives)  BY <2>1, <2>3, ReplacementsAre DEF IsMatch
  <2>5. f[k] = Result(rule, text, start, end, lang, config)  BY <1>2 DEF MatchResult, m
  <2>. HIDE DEF f, rule, start, end
  <2>. QED  BY <2>2, <2>4, <2>5, ResultIsFinding
<1>. HIDE DEF f
<1>. QED  BY <1>1, <1>2, <1>3, MadeFindings DEF f

LEMMA ShiftedFindings ==
  ASSUME NEW findings, AreFindings(findings), NEW shift \in Nat
  PROVE  AreFindings(Shifted(findings, shift)) /\ Len(Shifted(findings, shift)) = Len(findings)
<1>. DEFINE f == Shifted(findings, shift)
            n == Len(findings)
<1>1. n \in Nat /\ DOMAIN findings = 1 .. n  BY ListLen DEF AreFindings
<1>2. /\ f = [i \in 1 .. n |-> f[i]]
      /\ \A i \in 1 .. n : f[i] = [findings[i] EXCEPT !.start = @ + shift, !.end = @ + shift]
  BY <1>1 DEF Shifted
<1>3. ASSUME NEW i \in 1 .. n PROVE IsFinding(f[i])
  <2>. DEFINE g == findings[i]
  <2>1. IsFinding(g)  BY <1>1 DEF AreFindings
  <2>2. f[i] = [g EXCEPT !.start = @ + shift, !.end = @ + shift]  BY <1>2
  <2>. HIDE DEF f, g
  <2>3. DOMAIN f[i] = DOMAIN g  BY <2>2
  <2>4. /\ f[i].start = g.start + shift /\ f[i].end = g.end + shift
        /\ f[i].text = g.text /\ f[i].alternatives = g.alternatives
    BY <2>1, <2>2 DEF IsFinding, FindingFields
  <2>. QED  BY <2>1, <2>3, <2>4 DEF IsFinding
<1>. HIDE DEF f
<1>. QED  BY <1>1, <1>2, <1>3, MadeFindings DEF f

-----------------------------------------------------------------------------
\* Texts, and parts of them.

LEMMA ListsMapped ==
  ASSUME NEW n \in Nat, NEW f, f = [i \in 1 .. n |-> f[i]]
  PROVE  IsList(f) /\ Len(f) = n /\ DOMAIN f = 1 .. n
<1>1. f \in [1 .. n -> {f[i] : i \in 1 .. n}]  OBVIOUS
<1>. QED  BY <1>1, Listed

LEMMA CutsIn ==
  ASSUME NEW window, IsList(window)
  PROVE  SentenceCut(window) \in 0 .. Len(window) /\ BlankCut(window) \in 0 .. Len(window)
<1>. DEFINE Ends(i) == window[i] \in Newlines
                         \/ (i > 1 /\ window[i - 1] \in SentenceMarks /\ window[i] = Blank)
            S == {0} \union {i \in DOMAIN window : Ends(i)}
            B == {0} \union {i \in DOMAIN window : window[i] = Blank}
<1>1. Len(window) \in Nat /\ DOMAIN window = 1 .. Len(window)  BY ListLen
<1>2. S \in SUBSET (0 .. Len(window)) /\ S # {} /\ B \in SUBSET (0 .. Len(window)) /\ B # {}
  BY <1>1
<1>3. SentenceCut(window) = Max(S) /\ BlankCut(window) = Max(B)
  BY DEF SentenceCut, BlankCut
<1>. HIDE DEF S, B
<1>4. Max(S) \in S  BY <1>1, <1>2, MaxIn
<1>5. Max(B) \in B  BY <1>1, <1>2, MaxIn
<1>. QED  BY <1>2, <1>3, <1>4, <1>5

LEMMA CutBehind ==
  ASSUME NEW s, IsList(s), NEW start \in Nat, NEW n \in start .. Len(s)
  PROVE  /\ IsList(SubSeq(s, start + 1, n)) /\ Len(SubSeq(s, start + 1, n)) = n - start
         /\ \A i \in 1 .. n - start : SubSeq(s, start + 1, n)[i] = s[start + i]
<1>. DEFINE m == start + 1
<1>1. m \in Nat \ {0} /\ n \in 0 .. Len(s) /\ Len(s) \in Nat  BY ListLen
<1>2. \A i \in 1 .. n - start : m + i - 1 = start + i  BY <1>1
<1>3. (IF m <= n THEN n - m + 1 ELSE 0) = n - start  BY <1>1
<1>. HIDE DEF m
<1>4. IsList(SubSeq(s, m, n))  BY <1>1, Cutout
<1>5. Len(SubSeq(s, m, n)) = IF m <= n THEN n - m + 1 ELSE 0  BY <1>1, Cutout
<1>6. \A i \in 1 .. Len(SubSeq(s, m, n)) : SubSeq(s, m, n)[i] = s[m + i - 1]
  BY <1>1, Cutout
<1>7. /\ IsList(SubSeq(s, m, n)) /\ Len(SubSeq(s, m, n)) = n - start
      /\ \A i \in 1 .. n - start : SubSeq(s, m, n)[i] = s[start + i]
  BY <1>2, <1>3, <1>4, <1>5, <1>6
<1>. QED  BY <1>7 DEF m

\* A part is cut at something, and within the window.
LEMMA CutIn ==
  ASSUME NEW window, IsList(window), NEW size \in Nat \ {0}, Len(window) = size
  PROVE  Cut(window, size) \in 1 .. size
<1>1. SentenceCut(window) \in 0 .. size /\ BlankCut(window) \in 0 .. size  BY CutsIn
<1>2. size \div 2 \in Nat  OBVIOUS
<1>. QED  BY <1>1, <1>2 DEF Cut

LEMMA PartIs ==
  ASSUME NEW answer, IsList(answer), NEW start \in 0 .. Len(answer)
  PROVE  /\ IsList(Part(answer, start)) /\ Len(Part(answer, start)) \in 0 .. Len(answer) - start
         /\ start < Len(answer) => Len(Part(answer, start)) >= 1
         /\ \A i \in 1 .. Len(Part(answer, start)) : Part(answer, start)[i] = answer[start + i]
<1>1. Len(answer) \in Nat /\ start + 1 \in Nat \ {0} /\ start \in Nat  BY ListLen
<1>2. text_max_length \in Nat \ {0}  BY GuardrailAssumption
<1>3. CASE Len(answer) - start > text_max_length
  <2>. DEFINE window == Slice(answer, start, start + text_max_length)
              cut == Cut(window, text_max_length)
  <2>1. IsList(window) /\ Len(window) = text_max_length
    <3>. DEFINE to == start + text_max_length
    <3>1. to \in Nat /\ to <= Len(answer) /\ start <= to /\ to - start = text_max_length
      BY <1>1, <1>2, <1>3
    <3>. HIDE DEF to
    <3>2. IsList(Slice(answer, start, to))  BY <1>1, <3>1, Sliced
    <3>3. Len(Slice(answer, start, to)) = to - start  BY <1>1, <3>1, Sliced
    <3>. QED  BY <3>1, <3>2, <3>3 DEF to
  <2>. HIDE DEF window
  <2>2. cut \in 1 .. text_max_length  BY <1>2, <2>1, CutIn
  <2>. HIDE DEF cut
  <2>3. Part(answer, start) = SubSeq(answer, start + 1, start + cut)
    BY <1>3 DEF Part, window, cut
  <2>4. start + cut \in start .. Len(answer)  BY <1>1, <1>2, <1>3, <2>2
  <2>5. /\ IsList(Part(answer, start)) /\ Len(Part(answer, start)) = cut
        /\ \A i \in 1 .. cut : Part(answer, start)[i] = answer[start + i]
    <3>. DEFINE n == start + cut
    <3>1. n \in start .. Len(answer) /\ n - start = cut  BY <1>1, <1>2, <2>2, <2>4
    <3>2. Part(answer, start) = SubSeq(answer, start + 1, n)  BY <2>3
    <3>. HIDE DEF n
    <3>. QED  BY <1>1, <3>1, <3>2, CutBehind
  <2>. QED  BY <1>1, <1>2, <2>2, <2>4, <2>5
<1>4. CASE ~(Len(answer) - start > text_max_length)
  <2>1. Part(answer, start) = SubSeq(answer, start + 1, Len(answer))  BY <1>4 DEF Part
  <2>. DEFINE n == Len(answer)
  <2>2. n \in start .. Len(answer)  BY <1>1
  <2>. HIDE DEF n
  <2>3. /\ IsList(SubSeq(answer, start + 1, n)) /\ Len(SubSeq(answer, start + 1, n)) = n - start
        /\ \A i \in 1 .. n - start : SubSeq(answer, start + 1, n)[i] = answer[start + i]
    BY <1>1, <2>2, CutBehind
  <2>. QED  BY <1>1, <2>1, <2>3 DEF n
<1>. QED  BY <1>3, <1>4

LEMMA FetchedText ==
  ASSUME NEW text, IsList(text)
  PROVE  /\ IsList(fetch_text(text)) /\ Len(fetch_text(text)) \in 0 .. Len(text)
         /\ \A i \in 1 .. Len(fetch_text(text)) : fetch_text(text)[i] = text[i]
<1>. DEFINE cut == Slice(text, 0, text_max_length)
<1>1. Len(text) \in Nat /\ text_max_length \in Nat  BY ListLen, GuardrailAssumption
<1>2. /\ IsList(cut) /\ Len(cut) \in 0 .. Len(text)
      /\ \A i \in 1 .. Len(cut) : cut[i] = text[0 + i]
  BY <1>1, Sliced
<1>3. CASE Len(text) <= text_max_length
  <2>1. fetch_text(text) = text  BY <1>3 DEF fetch_text
  <2>. QED  BY <1>1, <2>1
<1>4. CASE ~(Len(text) <= text_max_length)
  <2>1. fetch_text(text) = IF BlankCut(cut) > 0 THEN SubSeq(cut, 1, BlankCut(cut) - 1) ELSE cut
    BY <1>4 DEF fetch_text
  <2>. HIDE DEF cut
  <2>2. CASE BlankCut(cut) > 0
    <3>. DEFINE b == BlankCut(cut) - 1
    <3>1. b \in 0 .. Len(cut)  BY <1>1, <1>2, <2>2, CutsIn
    <3>2. fetch_text(text) = SubSeq(cut, 1, b)  BY <2>1, <2>2
    <3>. HIDE DEF b
    <3>3. /\ IsList(SubSeq(cut, 1, b))
          /\ Len(SubSeq(cut, 1, b)) = IF 1 <= b THEN b - 1 + 1 ELSE 0
          /\ \A i \in 1 .. Len(SubSeq(cut, 1, b)) : SubSeq(cut, 1, b)[i] = cut[1 + i - 1]
      BY <1>2, <3>1, Cutout
    <3>4. Len(SubSeq(cut, 1, b)) = b  BY <3>1, <3>3
    <3>5. \A i \in 1 .. b : i \in 1 .. Len(cut) /\ 1 + i - 1 = i /\ 0 + i = i  BY <1>2, <3>1
    <3>. QED  BY <1>1, <1>2, <3>1, <3>2, <3>3, <3>4, <3>5
  <2>3. CASE ~(BlankCut(cut) > 0)
    <3>1. fetch_text(text) = cut  BY <2>1, <2>3
    <3>. QED  BY <1>1, <1>2, <3>1
  <2>. QED  BY <2>2, <2>3
<1>. QED  BY <1>3, <1>4

LEMMA WordsCounted ==
  ASSUME NEW text, IsList(text)
  PROVE  WordsIn(text) \in 0 .. Len(text)
<1>. DEFINE W == {i \in DOMAIN text : text[i] \notin Spaces}
<1>1. Len(text) \in Nat /\ DOMAIN text = 1 .. Len(text)  BY ListLen
<1>2. W \subseteq 1 .. Len(text)  BY <1>1
<1>. HIDE DEF W
<1>. DEFINE n == Len(text)
<1>3. IsFiniteSet(1 .. n) /\ Cardinality(1 .. n) = n
  <2>. HIDE DEF n
  <2>1. n \in Nat  BY <1>1 DEF n
  <2>2. IsFiniteSet(1 .. n) /\ Cardinality(1 .. n) = IF 1 > n THEN 0 ELSE n - 1 + 1
    BY <2>1, FS_Interval
  <2>. QED  BY <2>1, <2>2
<1>4. IsFiniteSet(W) /\ Cardinality(W) <= Len(text)  BY <1>2, <1>3, FS_Subset
<1>5. Cardinality(W) \in Nat  BY <1>4, FS_CardinalityType
<1>. QED  BY <1>1, <1>4, <1>5 DEF WordsIn, W

LEMMA NotesIn ==
  ASSUME NEW text, IsList(text), HasNote(text)
  PROVE  LastNote(text) \in 1 .. Len(text) /\ text[LastNote(text)] = Note
<1>. DEFINE N == {i \in DOMAIN text : text[i] = Note}
<1>1. Len(text) \in Nat /\ DOMAIN text = 1 .. Len(text)  BY ListLen
<1>2. N # {} /\ N \in SUBSET (0 .. Len(text))  BY <1>1 DEF HasNote
<1>3. LastNote(text) = Max(N)  BY DEF LastNote
<1>. HIDE DEF N
<1>4. Max(N) \in N  BY <1>1, <1>2, MaxIn
<1>. QED  BY <1>1, <1>3, <1>4 DEF N

LEMMA FirstReviewedIs ==
  ASSUME NEW text, IsList(text)
  PROVE  IsList(FirstReviewed(text))
<1>1. CASE HasNote(text)
  <2>1. LastNote(text) - 1 \in 0 .. Len(text)  BY <1>1, NotesIn, ListLen
  <2>2. IsList(BeforeNote(text))  BY <2>1, Cutout DEF BeforeNote
  <2>. QED  BY <1>1, <2>2 DEF FirstReviewed
<1>2. CASE ~HasNote(text)  BY <1>2 DEF FirstReviewed
<1>. QED  BY <1>1, <1>2

LEMMA JoinedByIs ==
  ASSUME NEW separator, NEW texts, IsList(texts), \A i \in DOMAIN texts : IsList(texts[i])
  PROVE  IsList(JoinedBy(separator, texts))
<1>. DEFINE f == [i \in DOMAIN texts |-> IF i = 1 THEN texts[i] ELSE <<separator>> \o texts[i]]
<1>1. Len(texts) \in Nat /\ DOMAIN texts = 1 .. Len(texts)  BY ListLen
<1>2. f = [i \in 1 .. Len(texts) |-> f[i]]  BY <1>1
<1>3. ASSUME NEW i \in 1 .. Len(texts) PROVE IsList(f[i])
  <2>1. IsList(texts[i]) /\ IsList(<<separator>>)  BY <1>1, OneIn
  <2>2. IsList(<<separator>> \o texts[i])  BY <2>1, Joined
  <2>. QED  BY <1>1, <2>1, <2>2
<1>4. JoinedBy(separator, texts) = FlattenSeq(f)  BY DEF JoinedBy
<1>. HIDE DEF f
<1>5. IsList(f) /\ Len(f) = Len(texts)  BY <1>1, <1>2, ListsMapped
<1>6. IsList(FlattenSeq(f))  BY <1>3, <1>5, FlattenedFrom
<1>. QED  BY <1>4, <1>6

LEMMA IssueListIs ==
  ASSUME NEW findings, AreFindings(findings), NEW explain
  PROVE  IsList(issue_list(findings, explain))
<1>. DEFINE Said(alternative) == IF alternative.remove THEN <<"(remove)">> ELSE alternative.lemma
            Offers(f) == [i \in DOMAIN f.alternatives |-> Said(f.alternatives[i])]
            Offered(f) == JoinedBy("/", Offers(f))
            Why(f) == IF explain /\ f.explained THEN <<"(why)">> ELSE <<>>
            Issue(f) == f.text \o <<"->">> \o Offered(f) \o Why(f)
            issues == KeptAt(findings, WithAlternatives(findings))
            said == [i \in DOMAIN issues |-> Issue(issues[i])]
<1>1. issue_list(findings, explain) = JoinedBy(";", said)  BY DEF issue_list
<1>2. AreFindings(issues)  BY KeptFindings
<1>. HIDE DEF issues
<1>3. ASSUME NEW f, IsFinding(f) PROVE IsList(Issue(f))
  <2>. DEFINE n == Len(f.alternatives)
  <2>1. n \in Nat /\ DOMAIN f.alternatives = 1 .. n
    BY <1>3, ListLen DEF IsFinding, AreAlternatives
  <2>2. ASSUME NEW i \in 1 .. n PROVE IsList(Offers(f)[i])
    <3>1. IsAlternative(f.alternatives[i])  BY <1>3, <2>1 DEF IsFinding, AreAlternatives
    <3>2. IsList(f.alternatives[i].lemma) /\ IsList(<<"(remove)">>)
      BY <3>1, OneIn DEF IsAlternative
    <3>. QED  BY <2>1, <3>2
  <2>3. Offers(f) = [i \in 1 .. n |-> Offers(f)[i]]  BY <2>1
  <2>. HIDE DEF Offers
  <2>4. IsList(Offers(f)) /\ DOMAIN Offers(f) = 1 .. n  BY <2>1, <2>3, ListsMapped
  <2>5. IsList(Offered(f))  BY <2>2, <2>4, JoinedByIs
  <2>6. IsList(f.text) /\ IsList(<<"->">>)  BY <1>3, OneIn DEF IsFinding
  <2>7. IsList(Why(f))  BY OneIn, EmptyList
  <2>. HIDE DEF Offered, Why
  <2>8. IsList(f.text \o <<"->">>)  BY <2>6, Joined
  <2>9. IsList(f.text \o <<"->">> \o Offered(f))  BY <2>5, <2>8, Joined
  <2>. QED  BY <2>7, <2>9, Joined
<1>. HIDE DEF Issue
<1>4. Len(issues) \in Nat /\ DOMAIN issues = 1 .. Len(issues)  BY <1>2, ListLen DEF AreFindings
<1>5. said = [i \in 1 .. Len(issues) |-> said[i]]  BY <1>4
<1>6. \A i \in 1 .. Len(issues) : IsList(said[i])  BY <1>2, <1>3, <1>4 DEF AreFindings
<1>. HIDE DEF said
<1>7. IsList(said) /\ DOMAIN said = 1 .. Len(issues)  BY <1>4, <1>5, ListsMapped
<1>. QED  BY <1>1, <1>6, <1>7, JoinedByIs

\* An annotation is written as long as it was, as what it stands for where it is markup.
LEMMA FlattenedIs ==
  ASSUME NEW a, IsList(a.text), IsList(a.interpret_as)
  PROVE  /\ IsList(Flattened(a)) /\ Len(Flattened(a)) = Len(a.text)
         /\ ~a.markup => Flattened(a) = a.text
         /\ a.markup => \A j \in 1 .. Len(a.text) :
                          Flattened(a)[j] \in Range(a.interpret_as) \union {Blank}
<1>. DEFINE shown == IF Len(a.interpret_as) > Len(a.text) THEN <<>> ELSE a.interpret_as
            n == Len(a.text) - Len(shown)
            both == shown \o Blanks(n)
<1>1. Len(a.text) \in Nat /\ Len(a.interpret_as) \in Nat /\ Len(<<>>) = 0 /\ IsList(<<>>)
  BY ListLen, EmptyList
<1>2. IsList(shown) /\ Len(shown) \in Nat /\ n \in Nat  BY <1>1
<1>3. \A j \in 1 .. Len(shown) : shown[j] \in Range(a.interpret_as)
  <2>1. DOMAIN a.interpret_as = 1 .. Len(a.interpret_as)  BY ListLen
  <2>. QED  BY <1>1, <2>1 DEF Range
<1>4. Flattened(a) = IF ~a.markup THEN a.text ELSE both  BY DEF Flattened
<1>5. Len(shown) + n = Len(a.text)  BY <1>1, <1>2
<1>. HIDE DEF shown, n
<1>. DEFINE blanks == Blanks(n)
<1>6. IsList(blanks) /\ Len(blanks) = n /\ \A j \in 1 .. n : blanks[j] = Blank
  <2>1. blanks = [k \in 1 .. n |-> blanks[k]] /\ \A j \in 1 .. n : blanks[j] = Blank
    BY DEF Blanks
  <2>. HIDE DEF blanks
  <2>. QED  BY <1>2, <2>1, ListsMapped
<1>7. both = shown \o blanks  OBVIOUS
<1>. HIDE DEF blanks, both
<1>8. /\ IsList(both) /\ Len(both) = Len(a.text)
      /\ \A j \in 1 .. Len(shown) : both[j] = shown[j]
      /\ \A j \in 1 .. n : both[Len(shown) + j] = blanks[j]
  <2>1. Len(blanks) \in Nat /\ IsList(blanks)  BY <1>2, <1>6
  <2>2. /\ IsList(shown \o blanks) /\ Len(shown \o blanks) = Len(shown) + Len(blanks)
        /\ \A j \in 1 .. Len(shown) : (shown \o blanks)[j] = shown[j]
        /\ \A j \in 1 .. Len(blanks) : (shown \o blanks)[Len(shown) + j] = blanks[j]
    BY <1>2, <2>1, Joined
  <2>. QED  BY <1>5, <1>6, <1>7, <2>2
<1>9. ASSUME NEW j \in 1 .. Len(a.text) PROVE both[j] \in Range(a.interpret_as) \union {Blank}
  <2>1. CASE j \in 1 .. Len(shown)  BY <1>3, <1>8, <2>1
  <2>2. CASE j \notin 1 .. Len(shown)
    <3>. DEFINE k == j - Len(shown)
    <3>1. k \in 1 .. n /\ j = Len(shown) + k  BY <1>1, <1>2, <1>5, <2>2
    <3>. HIDE DEF k
    <3>. QED  BY <1>6, <1>8, <3>1
  <2>. QED  BY <2>1, <2>2
<1>. QED  BY <1>4, <1>8, <1>9

LEMMA TextOfIs ==
  ASSUME NEW annotations, IsList(annotations),
         \A i \in DOMAIN annotations :
           IsList(annotations[i].text) /\ IsList(annotations[i].interpret_as)
  PROVE  IsList(TextOf(annotations))
<1>. DEFINE f == [i \in DOMAIN annotations |-> Flattened(annotations[i])]
<1>1. Len(annotations) \in Nat /\ DOMAIN annotations = 1 .. Len(annotations)  BY ListLen
<1>2. \A i \in DOMAIN annotations : IsList(Flattened(annotations[i]))  BY FlattenedIs
<1>3. f = [i \in 1 .. Len(annotations) |-> f[i]]  BY <1>1
<1>4. \A i \in 1 .. Len(annotations) : IsList(f[i])  BY <1>1, <1>2
<1>5. TextOf(annotations) = FlattenSeq(f)  BY DEF TextOf
<1>. HIDE DEF f
<1>6. IsList(f) /\ Len(f) = Len(annotations)  BY <1>1, <1>3, ListsMapped
<1>. QED  BY <1>4, <1>5, <1>6, FlattenedFrom

\* What a shift counts.
LEMMA ShiftIs ==
  ASSUME NEW answer, IsList(answer), NEW start \in Nat
  PROVE  Shift(answer, start) \in Nat
<1>. DEFINE before == Slice(answer, 0, start)
<1>1. IsList(before) /\ Len(before) \in Nat  BY Sliced
<1>. HIDE DEF before
<1>2. utf16_offsets(before)[Len(before)] \in Nat  BY <1>1, OffsetsAre
<1>. QED  BY <1>2 DEF Shift, utf16_length, before

-----------------------------------------------------------------------------
\* Languages.

KnownLocales == Locales \union {NoLocale, "en-AU"}

LEMMA DefaultLocaleIn == \A lang : get_default_locale(lang) \in KnownLocales
BY DEF get_default_locale, KnownLocales, Locales, NoLocale

LEMMA VariantIn ==
  ASSUME NEW variants, IsList(variants), NEW lang
  PROVE  VariantFor(lang, variants) \in Range(variants) \union {NoLocale}
<1>. DEFINE I == {i \in 1 .. Len(variants) : LangOf[variants[i]] = lang}
<1>1. Len(variants) \in Nat /\ DOMAIN variants = 1 .. Len(variants)  BY ListLen
<1>2. VariantFor(lang, variants) =
        IF (IF I # {} THEN Min(I) ELSE 0) = 0 THEN NoLocale
        ELSE variants[IF I # {} THEN Min(I) ELSE 0]
  BY DEF VariantFor, FirstOf, SelectInSeq
<1>3. I \subseteq Nat /\ I \subseteq DOMAIN variants /\ 0 \notin I  BY <1>1
<1>. HIDE DEF I
<1>4. I # {} => Min(I) \in I  BY <1>3, MinIn
<1>. QED  BY <1>2, <1>3, <1>4 DEF Range

\* The variant that stands in where LanguageTool's protocol cannot tell.
Guess(variants) == FirstOf(variants, LAMBDA v : v \in Locales, "en-US")

LEMMA GuessIn ==
  ASSUME NEW variants, IsList(variants)
  PROVE  Guess(variants) \in (Range(variants) \intersect Locales) \union {"en-US"}
<1>. DEFINE I == {i \in 1 .. Len(variants) : variants[i] \in Locales}
<1>1. Len(variants) \in Nat /\ DOMAIN variants = 1 .. Len(variants)  BY ListLen
<1>2. Guess(variants) =
        IF (IF I # {} THEN Min(I) ELSE 0) = 0 THEN "en-US"
        ELSE variants[IF I # {} THEN Min(I) ELSE 0]
  BY DEF Guess, FirstOf, SelectInSeq
<1>3. /\ I \subseteq Nat /\ I \subseteq DOMAIN variants /\ 0 \notin I
      /\ \A i \in I : variants[i] \in Locales
  BY <1>1
<1>. HIDE DEF I
<1>4. I # {} => Min(I) \in I  BY <1>3, MinIn
<1>. QED  BY <1>2, <1>3, <1>4 DEF Range

LEMMA LocaleIn ==
  ASSUME NEW r, IsRequest(r), NEW text
  PROVE  LocaleFor(r, text) \in KnownLocales
<1>1. IsList(r.variants) /\ Range(r.variants) \subseteq KnownLocales
  <2>1. IsList(r.variants) /\ \A i \in DOMAIN r.variants : r.variants[i] \in Locales \union {"en-AU"}
    BY DEF IsRequest
  <2>. QED  BY <2>1 DEF Range, KnownLocales
<1>2. NoLocale \in KnownLocales /\ "en-US" \in KnownLocales  BY DEF KnownLocales, Locales
<1>. DEFINE langs == Detected(text)
            locale == get_locale(text, r.lang, r.config.preferred_languages, r.variants)
<1>3. get_locale_by_variant(langs, r.variants) \in KnownLocales
  <2>1. \A lang : VariantFor(lang, r.variants) \in KnownLocales  BY <1>1, <1>2, VariantIn
  <2>. QED  BY <1>2, <2>1 DEF get_locale_by_variant
<1>4. get_locale_by_lang(langs, r.config.preferred_languages) \in KnownLocales
  BY DefaultLocaleIn DEF get_locale_by_lang
<1>5. locale \in KnownLocales
  BY <1>2, <1>3, <1>4, DefaultLocaleIn DEF get_locale, KnownLocales
<1>6. Guess(r.variants) \in KnownLocales  BY <1>1, <1>2, GuessIn
<1>7. LocaleFor(r, text) = IF locale = NoLocale /\ r.route = "lt" /\ r.lang = "auto"
                           THEN Guess(r.variants) ELSE locale
  BY DEF LocaleFor, Guess
<1>. QED  BY <1>5, <1>6, <1>7

-----------------------------------------------------------------------------
\* The inductive invariant.

JobFields ==
  {"stage", "request", "resends", "answer", "spans", "index", "whole", "start", "locale",
   "part", "found", "lt_results", "genuine", "findings", "words", "language", "answers",
   "issues", "down", "form", "format", "response"}

\* What a job is made of, whatever stage it is at.
IsJob(j) ==
  /\ DOMAIN j = JobFields
  /\ j.stage \in Stages /\ j.resends \in 0 .. MaxResends /\ j.locale \in KnownLocales
  /\ IsList(j.answer) /\ j.start \in 0 .. Len(j.answer) /\ j.words \in 0 .. Len(j.answer)
  /\ IsList(j.part)
  /\ AreFindings(j.found) /\ AreFindings(j.lt_results) /\ AreFindings(j.findings)

\* A text of several is reviewed behind those that are answered.
IsAmongTexts(j) ==
  /\ IsList(j.answers) /\ \A i \in DOMAIN j.answers : IsList(j.answers[i])
  /\ IsList(j.issues) /\ \A i \in DOMAIN j.issues : j.issues[i] = Nothing \/ IsList(j.issues[i])
  /\ Len(j.answers) = Len(j.issues)
  /\ j.stage # "idle" =>
       /\ IsRequest(j.request)
       /\ j.request.texts # <<>> => j.index \in DOMAIN j.request.texts
       /\ j.stage \in DOMAIN Rank =>
            \/ j.request.route \in {"check", "lt", "guardrail"}
            \/ j.request.route = "litellm" /\ j.request.texts # <<>>

Looked(answer) == Slice(answer, 0, GUARDRAIL_MAX_LENGTH)

\* Where a job stands in its text: no word of it is counted before it has been read.
IsInText(j) ==
  /\ j.stage = "read" /\ IsGuardrail(j.request) => j.words <= j.start
  /\ j.stage = "sort" /\ IsGuardrail(j.request) =>
       /\ j.start < Len(Looked(j.answer)) /\ j.part = Part(Looked(j.answer), j.start)
       /\ j.words <= j.start + Len(j.part)
  /\ j.stage = "read" /\ ~IsGuardrail(j.request) => j.start = 0 /\ j.words = 0
  /\ j.stage \in {"languagetool", "sort"} /\ ~IsGuardrail(j.request) =>
       j.start = 0 /\ j.part = fetch_text(j.answer)
  /\ j.stage = "languagetool" => ~IsGuardrail(j.request)
  /\ j.stage = "verdict" => IsGuardrail(j.request)

\* What LiteLLM gets back, it may send again.
IsAnswered(j) ==
  j.stage = "done" /\ j.response # Nothing /\ j.response.kind = "texts" =>
    IsList(j.response.texts) /\ \A i \in DOMAIN j.response.texts : IsList(j.response.texts[i])

IsGood(j) == IsJob(j) /\ IsAmongTexts(j) /\ IsInText(j) /\ IsAnswered(j)

\* The fields of k but for some are those of j.
Stays(j, k, changed) == DOMAIN k = JobFields /\ \A f \in JobFields \ changed : k[f] = j[f]

LEMMA RankIs ==
  /\ DOMAIN Rank = {"read", "languagetool", "sort", "verdict"}
  /\ Rank["read"] = 3 /\ Rank["languagetool"] = 2 /\ Rank["sort"] = 1 /\ Rank["verdict"] = 0
BY DEF Rank

-----------------------------------------------------------------------------
\* The beginning.

LEMMA RequestWith ==
  ASSUME NEW r, IsRequest(r)
  PROVE  /\ \A lang : IsRequest([r EXCEPT !.lang = lang])
         /\ \A messages : IsRequest([r EXCEPT !.messages = messages])
         /\ \A texts : IsList(texts) /\ (\A i \in DOMAIN texts : IsList(texts[i])) =>
              IsRequest([r EXCEPT !.texts = texts])
         /\ IsRequest(Reviewed(r)) /\ Reviewed(r).texts = r.texts /\ Reviewed(r).route = r.route
<1>1. ASSUME NEW lang PROVE IsRequest([r EXCEPT !.lang = lang])
  BY SMTT(30) DEF IsRequest
<1>2. ASSUME NEW messages PROVE IsRequest([r EXCEPT !.messages = messages])
  BY SMTT(30) DEF IsRequest
<1>3. ASSUME NEW texts, IsList(texts) /\ (\A i \in DOMAIN texts : IsList(texts[i]))
      PROVE  IsRequest([r EXCEPT !.texts = texts])
  BY <1>3, SMTT(30) DEF IsRequest
<1>4. IsRequest(Reviewed(r)) /\ Reviewed(r).texts = r.texts /\ Reviewed(r).route = r.route
  <2>. DEFINE c == [r.config EXCEPT !.disabled = @ \union Inclusive]
  <2>1. IsConfig(c)  BY DEF IsRequest, IsConfig
  <2>2. Reviewed(r) = [r EXCEPT !.config = c]  BY DEF Reviewed, IsRequest
  <2>. HIDE DEF c
  <2>. QED  BY <2>1, <2>2, SMTT(30) DEF IsRequest
<1>. QED  BY <1>1, <1>2, <1>3, <1>4

\* A job that has only been given its request and its text.
IsFresh(j) ==
  /\ DOMAIN j = JobFields
  /\ j.resends = 0 /\ j.locale = NoLocale /\ j.start = 0 /\ j.words = 0 /\ j.index = 1
  /\ j.part = <<>> /\ j.found = <<>> /\ j.lt_results = <<>> /\ j.findings = <<>>
  /\ j.answers = <<>> /\ j.issues = <<>>

LEMMA NoFindings == AreFindings(<<>>)
BY EmptyList DEF AreFindings

LEMMA FreshIsGood ==
  ASSUME NEW j, IsFresh(j), IsList(j.answer), IsRequest(j.request),
         \/ j.stage = "done" /\ (j.response = Nothing \/ j.response.kind # "texts")
         \/ j.stage = "read" /\ j.request.route \in {"check", "lt", "guardrail"}
         \/ j.stage \in {"read", "verdict"} /\ j.request.route = "litellm"
              /\ j.request.texts # <<>>
  PROVE  IsGood(j)
<1>1. Len(j.answer) \in Nat /\ MaxResends \in Nat  BY ListLen, TextChecksAssumption
<1>2. IsJob(j)
  BY <1>1, NoFindings, EmptyList DEF IsJob, IsFresh, Stages, KnownLocales
<1>3. j.request.texts # <<>> => 1 \in DOMAIN j.request.texts
  <2>1. IsList(j.request.texts)  BY DEF IsRequest
  <2>2. j.request.texts # <<>> => Len(j.request.texts) # 0  BY <2>1, LenZero
  <2>. QED  BY <2>1, <2>2, ListLen
<1>4. IsAmongTexts(j)
  BY <1>3, EmptyList, RankIs DEF IsAmongTexts, IsFresh
<1>5. IsInText(j)
  BY DEF IsInText, IsFresh, IsGuardrail
<1>6. IsAnswered(j)
  BY DEF IsAnswered
<1>. QED  BY <1>2, <1>4, <1>5, <1>6 DEF IsGood

LEMMA IdleIsGood == IsGood(Idle)
<1>1. /\ DOMAIN Idle = JobFields /\ Idle.stage = "idle" /\ Idle.resends = 0
      /\ Idle.locale = NoLocale /\ Idle.answer = <<>> /\ Idle.start = 0 /\ Idle.words = 0
      /\ Idle.part = <<>> /\ Idle.found = <<>> /\ Idle.lt_results = <<>> /\ Idle.findings = <<>>
      /\ Idle.answers = <<>> /\ Idle.issues = <<>>
  BY DEF Idle, JobFields
<1>2. IsJob(Idle)
  BY <1>1, EmptyList, NoFindings, TextChecksAssumption DEF IsJob, Stages, KnownLocales
<1>3. IsAmongTexts(Idle)  BY <1>1, EmptyList DEF IsAmongTexts
<1>4. IsInText(Idle) /\ IsAnswered(Idle)  BY <1>1 DEF IsInText, IsAnswered
<1>. QED  BY <1>2, <1>3, <1>4 DEF IsGood

LEMMA StartedIs ==
  ASSUME NEW r
  PROVE  /\ IsFresh(Started(r)) /\ Started(r).request = r /\ Started(r).answer = <<>>
         /\ Started(r).stage = "idle" /\ Started(r).response = Nothing
BY DEF Started, Idle, IsFresh, JobFields

\* A request that is answered at once.
LEMMA DoneAtOnce ==
  ASSUME NEW r, IsRequest(r), NEW response, response = Nothing \/ response.kind # "texts"
  PROVE  IsGood(Done(Started(r), response)) /\ Done(Started(r), response).request = r
<1>. DEFINE j == Done(Started(r), response)
<1>1. /\ IsFresh(Started(r)) /\ Started(r).request = r /\ Started(r).answer = <<>>
  BY StartedIs
<1>2. /\ IsFresh(j) /\ j.request = r /\ j.answer = <<>> /\ j.stage = "done"
      /\ j.response = response
  BY <1>1 DEF Done, IsFresh, JobFields
<1>. HIDE DEF j
<1>3. IsGood(j)  BY <1>2, FreshIsGood, EmptyList
<1>. QED  BY <1>2, <1>3 DEF j

\* A request whose text is read next.
LEMMA ReadFirst ==
  ASSUME NEW j, IsFresh(j), IsRequest(j.request),
         j.request.route \in {"check", "lt", "guardrail"},
         IsList(j.answer), j.stage = "read"
  PROVE  IsGood(j) /\ j.resends = 0
BY FreshIsGood DEF IsFresh

LEMMA ReviewingFirst ==
  ASSUME NEW r, IsRequest(r), r.route = "litellm", r.texts # <<>>, NEW text, IsList(text),
         NEW whole, NEW j, j = Reviewing(Started(r), 1, text, whole)
  PROVE  IsGood(j) /\ j.request = r /\ j.resends = 0
<1>1. /\ IsFresh(Started(r)) /\ Started(r).request = r
  BY StartedIs
<1>2. /\ IsFresh(j) /\ j.request = r /\ j.answer = text /\ j.stage \in {"read", "verdict"}
  BY <1>1 DEF IsFresh, JobFields, Reviewing
<1>. QED  BY <1>2, FreshIsGood DEF IsFresh

LEMMA OpenedIsGood ==
  ASSUME NEW r, IsRequest(r)
  PROVE  IsGood(Opened(r)) /\ Opened(r).resends = 0
<1>. DEFINE Fine(j) == IsGood(j) /\ j.resends = 0
<1>1. ASSUME NEW response, response = Nothing \/ response.kind # "texts"
      PROVE  Fine(Done(Started(r), response))
  <2>1. IsGood(Done(Started(r), response))  BY <1>1, DoneAtOnce
  <2>2. Done(Started(r), response).resends = 0
    BY StartedIs DEF Done, IsFresh, JobFields
  <2>. QED  BY <2>1, <2>2
<1>2. r.route \in Routes /\ IsList(r.text) /\ IsList(r.annotations)  BY DEF IsRequest
<1>3. CASE r.route = "check"
  <2>1. Opened(r) = OpenedCheck(r)  BY <1>3 DEF Opened
  <2>2. Fine(Done(Started(r), Results(<<>>)))  BY <1>1 DEF Results
  <2>3. Fine([Started(r) EXCEPT !.stage = "read", !.answer = r.text])
    <3>. DEFINE j == [Started(r) EXCEPT !.stage = "read", !.answer = r.text]
    <3>1. IsFresh(j) /\ j.request = r /\ j.answer = r.text /\ j.stage = "read"
      BY StartedIs DEF IsFresh, JobFields
    <3>. HIDE DEF j
    <3>. QED  BY <1>2, <1>3, <3>1, ReadFirst DEF j
  <2>. QED  BY <2>1, <2>2, <2>3 DEF OpenedCheck
<1>4. CASE r.route = "lt"
  <2>. DEFINE data == r.text = <<>> /\ r.annotations # <<>>
              text == IF data THEN TextOf(r.annotations) ELSE r.text
              spans == IF data THEN markup_spans(r.annotations) ELSE {}
              q == [r EXCEPT !.lang = resolve_lang(r.code)]
              j == [Started(r) EXCEPT !.stage = "read", !.request.lang = resolve_lang(r.code),
                                      !.answer = text, !.spans = spans]
  <2>1. Fine(Done(Started(r), Refusal)) /\ Fine(Done(Started(r), Matched(<<>>, <<>>)))
    BY <1>1 DEF Refusal, Matched
  <2>2. IsList(text)
    <3>1. IsList(TextOf(r.annotations))  BY TextOfIs DEF IsRequest
    <3>. QED  BY <1>2, <3>1
  <2>. HIDE DEF text, spans
  <2>3. IsRequest(q) /\ q.route = "lt"
    <3>1. IsRequest(q)  BY RequestWith
    <3>2. q.route = r.route  OBVIOUS
    <3>. QED  BY <1>4, <3>1, <3>2
  <2>4. IsFresh(j) /\ j.request = q /\ j.answer = text /\ j.stage = "read"
    BY StartedIs DEF IsFresh, JobFields
  <2>. HIDE DEF q, j
  <2>5. Fine(j)  BY <2>2, <2>3, <2>4, ReadFirst
  <2>. HIDE DEF Fine
  <2>6. \/ OpenedLt(r) = Done(Started(r), Refusal)
        \/ OpenedLt(r) = Done(Started(r), Matched(<<>>, <<>>))
        \/ OpenedLt(r) = j
    BY DEF OpenedLt, text, spans, j
  <2>7. Opened(r) = OpenedLt(r)  BY <1>4 DEF Opened
  <2>8. Fine(Opened(r))  BY <2>1, <2>5, <2>6, <2>7
  <2>. QED  BY <2>8 DEF Fine
<1>5. CASE r.route = "guardrail"
  <2>. DEFINE q == Reviewed(r)
              j == [Started(q) EXCEPT !.stage = "read", !.answer = r.text]
  <2>1. Fine(Done(Started(r), Refusal))  BY <1>1 DEF Refusal
  <2>2. IsRequest(q) /\ q.route = "guardrail"  BY <1>5, RequestWith
  <2>. HIDE DEF q
  <2>3. IsFresh(j) /\ j.request = q /\ j.answer = r.text /\ j.stage = "read"
    BY StartedIs DEF IsFresh, JobFields
  <2>. HIDE DEF j
  <2>4. Fine(j)  BY <1>2, <2>2, <2>3, ReadFirst
  <2>. HIDE DEF Fine
  <2>5. OpenedGuardrail(r) = Done(Started(r), Refusal) \/ OpenedGuardrail(r) = j
    BY DEF OpenedGuardrail, q, j
  <2>6. Opened(r) = OpenedGuardrail(r)  BY <1>5 DEF Opened
  <2>7. Fine(Opened(r))  BY <2>1, <2>4, <2>5, <2>6
  <2>. QED  BY <2>7 DEF Fine
<1>6. CASE r.route = "input"
  <2>. DEFINE chat == Chat(merge_guidance(r.messages, guidance(r.config, r.lang)))
  <2>1. Fine(Done(Started(r), Refusal))  BY <1>1 DEF Refusal
  <2>2. chat.kind # "texts"  BY DEF Chat
  <2>3. Fine(Done(Started(r), chat))  BY <1>1, <2>2
  <2>4. Opened(r) = OpenedInput(r)  BY <1>6 DEF Opened
  <2>5. OpenedInput(r) = Done(Started(r), Refusal) \/ OpenedInput(r) = Done(Started(r), chat)
    BY DEF OpenedInput
  <2>. QED  BY <2>1, <2>3, <2>4, <2>5
<1>7. CASE r.route = "litellm"
  <2>. DEFINE chat == Chat(with_guidance(r.messages, guidance(r.config, r.lang)))
              q == Reviewed(r)
              text == FirstReviewed(r.texts[1])
              j == Reviewing(Started(q), 1, text, text = r.texts[1])
  <2>1. Fine(Done(Started(r), Refusal))  BY <1>1 DEF Refusal
  <2>2. chat.kind # "texts"  BY DEF Chat
  <2>3. Fine(Done(Started(r), chat))  BY <1>1, <2>2
  <2>4. Opened(r) = OpenedLitellm(r)  BY <1>7 DEF Opened
  <2>5. CASE r.texts = <<>>
    <3>1. OpenedLitellm(r) = Done(Started(r), Refusal) \/ OpenedLitellm(r) = Done(Started(r), chat)
      BY <2>5 DEF OpenedLitellm
    <3>. QED  BY <2>1, <2>3, <2>4, <3>1
  <2>6. CASE r.texts # <<>>
    <3>1. IsRequest(q) /\ q.route = "litellm" /\ q.texts # <<>>  BY <1>7, <2>6, RequestWith
    <3>2. IsList(r.texts[1])
      <4>1. IsList(r.texts) /\ \A i \in DOMAIN r.texts : IsList(r.texts[i])  BY DEF IsRequest
      <4>2. Len(r.texts) # 0  BY <2>6, <4>1, LenZero
      <4>. QED  BY <4>1, <4>2, ListLen
    <3>3. IsList(text)  BY <3>2, FirstReviewedIs
    <3>4. OpenedLitellm(r) = Done(Started(r), Refusal) \/ OpenedLitellm(r) = j
      BY <2>6 DEF OpenedLitellm
    <3>. HIDE DEF q, text
    <3>5. Fine(j)  BY <3>1, <3>3, ReviewingFirst
    <3>. QED  BY <2>1, <2>4, <3>4, <3>5
  <2>. QED  BY <2>5, <2>6
<1>8. CASE r.route = "form"
  <2>. DEFINE d == Done(Started(r), Nothing)
              j == [d EXCEPT !.form = r.form.written, !.format = r.form.format]
  <2>1. Opened(r) = j  BY <1>8 DEF Opened
  <2>2. /\ IsFresh(j) /\ j.request = r /\ j.answer = <<>> /\ j.stage = "done"
        /\ j.response = Nothing
    BY StartedIs DEF IsFresh, JobFields, Done
  <2>3. IsGood(j)  BY <2>2, FreshIsGood, EmptyList
  <2>. QED  BY <2>1, <2>2, <2>3 DEF IsFresh
<1>. QED  BY <1>2, <1>3, <1>4, <1>5, <1>6, <1>7, <1>8 DEF Routes

LEMMA ResentIsGood ==
  ASSUME NEW j, IsGood(j), NEW resends \in 0 .. MaxResends
  PROVE  IsGood([j EXCEPT !.resends = resends])
<1>. DEFINE k == [j EXCEPT !.resends = resends]
<1>1. Stays(j, k, {"resends"}) /\ k.resends = resends
  BY DEF IsGood, IsJob, Stays, JobFields
<1>. HIDE DEF k
<1>2. /\ k.stage = j.stage /\ k.request = j.request /\ k.answer = j.answer /\ k.index = j.index
      /\ k.start = j.start /\ k.locale = j.locale /\ k.part = j.part /\ k.found = j.found
      /\ k.lt_results = j.lt_results /\ k.findings = j.findings /\ k.words = j.words
      /\ k.answers = j.answers /\ k.issues = j.issues /\ k.response = j.response
  BY <1>1 DEF Stays, JobFields
<1>3. IsJob(k)  BY <1>1, <1>2 DEF IsGood, IsJob, Stays
<1>4. IsAmongTexts(k)  BY <1>2 DEF IsGood, IsAmongTexts
<1>5. IsInText(k) /\ IsAnswered(k)  BY <1>2 DEF IsGood, IsInText, IsAnswered
<1>. QED  BY <1>3, <1>4, <1>5 DEF IsGood, k

-----------------------------------------------------------------------------
\* The steps of a handler.

\* j's part is read: it fails, or goes on.
ReadFailed(j, k, part) ==
  /\ Stays(j, k, {"stage", "locale"})
  /\ k.stage = "failed" /\ k.locale = LocaleFor(j.request, part) /\ ~Loaded(k.locale)
  /\ k.locale # NoLocale

ReadOn(j, k, part) ==
  /\ Stays(j, k, {"stage", "locale", "part", "language", "words", "lt_results", "found"})
  /\ k.stage = IF IsGuardrail(j.request) THEN "sort" ELSE "languagetool"
  /\ k.locale = LocaleFor(j.request, part)
  /\ k.part = part /\ k.words = j.words + WordsIn(part) /\ k.lt_results = <<>>
  /\ k.found = witty_rules(part, LangOf[LocaleFor(j.request, part)], j.request.config)

LEMMA ReadGives ==
  ASSUME DOMAIN job = JobFields, NEW part, NEW next
  PROVE  \/ Read(part, next) = next
         \/ ReadFailed(job, Read(part, next), part)
         \/ ReadOn(job, Read(part, next), part)
<1>. DEFINE k == Read(part, next)
            locale == LocaleFor(job.request, part)
            lang == LangOf[locale]
            f == [job EXCEPT !.stage = "failed", !.locale = locale]
            o == [job EXCEPT !.stage = IF IsGuardrail(job.request) THEN "sort" ELSE "languagetool",
                             !.locale = locale, !.part = part,
                             !.language = IF @ = Nothing THEN lang ELSE @,
                             !.words = @ + WordsIn(part), !.lt_results = <<>>,
                             !.found = witty_rules(part, lang, job.request.config)]
<1>1. CASE locale = NoLocale  BY <1>1 DEF Read
<1>2. CASE locale # NoLocale /\ ~Loaded(locale)
  <2>1. k = f  BY <1>2 DEF Read
  <2>2. ReadFailed(job, f, part)
    <3>. HIDE DEF locale
    <3>1. Stays(job, f, {"stage", "locale"}) /\ f.stage = "failed" /\ f.locale = locale
      BY DEF Stays, JobFields
    <3>. HIDE DEF f
    <3>2. locale = LocaleFor(job.request, part)  BY DEF locale
    <3>. QED  BY <1>2, <3>1, <3>2 DEF ReadFailed
  <2>. QED  BY <2>1, <2>2
<1>3. CASE locale # NoLocale /\ Loaded(locale)
  <2>1. k = o  BY <1>3 DEF Read
  <2>2. ReadOn(job, o, part)
    <3>. DEFINE found == witty_rules(part, lang, job.request.config)
    <3>. HIDE DEF locale, found
    <3>1. /\ Stays(job, o, {"stage", "locale", "part", "language", "words", "lt_results", "found"})
          /\ o.stage = IF IsGuardrail(job.request) THEN "sort" ELSE "languagetool"
          /\ o.locale = locale /\ o.part = part /\ o.words = job.words + WordsIn(part)
          /\ o.lt_results = <<>> /\ o.found = found
      BY DEF Stays, JobFields, found
    <3>. HIDE DEF o
    <3>2. locale = LocaleFor(job.request, part)  BY DEF locale
    <3>3. found = witty_rules(part, LangOf[LocaleFor(job.request, part)], job.request.config)
      BY DEF found, locale
    <3>. QED  BY <3>1, <3>2, <3>3 DEF ReadOn
  <2>. QED  BY <2>1, <2>2
<1>. QED  BY <1>1, <1>2, <1>3

\* The fields that none of the steps of a handler changes, but to answer or to go on with
\* another text.
LEMMA ReadIsGood ==
  ASSUME IsGood(job), job.stage = "read", NEW part, IsList(part),
         WordsIn(part) <= Len(part), job.words + Len(part) <= Len(job.answer),
         IF IsGuardrail(job.request)
         THEN job.start < Len(Looked(job.answer)) /\ part = Part(Looked(job.answer), job.start)
         ELSE part = fetch_text(job.answer),
         NEW k, ReadFailed(job, k, part) \/ ReadOn(job, k, part)
  PROVE  IsGood(k)
<1>. DEFINE stays == JobFields \ {"stage", "locale", "part", "language", "words", "lt_results",
                                  "found"}
<1>1. IsRequest(job.request) /\ IsConfig(job.request.config)
  BY DEF IsGood, IsAmongTexts, IsRequest
<1>2. DOMAIN k = JobFields /\ \A f \in stays : k[f] = job[f]
  BY DEF ReadFailed, ReadOn, Stays
<1>3. /\ k.request = job.request /\ k.resends = job.resends /\ k.answer = job.answer
      /\ k.index = job.index /\ k.start = job.start /\ k.findings = job.findings
      /\ k.answers = job.answers /\ k.issues = job.issues /\ k.response = job.response
  BY <1>2 DEF JobFields
<1>4. k.locale \in KnownLocales  BY <1>1, LocaleIn DEF ReadFailed, ReadOn
<1>5. /\ k.part = part \/ k.part = job.part
      /\ k.stage \in {"failed", "sort", "languagetool"}
      /\ AreFindings(k.found) /\ AreFindings(k.lt_results)
      /\ k.words \in 0 .. Len(job.answer)
  <2>1. CASE ReadFailed(job, k, part)
    BY <2>1 DEF ReadFailed, Stays, JobFields, IsGood, IsJob
  <2>2. CASE ReadOn(job, k, part)
    <3>1. AreFindings(k.found)  BY <1>1, <2>2, WittyFindings DEF ReadOn
    <3>2. WordsIn(part) \in Nat /\ Len(part) \in Nat /\ Len(job.answer) \in Nat
      BY WordsCounted, ListLen DEF IsGood, IsJob
    <3>3. job.words \in Nat  BY DEF IsGood, IsJob
    <3>4. k.words \in 0 .. Len(job.answer)  BY <2>2, <3>2, <3>3 DEF ReadOn
    <3>. QED  BY <2>2, <3>1, <3>4, NoFindings DEF ReadOn
  <2>. QED  BY <2>1, <2>2
<1>6. IsJob(k)
  BY <1>2, <1>3, <1>4, <1>5 DEF IsGood, IsJob, Stages
<1>7. IsAmongTexts(k)
  BY <1>3, <1>5, RankIs DEF IsGood, IsAmongTexts
<1>8. IsInText(k)
  <2>1. CASE ReadFailed(job, k, part)  BY <2>1 DEF ReadFailed, IsInText
  <2>2. CASE ReadOn(job, k, part)
    <3>1. /\ k.part = part /\ k.words = job.words + WordsIn(part)
          /\ k.stage = IF IsGuardrail(k.request) THEN "sort" ELSE "languagetool"
      BY <1>3, <2>2 DEF ReadOn
    <3>2. CASE IsGuardrail(k.request)
      <4>1. job.words <= job.start  BY <1>3, <3>2 DEF IsGood, IsInText
      <4>2. /\ WordsIn(part) \in Nat /\ Len(part) \in Nat /\ job.words \in Nat
            /\ job.start \in Nat
        BY WordsCounted, ListLen DEF IsGood, IsJob
      <4>3. k.words <= k.start + Len(k.part)  BY <1>3, <3>1, <4>1, <4>2
      <4>. QED  BY <1>3, <3>1, <3>2, <4>3 DEF IsInText
    <3>3. CASE ~IsGuardrail(k.request)
      BY <1>3, <3>1, <3>3 DEF IsInText, IsGood
    <3>. QED  BY <3>2, <3>3
  <2>. QED  BY <2>1, <2>2
<1>9. IsAnswered(k)  BY <1>5 DEF IsAnswered
<1>. QED  BY <1>6, <1>7, <1>8, <1>9 DEF IsGood

\* A job that is answered, whatever it has.
LEMMA DoneIs ==
  ASSUME NEW j, DOMAIN j = JobFields, NEW response
  PROVE  /\ Stays(j, Done(j, response), {"stage", "response"})
         /\ Done(j, response).stage = "done" /\ Done(j, response).response = response
BY DEF Done, Stays, JobFields

LEMMA DoneIsGood ==
  ASSUME NEW j, IsJob(j), IsAmongTexts(j), j.stage # "idle", NEW response,
         response # Nothing /\ response.kind = "texts" =>
           IsList(response.texts) /\ \A i \in DOMAIN response.texts : IsList(response.texts[i])
  PROVE  IsGood(Done(j, response))
<1>. DEFINE k == Done(j, response)
<1>1. Stays(j, k, {"stage", "response"}) /\ k.stage = "done" /\ k.response = response
  BY DoneIs DEF IsJob
<1>. HIDE DEF k
<1>2. /\ k.request = j.request /\ k.resends = j.resends /\ k.answer = j.answer
      /\ k.index = j.index /\ k.start = j.start /\ k.locale = j.locale /\ k.part = j.part
      /\ k.found = j.found /\ k.lt_results = j.lt_results /\ k.findings = j.findings
      /\ k.words = j.words /\ k.answers = j.answers /\ k.issues = j.issues
  BY <1>1 DEF Stays, JobFields
<1>3. IsJob(k)  BY <1>1, <1>2 DEF IsJob, Stays, Stages
<1>4. IsAmongTexts(k)  BY <1>1, <1>2, RankIs DEF IsAmongTexts
<1>5. IsInText(k)  BY <1>1 DEF IsInText
<1>6. IsAnswered(k)  BY <1>1 DEF IsAnswered
<1>. QED  BY <1>3, <1>4, <1>5, <1>6 DEF IsGood, k

LEMMA ReadTextIsGood ==
  ASSUME IsGood(job), ReadText
  PROVE  IsGood(job')
<1>. DEFINE part == fetch_text(job.answer)
<1>1. job.stage = "read" /\ ~IsGuardrail(job.request) /\ job' = Read(part, Done(job, Refusal))
  BY DEF ReadText
<1>2. /\ DOMAIN job = JobFields /\ IsList(job.answer) /\ job.words = 0
  BY <1>1 DEF IsGood, IsJob, IsInText
<1>3. IsList(part) /\ Len(part) \in 0 .. Len(job.answer)  BY <1>2, FetchedText
<1>4. IsGood(Done(job, Refusal))
  <2>1. Refusal.kind # "texts"  BY DEF Refusal
  <2>. QED  BY <1>1, <2>1, DoneIsGood DEF IsGood
<1>. HIDE DEF part
<1>5. /\ job' = Done(job, Refusal) \/ ReadFailed(job, job', part) \/ ReadOn(job, job', part)
  BY <1>1, <1>2, ReadGives
<1>6. WordsIn(part) <= Len(part) /\ job.words + Len(part) <= Len(job.answer)
  BY <1>2, <1>3, WordsCounted, ListLen
<1>7. ReadFailed(job, job', part) \/ ReadOn(job, job', part) => IsGood(job')
  BY <1>1, <1>3, <1>6, ReadIsGood DEF part
<1>. QED  BY <1>4, <1>5, <1>7

\* What is looked at of an answer is its beginning.
LEMMA LookedIs ==
  ASSUME NEW answer, IsList(answer)
  PROVE  /\ IsList(Looked(answer)) /\ Len(Looked(answer)) \in 0 .. Len(answer)
         /\ \A i \in 1 .. Len(Looked(answer)) : Looked(answer)[i] = answer[i]
<1>1. Len(answer) \in Nat /\ GUARDRAIL_MAX_LENGTH \in Nat  BY ListLen, GuardrailAssumption
<1>2. /\ IsList(Looked(answer)) /\ Len(Looked(answer)) <= Len(answer)
      /\ Len(Looked(answer)) \in Nat
      /\ \A i \in 1 .. Len(Looked(answer)) : Looked(answer)[i] = answer[0 + i]
  BY <1>1, Sliced DEF Looked
<1>3. \A i \in 1 .. Len(Looked(answer)) : 0 + i = i  BY <1>2
<1>. QED  BY <1>1, <1>2, <1>3

\* The part that is next, where there is one.
LEMMA NextPart ==
  ASSUME IsGood(job), job.start < Len(Looked(job.answer))
  PROVE  /\ IsList(Part(Looked(job.answer), job.start))
         /\ Len(Part(Looked(job.answer), job.start)) \in Nat
         /\ Len(Part(Looked(job.answer), job.start)) >= 1
         /\ job.start + Len(Part(Looked(job.answer), job.start)) <= Len(Looked(job.answer))
         /\ Len(Looked(job.answer)) <= Len(job.answer)
<1>1. IsList(job.answer) /\ job.start \in Nat  BY DEF IsGood, IsJob
<1>2. /\ IsList(Looked(job.answer)) /\ Len(Looked(job.answer)) \in Nat
      /\ Len(Looked(job.answer)) <= Len(job.answer)
  BY <1>1, LookedIs, ListLen
<1>. DEFINE checked == Looked(job.answer)
            part == Part(checked, job.start)
<1>3. job.start \in 0 .. Len(checked)  BY <1>1, <1>2
<1>. HIDE DEF checked
<1>4. IsList(checked)  BY <1>2 DEF checked
<1>5. IsList(part) /\ Len(part) \in 0 .. Len(checked) - job.start
  BY <1>3, <1>4, PartIs
<1>6. Len(part) >= 1  BY <1>3, <1>4, PartIs DEF checked
<1>. HIDE DEF part
<1>7. Len(part) \in Nat /\ Len(part) >= 1 /\ job.start + Len(part) <= Len(checked)
  BY <1>1, <1>2, <1>5, <1>6 DEF checked
<1>. QED  BY <1>2, <1>5, <1>7 DEF part, checked

LEMMA ReadAnswerGives ==
  ASSUME IsGood(job), ReadAnswer
  PROVE  /\ job.stage = "read" /\ IsGuardrail(job.request)
         /\ \/ job' = [job EXCEPT !.stage = "verdict"]
            \/ /\ job.start < Len(Looked(job.answer))
               /\ LET part == Part(Looked(job.answer), job.start)
                  IN  \/ job' = [job EXCEPT !.start = Behind(@, part)]
                      \/ ReadFailed(job, job', part)
                      \/ ReadOn(job, job', part)
<1>. DEFINE part == Part(Looked(job.answer), job.start)
            over == [job EXCEPT !.start = Behind(@, part)]
<1>1. /\ job.stage = "read" /\ IsGuardrail(job.request)
      /\ job' = IF job.start >= Len(Looked(job.answer)) THEN [job EXCEPT !.stage = "verdict"]
                ELSE Read(part, over)
  BY DEF ReadAnswer, Checked, Looked
<1>2. job.start \in Nat /\ Len(Looked(job.answer)) \in Nat /\ DOMAIN job = JobFields
  BY LookedIs, ListLen DEF IsGood, IsJob
<1>3. CASE job.start >= Len(Looked(job.answer))
  <2>1. job' = [job EXCEPT !.stage = "verdict"]  BY <1>1, <1>3
  <2>. QED  BY <1>1, <2>1
<1>4. CASE ~(job.start >= Len(Looked(job.answer)))
  <2>1. job' = Read(part, over) /\ job.start < Len(Looked(job.answer))  BY <1>1, <1>2, <1>4
  <2>. HIDE DEF part, over
  <2>2. job' = over \/ ReadFailed(job, job', part) \/ ReadOn(job, job', part)
    BY <1>2, <2>1, ReadGives
  <2>. QED  BY <1>1, <2>1, <2>2 DEF part, over
<1>. QED  BY <1>3, <1>4

\* A step within a text: what it may change, and what has to be told of that.
LEMMA WithinText ==
  ASSUME NEW j, IsGood(j), j.stage \in DOMAIN Rank, NEW k,
         Stays(j, k, {"stage", "start", "found", "lt_results", "genuine", "findings", "down"}),
         k.stage \in DOMAIN Rank \union {"failed"},
         k.start \in 0 .. Len(j.answer),
         AreFindings(k.found), AreFindings(k.lt_results), AreFindings(k.findings),
         IsInText(k)
  PROVE  IsGood(k)
<1>1. DOMAIN k = JobFields  BY DEF Stays
<1>2. /\ k.request = j.request /\ k.resends = j.resends /\ k.answer = j.answer
      /\ k.index = j.index /\ k.locale = j.locale /\ k.part = j.part /\ k.words = j.words
      /\ k.answers = j.answers /\ k.issues = j.issues /\ k.response = j.response
  BY DEF Stays, JobFields
<1>3. k.stage \in Stages \ {"idle", "done"} /\ j.stage \in Stages \ {"idle", "done"}
  BY RankIs DEF Stages
<1>4. IsJob(k)  BY <1>1, <1>2, <1>3 DEF IsGood, IsJob
<1>5. IsAmongTexts(k)  BY <1>2, <1>3 DEF IsGood, IsAmongTexts
<1>6. IsAnswered(k)  BY <1>3 DEF IsAnswered
<1>. QED  BY <1>4, <1>5, <1>6 DEF IsGood

LEMMA ReadAnswerIsGood ==
  ASSUME IsGood(job), ReadAnswer
  PROVE  IsGood(job')
<1>. DEFINE part == Part(Looked(job.answer), job.start)
<1>1. /\ job.stage = "read" /\ IsGuardrail(job.request) /\ job.stage \in DOMAIN Rank
      /\ DOMAIN job = JobFields /\ IsJob(job)
  BY ReadAnswerGives, RankIs DEF IsGood, IsJob
<1>2. /\ AreFindings(job.found) /\ AreFindings(job.lt_results) /\ AreFindings(job.findings)
      /\ job.start \in 0 .. Len(job.answer)
  BY <1>1 DEF IsJob
<1>3. CASE job' = [job EXCEPT !.stage = "verdict"]
  <2>1. Stays(job, job', {"stage"}) /\ job'.stage = "verdict"  BY <1>1, <1>3 DEF Stays, JobFields
  <2>2. /\ job'.found = job.found /\ job'.lt_results = job.lt_results
        /\ job'.findings = job.findings /\ job'.start = job.start /\ job'.request = job.request
    BY <2>1 DEF Stays, JobFields
  <2>3. Stays(job, job', {"stage", "start", "found", "lt_results", "genuine", "findings", "down"})
    BY <2>1 DEF Stays
  <2>4. IsInText(job')  BY <1>1, <2>1, <2>2 DEF IsInText
  <2>. QED  BY <1>1, <1>2, <2>1, <2>2, <2>3, <2>4, WithinText, RankIs
<1>4. ASSUME job.start < Len(Looked(job.answer)), job' = [job EXCEPT !.start = Behind(@, part)]
      PROVE  IsGood(job')
  <2>1. /\ Len(part) \in Nat /\ job.start + Len(part) <= Len(Looked(job.answer))
        /\ Len(Looked(job.answer)) <= Len(job.answer) /\ Len(Looked(job.answer)) \in Nat
        /\ job.start \in Nat
    BY <1>4, NextPart, LookedIs, ListLen DEF IsGood, IsJob
  <2>. HIDE DEF part
  <2>2. /\ Stays(job, job', {"start"}) /\ job'.start = job.start + Len(part)
    BY <1>1, <1>4 DEF Stays, JobFields, Behind
  <2>3. /\ job'.found = job.found /\ job'.lt_results = job.lt_results
        /\ job'.findings = job.findings /\ job'.stage = "read" /\ job'.request = job.request
        /\ job'.words = job.words
    BY <1>1, <2>2 DEF Stays, JobFields
  <2>4. Stays(job, job', {"stage", "start", "found", "lt_results", "genuine", "findings", "down"})
    BY <2>2 DEF Stays
  <2>5. job'.start \in 0 .. Len(job.answer)
    <3>1. Len(job.answer) \in Nat  BY <1>1, ListLen DEF IsJob
    <3>. QED  BY <2>1, <2>2, <3>1
  <2>6. job.words \in Nat /\ job.words <= job.start
    <3>1. job.words \in 0 .. Len(job.answer)  BY <1>1 DEF IsJob
    <3>2. job.words <= job.start  BY <1>1 DEF IsGood, IsInText
    <3>. QED  BY <3>1, <3>2
  <2>7. job'.words <= job'.start  BY <2>1, <2>2, <2>3, <2>6
  <2>8. IsInText(job')  BY <1>1, <2>3, <2>7 DEF IsInText
  <2>. QED  BY <1>1, <1>2, <2>3, <2>4, <2>5, <2>8, WithinText, RankIs
<1>5. ASSUME job.start < Len(Looked(job.answer)),
             ReadFailed(job, job', part) \/ ReadOn(job, job', part)
      PROVE  IsGood(job')
  <2>1. /\ IsList(part) /\ Len(part) \in Nat
        /\ job.start + Len(part) <= Len(Looked(job.answer))
        /\ Len(Looked(job.answer)) <= Len(job.answer)
    BY <1>5, NextPart
  <2>2. job.words \in Nat /\ job.words <= job.start /\ job.start \in Nat
    <3>1. job.words \in 0 .. Len(job.answer) /\ job.start \in 0 .. Len(job.answer)
      BY <1>1 DEF IsJob
    <3>2. job.words <= job.start  BY <1>1 DEF IsGood, IsInText
    <3>. QED  BY <3>1, <3>2
  <2>3. Len(Looked(job.answer)) \in Nat /\ Len(job.answer) \in Nat
    BY <1>1, LookedIs, ListLen DEF IsJob
  <2>4. WordsIn(part) <= Len(part) /\ job.words + Len(part) <= Len(job.answer)
    BY <2>1, <2>2, <2>3, WordsCounted
  <2>. QED  BY <1>1, <1>5, <2>1, <2>4, ReadIsGood
<1>. QED  BY <1>3, <1>4, <1>5, ReadAnswerGives

\* LanguageTool has failed, or has been answered for.
LEMMA AskGives ==
  ASSUME IsGood(job), AskLanguageTool
  PROVE  /\ job.stage = "languagetool"
         /\ \/ /\ Stays(job, job', {"stage", "down"}) /\ job'.stage = "failed"
               /\ \/ job'.down = TRUE
                  \/ /\ job.request.languagetool
                     /\ ~AllHaveResults(ReportedMatches(job.part, job.locale, Lang,
                                                        job.request.config), job.part)
            \/ /\ Stays(job, job', {"stage", "lt_results"}) /\ job'.stage = "sort"
               /\ \E matches \in {<<>>, ReportedMatches(job.part, job.locale, Lang,
                                                        job.request.config)} :
                    /\ AllHaveResults(matches, job.part)
                    /\ job'.lt_results = languagetool_matches(matches, job.part, Lang,
                                                              job.request.config)
<1>. DEFINE asked == /\ job.request.languagetool
                     /\ Payload(job.locale, Lang, job.request.config) # Nothing
            reported == ReportedMatches(job.part, job.locale, Lang, job.request.config)
<1>1. PICK outcome \in IF asked THEN {"answers", "garbled", "down"} ELSE {"not asked"} :
        job' = IF outcome \in LanguageToolFails \/ ~AllHaveResults(Found(outcome), job.part)
               THEN [job EXCEPT !.stage = "failed", !.down = outcome = "down"]
               ELSE [job EXCEPT !.stage = "sort",
                       !.lt_results = languagetool_matches(Found(outcome), job.part, Lang,
                                                           job.request.config)]
  BY DEF AskLanguageTool
<1>2. job.stage = "languagetool" /\ DOMAIN job = JobFields  BY DEF AskLanguageTool, IsGood, IsJob
<1>3. Found(outcome) = IF outcome = "answers" THEN reported ELSE <<>>  BY DEF Found
<1>4. outcome = "answers" => job.request.languagetool  BY <1>1
<1>. HIDE DEF asked, reported
<1>5. AllHaveResults(<<>>, job.part)  BY EmptyList DEF AllHaveResults
<1>6. CASE outcome \in LanguageToolFails \/ ~AllHaveResults(Found(outcome), job.part)
  <2>1. job' = [job EXCEPT !.stage = "failed", !.down = outcome = "down"]  BY <1>1, <1>6
  <2>2. Stays(job, job', {"stage", "down"}) /\ job'.stage = "failed"
    BY <1>2, <2>1 DEF Stays, JobFields
  <2>3. job'.down = (outcome = "down")  BY <1>2, <2>1 DEF JobFields
  <2>4. CASE outcome = "down"
    <3>1. job'.down = TRUE  BY <2>3, <2>4, Zenon
    <3>. QED  BY <1>2, <2>2, <3>1
  <2>5. CASE outcome # "down"
    <3>1. outcome = "answers" /\ ~AllHaveResults(reported, job.part)
      BY <1>3, <1>5, <1>6, <2>5 DEF LanguageToolFails
    <3>. QED  BY <1>2, <1>4, <2>2, <3>1 DEF reported
  <2>. QED  BY <2>4, <2>5
<1>7. CASE ~(outcome \in LanguageToolFails \/ ~AllHaveResults(Found(outcome), job.part))
  <2>1. /\ Stays(job, job', {"stage", "lt_results"}) /\ job'.stage = "sort"
        /\ job'.lt_results = languagetool_matches(Found(outcome), job.part, Lang,
                                                  job.request.config)
    BY <1>1, <1>2, <1>7 DEF Stays, JobFields
  <2>2. AllHaveResults(Found(outcome), job.part)  BY <1>7
  <2>. QED  BY <1>2, <1>3, <2>1, <2>2 DEF reported
<1>. QED  BY <1>6, <1>7

LEMMA AskIsGood ==
  ASSUME IsGood(job), AskLanguageTool
  PROVE  IsGood(job')
<1>1. /\ job.stage = "languagetool" /\ job.stage \in DOMAIN Rank /\ IsJob(job)
  BY AskGives, RankIs DEF IsGood
<1>2. IsList(job.part) /\ IsConfig(job.request.config)
  BY <1>1 DEF IsGood, IsJob, IsAmongTexts, IsRequest
<1>3. /\ AreFindings(job.found) /\ AreFindings(job.lt_results) /\ AreFindings(job.findings)
      /\ job.start \in 0 .. Len(job.answer) /\ ~IsGuardrail(job.request)
      /\ job.start = 0 /\ job.part = fetch_text(job.answer)
  BY <1>1 DEF IsGood, IsJob, IsInText
<1>4. CASE Stays(job, job', {"stage", "down"}) /\ job'.stage = "failed"
  <2>1. /\ job'.found = job.found /\ job'.lt_results = job.lt_results
        /\ job'.findings = job.findings /\ job'.start = job.start
    BY <1>4 DEF Stays, JobFields
  <2>2. Stays(job, job', {"stage", "start", "found", "lt_results", "genuine", "findings", "down"})
    BY <1>4 DEF Stays
  <2>3. IsInText(job')  BY <1>4 DEF IsInText
  <2>. QED  BY <1>1, <1>3, <1>4, <2>1, <2>2, <2>3, WithinText
<1>5. ASSUME Stays(job, job', {"stage", "lt_results"}), job'.stage = "sort",
             NEW matches \in {<<>>, ReportedMatches(job.part, job.locale, Lang,
                                                    job.request.config)},
             AllHaveResults(matches, job.part),
             job'.lt_results = languagetool_matches(matches, job.part, Lang, job.request.config)
      PROVE  IsGood(job')
  <2>1. /\ job'.found = job.found /\ job'.findings = job.findings /\ job'.start = job.start
        /\ job'.request = job.request /\ job'.part = job.part /\ job'.answer = job.answer
    BY <1>5 DEF Stays, JobFields
  <2>2. Stays(job, job', {"stage", "start", "found", "lt_results", "genuine", "findings", "down"})
    BY <1>5 DEF Stays
  <2>3. IsInText(job')  BY <1>3, <1>5, <2>1 DEF IsInText
  <2>4. IsList(matches) /\ \A i \in DOMAIN matches : IsMatch(matches[i], job.part)
    BY <1>2, EmptyList, ReportedAreMatches
  <2>5. AreFindings(job'.lt_results)  BY <1>2, <1>5, <2>4, LanguageToolFindings
  <2>6. job'.stage \in DOMAIN Rank  BY <1>5, RankIs
  <2>. QED  BY <1>1, <1>3, <2>1, <2>2, <2>3, <2>5, <2>6, WithinText
<1>. QED  BY <1>4, <1>5, AskGives

\* The findings of a part are sorted out: they are the answer, or go with the others.
SortsTo(j, k, genuine) ==
  LET results == SortedOut(j.lt_results, j.found, Sentences(j.part), genuine, j.part,
                           LangOf[j.locale], j.request.config)
  IN  IF j.request.route \in {"check", "lt"}
      THEN /\ Stays(j, k, {"stage", "found", "genuine", "response"})
           /\ k.stage = "done" /\ k.found = results /\ k.genuine = genuine
           /\ k.response = IF j.request.route = "check" THEN Results(results)
                           ELSE Matched(LtMatches(results, j.part, j.spans),
                                        sentence_ranges(j.part))
      ELSE /\ Stays(j, k, {"stage", "found", "genuine", "start", "findings"})
           /\ k.stage = "read" /\ k.found = results /\ k.genuine = genuine
           /\ k.start = j.start + Len(j.part)
           /\ k.findings = j.findings \o Shifted(results, Shift(j.answer, j.start))

LEMMA AnsweredGives ==
  ASSUME DOMAIN job = JobFields, NEW genuine
  PROVE  SortsTo(job, AnsweredWith(genuine), genuine)
<1>. DEFINE results == SortedOut(job.lt_results, job.found, Sentences(job.part), genuine, job.part,
                                 Lang, job.request.config)
            sorted == [job EXCEPT !.found = results, !.genuine = genuine]
            k == AnsweredWith(genuine)
            goes == [sorted EXCEPT !.stage = "read", !.start = Behind(@, job.part),
                        !.findings = @ \o Shifted(results, Shift(job.answer, job.start))]
            said == IF job.request.route = "check" THEN Results(results)
                    ELSE Matched(LtMatches(results, job.part, job.spans), sentence_ranges(job.part))
<1>1. k = IF job.request.route \in {"check", "lt"} THEN Done(sorted, said) ELSE goes
  BY DEF AnsweredWith, Sorted
<1>2. results = SortedOut(job.lt_results, job.found, Sentences(job.part), genuine, job.part,
                          LangOf[job.locale], job.request.config)
  BY DEF Lang
<1>. HIDE DEF results, said
<1>3. CASE job.request.route \in {"check", "lt"}
  <2>1. k = [sorted EXCEPT !.stage = "done", !.response = said]  BY <1>1, <1>3 DEF Done
  <2>. HIDE DEF k
  <2>2. /\ Stays(job, k, {"stage", "found", "genuine", "response"})
        /\ k.stage = "done" /\ k.found = results /\ k.genuine = genuine /\ k.response = said
    BY <2>1 DEF Stays, JobFields
  <2>. QED  BY <1>2, <1>3, <2>2 DEF SortsTo, said, k
<1>4. CASE ~(job.request.route \in {"check", "lt"})
  <2>1. k = goes  BY <1>1, <1>4
  <2>. HIDE DEF k
  <2>2. /\ Stays(job, k, {"stage", "found", "genuine", "start", "findings"})
        /\ k.stage = "read" /\ k.found = results /\ k.genuine = genuine
        /\ k.start = job.start + Len(job.part)
        /\ k.findings = job.findings \o Shifted(results, Shift(job.answer, job.start))
    BY <2>1 DEF Stays, JobFields, Behind
  <2>. HIDE DEF goes
  <2>. QED  BY <1>2, <1>4, <2>2 DEF SortsTo, k
<1>. QED  BY <1>3, <1>4

LEMMA SortGives ==
  ASSUME IsGood(job), Sort
  PROVE  /\ job.stage = "sort"
         /\ \/ \E genuine : SortsTo(job, job', genuine)
            \/ Stays(job, job', {"stage", "down"}) /\ job'.stage = "failed" /\ job'.down = TRUE
<1>1. DOMAIN job = JobFields /\ job.stage = "sort"  BY DEF Sort, IsGood, IsJob
<1>2. ASSUME NEW genuine, job' = AnsweredWith(genuine)
      PROVE  \E g : SortsTo(job, job', g)
  BY <1>1, <1>2, AnsweredGives
<1>3. ASSUME job' = [job EXCEPT !.stage = "failed", !.down = TRUE]
      PROVE  Stays(job, job', {"stage", "down"}) /\ job'.stage = "failed" /\ job'.down = TRUE
  BY <1>1, <1>3 DEF Stays, JobFields
<1>. QED  BY <1>1, <1>2, <1>3 DEF Sort

LEMMA SortIsGood ==
  ASSUME IsGood(job), Sort
  PROVE  IsGood(job')
<1>1. /\ job.stage = "sort" /\ job.stage \in DOMAIN Rank /\ IsJob(job) /\ IsAmongTexts(job)
      /\ IsRequest(job.request)
  BY SortGives, RankIs DEF IsGood, IsAmongTexts
<1>2. /\ AreFindings(job.found) /\ AreFindings(job.lt_results) /\ AreFindings(job.findings)
      /\ job.start \in 0 .. Len(job.answer) /\ IsList(job.part) /\ IsList(job.answer)
  BY <1>1 DEF IsJob
<1>3. CASE Stays(job, job', {"stage", "down"}) /\ job'.stage = "failed"
  <2>1. /\ job'.found = job.found /\ job'.lt_results = job.lt_results
        /\ job'.findings = job.findings /\ job'.start = job.start
    BY <1>3 DEF Stays, JobFields
  <2>2. Stays(job, job', {"stage", "start", "found", "lt_results", "genuine", "findings", "down"})
    BY <1>3 DEF Stays
  <2>3. IsInText(job')  BY <1>3 DEF IsInText
  <2>. QED  BY <1>1, <1>2, <1>3, <2>1, <2>2, <2>3, WithinText
<1>4. ASSUME NEW genuine, SortsTo(job, job', genuine)
      PROVE  IsGood(job')
  <2>. DEFINE results == SortedOut(job.lt_results, job.found, Sentences(job.part), genuine,
                                   job.part, LangOf[job.locale], job.request.config)
  <2>1. AreFindings(results)  BY <1>2, SortedOutFindings
  <2>2. job'.found = results  BY <1>4 DEF SortsTo
  <2>3. CASE job.request.route \in {"check", "lt"}
    <3>1. /\ Stays(job, job', {"stage", "found", "genuine", "response"}) /\ job'.stage = "done"
          /\ job'.response.kind # "texts"
      BY <1>4, <2>3 DEF SortsTo, Results, Matched
    <3>2. /\ job'.request = job.request /\ job'.resends = job.resends
          /\ job'.answer = job.answer /\ job'.index = job.index /\ job'.start = job.start
          /\ job'.locale = job.locale /\ job'.part = job.part /\ job'.words = job.words
          /\ job'.lt_results = job.lt_results /\ job'.findings = job.findings
          /\ job'.answers = job.answers /\ job'.issues = job.issues
      BY <3>1 DEF Stays, JobFields
    <3>3. IsJob(job')  BY <1>1, <2>1, <2>2, <3>1, <3>2 DEF IsJob, Stays, Stages
    <3>4. IsAmongTexts(job')  BY <1>1, <3>1, <3>2, RankIs DEF IsAmongTexts
    <3>5. IsInText(job') /\ IsAnswered(job')  BY <3>1 DEF IsInText, IsAnswered
    <3>. QED  BY <3>3, <3>4, <3>5 DEF IsGood
  <2>4. CASE ~(job.request.route \in {"check", "lt"})
    <3>. DEFINE shift == Shift(job.answer, job.start)
    <3>1. /\ Stays(job, job', {"stage", "found", "genuine", "start", "findings"})
          /\ job'.stage = "read" /\ job'.start = job.start + Len(job.part)
          /\ job'.findings = job.findings \o Shifted(results, shift)
      BY <1>4, <2>4 DEF SortsTo
    <3>2. /\ job'.request = job.request /\ job'.lt_results = job.lt_results
          /\ job'.words = job.words
      BY <3>1 DEF Stays, JobFields
    <3>3. Stays(job, job', {"stage", "start", "found", "lt_results", "genuine", "findings", "down"})
      BY <3>1 DEF Stays
    <3>4. AreFindings(job'.findings)
      <4>1. job.start \in Nat  BY <1>2
      <4>2. shift \in Nat  BY <1>2, <4>1, ShiftIs
      <4>. HIDE DEF results, shift
      <4>3. AreFindings(Shifted(results, shift))  BY <2>1, <4>2, ShiftedFindings
      <4>. QED  BY <1>2, <3>1, <4>3, JoinedFindings
    <3>5. job'.start \in 0 .. Len(job.answer) /\ IsInText(job')
      <4>1. Len(job.answer) \in Nat /\ Len(job.part) \in Nat  BY <1>2, ListLen
      <4>2. CASE IsGuardrail(job.request)
        <5>1. /\ job.start < Len(Looked(job.answer))
              /\ job.part = Part(Looked(job.answer), job.start)
              /\ job.words <= job.start + Len(job.part)
          BY <1>1, <4>2 DEF IsGood, IsInText
        <5>2. /\ job.start + Len(job.part) <= Len(Looked(job.answer))
              /\ Len(Looked(job.answer)) <= Len(job.answer)
          BY <5>1, NextPart
        <5>3. Len(Looked(job.answer)) \in Nat  BY <1>2, LookedIs
        <5>4. job'.words <= job'.start  BY <3>1, <3>2, <5>1
        <5>5. job'.start \in 0 .. Len(job.answer)  BY <1>2, <3>1, <4>1, <5>2, <5>3
        <5>. QED  BY <3>1, <3>2, <4>2, <5>4, <5>5 DEF IsInText
      <4>3. CASE ~IsGuardrail(job.request)
        <5>1. job.request.route \in {"input", "form"}
          BY <1>1, <2>4, <4>3 DEF IsRequest, Routes, IsGuardrail
        <5>. QED  BY <1>1, <5>1 DEF IsAmongTexts
      <4>. QED  BY <4>2, <4>3
    <3>6. job'.stage \in DOMAIN Rank  BY <3>1, RankIs
    <3>. QED  BY <1>1, <1>2, <2>1, <2>2, <3>2, <3>3, <3>4, <3>5, <3>6, WithinText
  <2>. QED  BY <2>3, <2>4
<1>. QED  BY <1>3, <1>4, SortGives

LEMMA VerdictIsGood ==
  ASSUME IsGood(job), Verdict
  PROVE  IsGood(job')
<1>. DEFINE said == [kind |-> "verdict", failed_on |-> Failed, findings |-> job.findings,
                     limit_reached |-> Len(job.answer) > GUARDRAIL_MAX_LENGTH,
                     reask |-> IF Failed = {} THEN Nothing ELSE ReviewPrompt(job.findings)]
<1>1. job' = Done(job, said) /\ job.stage # "idle"  BY DEF Verdict
<1>2. said.kind # "texts"  OBVIOUS
<1>. HIDE DEF said
<1>. QED  BY <1>1, <1>2, DoneIsGood DEF IsGood

\* The next text, or this one as a whole, is reviewed from its beginning.
ReviewGoesOn(j, k, index, text, whole) ==
  /\ Stays(j, k, {"stage", "index", "answer", "whole", "start", "findings", "words", "language"})
  /\ k.stage = IF IsBlank(text) THEN "verdict" ELSE "read"
  /\ k.index = index /\ k.answer = text /\ k.whole = whole /\ k.start = 0 /\ k.words = 0
  /\ k.findings = <<>> /\ k.language = Nothing

LEMMA ReviewingGives ==
  ASSUME NEW j, DOMAIN j = JobFields, NEW index, NEW text, NEW whole
  PROVE  ReviewGoesOn(j, Reviewing(j, index, text, whole), index, text, whole)
<1>. DEFINE k == Reviewing(j, index, text, whole)
            blank == IsBlank(text)
<1>1. k = [j EXCEPT !.stage = IF blank THEN "verdict" ELSE "read",
                    !.index = index, !.answer = text, !.whole = whole, !.start = 0,
                    !.findings = <<>>, !.words = 0, !.language = Nothing]
  BY DEF Reviewing
<1>. HIDE DEF k, blank
<1>2. /\ Stays(j, k, {"stage", "index", "answer", "whole", "start", "findings", "words", "language"})
      /\ k.stage = IF blank THEN "verdict" ELSE "read"
      /\ k.index = index /\ k.answer = text /\ k.whole = whole /\ k.start = 0 /\ k.words = 0
      /\ k.findings = <<>> /\ k.language = Nothing
  BY <1>1 DEF Stays, JobFields
<1>. QED  BY <1>2 DEF ReviewGoesOn, k, blank

LEMMA ReviewedNext ==
  ASSUME NEW j, IsJob(j), IsAmongTexts(j), j.stage = "verdict", j.request.route = "litellm",
         NEW index \in DOMAIN j.request.texts, NEW text, IsList(text), NEW whole,
         NEW k, ReviewGoesOn(j, k, index, text, whole)
  PROVE  IsGood(k)
<1>1. /\ DOMAIN k = JobFields /\ k.stage \in {"read", "verdict"}
      /\ k.request = j.request /\ k.resends = j.resends /\ k.locale = j.locale
      /\ k.part = j.part /\ k.found = j.found /\ k.lt_results = j.lt_results
      /\ k.answers = j.answers /\ k.issues = j.issues
  BY DEF ReviewGoesOn, Stays, JobFields
<1>2. Len(text) \in Nat /\ 0 \in 0 .. Len(text)  BY ListLen
<1>3. IsJob(k)  BY <1>1, <1>2, NoFindings DEF IsJob, ReviewGoesOn, Stages
<1>4. IsAmongTexts(k)  BY <1>1, RankIs DEF IsAmongTexts, ReviewGoesOn
<1>5. IsInText(k)  BY <1>1 DEF IsInText, IsGuardrail, ReviewGoesOn
<1>6. IsAnswered(k)  BY <1>1 DEF IsAnswered
<1>. QED  BY <1>3, <1>4, <1>5, <1>6 DEF IsGood

\* A text has been judged.
JudgedWith(answer, issue) ==
  [job EXCEPT !.answers = Append(@, answer), !.issues = Append(@, issue)]

LEMMA JudgedIs ==
  ASSUME IsGood(job), job.stage = "verdict", NEW answer, IsList(answer),
         NEW issue, issue = Nothing \/ IsList(issue)
  PROVE  /\ Stays(job, JudgedWith(answer, issue), {"answers", "issues"})
         /\ JudgedWith(answer, issue).answers = Append(job.answers, answer)
         /\ JudgedWith(answer, issue).issues = Append(job.issues, issue)
         /\ IsJob(JudgedWith(answer, issue)) /\ IsAmongTexts(JudgedWith(answer, issue))
<1>. DEFINE k == JudgedWith(answer, issue)
<1>1. DOMAIN job = JobFields  BY DEF IsGood, IsJob
<1>2. /\ Stays(job, k, {"answers", "issues"}) /\ k.answers = Append(job.answers, answer)
      /\ k.issues = Append(job.issues, issue)
  BY <1>1 DEF JudgedWith, Stays, JobFields
<1>. HIDE DEF k
<1>3. /\ k.stage = job.stage /\ k.request = job.request /\ k.resends = job.resends
      /\ k.answer = job.answer /\ k.index = job.index /\ k.start = job.start
      /\ k.locale = job.locale /\ k.part = job.part /\ k.found = job.found
      /\ k.lt_results = job.lt_results /\ k.findings = job.findings /\ k.words = job.words
  BY <1>2 DEF Stays, JobFields
<1>4. IsJob(k)  BY <1>2, <1>3 DEF IsGood, IsJob, Stays
<1>5. IsList(job.answers) /\ IsList(job.issues) /\ Len(job.answers) = Len(job.issues)
  BY DEF IsGood, IsAmongTexts
<1>. DEFINE n == Len(job.answers)
<1>6. /\ n \in Nat /\ DOMAIN job.answers = 1 .. n /\ DOMAIN job.issues = 1 .. n
  BY <1>5, ListLen
<1>7. /\ IsList(k.answers) /\ Len(k.answers) = n + 1 /\ DOMAIN k.answers = 1 .. n + 1
      /\ \A i \in DOMAIN k.answers : IsList(k.answers[i])
  <2>1. /\ IsList(k.answers) /\ Len(k.answers) = n + 1 /\ DOMAIN k.answers = 1 .. n + 1
        /\ \A i \in 1 .. n : k.answers[i] = job.answers[i]
        /\ k.answers[n + 1] = answer
    BY <1>2, <1>5, Appended
  <2>2. \A i \in 1 .. n : IsList(job.answers[i])  BY <1>6 DEF IsGood, IsAmongTexts
  <2>. QED  BY <1>6, <2>1, <2>2
<1>8. /\ IsList(k.issues) /\ Len(k.issues) = n + 1
      /\ \A i \in DOMAIN k.issues : k.issues[i] = Nothing \/ IsList(k.issues[i])
  <2>1. /\ IsList(k.issues) /\ Len(k.issues) = n + 1 /\ DOMAIN k.issues = 1 .. n + 1
        /\ \A i \in 1 .. n : k.issues[i] = job.issues[i]
        /\ k.issues[n + 1] = issue
    BY <1>2, <1>5, Appended
  <2>2. \A i \in 1 .. n : job.issues[i] = Nothing \/ IsList(job.issues[i])
    BY <1>6 DEF IsGood, IsAmongTexts
  <2>. QED  BY <1>6, <2>1, <2>2
<1>9. IsAmongTexts(k)  BY <1>3, <1>7, <1>8 DEF IsGood, IsAmongTexts
<1>. QED  BY <1>2, <1>4, <1>9 DEF k

\* LiteLLM's answer is made of texts.
LEMMA LitellmTexts ==
  ASSUME NEW j, IsJob(j), IsAmongTexts(j), j.stage # "idle", LitellmOut(j).kind = "texts"
  PROVE  /\ IsList(LitellmOut(j).texts)
         /\ \A i \in DOMAIN LitellmOut(j).texts : IsList(LitellmOut(j).texts[i])
<1>. DEFINE failing == {i \in DOMAIN j.issues : j.issues[i] # Nothing}
            texts == j.request.texts
            Annotated(i) ==
              IF i \in failing THEN j.answers[i] \o <<Note>> \o j.issues[i] ELSE texts[i]
            f == [i \in DOMAIN texts |-> Annotated(i)]
<1>1. LitellmOut(j) = IF failing = {} THEN [kind |-> "none"]
                      ELSE IF j.request.on_fail = "block" THEN [kind |-> "blocked"]
                      ELSE [kind |-> "texts", texts |-> f]
  BY DEF LitellmOut
<1>2. IsList(texts) /\ \A i \in DOMAIN texts : IsList(texts[i])  BY DEF IsAmongTexts, IsRequest
<1>3. Len(texts) \in Nat /\ DOMAIN texts = 1 .. Len(texts)  BY <1>2, ListLen
<1>4. ASSUME NEW i \in DOMAIN texts PROVE IsList(Annotated(i))
  <2>1. CASE i \in failing
    <3>1. IsList(j.issues[i])  BY <2>1 DEF IsAmongTexts
    <3>2. i \in DOMAIN j.answers
      BY <2>1, ListLen DEF IsAmongTexts
    <3>3. IsList(j.answers[i]) /\ IsList(<<Note>>)  BY <3>2, OneIn DEF IsAmongTexts
    <3>4. IsList(j.answers[i] \o <<Note>>)  BY <3>3, Joined
    <3>5. IsList(j.answers[i] \o <<Note>> \o j.issues[i])  BY <3>1, <3>4, Joined
    <3>. QED  BY <2>1, <3>5
  <2>2. CASE i \notin failing  BY <1>2, <2>2
  <2>. QED  BY <2>1, <2>2
<1>. HIDE DEF Annotated, failing
<1>5. f = [i \in 1 .. Len(texts) |-> f[i]] /\ \A i \in 1 .. Len(texts) : IsList(f[i])
  BY <1>3, <1>4
<1>. HIDE DEF f
<1>6. IsList(f) /\ DOMAIN f = 1 .. Len(texts)  BY <1>3, <1>5, ListsMapped
<1>7. LitellmOut(j) = [kind |-> "texts", texts |-> f]  BY <1>1
<1>8. LitellmOut(j).texts = f  BY <1>7
<1>. QED  BY <1>5, <1>6, <1>8

\* A text has been answered for: the next one is reviewed, or all are answered.
AnswerGoesOn(answer, issue, k) ==
  \/ /\ job.index + 1 \in DOMAIN job.request.texts
     /\ ReviewGoesOn(JudgedWith(answer, issue), k, job.index + 1,
                     FirstReviewed(job.request.texts[job.index + 1]),
                     FirstReviewed(job.request.texts[job.index + 1]) =
                       job.request.texts[job.index + 1])
  \/ /\ job.index + 1 \notin DOMAIN job.request.texts
     /\ k = Done(JudgedWith(answer, issue), LitellmOut(JudgedWith(answer, issue)))

LEMMA AnswerGives ==
  ASSUME NEW answer, NEW issue, DOMAIN job = JobFields
  PROVE  AnswerGoesOn(answer, issue, WithAnswer(answer, issue))
<1>. DEFINE judged == JudgedWith(answer, issue)
            next == job.index + 1
<1>1. DOMAIN judged = JobFields  BY DEF JudgedWith
<1>2. WithAnswer(answer, issue) =
        IF next \in DOMAIN job.request.texts
        THEN Reviewing(judged, next, FirstReviewed(job.request.texts[next]),
                       FirstReviewed(job.request.texts[next]) = job.request.texts[next])
        ELSE Done(judged, LitellmOut(judged))
  BY DEF WithAnswer, JudgedWith
<1>. HIDE DEF judged
<1>3. CASE next \in DOMAIN job.request.texts
  <2>. DEFINE text == FirstReviewed(job.request.texts[next])
              whole == text = job.request.texts[next]
  <2>1. WithAnswer(answer, issue) = Reviewing(judged, next, text, whole)  BY <1>2, <1>3
  <2>. HIDE DEF text, whole, next
  <2>2. ReviewGoesOn(judged, WithAnswer(answer, issue), next, text, whole)
    BY <1>1, <2>1, ReviewingGives
  <2>. QED  BY <1>3, <2>2 DEF AnswerGoesOn, text, whole, next, judged
<1>4. CASE ~(next \in DOMAIN job.request.texts)
  <2>1. WithAnswer(answer, issue) = Done(judged, LitellmOut(judged))  BY <1>2, <1>4
  <2>. QED  BY <1>4, <2>1 DEF AnswerGoesOn, judged, next
<1>. QED  BY <1>3, <1>4

LEMMA AnswerIsGood ==
  ASSUME IsGood(job), job.stage = "verdict", job.request.route = "litellm",
         NEW answer, IsList(answer), NEW issue, issue = Nothing \/ IsList(issue),
         NEW k, AnswerGoesOn(answer, issue, k)
  PROVE  IsGood(k)
<1>. DEFINE judged == JudgedWith(answer, issue)
<1>1. Stays(job, judged, {"answers", "issues"}) /\ IsJob(judged) /\ IsAmongTexts(judged)
  BY JudgedIs
<1>2. judged.stage = "verdict" /\ judged.request = job.request
  BY <1>1 DEF Stays, JobFields
<1>3. ASSUME NEW text, k = Done(judged, LitellmOut(judged)) PROVE IsGood(k)
  <2>. HIDE DEF judged
  <2>1. LitellmOut(judged) # Nothing /\ LitellmOut(judged).kind = "texts" =>
          /\ IsList(LitellmOut(judged).texts)
          /\ \A i \in DOMAIN LitellmOut(judged).texts : IsList(LitellmOut(judged).texts[i])
    BY <1>1, <1>2, LitellmTexts
  <2>. QED  BY <1>1, <1>2, <1>3, <2>1, DoneIsGood
<1>4. ASSUME job.index + 1 \in DOMAIN job.request.texts PROVE IsList(job.request.texts[job.index + 1])
  BY <1>4 DEF IsGood, IsAmongTexts, IsRequest
<1>5. ASSUME job.index + 1 \in DOMAIN job.request.texts, NEW whole,
             ReviewGoesOn(judged, k, job.index + 1, FirstReviewed(job.request.texts[job.index + 1]),
                          whole)
      PROVE  IsGood(k)
  <2>. DEFINE index == job.index + 1
              text == FirstReviewed(job.request.texts[index])
  <2>1. IsList(text)  BY <1>4, <1>5, FirstReviewedIs
  <2>2. index \in DOMAIN judged.request.texts  BY <1>2, <1>5
  <2>3. ReviewGoesOn(judged, k, index, text, whole)  BY <1>5
  <2>. HIDE DEF judged, index, text
  <2>. QED  BY <1>1, <1>2, <2>1, <2>2, <2>3, ReviewedNext
<1>. QED  BY <1>3, <1>5 DEF AnswerGoesOn

JudgeIssue == IF Failed = {} THEN Nothing ELSE issue_list(job.findings, job.request.explain)

LEMMA JudgeGives ==
  ASSUME IsGood(job), JudgeText
  PROVE  /\ job.stage = "verdict" /\ job.request.route = "litellm"
         /\ job.index \in DOMAIN job.request.texts /\ IsList(job.request.texts[job.index])
         /\ \/ job.whole /\ AnswerGoesOn(job.request.texts[job.index], JudgeIssue, job')
            \/ ~job.whole /\ AnswerGoesOn(job.answer, JudgeIssue, job')
            \/ ~job.whole /\ ReviewGoesOn(job, job', job.index, job.request.texts[job.index], TRUE)
<1>. DEFINE text == job.request.texts[job.index]
<1>1. /\ job.stage = "verdict" /\ job.request.route = "litellm"
      /\ job' = IF job.whole THEN WithAnswer(text, JudgeIssue)
                ELSE IF JudgeIssue # Nothing /\ JudgeIssue = NoteOf(text)
                THEN WithAnswer(job.answer, JudgeIssue)
                ELSE Reviewing(job, job.index, text, TRUE)
  BY DEF JudgeText, JudgeIssue
<1>2. DOMAIN job = JobFields  BY DEF IsGood, IsJob
<1>3. job.index \in DOMAIN job.request.texts /\ IsList(text)
  BY <1>1, RankIs DEF IsGood, IsAmongTexts, IsRequest
<1>4. CASE job.whole  BY <1>1, <1>2, <1>3, <1>4, AnswerGives
<1>5. CASE ~job.whole
  <2>1. job' = WithAnswer(job.answer, JudgeIssue) \/ job' = Reviewing(job, job.index, text, TRUE)
    BY <1>1, <1>5
  <2>2. AnswerGoesOn(job.answer, JudgeIssue, WithAnswer(job.answer, JudgeIssue))
    BY <1>2, AnswerGives
  <2>3. ReviewGoesOn(job, Reviewing(job, job.index, text, TRUE), job.index, text, TRUE)
    BY <1>2, ReviewingGives
  <2>. QED  BY <1>1, <1>3, <1>5, <2>1, <2>2, <2>3
<1>. QED  BY <1>4, <1>5

LEMMA JudgeIsGood ==
  ASSUME IsGood(job), JudgeText
  PROVE  IsGood(job')
<1>1. /\ job.stage = "verdict" /\ job.request.route = "litellm"
      /\ job.index \in DOMAIN job.request.texts /\ IsList(job.request.texts[job.index])
      /\ IsJob(job) /\ IsAmongTexts(job)
  BY JudgeGives DEF IsGood
<1>2. IsList(job.answer) /\ AreFindings(job.findings)  BY <1>1 DEF IsJob
<1>3. JudgeIssue = Nothing \/ IsList(JudgeIssue)  BY <1>2, IssueListIs DEF JudgeIssue
<1>4. CASE AnswerGoesOn(job.request.texts[job.index], JudgeIssue, job')
  BY <1>1, <1>3, <1>4, AnswerIsGood
<1>5. CASE AnswerGoesOn(job.answer, JudgeIssue, job')
  BY <1>1, <1>2, <1>3, <1>5, AnswerIsGood
<1>6. CASE ReviewGoesOn(job, job', job.index, job.request.texts[job.index], TRUE)
  BY <1>1, <1>6, ReviewedNext
<1>. QED  BY <1>4, <1>5, <1>6, JudgeGives

-----------------------------------------------------------------------------
\* The invariant holds of every job.

LEMMA ReceivedIsGood ==
  ASSUME Receive
  PROVE  IsGood(job')
<1>1. PICK r \in Requests : job' = Opened(r)  BY DEF Receive
<1>2. IsRequest(r)  BY TextChecksAssumption
<1>. QED  BY <1>1, <1>2, OpenedIsGood

LEMMA OpenedAgain ==
  ASSUME NEW r, IsRequest(r), job.resends \in 0 .. MaxResends, job.resends < MaxResends,
         job' = [Opened(r) EXCEPT !.resends = job.resends + 1]
  PROVE  IsGood(job')
<1>1. IsGood(Opened(r))  BY OpenedIsGood
<1>. DEFINE resends == job.resends + 1
<1>2. resends \in 0 .. MaxResends  BY TextChecksAssumption
<1>3. job' = [Opened(r) EXCEPT !.resends = resends]  OBVIOUS
<1>. HIDE DEF resends
<1>. QED  BY <1>1, <1>2, <1>3, ResentIsGood

LEMMA SentAgainIsGood ==
  ASSUME IsGood(job), SendAgain
  PROVE  IsGood(job')
<1>. DEFINE r == [job.request EXCEPT !.texts = job.response.texts]
<1>1. /\ job.stage = "done" /\ job.resends < MaxResends
      /\ job.response # Nothing /\ job.response.kind = "texts"
      /\ job' = [Opened(r) EXCEPT !.resends = job.resends + 1]
  BY DEF SendAgain
<1>2. IsRequest(job.request) /\ job.resends \in 0 .. MaxResends
  BY <1>1 DEF IsGood, IsJob, IsAmongTexts
<1>3. IsList(job.response.texts) /\ \A i \in DOMAIN job.response.texts : IsList(job.response.texts[i])
  BY <1>1 DEF IsGood, IsAnswered
<1>4. IsRequest(r)  BY <1>2, <1>3, RequestWith
<1>. HIDE DEF r
<1>. QED  BY <1>1, <1>2, <1>4, OpenedAgain

LEMMA NextTurnIsGood ==
  ASSUME IsGood(job), NextTurn
  PROVE  IsGood(job')
<1>. DEFINE r == [job.request EXCEPT !.messages = job.response.messages]
<1>1. /\ job.stage = "done" /\ job.resends < MaxResends
      /\ job' = [Opened(r) EXCEPT !.resends = job.resends + 1]
  BY DEF NextTurn
<1>2. IsRequest(job.request) /\ job.resends \in 0 .. MaxResends
  BY <1>1 DEF IsGood, IsJob, IsAmongTexts
<1>3. IsRequest(r)  BY <1>2, RequestWith
<1>. HIDE DEF r
<1>. QED  BY <1>1, <1>2, <1>3, OpenedAgain

\* The switches only change the form and its format.
LEMMA SwitchGives ==
  ASSUME DOMAIN job = JobFields, SwitchFormat \/ SwitchIntoInklusivum
  PROVE  job.stage = "done" /\ Stays(job, job', {"form", "format"})
<1>1. ASSUME NEW form, NEW format, job' = [job EXCEPT !.form = form, !.format = format]
      PROVE  Stays(job, job', {"form", "format"})
  BY <1>1 DEF Stays, JobFields
<1>2. CASE SwitchFormat
  <2>1. PICK target \in TargetsOf(job.request.form.kind) \ {job.format} :
          job' = [job EXCEPT !.form = Switched(job.request.form.kind, job.form, target),
                             !.format = target]
    BY <1>2 DEF SwitchFormat
  <2>. QED  BY <1>1, <1>2, <2>1 DEF SwitchFormat
<1>3. CASE SwitchIntoInklusivum
  <2>1. PICK form \in inklusivum_form(job.request.form.kind, job.form, job.request.form.tokens) :
          job' = [job EXCEPT !.form = form, !.format = "e"]
    BY <1>3 DEF SwitchIntoInklusivum
  <2>. QED  BY <1>1, <1>3, <2>1 DEF SwitchIntoInklusivum
<1>. QED  BY <1>2, <1>3

LEMMA SwitchedIsGood ==
  ASSUME IsGood(job), SwitchFormat \/ SwitchIntoInklusivum
  PROVE  IsGood(job')
<1>1. job.stage = "done" /\ Stays(job, job', {"form", "format"})
  BY SwitchGives DEF IsGood, IsJob
<1>2. /\ job'.stage = job.stage /\ job'.request = job.request /\ job'.resends = job.resends
      /\ job'.answer = job.answer /\ job'.index = job.index /\ job'.start = job.start
      /\ job'.locale = job.locale /\ job'.part = job.part /\ job'.words = job.words
      /\ job'.lt_results = job.lt_results /\ job'.findings = job.findings
      /\ job'.answers = job.answers /\ job'.issues = job.issues /\ job'.found = job.found
      /\ job'.response = job.response
  BY <1>1 DEF Stays, JobFields
<1>3. IsJob(job')  BY <1>1, <1>2 DEF IsGood, IsJob, Stays
<1>4. IsAmongTexts(job')  BY <1>2 DEF IsGood, IsAmongTexts
<1>5. IsInText(job') /\ IsAnswered(job')  BY <1>2 DEF IsGood, IsInText, IsAnswered
<1>. QED  BY <1>3, <1>4, <1>5 DEF IsGood

JobIsGood == IsGood(job)

LEMMA JobStaysGood == JobIsGood /\ [Next]_job => JobIsGood'
<1>. SUFFICES ASSUME IsGood(job), [Next]_job PROVE IsGood(job')
  BY DEF JobIsGood
<1>1. CASE Receive  BY <1>1, ReceivedIsGood
<1>2. CASE Serve
  BY <1>2, ReadTextIsGood, ReadAnswerIsGood, AskIsGood, SortIsGood, VerdictIsGood, JudgeIsGood
     DEF Serve
<1>3. CASE SendAgain \/ NextTurn  BY <1>3, SentAgainIsGood, NextTurnIsGood
<1>4. CASE SwitchFormat \/ SwitchIntoInklusivum  BY <1>4, SwitchedIsGood
<1>5. CASE Leave  BY <1>5, IdleIsGood DEF Leave
<1>6. CASE UNCHANGED job  BY <1>6
<1>. QED  BY <1>1, <1>2, <1>3, <1>4, <1>5, <1>6 DEF Next

\* Whatever is sent and whatever the services say, a job is at a place in its text and among
\* its texts that the code can go on from, with a list of findings.
THEOREM JobsAreGood == Spec => []JobIsGood
<1>1. Init => JobIsGood  BY IdleIsGood DEF Init, JobIsGood
<1>. QED  BY <1>1, JobStaysGood, PTL DEF Spec

\* The type invariant: where a job stands is within its text, its texts and its turns.
THEOREM TypeCorrect == Spec => []TypeOK
<1>1. ASSUME JobIsGood PROVE TypeOK
  BY <1>1 DEF JobIsGood, IsGood, IsJob, IsAmongTexts, IsRequest, KnownLocales, TypeOK
<1>. QED  BY <1>1, JobsAreGood, PTL

-----------------------------------------------------------------------------
\* A request comes to its end.

\* Each step of its handler leaves less of a request, or ends it.
Ends(j, k) ==
  k.stage \in DOMAIN Rank =>
    \/ /\ k.request.texts = j.request.texts /\ k.index = j.index + 1
       /\ j.index \in DOMAIN j.request.texts
    \/ /\ k.request.texts = j.request.texts /\ k.index = j.index
       /\ ~j.whole /\ k.whole
    \/ /\ k.request.texts = j.request.texts /\ k.index = j.index /\ k.whole = j.whole
       /\ k.answer = j.answer /\ k.start \in Nat /\ j.start < k.start
    \/ /\ k.request.texts = j.request.texts /\ k.index = j.index /\ k.whole = j.whole
       /\ k.answer = j.answer /\ k.start = j.start /\ Rank[k.stage] < Rank[j.stage]

\* The fields that what is left of a request depends on stay.
LEMMA LeavesLess ==
  ASSUME NEW j, NEW k, Stays(j, k, {"stage", "locale", "part", "language", "words", "lt_results",
                                    "found", "down", "genuine", "findings"}),
         Rank[k.stage] < Rank[j.stage]
  PROVE  Ends(j, k)
BY DEF Stays, JobFields, Ends

LEMMA GoesFurther ==
  ASSUME NEW j, NEW k, Stays(j, k, {"stage", "start", "found", "genuine", "findings"}),
         j.start \in Nat, NEW n \in Nat, n >= 1, k.start = j.start + n
  PROVE  Ends(j, k)
<1>1. k.start \in Nat /\ j.start < k.start  OBVIOUS
<1>. QED  BY <1>1 DEF Stays, JobFields, Ends

LEMMA ReadEnds ==
  ASSUME NEW j, NEW part, NEW k, j.stage = "read", ReadFailed(j, k, part) \/ ReadOn(j, k, part)
  PROVE  Ends(j, k)
<1>1. CASE ReadFailed(j, k, part)  BY <1>1, RankIs DEF ReadFailed, Ends
<1>2. CASE ReadOn(j, k, part)
  <2>1. Rank[k.stage] < Rank[j.stage]  BY <1>2, RankIs DEF ReadOn
  <2>2. Stays(j, k, {"stage", "locale", "part", "language", "words", "lt_results", "found",
                     "down", "genuine", "findings"})
    BY <1>2 DEF ReadOn, Stays
  <2>. QED  BY <2>1, <2>2, LeavesLess
<1>. QED  BY <1>1, <1>2

LEMMA ReadTextEnds ==
  ASSUME IsGood(job), ReadText
  PROVE  Ends(job, job')
<1>. DEFINE part == fetch_text(job.answer)
<1>1. /\ job.stage = "read" /\ job' = Read(part, Done(job, Refusal)) /\ DOMAIN job = JobFields
  BY DEF ReadText, IsGood, IsJob
<1>2. Done(job, Refusal).stage = "done"  BY <1>1, DoneIs
<1>. HIDE DEF part
<1>3. job' = Done(job, Refusal) \/ ReadFailed(job, job', part) \/ ReadOn(job, job', part)
  BY <1>1, ReadGives
<1>4. CASE job' = Done(job, Refusal)  BY <1>2, <1>4, RankIs DEF Ends
<1>. QED  BY <1>1, <1>3, <1>4, ReadEnds

LEMMA ReadAnswerEnds ==
  ASSUME IsGood(job), ReadAnswer
  PROVE  Ends(job, job')
<1>. DEFINE part == Part(Looked(job.answer), job.start)
<1>1. job.stage = "read" /\ DOMAIN job = JobFields /\ job.start \in Nat
  BY ReadAnswerGives DEF IsGood, IsJob
<1>2. CASE job' = [job EXCEPT !.stage = "verdict"]
  <2>1. Stays(job, job', {"stage"}) /\ job'.stage = "verdict"  BY <1>1, <1>2 DEF Stays, JobFields
  <2>2. Rank[job'.stage] < Rank[job.stage]  BY <1>1, <2>1, RankIs
  <2>3. Stays(job, job', {"stage", "locale", "part", "language", "words", "lt_results", "found",
                          "down", "genuine", "findings"})
    BY <2>1 DEF Stays
  <2>. QED  BY <2>2, <2>3, LeavesLess
<1>3. ASSUME job.start < Len(Looked(job.answer)), job' = [job EXCEPT !.start = Behind(@, part)]
      PROVE  Ends(job, job')
  <2>. DEFINE n == Len(part)
  <2>1. n \in Nat /\ n >= 1  BY <1>3, NextPart
  <2>2. Stays(job, job', {"start"}) /\ job'.start = job.start + n
    BY <1>1, <1>3 DEF Stays, JobFields, Behind
  <2>3. Stays(job, job', {"stage", "start", "found", "genuine", "findings"})
    BY <2>2 DEF Stays
  <2>. HIDE DEF n
  <2>. QED  BY <1>1, <2>1, <2>2, <2>3, GoesFurther
<1>4. ASSUME ReadFailed(job, job', part) \/ ReadOn(job, job', part) PROVE Ends(job, job')
  BY <1>1, <1>4, ReadEnds
<1>. QED  BY <1>2, <1>3, <1>4, ReadAnswerGives

LEMMA AskEnds ==
  ASSUME IsGood(job), AskLanguageTool
  PROVE  Ends(job, job')
<1>1. CASE job'.stage = "failed"  BY <1>1, RankIs DEF Ends
<1>2. CASE Stays(job, job', {"stage", "lt_results"}) /\ job'.stage = "sort"
  <2>1. Rank[job'.stage] < Rank[job.stage]  BY <1>2, AskGives, RankIs
  <2>2. Stays(job, job', {"stage", "locale", "part", "language", "words", "lt_results", "found",
                          "down", "genuine", "findings"})
    BY <1>2 DEF Stays
  <2>. QED  BY <2>1, <2>2, LeavesLess
<1>. QED  BY <1>1, <1>2, AskGives

LEMMA SortEnds ==
  ASSUME IsGood(job), Sort
  PROVE  Ends(job, job')
<1>1. CASE job'.stage = "failed"  BY <1>1, RankIs DEF Ends
<1>2. ASSUME NEW genuine, SortsTo(job, job', genuine) PROVE Ends(job, job')
  <2>1. CASE job.request.route \in {"check", "lt"}
    <3>1. job'.stage = "done"  BY <1>2, <2>1 DEF SortsTo
    <3>. QED  BY <3>1, RankIs DEF Ends
  <2>2. CASE ~(job.request.route \in {"check", "lt"})
    <3>. DEFINE n == Len(job.part)
    <3>1. /\ Stays(job, job', {"stage", "start", "found", "genuine", "findings"})
          /\ job'.start = job.start + n
      BY <1>2, <2>2 DEF SortsTo, Stays
    <3>2. job.stage = "sort"  BY SortGives
    <3>3. IsGuardrail(job.request)
      BY <2>2, <3>2, RankIs DEF IsGood, IsAmongTexts, IsGuardrail
    <3>4. job.start < Len(Looked(job.answer)) /\ job.part = Part(Looked(job.answer), job.start)
      BY <3>2, <3>3 DEF IsGood, IsInText
    <3>5. n \in Nat /\ n >= 1  BY <3>4, NextPart
    <3>6. job.start \in Nat  BY DEF IsGood, IsJob
    <3>. HIDE DEF n
    <3>. QED  BY <3>1, <3>5, <3>6, GoesFurther
  <2>. QED  BY <2>1, <2>2
<1>. QED  BY <1>1, <1>2, SortGives

LEMMA ReviewEnds ==
  ASSUME NEW j, NEW k, NEW index, NEW text, NEW whole, ReviewGoesOn(j, k, index, text, whole)
  PROVE  k.request = j.request /\ k.index = index /\ k.whole = whole
BY DEF ReviewGoesOn, Stays, JobFields

LEMMA JudgeEnds ==
  ASSUME IsGood(job), JudgeText
  PROVE  Ends(job, job')
<1>1. IsList(job.answer) /\ AreFindings(job.findings) /\ DOMAIN job = JobFields
  BY DEF IsGood, IsJob
<1>2. JudgeIssue = Nothing \/ IsList(JudgeIssue)  BY <1>1, IssueListIs DEF JudgeIssue
<1>3. ASSUME NEW answer, AnswerGoesOn(answer, JudgeIssue, job') PROVE Ends(job, job')
  <2>. DEFINE judged == JudgedWith(answer, JudgeIssue)
  <2>1. Stays(job, judged, {"answers", "issues"})
    BY <1>1 DEF JudgedWith, Stays, JobFields
  <2>2. judged.request = job.request /\ DOMAIN judged = JobFields  BY <2>1 DEF Stays, JobFields
  <2>. HIDE DEF judged
  <2>3. CASE job' = Done(judged, LitellmOut(judged))
    <3>1. job'.stage = "done"  BY <2>2, <2>3, DoneIs
    <3>. QED  BY <3>1, RankIs DEF Ends
  <2>4. ASSUME NEW index, NEW text, NEW whole, ReviewGoesOn(judged, job', index, text, whole),
               index = job.index + 1
        PROVE  Ends(job, job')
    <3>1. job'.request = judged.request /\ job'.index = index  BY <2>4, ReviewEnds
    <3>2. job.index \in DOMAIN job.request.texts  BY JudgeGives
    <3>. QED  BY <2>2, <2>4, <3>1, <3>2 DEF Ends
  <2>5. \/ job' = Done(judged, LitellmOut(judged))
        \/ \E text, whole : ReviewGoesOn(judged, job', job.index + 1, text, whole)
    BY <1>3 DEF AnswerGoesOn, judged
  <2>. QED  BY <2>3, <2>4, <2>5
<1>4. ASSUME ~job.whole, ReviewGoesOn(job, job', job.index, job.request.texts[job.index], TRUE)
      PROVE  Ends(job, job')
  <2>1. job'.request = job.request /\ job'.index = job.index /\ job'.whole = TRUE
    BY <1>4, ReviewEnds
  <2>2. job'.request.texts = job.request.texts  BY <2>1
  <2>3. job'.whole  BY <2>1, Zenon
  <2>. QED  BY <1>4, <2>1, <2>2, <2>3 DEF Ends
<1>. QED  BY <1>3, <1>4, JudgeGives

\* What ends so is what is left of it, of a job that stands where it may.
LEMMA EndsIsLess ==
  ASSUME IsGood(job), IsGood(job'), job.stage \in DOMAIN Rank, job'.stage \in DOMAIN Rank,
         Ends(job, job')
  PROVE  \E i \in 1 .. 4 : /\ Remaining'[i] < Remaining[i]
                           /\ \A k \in 1 .. i - 1 : Remaining'[k] = Remaining[k]
<1>. DEFINE a == Len(job.request.texts) - job.index
            b == IF job.whole THEN 0 ELSE 1
            c == Len(job.answer) - job.start
            d == Rank[job.stage]
            aa == Len(job'.request.texts) - job'.index
            bb == IF job'.whole THEN 0 ELSE 1
            cc == Len(job'.answer) - job'.start
            dd == Rank[job'.stage]
<1>1. Remaining = <<a, b, c, d>> /\ Remaining' = <<aa, bb, cc, dd>>  BY DEF Remaining
<1>2. \/ aa < a
      \/ aa = a /\ bb < b
      \/ aa = a /\ bb = b /\ cc < c
      \/ aa = a /\ bb = b /\ cc = c /\ dd < d
  <2>1. CASE job'.request.texts = job.request.texts /\ job'.index = job.index + 1
               /\ job.index \in DOMAIN job.request.texts
    <3>1. IsList(job.request.texts)  BY RankIs DEF IsGood, IsAmongTexts, IsRequest
    <3>2. Len(job.request.texts) \in Nat /\ job.index \in Nat  BY <2>1, <3>1, ListLen
    <3>. QED  BY <2>1, <3>1, <3>2
  <2>2. CASE ~job.whole /\ job'.whole /\ job'.request.texts = job.request.texts
               /\ job'.index = job.index
    <3>1. b = 1 /\ bb = 0  BY <2>2
    <3>. QED  BY <2>2, <3>1
  <2>3. CASE /\ job'.request.texts = job.request.texts /\ job'.index = job.index
             /\ job'.whole = job.whole /\ job'.answer = job.answer
             /\ job'.start \in Nat /\ job.start < job'.start
    <3>1. Len(job.answer) \in Nat /\ job.start \in Nat  BY ListLen DEF IsGood, IsJob
    <3>2. cc < c  BY <2>3, <3>1
    <3>. QED  BY <2>3, <3>2
  <2>. QED  BY <2>1, <2>2, <2>3 DEF Ends
<1>. HIDE DEF a, b, c, d, aa, bb, cc, dd
<1>3. CASE aa < a
  <2>1. Remaining'[1] < Remaining[1]  BY <1>1, <1>3
  <2>. QED  BY <2>1
<1>4. CASE aa = a /\ bb < b
  <2>1. Remaining'[2] < Remaining[2] /\ Remaining'[1] = Remaining[1]  BY <1>1, <1>4
  <2>2. \A k \in 1 .. 2 - 1 : Remaining'[k] = Remaining[k]  BY <2>1
  <2>. QED  BY <2>1, <2>2
<1>5. CASE aa = a /\ bb = b /\ cc < c
  <2>1. Remaining'[3] < Remaining[3] /\ Remaining'[1] = Remaining[1]
          /\ Remaining'[2] = Remaining[2]
    BY <1>1, <1>5
  <2>2. \A k \in 1 .. 3 - 1 : Remaining'[k] = Remaining[k]  BY <2>1
  <2>. QED  BY <2>1, <2>2
<1>6. CASE aa = a /\ bb = b /\ cc = c /\ dd < d
  <2>1. Remaining'[4] < Remaining[4] /\ Remaining'[1] = Remaining[1]
          /\ Remaining'[2] = Remaining[2] /\ Remaining'[3] = Remaining[3]
    BY <1>1, <1>6
  <2>2. \A k \in 1 .. 4 - 1 : Remaining'[k] = Remaining[k]  BY <2>1
  <2>. QED  BY <2>1, <2>2
<1>. QED  BY <1>2, <1>3, <1>4, <1>5, <1>6

\* Every request comes to its end: each step of its handler leaves less of it, of its texts,
\* of a second review, of the characters of a text or of the steps of a part.
THEOREM RequestsEnd == Spec => JobEnds
<1>1. ASSUME JobIsGood, JobIsGood', [Next]_job
      PROVE  [job.stage \in DOMAIN Rank /\ job'.stage \in DOMAIN Rank =>
                \E i \in 1 .. 4 : /\ Remaining'[i] < Remaining[i]
                                  /\ \A k \in 1 .. i - 1 : Remaining'[k] = Remaining[k]]_job
  <2>. SUFFICES ASSUME job.stage \in DOMAIN Rank, job'.stage \in DOMAIN Rank, job' # job
                PROVE  \E i \in 1 .. 4 : /\ Remaining'[i] < Remaining[i]
                                         /\ \A k \in 1 .. i - 1 : Remaining'[k] = Remaining[k]
    OBVIOUS
  <2>1. IsGood(job) /\ IsGood(job')  BY <1>1 DEF JobIsGood
  <2>2. Ends(job, job')
    <3>1. CASE Receive  BY <3>1, RankIs DEF Receive
    <3>2. CASE ReadText  BY <2>1, <3>2, ReadTextEnds
    <3>3. CASE ReadAnswer  BY <2>1, <3>3, ReadAnswerEnds
    <3>4. CASE AskLanguageTool  BY <2>1, <3>4, AskEnds
    <3>5. CASE Sort  BY <2>1, <3>5, SortEnds
    <3>6. CASE Verdict
      <4>1. DOMAIN job = JobFields  BY <2>1 DEF IsGood, IsJob
      <4>2. job'.stage = "done"  BY <3>6, <4>1, DoneIs DEF Verdict
      <4>. QED  BY <4>2, RankIs
    <3>7. CASE JudgeText  BY <2>1, <3>7, JudgeEnds
    <3>8. CASE SendAgain \/ NextTurn \/ SwitchFormat \/ SwitchIntoInklusivum \/ Leave
      BY <3>8, RankIs DEF SendAgain, NextTurn, SwitchFormat, SwitchIntoInklusivum, Leave
    <3>. QED
      BY <1>1, <3>1, <3>2, <3>3, <3>4, <3>5, <3>6, <3>7, <3>8 DEF Next, Serve
  <2>. QED  BY <2>1, <2>2, EndsIsLess
<1>. QED  BY <1>1, JobsAreGood, PTL DEF Spec, JobEnds

-----------------------------------------------------------------------------
\* Offsets of a text without an emoji of the BMP.

\* A longer beginning has no fewer of them.
LEMMA CountGrows ==
  ASSUME NEW text, NEW i \in Nat, NEW k \in Nat, i <= k, NEW characters
  PROVE  CountUpTo(text, i, characters) <= CountUpTo(text, k, characters)
<1>. DEFINE C == {m \in 1 .. i : text[m] \in characters}
            D == {m \in 1 .. k : text[m] \in characters}
<1>1. IsFiniteSet(1 .. k)  BY FS_Interval
<1>2. C \subseteq D /\ D \subseteq 1 .. k  OBVIOUS
<1>. HIDE DEF C, D
<1>3. IsFiniteSet(D)  BY <1>1, <1>2, FS_Subset
<1>4. Cardinality(C) <= Cardinality(D)  BY <1>2, <1>3, FS_Subset
<1>. QED  BY <1>4 DEF CountUpTo, C, D

\* The server's positions and the code's are the same, each of one character, and found again.
LEMMA WideOffsets ==
  ASSUME NEW text, IsList(text), \A i \in 1 .. Len(text) : text[i] \notin Signs
  PROVE  \A i \in 0 .. Len(text) : /\ utf16_offsets(text)[i] = UnitsBefore(text, i)
                                   /\ from_utf16(utf16_offsets(text), UnitsBefore(text, i)) = i
<1>. DEFINE offsets == utf16_offsets(text)
<1>1. Len(text) \in Nat  BY ListLen
<1>2. ASSUME NEW i \in 0 .. Len(text) PROVE offsets[i] = UnitsBefore(text, i)
  <2>1. {m \in 1 .. i : text[m] \in CountedTwice} = {m \in 1 .. i : text[m] \in Wide}
    BY <1>1 DEF CountedTwice
  <2>2. CountUpTo(text, i, CountedTwice) = CountUpTo(text, i, Wide)  BY <2>1 DEF CountUpTo
  <2>. QED  BY <2>2, OffsetsAre DEF UnitsBefore
<1>3. ASSUME NEW i \in 0 .. Len(text), NEW k \in 0 .. Len(text), i < k
      PROVE  UnitsBefore(text, i) < UnitsBefore(text, k)
  <2>1. i \in Nat /\ k \in Nat /\ i <= k  BY <1>1, <1>3
  <2>2. CountUpTo(text, i, Wide) <= CountUpTo(text, k, Wide)  BY <2>1, CountGrows
  <2>3. CountUpTo(text, i, Wide) \in Nat /\ CountUpTo(text, k, Wide) \in Nat  BY <2>1, CountIs
  <2>. QED  BY <1>3, <2>1, <2>2, <2>3 DEF UnitsBefore
<1>4. ASSUME NEW i \in 0 .. Len(text), NEW k \in 0 .. Len(text), offsets[k] = UnitsBefore(text, i)
      PROVE  k = i
  <2>1. UnitsBefore(text, k) = UnitsBefore(text, i)  BY <1>2, <1>4
  <2>2. UnitsBefore(text, i) \in Nat  BY <1>1, UnitsIn
  <2>3. ~(i < k) /\ ~(k < i)  BY <1>3, <2>1, <2>2
  <2>. QED  BY <1>1, <2>3
<1>5. DOMAIN offsets = 0 .. Len(text)  BY OffsetsAre
<1>. HIDE DEF offsets
<1>6. ASSUME NEW i \in 0 .. Len(text) PROVE from_utf16(offsets, UnitsBefore(text, i)) = i
  <2>. DEFINE units == UnitsBefore(text, i)
              c == CHOOSE k \in DOMAIN offsets : offsets[k] = units
  <2>1. \E k \in DOMAIN offsets : offsets[k] = units  BY <1>2, <1>5
  <2>2. c \in DOMAIN offsets /\ offsets[c] = units  BY <2>1
  <2>3. c = i  BY <1>4, <1>5, <2>2
  <2>. QED  BY <2>1, <2>3 DEF from_utf16
<1>. QED  BY <1>2, <1>6 DEF offsets

\* What the server finds in such a text is looked up: it is one character.
LEMMA MatchesRead ==
  ASSUME NEW text, IsList(text), \A i \in 1 .. Len(text) : text[i] \notin Signs,
         NEW match, IsMatch(match, text)
  PROVE  \E i \in 1 .. Len(text) :
           /\ CharacterSpan(text, match) = <<i - 1, i>> /\ match.defect.word = text[i]
           /\ Slice(text, i - 1, i) = <<text[i]>>
<1>1. PICK i \in 1 .. Len(text) :
        /\ match.offset = UnitsBefore(text, i - 1)
        /\ match.length = UnitsBefore(text, i) - UnitsBefore(text, i - 1)
        /\ match.defect.word = text[i]
  BY DEF IsMatch
<1>2. Len(text) \in Nat /\ i - 1 \in 0 .. Len(text) /\ i \in 0 .. Len(text)  BY ListLen
<1>. DEFINE h == i - 1
<1>3. UnitsBefore(text, h) \in Nat /\ UnitsBefore(text, i) \in Nat  BY <1>2, UnitsIn
<1>4. match.offset + match.length = UnitsBefore(text, i)  BY <1>1, <1>3
<1>5. /\ from_utf16(utf16_offsets(text), UnitsBefore(text, h)) = h
      /\ from_utf16(utf16_offsets(text), UnitsBefore(text, i)) = i
  <2>. HIDE DEF h
  <2>. QED  BY <1>2, WideOffsets DEF h
<1>6. CharacterSpan(text, match) = <<h, i>>  BY <1>1, <1>4, <1>5 DEF CharacterSpan
<1>7. Slice(text, h, i) = <<text[i]>>
  <2>1. h \in Nat /\ h <= i /\ i <= Len(text) /\ i \in Nat  BY <1>2
  <2>2. i = h + 1 /\ i - h = 1  BY <1>2
  <2>. HIDE DEF h
  <2>3. /\ IsList(Slice(text, h, i)) /\ Len(Slice(text, h, i)) = 1
    BY <2>1, <2>2, Sliced
  <2>4. \A k \in 1 .. Len(Slice(text, h, i)) : Slice(text, h, i)[k] = text[h + k]
    BY <2>1, Sliced
  <2>5. Slice(text, h, i)[1] = text[i]  BY <2>2, <2>3, <2>4
  <2>6. IsList(<<text[i]>>) /\ Len(<<text[i]>>) = 1 /\ <<text[i]>>[1] = text[i]  BY OneIn
  <2>. HIDE DEF h
  <2>7. \A k \in 1 .. 1 : Slice(text, h, i)[k] = <<text[i]>>[k]  BY <2>5, <2>6
  <2>. QED  BY <2>3, <2>6, <2>7, SameList
<1>. QED  BY <1>1, <1>6, <1>7

LEMMA MatchesHaveResults ==
  ASSUME NEW text, IsList(text), \A i \in 1 .. Len(text) : text[i] \notin Signs,
         NEW match, IsMatch(match, text)
  PROVE  MatchHasResult(match, text)
<1>1. PICK i \in 1 .. Len(text) :
        /\ CharacterSpan(text, match) = <<i - 1, i>> /\ Slice(text, i - 1, i) = <<text[i]>>
  BY MatchesRead
<1>2. Slice(text, i - 1, i) # <<>>  BY <1>1
<1>3. Len(text) \in Nat /\ i - 1 <= Len(text)  BY ListLen
<1>4. CharacterSpan(text, match)[1] = i - 1 /\ CharacterSpan(text, match)[2] = i  BY <1>1
<1>. QED  BY <1>2, <1>3, <1>4 DEF MatchHasResult, HasResult

-----------------------------------------------------------------------------
\* Why a request fails.

\* fastText answers with a list of labels.
PredictionsAreLists == \A text : IsList(Predictions(text))

\* A language that is told from a text has a model, or stands for none.
LEMMA DetectedAre ==
  ASSUME PredictionsAreLists, NEW text
  PROVE  /\ IsList(Detected(text))
         /\ \A i \in DOMAIN Detected(text) :
              Detected(text)[i] \in DOMAIN LangOf /\ LangOf[Detected(text)[i]] \in supported_langs
<1>. DEFINE guesses == Predictions(text)
            Counts(guess) ==
              IF guess = guesses[1] THEN guess.score >= 30
              ELSE 10 * guess.score >= 9 * guesses[1].score
            counted == KeptAt(guesses, {i \in DOMAIN guesses : Counts(guesses[i])})
            langs == predict_lang(text)
            coded == [i \in DOMAIN langs |-> IF langs[i] = "uk" THEN "en-GB" ELSE langs[i]]
            keys == {i \in DOMAIN coded : coded[i] \in DOMAIN LangOf
                                            /\ LangOf[coded[i]] \in supported_langs}
<1>1. Len(guesses) \in Nat  BY ListLen DEF PredictionsAreLists
<1>2. langs = [i \in DOMAIN counted |-> counted[i].lang]  BY DEF predict_lang
<1>. HIDE DEF guesses, Counts
<1>3. IsList(counted)  BY <1>1, KeptAtFrom
<1>. HIDE DEF counted, langs
<1>4. Len(counted) \in Nat /\ DOMAIN counted = 1 .. Len(counted)  BY <1>3, ListLen
<1>5. DOMAIN langs = 1 .. Len(counted)  BY <1>2, <1>4
<1>6. Detected(text) = KeptAt(coded, keys)  BY DEF Detected, langs
<1>7. coded = [i \in 1 .. Len(counted) |-> coded[i]]  BY <1>5
<1>8. \A i \in keys : coded[i] \in DOMAIN LangOf /\ LangOf[coded[i]] \in supported_langs
  OBVIOUS
<1>. HIDE DEF coded, keys
<1>9. IsList(coded)  BY <1>4, <1>7, ListsMapped
<1>10. Len(coded) \in Nat  BY <1>9, ListLen
<1>11. /\ IsList(KeptAt(coded, keys))
       /\ \A i \in DOMAIN KeptAt(coded, keys) :
            \E k \in keys \intersect (1 .. Len(coded)) : KeptAt(coded, keys)[i] = coded[k]
  BY <1>10, KeptAtFrom
<1>. QED  BY <1>6, <1>8, <1>11

\* The first that is in a set is one of the list.
FirstIn(seq, S, otherwise) == FirstOf(seq, LAMBDA l : l \in S, otherwise)

LEMMA FirstFrom ==
  ASSUME NEW seq, IsList(seq), NEW S, NEW otherwise
  PROVE  FirstIn(seq, S, otherwise) \in Range(seq) \union {otherwise}
<1>. DEFINE I == {i \in 1 .. Len(seq) : seq[i] \in S}
            at == IF I # {} THEN Min(I) ELSE 0
<1>1. Len(seq) \in Nat /\ DOMAIN seq = 1 .. Len(seq)  BY ListLen
<1>2. FirstIn(seq, S, otherwise) = IF at = 0 THEN otherwise ELSE seq[at]
  BY DEF FirstIn, FirstOf, SelectInSeq
<1>3. I \subseteq Nat /\ I \subseteq DOMAIN seq  BY <1>1
<1>. HIDE DEF I
<1>4. I # {} => Min(I) \in I  BY <1>3, MinIn
<1>. QED  BY <1>2, <1>3, <1>4 DEF Range

\* A default locale has the language it is the default of.
LEMMA DefaultLoaded ==
  ASSUME NEW lang, get_default_locale(lang) # NoLocale
  PROVE  /\ lang \in Langs /\ get_default_locale(lang) \in Locales
         /\ LangOf[get_default_locale(lang)] = lang /\ LangOf[lang] = lang
BY DEF get_default_locale, NoLocale, Langs, Locales, LangOf

\* The language a text is in, where no variant is asked for, has a model.
LEMMA ToldLoaded ==
  ASSUME NEW langs, IsList(langs), NEW preferred,
         \A i \in DOMAIN langs : langs[i] \in DOMAIN LangOf /\ LangOf[langs[i]] \in supported_langs,
         get_locale_by_lang(langs, preferred) # NoLocale
  PROVE  Loaded(get_locale_by_lang(langs, preferred))
<1>. DEFINE other == FirstOf(langs, LAMBDA l : get_default_locale(l) # NoLocale, NoLocale)
            lang == FirstIn(langs, preferred, other)
            I == {i \in 1 .. Len(langs) : get_default_locale(langs[i]) # NoLocale}
<1>1. get_locale_by_lang(langs, preferred) = get_default_locale(lang)
  BY DEF get_locale_by_lang, FirstIn
<1>2. other = IF (IF I # {} THEN Min(I) ELSE 0) = 0 THEN NoLocale
              ELSE langs[IF I # {} THEN Min(I) ELSE 0]
  BY DEF FirstOf, SelectInSeq
<1>3. Len(langs) \in Nat /\ DOMAIN langs = 1 .. Len(langs)  BY ListLen
<1>4. I \subseteq Nat /\ I \subseteq DOMAIN langs  BY <1>3
<1>. HIDE DEF I
<1>5. I # {} => Min(I) \in I  BY <1>4, MinIn
<1>6. other \in Range(langs) \union {NoLocale}  BY <1>2, <1>4, <1>5 DEF Range
<1>. HIDE DEF other
<1>7. lang \in Range(langs) \union {other}  BY FirstFrom
<1>. HIDE DEF lang
<1>8. lang \in Langs /\ get_default_locale(lang) \in Locales
      /\ LangOf[get_default_locale(lang)] = lang /\ LangOf[lang] = lang
  BY <1>1, DefaultLoaded
<1>9. lang # NoLocale  BY <1>8 DEF Langs, NoLocale
<1>10. LangOf[lang] \in supported_langs  BY <1>6, <1>7, <1>9 DEF Range
<1>. QED  BY <1>1, <1>8, <1>10 DEF Loaded

\* A locale without a model was named by the client, or is a guess.
Named(r, locale) ==
  \/ r.lang \in {locale, LangOf[locale]}
  \/ locale \in Range(r.variants)
  \/ r.route = "lt" /\ locale = "en-US"

LEMMA UnloadedIsNamed ==
  ASSUME PredictionsAreLists, NEW r, IsRequest(r), NEW text,
         LocaleFor(r, text) # NoLocale, ~Loaded(LocaleFor(r, text))
  PROVE  Named(r, LocaleFor(r, text))
<1>. DEFINE langs == Detected(text)
            preferred == r.config.preferred_languages
            variant == get_locale_by_variant(langs, r.variants)
            told == get_locale_by_lang(langs, preferred)
            locale == get_locale(text, r.lang, preferred, r.variants)
<1>1. LocaleFor(r, text) = IF locale = NoLocale /\ r.route = "lt" /\ r.lang = "auto"
                           THEN Guess(r.variants) ELSE locale
  BY DEF LocaleFor, Guess
<1>2. IsList(r.variants)  BY DEF IsRequest
<1>3. variant \in Range(r.variants) \union {NoLocale}
  <2>1. \A lang : VariantFor(lang, r.variants) \in Range(r.variants) \union {NoLocale}
    BY <1>2, VariantIn
  <2>. QED  BY <2>1 DEF get_locale_by_variant
<1>4. Guess(r.variants) \in Range(r.variants) \union {"en-US"}  BY <1>2, GuessIn
<1>5. told # NoLocale => Loaded(told)
  <2>1. /\ IsList(langs)
        /\ \A i \in DOMAIN langs :
             langs[i] \in DOMAIN LangOf /\ LangOf[langs[i]] \in supported_langs
    BY DetectedAre
  <2>. HIDE DEF langs, preferred
  <2>. QED  BY <2>1, ToldLoaded
<1>6. locale = IF r.lang = "auto"
               THEN IF langs = <<>> THEN NoLocale ELSE IF variant # NoLocale THEN variant ELSE told
               ELSE IF r.lang \in Locales THEN r.lang ELSE get_default_locale(r.lang)
  BY DEF get_locale
<1>. HIDE DEF langs, preferred, variant, told, locale
<1>7. CASE locale = NoLocale  BY <1>1, <1>4, <1>7 DEF Named
<1>8. CASE locale # NoLocale
  <2>1. LocaleFor(r, text) = locale  BY <1>1, <1>8
  <2>2. CASE r.lang = "auto"
    <3>1. locale = variant  BY <1>5, <1>6, <1>8, <2>1, <2>2
    <3>. QED  BY <1>3, <1>8, <2>1, <3>1 DEF Named
  <2>3. CASE r.lang # "auto" /\ r.lang \in Locales  BY <1>6, <2>1, <2>3 DEF Named
  <2>4. CASE r.lang # "auto" /\ r.lang \notin Locales
    <3>1. locale = get_default_locale(r.lang)  BY <1>6, <2>4
    <3>2. LangOf[locale] = r.lang  BY <1>8, <3>1, DefaultLoaded
    <3>. QED  BY <2>1, <3>2 DEF Named
  <2>. QED  BY <2>2, <2>3, <2>4
<1>. QED  BY <1>7, <1>8

\* A request does not fail before it is read.
LEMMA OpenedNeverFails ==
  ASSUME NEW r, IsRequest(r)
  PROVE  Opened(r).stage # "failed"
<1>. DEFINE Begins(j) == j.stage # "failed"
<1>1. ASSUME NEW response PROVE Begins(Done(Started(r), response))
  BY StartedIs DEF Done, IsFresh, JobFields
<1>2. ASSUME NEW q, NEW text, NEW whole PROVE Begins(Reviewing(Started(q), 1, text, whole))
  <2>1. DOMAIN Started(q) = JobFields  BY StartedIs DEF IsFresh
  <2>2. ReviewGoesOn(Started(q), Reviewing(Started(q), 1, text, whole), 1, text, whole)
    BY <2>1, ReviewingGives
  <2>. QED  BY <2>2 DEF ReviewGoesOn
<1>3. CASE r.route = "check"
  BY <1>1, <1>3, StartedIs DEF Opened, OpenedCheck, IsFresh, JobFields
<1>4. CASE r.route = "lt"
  <2>. DEFINE data == r.text = <<>> /\ r.annotations # <<>>
              text == IF data THEN TextOf(r.annotations) ELSE r.text
              spans == IF data THEN markup_spans(r.annotations) ELSE {}
              j == [Started(r) EXCEPT !.stage = "read", !.request.lang = resolve_lang(r.code),
                                      !.answer = text, !.spans = spans]
  <2>. HIDE DEF text, spans
  <2>1. j.stage = "read"  BY StartedIs DEF IsFresh, JobFields
  <2>. HIDE DEF j
  <2>2. \/ OpenedLt(r) = Done(Started(r), Refusal)
        \/ OpenedLt(r) = Done(Started(r), Matched(<<>>, <<>>))
        \/ OpenedLt(r) = j
    BY DEF OpenedLt, text, spans, j
  <2>3. Opened(r) = OpenedLt(r)  BY <1>4 DEF Opened
  <2>. QED  BY <1>1, <2>1, <2>2, <2>3
<1>5. CASE r.route = "guardrail"
  <2>1. Opened(r) = OpenedGuardrail(r)  BY <1>5 DEF Opened
  <2>2. [Started(Reviewed(r)) EXCEPT !.stage = "read", !.answer = r.text].stage = "read"
    BY StartedIs DEF IsFresh, JobFields
  <2>. QED  BY <1>1, <2>1, <2>2 DEF OpenedGuardrail
<1>6. CASE r.route = "input"
  <2>1. Opened(r) = OpenedInput(r)  BY <1>6 DEF Opened
  <2>. HIDE DEF Begins
  <2>2. Begins(OpenedInput(r))  BY <1>1 DEF OpenedInput
  <2>. QED  BY <2>1, <2>2 DEF Begins
<1>7. CASE r.route = "litellm"
  <2>1. Opened(r) = OpenedLitellm(r)  BY <1>7 DEF Opened
  <2>. HIDE DEF Begins
  <2>2. Begins(OpenedLitellm(r))  BY <1>1, <1>2 DEF OpenedLitellm
  <2>. QED  BY <2>1, <2>2 DEF Begins
<1>8. CASE r.route = "form"
  <2>. DEFINE d == Done(Started(r), Nothing)
  <2>1. Opened(r) = [d EXCEPT !.form = r.form.written, !.format = r.form.format]
    BY <1>8 DEF Opened
  <2>2. DOMAIN d = JobFields /\ d.stage = "done"
    BY StartedIs DEF Done, IsFresh, JobFields
  <2>. QED  BY <2>1, <2>2 DEF JobFields
<1>. QED  BY <1>3, <1>4, <1>5, <1>6, <1>7, <1>8 DEF IsRequest, Routes

\* A gateway's next request is one like any other.
LEMMA OpensAgain ==
  ASSUME IsGood(job), SendAgain \/ NextTurn
  PROVE  \E r, resends : IsRequest(r) /\ job' = [Opened(r) EXCEPT !.resends = resends]
<1>1. job.stage = "done"  BY DEF SendAgain, NextTurn
<1>2. IsRequest(job.request)  BY <1>1 DEF IsGood, IsAmongTexts
<1>3. CASE SendAgain
  <2>. DEFINE r == [job.request EXCEPT !.texts = job.response.texts]
  <2>1. /\ IsList(job.response.texts)
        /\ \A i \in DOMAIN job.response.texts : IsList(job.response.texts[i])
    BY <1>3 DEF IsGood, IsAnswered, SendAgain
  <2>2. IsRequest(r)  BY <1>2, <2>1, RequestWith
  <2>3. job' = [Opened(r) EXCEPT !.resends = job.resends + 1]  BY <1>3 DEF SendAgain
  <2>. QED  BY <2>2, <2>3
<1>4. CASE NextTurn
  <2>. DEFINE r == [job.request EXCEPT !.messages = job.response.messages]
  <2>1. IsRequest(r)  BY <1>2, RequestWith
  <2>2. job' = [Opened(r) EXCEPT !.resends = job.resends + 1]  BY <1>4 DEF NextTurn
  <2>. QED  BY <2>1, <2>2
<1>. QED  BY <1>3, <1>4

\* A request only fails for a cause that is not the server's, whatever is in the text and
\* whatever LanguageTool and the language detection say of it.
THEOREM FailuresHaveCauses ==
  ASSUME PredictionsAreLists
  PROVE  Spec => []FailsForACause
<1>1. Init => FailsForACause  BY DEF Init, Idle, FailsForACause
<1>2. ASSUME JobIsGood, FailsForACause, [Next]_job PROVE FailsForACause'
  <2>. SUFFICES ASSUME job'.stage = "failed", job' # job PROVE FailsForACause'
    BY <1>2 DEF FailsForACause
  <2>1. IsGood(job) /\ DOMAIN job = JobFields  BY <1>2 DEF JobIsGood, IsGood, IsJob
  <2>2. ASSUME NEW part, ReadFailed(job, job', part), job.stage # "idle" PROVE FailsForACause'
    <3>1. /\ job'.request = job.request /\ job'.locale = LocaleFor(job.request, part)
          /\ ~Loaded(job'.locale) /\ job'.locale # NoLocale
      BY <2>2 DEF ReadFailed, Stays, JobFields
    <3>2. IsRequest(job.request)  BY <2>1, <2>2 DEF IsGood, IsAmongTexts
    <3>3. Named(job'.request, job'.locale)  BY <3>1, <3>2, UnloadedIsNamed
    <3>. QED  BY <3>1, <3>3 DEF FailsForACause, Named
  <2>3. CASE ReadText
    <3>. DEFINE part == fetch_text(job.answer)
    <3>1. job.stage = "read" /\ job' = Read(part, Done(job, Refusal))  BY <2>3 DEF ReadText
    <3>2. Done(job, Refusal).stage = "done"  BY <2>1, DoneIs
    <3>. HIDE DEF part
    <3>3. job' = Done(job, Refusal) \/ ReadFailed(job, job', part) \/ ReadOn(job, job', part)
      BY <2>1, <3>1, ReadGives
    <3>4. ~ReadOn(job, job', part)  BY DEF ReadOn
    <3>. QED  BY <2>2, <3>1, <3>2, <3>3, <3>4
  <2>4. CASE ReadAnswer
    <3>. DEFINE part == Part(Looked(job.answer), job.start)
    <3>1. job.stage = "read"  BY <2>1, <2>4, ReadAnswerGives
    <3>2. job' # [job EXCEPT !.stage = "verdict"]  BY <2>1 DEF JobFields
    <3>3. job' # [job EXCEPT !.start = Behind(@, part)]  BY <2>1, <3>1 DEF JobFields
    <3>4. ~ReadOn(job, job', part)  BY DEF ReadOn
    <3>5. ReadFailed(job, job', part)  BY <2>1, <2>4, <3>2, <3>3, <3>4, ReadAnswerGives
    <3>. QED  BY <2>2, <3>1, <3>5
  <2>5. CASE AskLanguageTool
    <3>. DEFINE config == job.request.config
                matches == ReportedMatches(job.part, job.locale, Lang, config)
    <3>1. /\ Stays(job, job', {"stage", "down"})
          /\ \/ job'.down = TRUE
             \/ job.request.languagetool /\ ~AllHaveResults(matches, job.part)
      BY <2>1, <2>5, AskGives
    <3>2. job'.request = job.request /\ job'.part = job.part  BY <3>1 DEF Stays, JobFields
    <3>3. CASE job'.down = TRUE
      <4>1. job'.down  BY <3>3, Zenon
      <4>. QED  BY <4>1 DEF FailsForACause
    <3>4. CASE job.request.languagetool /\ ~AllHaveResults(matches, job.part)
      <4>1. IsList(job.part)  BY <2>1 DEF IsGood, IsJob
      <4>2. \A k \in DOMAIN matches : IsMatch(matches[k], job.part)  BY <4>1, ReportedAreMatches
      <4>3. ~\A i \in 1 .. Len(job.part) : job.part[i] \notin Signs
        BY <3>4, <4>1, <4>2, MatchesHaveResults DEF AllHaveResults
      <4>4. Range(job.part) \intersect Signs # {}  BY <4>1, <4>3, ListLen DEF Range
      <4>. QED  BY <3>2, <3>4, <4>4 DEF FailsForACause
    <3>. QED  BY <3>1, <3>3, <3>4
  <2>6. CASE Sort
    <3>1. ~\E genuine : SortsTo(job, job', genuine)  BY DEF SortsTo
    <3>2. job'.down = TRUE  BY <2>1, <2>6, <3>1, SortGives
    <3>3. job'.down  BY <3>2, Zenon
    <3>. QED  BY <3>3 DEF FailsForACause
  <2>7. CASE Verdict
    <3>1. job'.stage = "done"  BY <2>1, <2>7, DoneIs DEF Verdict
    <3>. QED  BY <3>1
  <2>8. CASE JudgeText
    <3>1. ASSUME NEW answer, NEW issue, AnswerGoesOn(answer, issue, job') PROVE FALSE
      <4>. DEFINE judged == JudgedWith(answer, issue)
      <4>1. DOMAIN judged = JobFields  BY <2>1 DEF JudgedWith
      <4>. HIDE DEF judged
      <4>2. job' # Done(judged, LitellmOut(judged))  BY <4>1, DoneIs
      <4>3. \A index, text, whole : ~ReviewGoesOn(judged, job', index, text, whole)
        BY DEF ReviewGoesOn
      <4>. QED  BY <3>1, <4>2, <4>3 DEF AnswerGoesOn, judged
    <3>2. \A index, text, whole : ~ReviewGoesOn(job, job', index, text, whole)
      BY DEF ReviewGoesOn
    <3>. QED  BY <2>1, <2>8, <3>1, <3>2, JudgeGives
  <2>9. CASE Receive
    <3>1. PICK r \in Requests : job' = Opened(r)  BY <2>9 DEF Receive
    <3>2. IsRequest(r)  BY TextChecksAssumption
    <3>. QED  BY <3>1, <3>2, OpenedNeverFails
  <2>10. CASE SendAgain \/ NextTurn
    <3>1. PICK r, resends : IsRequest(r) /\ job' = [Opened(r) EXCEPT !.resends = resends]
      BY <2>1, <2>10, OpensAgain
    <3>2. DOMAIN Opened(r) = JobFields  BY <3>1, OpenedIsGood DEF IsGood, IsJob
    <3>3. job'.stage = Opened(r).stage  BY <3>1, <3>2 DEF JobFields
    <3>. QED  BY <3>1, <3>3, OpenedNeverFails
  <2>11. CASE SwitchFormat \/ SwitchIntoInklusivum
    <3>1. job.stage = "done" /\ Stays(job, job', {"form", "format"})  BY <2>1, <2>11, SwitchGives
    <3>. QED  BY <3>1 DEF Stays, JobFields
  <2>12. CASE Leave
    <3>1. job'.stage = "idle"  BY <2>12 DEF Leave, Idle
    <3>. QED  BY <3>1
  <2>. QED
    BY <1>2, <2>3, <2>4, <2>5, <2>6, <2>7, <2>8, <2>9, <2>10, <2>11, <2>12 DEF Next, Serve
<1>. QED  BY <1>1, <1>2, JobsAreGood, PTL DEF Spec

-----------------------------------------------------------------------------
\* Answers.

\* What is answered at once has nothing in it but a conversation to send on.
SaysNothing(response) ==
  \/ response = Refusal \/ response = Results(<<>>) \/ response = Matched(<<>>, <<>>)

LEMMA OpenedDone ==
  ASSUME NEW r, IsRequest(r), Opened(r).stage = "done"
  PROVE  \/ r.route = "form" /\ Opened(r).request = r
         \/ SaysNothing(Opened(r).response)
         \/ /\ r.route = "input"
            /\ Opened(r).response = Chat(merge_guidance(r.messages, guidance(r.config, r.lang)))
            /\ Opened(r).request = r
         \/ /\ r.route = "litellm" /\ r.texts = <<>>
            /\ Opened(r).response = Chat(with_guidance(r.messages, guidance(r.config, r.lang)))
            /\ Opened(r).request = r
<1>1. ASSUME NEW response PROVE Done(Started(r), response).response = response
                                /\ Done(Started(r), response).request = r
  BY StartedIs DEF Done, IsFresh, JobFields
<1>2. ASSUME NEW q, NEW text, NEW whole PROVE Reviewing(Started(q), 1, text, whole).stage # "done"
  <2>1. DOMAIN Started(q) = JobFields  BY StartedIs DEF IsFresh
  <2>2. ReviewGoesOn(Started(q), Reviewing(Started(q), 1, text, whole), 1, text, whole)
    BY <2>1, ReviewingGives
  <2>. QED  BY <2>2 DEF ReviewGoesOn
<1>3. CASE r.route = "check"
  <2>1. Opened(r) = OpenedCheck(r)  BY <1>3 DEF Opened
  <2>2. [Started(r) EXCEPT !.stage = "read", !.answer = r.text].stage = "read"
    BY StartedIs DEF IsFresh, JobFields
  <2>3. Opened(r) = Done(Started(r), Results(<<>>))  BY <2>1, <2>2 DEF OpenedCheck
  <2>. QED  BY <1>1, <2>3 DEF SaysNothing
<1>4. CASE r.route = "lt"
  <2>. DEFINE data == r.text = <<>> /\ r.annotations # <<>>
              text == IF data THEN TextOf(r.annotations) ELSE r.text
              spans == IF data THEN markup_spans(r.annotations) ELSE {}
              j == [Started(r) EXCEPT !.stage = "read", !.request.lang = resolve_lang(r.code),
                                      !.answer = text, !.spans = spans]
  <2>. HIDE DEF text, spans
  <2>1. j.stage = "read"  BY StartedIs DEF IsFresh, JobFields
  <2>. HIDE DEF j
  <2>2. \/ OpenedLt(r) = Done(Started(r), Refusal)
        \/ OpenedLt(r) = Done(Started(r), Matched(<<>>, <<>>))
        \/ OpenedLt(r) = j
    BY DEF OpenedLt, text, spans, j
  <2>3. Opened(r) = OpenedLt(r)  BY <1>4 DEF Opened
  <2>. QED  BY <1>1, <2>1, <2>2, <2>3 DEF SaysNothing
<1>5. CASE r.route = "guardrail"
  <2>1. Opened(r) = OpenedGuardrail(r)  BY <1>5 DEF Opened
  <2>2. [Started(Reviewed(r)) EXCEPT !.stage = "read", !.answer = r.text].stage = "read"
    BY StartedIs DEF IsFresh, JobFields
  <2>3. Opened(r) = Done(Started(r), Refusal)  BY <2>1, <2>2 DEF OpenedGuardrail
  <2>. QED  BY <1>1, <2>3 DEF SaysNothing
<1>6. CASE r.route = "input"
  <2>. DEFINE chat == Chat(merge_guidance(r.messages, guidance(r.config, r.lang)))
  <2>1. Opened(r) = OpenedInput(r)  BY <1>6 DEF Opened
  <2>. HIDE DEF chat
  <2>2. Opened(r) = Done(Started(r), Refusal) \/ Opened(r) = Done(Started(r), chat)
    BY <2>1 DEF OpenedInput, chat
  <2>3. CASE Opened(r) = Done(Started(r), Refusal)  BY <1>1, <2>3 DEF SaysNothing
  <2>4. CASE Opened(r) = Done(Started(r), chat)
    <3>1. Opened(r).response = chat /\ Opened(r).request = r  BY <1>1, <2>4
    <3>. QED  BY <1>6, <3>1 DEF chat
  <2>. QED  BY <2>2, <2>3, <2>4
<1>7. CASE r.route = "litellm"
  <2>. DEFINE chat == Chat(with_guidance(r.messages, guidance(r.config, r.lang)))
              first == FirstReviewed(r.texts[1])
              whole == first = r.texts[1]
  <2>1. Opened(r) = OpenedLitellm(r)  BY <1>7 DEF Opened
  <2>2. \/ Opened(r) = Done(Started(r), Refusal)
        \/ r.texts = <<>> /\ Opened(r) = Done(Started(r), chat)
        \/ Opened(r) = Reviewing(Started(Reviewed(r)), 1, first, whole)
    BY <2>1 DEF OpenedLitellm
  <2>. HIDE DEF chat, first, whole
  <2>3. CASE Opened(r) = Done(Started(r), Refusal)  BY <1>1, <2>3 DEF SaysNothing
  <2>4. CASE r.texts = <<>> /\ Opened(r) = Done(Started(r), chat)
    <3>1. Opened(r).response = chat /\ Opened(r).request = r  BY <1>1, <2>4
    <3>. QED  BY <1>7, <2>4, <3>1 DEF chat
  <2>. QED  BY <1>2, <2>2, <2>3, <2>4
<1>8. CASE r.route = "form"
  <2>. DEFINE d == Done(Started(r), Nothing)
  <2>1. Opened(r) = [d EXCEPT !.form = r.form.written, !.format = r.form.format]
    BY <1>8 DEF Opened
  <2>2. DOMAIN d = JobFields /\ d.request = r  BY <1>1, StartedIs DEF Done, IsFresh
  <2>. QED  BY <1>8, <2>1, <2>2 DEF JobFields
<1>. QED  BY <1>3, <1>4, <1>5, <1>6, <1>7, <1>8 DEF IsRequest, Routes

\* How a job comes to be answered: at once, as a form that is switched, with what is found, a
\* verdict, or the answers of LiteLLM.
Answering ==
  \/ \E r : IsRequest(r) /\ Opened(r).stage = "done" /\ Stays(Opened(r), job', {"resends"})
  \/ job.stage = "done" /\ job.request.route = "form" /\ Stays(job, job', {"form", "format"})
  \/ job.stage = "read" /\ job' = Done(job, Refusal)
  \/ job.stage = "sort" /\ job.request.route \in {"check", "lt"}
       /\ \E genuine : SortsTo(job, job', genuine)
  \/ Verdict
  \/ job.stage = "verdict" /\ job.request.route = "litellm"
       /\ \E answer, issue : job' = Done(JudgedWith(answer, issue), LitellmOut(JudgedWith(answer, issue)))

LEMMA AnsweringIs ==
  ASSUME IsGood(job), Next, job'.stage = "done"
  PROVE  Answering
<1>1. ASSUME NEW r, IsRequest(r), NEW resends, job' = [Opened(r) EXCEPT !.resends = resends]
      PROVE  Answering
  <2>. DEFINE o == Opened(r)
  <2>1. DOMAIN o = JobFields  BY <1>1, OpenedIsGood DEF IsGood, IsJob
  <2>2. job' = [o EXCEPT !.resends = resends]  BY <1>1
  <2>. HIDE DEF o
  <2>3. Stays(o, job', {"resends"}) /\ job'.stage = o.stage  BY <2>1, <2>2 DEF Stays, JobFields
  <2>. QED  BY <1>1, <2>3 DEF o, Answering
<1>2. CASE Receive
  <2>1. PICK r \in Requests : job' = Opened(r)  BY <1>2 DEF Receive
  <2>2. IsRequest(r)  BY TextChecksAssumption
  <2>3. DOMAIN job' = JobFields  BY <2>1, <2>2, OpenedIsGood DEF IsGood, IsJob
  <2>. QED  BY <2>1, <2>2, <2>3 DEF Answering, Stays
<1>3. CASE ReadText
  <2>. DEFINE part == fetch_text(job.answer)
              next == Done(job, Refusal)
  <2>1. job.stage = "read" /\ job' = Read(part, next)  BY <1>3 DEF ReadText
  <2>2. DOMAIN job = JobFields  BY DEF IsGood, IsJob
  <2>. HIDE DEF part, next
  <2>3. Read(part, next) = next \/ ReadFailed(job, job', part) \/ ReadOn(job, job', part)
    BY <2>1, <2>2, ReadGives
  <2>4. ~ReadFailed(job, job', part) /\ ~ReadOn(job, job', part)  BY DEF ReadFailed, ReadOn
  <2>5. job' = next  BY <2>1, <2>3, <2>4
  <2>. QED  BY <2>1, <2>5 DEF next, Answering
<1>4. CASE ReadAnswer
  <2>. DEFINE part == Part(Looked(job.answer), job.start)
  <2>1. /\ job.stage = "read"
        /\ \/ job' = [job EXCEPT !.stage = "verdict"]
           \/ job' = [job EXCEPT !.start = Behind(@, part)]
           \/ ReadFailed(job, job', part) \/ ReadOn(job, job', part)
    BY <1>4, ReadAnswerGives
  <2>2. DOMAIN job = JobFields  BY DEF IsGood, IsJob
  <2>. HIDE DEF part
  <2>3. job'.stage # "done"  BY <2>1, <2>2 DEF ReadFailed, ReadOn, JobFields
  <2>. QED  BY <2>3
<1>5. CASE AskLanguageTool
  <2>1. job'.stage # "done"  BY <1>5, AskGives
  <2>. QED  BY <2>1
<1>6. CASE Sort
  <2>1. job.stage = "sort" /\ \E genuine : SortsTo(job, job', genuine)  BY <1>6, SortGives
  <2>2. PICK genuine : SortsTo(job, job', genuine)  BY <2>1
  <2>3. job.request.route \in {"check", "lt"}  BY <2>2 DEF SortsTo
  <2>. QED  BY <2>1, <2>3 DEF Answering
<1>7. CASE Verdict  BY <1>7 DEF Answering
<1>8. CASE JudgeText
  <2>1. \A index, text, whole : ~ReviewGoesOn(job, job', index, text, whole)  BY DEF ReviewGoesOn
  <2>2. ASSUME NEW answer, NEW issue, AnswerGoesOn(answer, issue, job')
        PROVE  job' = Done(JudgedWith(answer, issue), LitellmOut(JudgedWith(answer, issue)))
    BY <2>2 DEF AnswerGoesOn, ReviewGoesOn
  <2>3. /\ job.stage = "verdict" /\ job.request.route = "litellm"
        /\ \/ AnswerGoesOn(job.request.texts[job.index], JudgeIssue, job')
           \/ AnswerGoesOn(job.answer, JudgeIssue, job')
    BY <1>8, <2>1, JudgeGives
  <2>. QED  BY <2>2, <2>3 DEF Answering
<1>9. CASE SendAgain \/ NextTurn  BY <1>1, <1>9, OpensAgain
<1>10. CASE SwitchFormat \/ SwitchIntoInklusivum
  <2>1. job.stage = "done" /\ Stays(job, job', {"form", "format"})
    BY <1>10, SwitchGives DEF IsGood, IsJob
  <2>2. job.request.route = "form"  BY <1>10 DEF SwitchFormat, SwitchIntoInklusivum
  <2>. QED  BY <2>1, <2>2 DEF Answering
<1>11. CASE Leave
  <2>1. job'.stage = "idle"  BY <1>11 DEF Leave, Idle
  <2>. QED  BY <2>1
<1>. QED
  BY <1>2, <1>3, <1>4, <1>5, <1>6, <1>7, <1>8, <1>9, <1>10, <1>11 DEF Next, Serve

-----------------------------------------------------------------------------
\* A failed answer and its reask.

\* The model value stands for None, which is no list.
NothingIsNoList == \A s : IsList(s) => s # Nothing

LEMMA CountedIs ==
  ASSUME NEW findings, IsList(findings), NEW level
  PROVE  /\ Counted(findings, level) \in Nat
         /\ Counted(findings, level) # 0 => WithAlternatives(findings) # {}
<1>. DEFINE counted == {i \in DOMAIN findings :
                          /\ findings[i].alternatives # <<>>
                          /\ level = "overall" \/ finding_level(findings[i]) = level}
<1>1. Counted(findings, level) = Cardinality(counted)  BY DEF Counted
<1>2. counted \subseteq 1 .. Len(findings) /\ Len(findings) \in Nat  BY ListLen
<1>3. counted \subseteq WithAlternatives(findings)  BY DEF WithAlternatives
<1>. HIDE DEF counted
<1>4. IsFiniteSet(1 .. Len(findings))  BY <1>2, FS_Interval
<1>5. IsFiniteSet(counted)  BY <1>2, <1>4, FS_Subset
<1>6. Cardinality(counted) \in Nat  BY <1>5, FS_CardinalityType
<1>7. counted = {} => Cardinality(counted) = 0  BY FS_EmptySet
<1>. QED  BY <1>1, <1>3, <1>6, <1>7

\* A limit is at least one, so what reaches it has been counted.
LEMMA FailedOnSome ==
  ASSUME NEW findings, IsList(findings), NEW words \in Nat, NEW threshold, IsThreshold(threshold),
         failed_on(findings, words, threshold) # {}
  PROVE  WithAlternatives(findings) # {}
<1>1. PICK level \in DOMAIN threshold :
        \/ /\ threshold[level].count # Nothing
           /\ Counted(findings, level) >= threshold[level].count
        \/ /\ threshold[level].ratio # Nothing /\ words > 0
           /\ 100 * Counted(findings, level) >= threshold[level].ratio * words
  BY DEF failed_on
<1>. DEFINE counted == Counted(findings, level)
            count == threshold[level].count
            ratio == threshold[level].ratio
<1>2. counted \in Nat /\ (counted # 0 => WithAlternatives(findings) # {})  BY CountedIs
<1>3. (count = Nothing \/ count \in Nat \ {0}) /\ (ratio = Nothing \/ ratio \in 1 .. 100)
  BY DEF IsThreshold, IsLimit
<1>4. \/ count # Nothing /\ counted >= count
      \/ ratio # Nothing /\ words > 0 /\ 100 * counted >= ratio * words
  BY <1>1
<1>. HIDE DEF counted, count, ratio
<1>5. ASSUME ratio \in 1 .. 100, words > 0 PROVE ratio * words > 0  BY <1>5
<1>6. counted # 0  BY <1>2, <1>3, <1>4, <1>5
<1>. QED  BY <1>2, <1>6

\* The reask says of each finding that has an alternative what it is.
LEMMA ReviewPromptSays ==
  ASSUME NothingIsNoList, NEW findings, IsList(findings), WithAlternatives(findings) # {}
  PROVE  /\ ReviewPrompt(findings) # Nothing
         /\ \A i \in DOMAIN findings :
              findings[i].alternatives # <<>> =>
                \E k \in DOMAIN ReviewPrompt(findings) :
                  ReviewPrompt(findings)[k].alternatives = findings[i].alternatives
<1>. DEFINE with == WithAlternatives(findings)
            changes == KeptAt(findings, with)
            keys == {i \in DOMAIN findings \ with : findings[i].explained}
            rephrase == KeptAt(findings, keys)
            both == changes \o rephrase
            issues == [i \in DOMAIN both |->
                         [issue |-> both[i].text, alternatives |-> both[i].alternatives]]
<1>1. Len(findings) \in Nat /\ DOMAIN findings = 1 .. Len(findings)  BY ListLen
<1>2. with = {i \in DOMAIN findings : findings[i].alternatives # <<>>}  BY DEF WithAlternatives
<1>3. ReviewPrompt(findings) = IF changes = <<>> THEN Nothing ELSE issues
  BY DEF ReviewPrompt
<1>. HIDE DEF keys, with
<1>4. /\ IsList(changes)
      /\ \A i \in with \intersect (1 .. Len(findings)) :
           \E k \in DOMAIN changes : changes[k] = findings[i]
  BY <1>1, KeptAtFrom
<1>5. IsList(rephrase)  BY <1>1, KeptAtFrom
<1>. HIDE DEF changes, rephrase
<1>6. /\ IsList(both) /\ DOMAIN changes = 1 .. Len(changes) /\ Len(changes) \in Nat
      /\ Len(rephrase) \in Nat /\ DOMAIN both = 1 .. Len(changes) + Len(rephrase)
      /\ \A k \in 1 .. Len(changes) : both[k] = changes[k]
  BY <1>4, <1>5, Joined, ListLen
<1>. HIDE DEF both
<1>7. changes # <<>>  BY <1>1, <1>2, <1>4, EmptyList DEF with
<1>8. IsList(issues)
  <2>1. Len(both) \in Nat /\ DOMAIN both = 1 .. Len(both)  BY <1>6, ListLen
  <2>2. issues = [i \in 1 .. Len(both) |-> issues[i]]  BY <2>1
  <2>. HIDE DEF issues
  <2>. QED  BY <2>1, <2>2, ListsMapped
<1>9. ReviewPrompt(findings) = issues /\ issues # Nothing  BY <1>3, <1>7, <1>8 DEF NothingIsNoList
<1>10. ASSUME NEW i \in DOMAIN findings, findings[i].alternatives # <<>>
       PROVE  \E k \in DOMAIN issues : issues[k].alternatives = findings[i].alternatives
  <2>1. i \in with \intersect (1 .. Len(findings))  BY <1>1, <1>2, <1>10
  <2>2. PICK k \in DOMAIN changes : changes[k] = findings[i]  BY <1>4, <2>1
  <2>3. k \in DOMAIN both /\ both[k] = findings[i]  BY <1>6, <2>2
  <2>. QED  BY <2>3
<1>. HIDE DEF issues
<1>. QED  BY <1>9, <1>10

LEMMA VerdictHasReask ==
  ASSUME NothingIsNoList, IsGood(job), Verdict
  PROVE  FailHasReask'
<1>. DEFINE reask == IF Failed = {} THEN Nothing ELSE ReviewPrompt(job.findings)
            response == [kind |-> "verdict", failed_on |-> Failed, findings |-> job.findings,
                         limit_reached |-> Len(job.answer) > GUARDRAIL_MAX_LENGTH,
                         reask |-> reask]
<1>1. job' = Done(job, response) /\ job.stage = "verdict"  BY DEF Verdict
<1>2. /\ DOMAIN job = JobFields /\ IsList(job.findings) /\ job.words \in Nat
      /\ IsRequest(job.request)
  <2>1. job.words \in 0 .. Len(job.answer) /\ Len(job.answer) \in Nat
    BY ListLen DEF IsGood, IsJob
  <2>. QED  BY <1>1, <2>1 DEF IsGood, IsJob, IsAmongTexts, AreFindings
<1>3. response.failed_on = Failed /\ response.reask = reask  OBVIOUS
<1>. HIDE DEF response
<1>4. job'.findings = job.findings /\ job'.response = response
  BY <1>1, <1>2, DoneIs DEF Stays, JobFields
<1>. SUFFICES ASSUME Failed # {}
              PROVE  /\ reask # Nothing
                     /\ \A i \in DOMAIN job.findings :
                          job.findings[i].alternatives # <<>> =>
                            \E k \in DOMAIN reask :
                              reask[k].alternatives = job.findings[i].alternatives
  BY <1>3, <1>4 DEF FailHasReask
<1>. DEFINE threshold == IF job.request.config.guardrail_threshold = Nothing
                         THEN DefaultThreshold ELSE job.request.config.guardrail_threshold
<1>5. IsThreshold(threshold)  BY <1>2, TextChecksAssumption DEF IsRequest, IsConfig
<1>6. failed_on(job.findings, job.words, threshold) # {}  BY DEF Failed
<1>. HIDE DEF threshold
<1>7. WithAlternatives(job.findings) # {}  BY <1>2, <1>5, <1>6, FailedOnSome
<1>. QED  BY <1>2, <1>7, ReviewPromptSays

\* An answer never fails without a message that gets it put right, with an alternative for
\* each finding that counted.
THEOREM FailuresHaveReasks ==
  ASSUME NothingIsNoList
  PROVE  Spec => []FailHasReask
<1>1. Init => FailHasReask  BY DEF Init, Idle, FailHasReask, Ended
<1>2. ASSUME JobIsGood, FailHasReask, [Next]_job PROVE FailHasReask'
  <2>. DEFINE Says(j) == j.stage = "done" /\ j.request.route # "form" /\ j.response.kind = "verdict"
  <2>1. IsGood(job) /\ DOMAIN job = JobFields  BY <1>2 DEF JobIsGood, IsGood, IsJob
  <2>2. CASE job' = job  BY <1>2, <2>2 DEF FailHasReask, Ended
  <2>3. CASE job' # job /\ Says(job')
    <3>1. Answering  BY <1>2, <2>1, <2>3, AnsweringIs
    <3>2. ASSUME NEW r, IsRequest(r), Opened(r).stage = "done",
                 Stays(Opened(r), job', {"resends"})
          PROVE  FALSE
      <4>1. job'.request = Opened(r).request /\ job'.response = Opened(r).response
        BY <3>2 DEF Stays, JobFields
      <4>2. ASSUME NEW said, SaysNothing(said) \/ \E messages : said = Chat(messages)
            PROVE  said.kind # "verdict"
        BY <4>2 DEF SaysNothing, Refusal, Results, Matched, Chat
      <4>3. \/ r.route = "form" /\ Opened(r).request = r
            \/ SaysNothing(Opened(r).response)
            \/ \E messages : Opened(r).response = Chat(messages)
        BY <3>2, OpenedDone
      <4>. QED  BY <2>3, <4>1, <4>2, <4>3
    <3>3. ASSUME NEW j, DOMAIN j = JobFields, NEW response, response.kind # "verdict",
                 job' = Done(j, response)
          PROVE  FALSE
      BY <2>3, <3>3, DoneIs
    <3>4. CASE job.stage = "done" /\ job.request.route = "form" /\ Stays(job, job', {"form", "format"})
      <4>1. job'.request = job.request  BY <3>4 DEF Stays, JobFields
      <4>. QED  BY <2>3, <3>4, <4>1
    <3>5. CASE job' = Done(job, Refusal)
      <4>1. Refusal.kind # "verdict"  BY DEF Refusal
      <4>. QED  BY <2>1, <3>3, <3>5, <4>1
    <3>6. ASSUME job.request.route \in {"check", "lt"}, NEW genuine, SortsTo(job, job', genuine)
          PROVE  FALSE
      BY <2>3, <3>6 DEF SortsTo, Results, Matched
    <3>7. ASSUME NEW answer, NEW issue,
                 job' = Done(JudgedWith(answer, issue), LitellmOut(JudgedWith(answer, issue)))
          PROVE  FALSE
      <4>1. DOMAIN JudgedWith(answer, issue) = JobFields  BY <2>1 DEF JudgedWith
      <4>2. LitellmOut(JudgedWith(answer, issue)).kind # "verdict"  BY DEF LitellmOut
      <4>. QED  BY <3>3, <3>7, <4>1, <4>2
    <3>8. CASE Verdict  BY <1>2, <2>1, <3>8, VerdictHasReask
    <3>. QED  BY <3>1, <3>2, <3>4, <3>5, <3>6, <3>7, <3>8 DEF Answering
  <2>. QED  BY <2>2, <2>3 DEF FailHasReask, Ended
<1>. QED  BY <1>1, <1>2, JobsAreGood, PTL DEF Spec

-----------------------------------------------------------------------------
\* Reading a text by its units, and a part of it by its own.

\* `part` stands in `text` behind the first `start` characters.
StandsAt(part, text, start) ==
  /\ IsList(part) /\ IsList(text) /\ start \in 0 .. Len(text)
  /\ Len(part) \in 0 .. Len(text) - start
  /\ \A i \in 1 .. Len(part) : part[i] = text[start + i]

LEMMA UnitsAhead ==
  ASSUME NEW part, NEW text, NEW start, StandsAt(part, text, start)
  PROVE  \A i \in 0 .. Len(part) :
           UnitsBefore(text, start + i) = UnitsBefore(text, start) + UnitsBefore(part, i)
<1>. DEFINE T == {i \in 0 .. Len(part) :
                    CountUpTo(text, start + i, Wide) =
                      CountUpTo(text, start, Wide) + CountUpTo(part, i, Wide)}
<1>1. start \in Nat /\ Len(part) \in Nat  BY ListLen DEF StandsAt
<1>2. 0 \in T
  <2>1. CountUpTo(part, 0, Wide) = 0  BY NoneCounts
  <2>2. CountUpTo(text, start, Wide) \in Nat  BY <1>1, CountIs
  <2>. QED  BY <1>1, <2>1, <2>2
<1>3. ASSUME NEW i \in 0 .. Len(part) - 1, i \in T PROVE i + 1 \in T
  <2>1. i \in Nat /\ start + i \in Nat /\ i + 1 \in 1 .. Len(part) /\ i + 1 \in 0 .. Len(part)
    BY <1>1
  <2>2. CountUpTo(part, i + 1, Wide) =
          CountUpTo(part, i, Wide) + IF part[i + 1] \in Wide THEN 1 ELSE 0
    BY <2>1, CountMore
  <2>. DEFINE at == start + i
  <2>3. CountUpTo(text, at + 1, Wide) =
          CountUpTo(text, at, Wide) + IF text[at + 1] \in Wide THEN 1 ELSE 0
    BY <2>1, CountMore
  <2>4. start + (i + 1) = at + 1  BY <2>1, <1>1
  <2>5. part[i + 1] = text[at + 1]  BY <2>1, <2>4 DEF StandsAt
  <2>6. /\ CountUpTo(part, i, Wide) \in Nat /\ CountUpTo(text, start, Wide) \in Nat
        /\ CountUpTo(text, at, Wide) \in Nat
    BY <1>1, <2>1, CountIs
  <2>7. CountUpTo(text, at, Wide) = CountUpTo(text, start, Wide) + CountUpTo(part, i, Wide)
    BY <1>3
  <2>8. CountUpTo(text, at + 1, Wide) =
          CountUpTo(text, start, Wide) + CountUpTo(part, i + 1, Wide)
    BY <2>2, <2>3, <2>5, <2>6, <2>7
  <2>. QED  BY <2>1, <2>4, <2>8
<1>. HIDE DEF T
<1>4. \A i \in 0 .. Len(part) : i \in T  BY <1>1, <1>2, <1>3, InductTo
<1>5. ASSUME NEW i \in 0 .. Len(part)
      PROVE  UnitsBefore(text, start + i) = UnitsBefore(text, start) + UnitsBefore(part, i)
  <2>1. i \in Nat /\ start + i \in Nat  BY <1>1
  <2>2. CountUpTo(part, i, Wide) \in Nat /\ CountUpTo(text, start, Wide) \in Nat
    BY <1>1, <2>1, CountIs
  <2>3. CountUpTo(text, start + i, Wide) =
          CountUpTo(text, start, Wide) + CountUpTo(part, i, Wide)
    BY <1>4 DEF T
  <2>. QED  BY <1>1, <2>1, <2>2, <2>3 DEF UnitsBefore
<1>. QED  BY <1>5

LEMMA SliceAhead ==
  ASSUME NEW part, NEW text, NEW start, StandsAt(part, text, start),
         NEW i \in 0 .. Len(part), NEW k \in i .. Len(part)
  PROVE  Slice(text, start + i, start + k) = Slice(part, i, k)
<1>. DEFINE from == start + i
            to == start + k
<1>1. /\ Len(part) \in Nat /\ Len(text) \in Nat /\ start \in Nat /\ i \in Nat /\ k \in Nat
      /\ i <= k /\ k <= Len(part) /\ IsList(part) /\ IsList(text)
  BY ListLen DEF StandsAt
<1>2. /\ from \in Nat /\ to \in Nat /\ from <= to /\ to <= Len(text) /\ to - from = k - i
  BY <1>1 DEF StandsAt
<1>3. /\ IsList(Slice(part, i, k)) /\ Len(Slice(part, i, k)) = k - i
      /\ \A n \in 1 .. Len(Slice(part, i, k)) : Slice(part, i, k)[n] = part[i + n]
  BY <1>1, Sliced
<1>4. \A n \in 1 .. k - i : i + n \in 1 .. Len(part) /\ start + (i + n) = start + i + n
  BY <1>1
<1>5. \A n \in 1 .. k - i : part[i + n] = text[from + n]
  <2>1. ASSUME NEW n \in 1 .. k - i PROVE part[i + n] = text[from + n]
    <3>. DEFINE m == i + n
    <3>1. m \in 1 .. Len(part) /\ start + m = from + n  BY <1>4
    <3>. HIDE DEF m, from
    <3>2. part[m] = text[start + m]  BY <3>1 DEF StandsAt
    <3>. QED  BY <3>1, <3>2 DEF m
  <2>. QED  BY <2>1
<1>. HIDE DEF from, to
<1>6. /\ IsList(Slice(text, from, to)) /\ Len(Slice(text, from, to)) = to - from
      /\ \A n \in 1 .. Len(Slice(text, from, to)) : Slice(text, from, to)[n] = text[from + n]
  BY <1>1, <1>2, Sliced
<1>. DEFINE a == Slice(text, from, to)
            b == Slice(part, i, k)
<1>. HIDE DEF a, b
<1>7. /\ IsList(a) /\ IsList(b) /\ Len(a) = Len(b) /\ Len(a) = k - i
      /\ \A n \in 1 .. k - i : a[n] = b[n]
  BY <1>2, <1>3, <1>5, <1>6 DEF a, b
<1>8. a = b  BY <1>7, SameList
<1>. QED  BY <1>8 DEF a, b, from, to

\* What reads as something in a part reads as the same in the text, further on.
LEMMA ReadsAhead ==
  ASSUME NEW part, NEW text, NEW start, StandsAt(part, text, start),
         NEW from, NEW to, NEW found, ReadsAs(part, from, to, found)
  PROVE  ReadsAs(text, from + UnitsBefore(text, start), to + UnitsBefore(text, start), found)
<1>1. PICK i \in 0 .. Len(part), k \in 0 .. Len(part) :
        /\ UnitsBefore(part, i) = from /\ UnitsBefore(part, k) = to
        /\ i <= k /\ Slice(part, i, k) = found
  BY DEF ReadsAs
<1>. DEFINE m == start + i
            n == start + k
            shift == UnitsBefore(text, start)
<1>2. /\ Len(part) \in Nat /\ Len(text) \in Nat /\ start \in Nat /\ start + Len(part) <= Len(text)
  BY ListLen DEF StandsAt
<1>3. m \in 0 .. Len(text) /\ n \in 0 .. Len(text) /\ m <= n /\ k \in i .. Len(part)
  BY <1>1, <1>2
<1>4. UnitsBefore(text, m) = shift + UnitsBefore(part, i)
      /\ UnitsBefore(text, n) = shift + UnitsBefore(part, k)
  <2>1. \A j \in 0 .. Len(part) : UnitsBefore(text, start + j) = shift + UnitsBefore(part, j)
    BY UnitsAhead
  <2>. HIDE DEF shift
  <2>. QED  BY <2>1
<1>5. Slice(text, m, n) = Slice(part, i, k)  BY <1>3, SliceAhead
<1>6. UnitsBefore(part, i) \in Nat /\ UnitsBefore(part, k) \in Nat /\ shift \in Nat
  BY <1>2, UnitsIn
<1>. HIDE DEF m, n, shift
<1>7. UnitsBefore(text, m) = from + shift /\ UnitsBefore(text, n) = to + shift
  BY <1>1, <1>4, <1>6
<1>8. ReadsAs(text, from + shift, to + shift, found)  BY <1>1, <1>3, <1>5, <1>7 DEF ReadsAs
<1>. QED  BY <1>8 DEF shift

NoSigns(text) == \A i \in 1 .. Len(text) : text[i] \notin Signs

\* Each finding reads as its text, and there is a text.
Reads(f, text) == Len(text) # 0 /\ ReadsAs(text, f.start, f.end, f.text)

ReadRightly(findings, text) == \A i \in DOMAIN findings : Reads(findings[i], text)

LEMMA ShiftedRead ==
  ASSUME NEW part, NEW text, NEW start, StandsAt(part, text, start), NoSigns(text),
         NEW findings, AreFindings(findings), ReadRightly(findings, part)
  PROVE  ReadRightly(Shifted(findings, Shift(text, start)), text)
<1>1. /\ IsList(text) /\ start \in Nat /\ start <= Len(text) /\ Len(text) \in Nat
  BY ListLen DEF StandsAt
<1>2. Shift(text, start) = UnitsBefore(text, start)
  <2>. DEFINE before == Slice(text, 0, start)
  <2>1. /\ IsList(before) /\ Len(before) = start
        /\ \A i \in 1 .. Len(before) : before[i] = text[0 + i]
    BY <1>1, Sliced
  <2>2. \A i \in 1 .. start : 0 + i = i  BY <1>1
  <2>3. \A i \in 1 .. Len(before) : before[i] = text[i]  BY <2>1, <2>2
  <2>. HIDE DEF before
  <2>4. \A i \in 1 .. Len(before) : before[i] \notin Signs  BY <1>1, <2>1, <2>3 DEF NoSigns
  <2>5. utf16_offsets(before)[start] = UnitsBefore(before, start)
    <3>1. start \in 0 .. Len(before)  BY <1>1, <2>1
    <3>. QED  BY <2>1, <2>4, <3>1, WideOffsets
  <2>6. {i \in 1 .. start : before[i] \in Wide} = {i \in 1 .. start : text[i] \in Wide}
    BY <2>1, <2>3
  <2>7. UnitsBefore(before, start) = UnitsBefore(text, start)
    BY <2>6 DEF UnitsBefore, CountUpTo
  <2>8. Shift(text, start) = utf16_offsets(before)[Len(before)]
    BY DEF Shift, utf16_length, before
  <2>. QED  BY <2>1, <2>5, <2>7, <2>8
<1>. DEFINE shift == UnitsBefore(text, start)
            shifted == Shifted(findings, shift)
<1>3. shift \in Nat  BY <1>1, UnitsIn
<1>. HIDE DEF shift
<1>4. ASSUME NEW i \in DOMAIN shifted
      PROVE  Reads(shifted[i], text)
  <2>. DEFINE f == findings[i]
  <2>1. i \in DOMAIN findings /\ shifted[i] = [f EXCEPT !.start = @ + shift, !.end = @ + shift]
    BY DEF Shifted
  <2>2. IsFinding(f) /\ ReadsAs(part, f.start, f.end, f.text) /\ Len(part) # 0
    BY <2>1 DEF AreFindings, ReadRightly, Reads
  <2>. HIDE DEF f, shifted
  <2>3. /\ shifted[i].start = f.start + shift /\ shifted[i].end = f.end + shift
        /\ shifted[i].text = f.text
    BY <2>1, <2>2 DEF IsFinding, FindingFields
  <2>4. ReadsAs(text, f.start + shift, f.end + shift, f.text)
    BY <2>2, ReadsAhead DEF shift
  <2>5. Len(text) # 0
    <3>1. Len(part) \in 0 .. Len(text) - start  BY DEF StandsAt
    <3>. QED  BY <1>1, <2>2, <3>1
  <2>. QED  BY <2>3, <2>4, <2>5 DEF Reads
<1>. HIDE DEF shifted
<1>5. ReadRightly(shifted, text)  BY <1>4 DEF ReadRightly
<1>. QED  BY <1>2, <1>5 DEF shifted, shift

-----------------------------------------------------------------------------
\* Where findings are found.

\* f is what the rule has found at a position of the text.
FoundBy(f, rule, start, text) ==
  /\ IsRule(rule) /\ start \in Nat /\ Matches(rule, text, start)
  /\ f.text_id = rule.words /\ f.text = Slice(text, start, start + Len(rule.words))
  /\ f.start = utf16_offsets(text)[start] /\ f.end = utf16_offsets(text)[start + Len(rule.words)]

IsFound(f, text) == \E rule, start : FoundBy(f, rule, start, text)

AreFound(findings, text) == \A i \in DOMAIN findings : IsFound(findings[i], text)

LEMMA ResultFound ==
  ASSUME NEW rule, IsRule(rule), NEW text, IsList(text), NEW start \in Nat,
         Matches(rule, text, start), NEW lang, NEW config, IsConfig(config), NEW f,
         \/ f = Result(rule, text, start, start + Len(rule.words), lang, config)
         \/ f = mark_bulk(Result(rule, text, start, start + Len(rule.words), lang, config), 1)
  PROVE  FoundBy(f, rule, start, text)
<1>. DEFINE end == start + Len(rule.words)
            r == Result(rule, text, start, end, lang, config)
<1>1. Len(rule.words) \in Nat /\ AreAlternatives(rule.alternatives) /\ Len(text) \in Nat
  BY ListLen DEF IsRule, AreAlternatives
<1>2. end \in Nat /\ end <= Len(text) /\ start <= Len(text)
  BY <1>1 DEF Matches
<1>3. /\ r.text_id = rule.words /\ r.text = Slice(text, start, end)
      /\ r.start = utf16_offsets(text)[start] /\ r.end = utf16_offsets(text)[end]
  BY <1>2 DEF Result, to_utf16
<1>4. IsFinding(r)  BY <1>1, <1>2, ResultIsFinding
<1>5. f = r \/ f = mark_bulk(r, 1)  OBVIOUS
<1>. HIDE DEF r
<1>6. \A field \in FindingFields \ {"bulk"} : f[field] = r[field]  BY <1>4, <1>5, MarkedBulk
<1>7. f.text_id = r.text_id /\ f.text = r.text /\ f.start = r.start /\ f.end = r.end
  BY <1>6 DEF FindingFields
<1>. QED  BY <1>3, <1>7 DEF FoundBy

LEMMA FlatFound ==
  ASSUME NEW seqs, IsList(seqs), NEW text,
         \A i \in 1 .. Len(seqs) : IsList(seqs[i]) /\ AreFound(seqs[i], text)
  PROVE  IsList(FlattenSeq(seqs)) /\ AreFound(FlattenSeq(seqs), text)
<1>. DEFINE flat == FlattenSeq(seqs)
<1>1. IsList(flat) /\ StandIn(flat, seqs, Len(seqs))  BY FlattenedFrom
<1>. HIDE DEF flat
<1>2. ASSUME NEW i \in DOMAIN flat PROVE IsFound(flat[i], text)
  <2>1. PICK m \in 1 .. Len(seqs) : \E j \in DOMAIN seqs[m] : flat[i] = seqs[m][j]
    BY <1>1 DEF StandIn
  <2>2. AreFound(seqs[m], text)  OBVIOUS
  <2>. QED  BY <2>1, <2>2 DEF AreFound
<1>3. AreFound(flat, text)  BY <1>2 DEF AreFound
<1>. QED  BY <1>1, <1>3 DEF flat

LEMMA WittyFound ==
  ASSUME NEW text, IsList(text), NEW lang, NEW config, IsConfig(config)
  PROVE  AreFound(witty_rules(text, lang, config), text)
<1>. DEFINE rules == {r \in Rules : r.lang = lang /\ Enabled(r, config)}
                       \union TermRules(config, lang)
            Rep(start, rule) ==
              LET result == Result(rule, text, start, start + Len(rule.words), lang, config)
              IN  IF rule.form THEN mark_bulk(result, 1) ELSE result
            Of(start, n) == {r \in rules : Len(r.words) = n /\ Matches(r, text, start)}
            OfLength(start, n) ==
              LET found == SetToSeq(Of(start, n)) IN [i \in DOMAIN found |-> Rep(start, found[i])]
            At(start) == FlattenSeq([n \in DOMAIN text |-> OfLength(start, n)])
            all == [i \in DOMAIN text |-> At(i - 1)]
<1>1. IsFiniteSet(rules) /\ \A r \in rules : IsRule(r)  BY RulesKept
<1>2. Len(text) \in Nat /\ DOMAIN text = 1 .. Len(text)  BY ListLen
<1>3. witty_rules(text, lang, config) = FlattenSeq(all)  BY DEF witty_rules
<1>. HIDE DEF rules
<1>4. ASSUME NEW start \in Nat, NEW rule \in rules, Matches(rule, text, start)
      PROVE  IsFound(Rep(start, rule), text)
  <2>1. IsRule(rule)  BY <1>1
  <2>2. \/ Rep(start, rule) = Result(rule, text, start, start + Len(rule.words), lang, config)
        \/ Rep(start, rule) =
             mark_bulk(Result(rule, text, start, start + Len(rule.words), lang, config), 1)
    OBVIOUS
  <2>. DEFINE f == Rep(start, rule)
  <2>. HIDE DEF f
  <2>3. FoundBy(f, rule, start, text)  BY <1>4, <2>1, <2>2, ResultFound DEF f
  <2>. QED  BY <2>3 DEF IsFound, f
<1>. HIDE DEF Rep
<1>5. ASSUME NEW start \in Nat, NEW n PROVE IsList(OfLength(start, n)) /\ AreFound(OfLength(start, n), text)
  <2>. DEFINE found == SetToSeq(Of(start, n))
              f == [i \in DOMAIN found |-> Rep(start, found[i])]
  <2>1. Of(start, n) \subseteq rules /\ \A r \in Of(start, n) : Matches(r, text, start)
    OBVIOUS
  <2>2. IsFiniteSet(Of(start, n))  BY <2>1, <1>1, FS_Subset
  <2>. HIDE DEF Of
  <2>3. IsList(found) /\ \A i \in DOMAIN found : found[i] \in Of(start, n)  BY <2>2, SetListed
  <2>. HIDE DEF found
  <2>4. Len(found) \in Nat /\ DOMAIN found = 1 .. Len(found)  BY <2>3, ListLen
  <2>5. \A i \in 1 .. Len(found) : f[i] = Rep(start, found[i])  BY <2>4
  <2>6. \A i \in 1 .. Len(found) : IsFound(f[i], text)  BY <2>1, <2>3, <2>4, <2>5, <1>4
  <2>7. f = [i \in 1 .. Len(found) |-> f[i]]  BY <2>4
  <2>. HIDE DEF f
  <2>8. IsList(f) /\ DOMAIN f = 1 .. Len(found)  BY <2>4, <2>7, ListsMapped
  <2>9. AreFound(f, text)  BY <2>6, <2>8 DEF AreFound
  <2>. QED  BY <2>8, <2>9 DEF f, found
<1>. HIDE DEF OfLength
<1>6. ASSUME NEW start \in Nat PROVE IsList(At(start)) /\ AreFound(At(start), text)
  <2>. DEFINE f == [n \in DOMAIN text |-> OfLength(start, n)]
  <2>1. \A n \in 1 .. Len(text) : IsList(f[n]) /\ AreFound(f[n], text)  BY <1>2, <1>5
  <2>2. f = [n \in 1 .. Len(text) |-> f[n]]  BY <1>2
  <2>. HIDE DEF f
  <2>3. IsList(f) /\ Len(f) = Len(text)  BY <1>2, <2>2, ListsMapped
  <2>4. IsList(FlattenSeq(f)) /\ AreFound(FlattenSeq(f), text)  BY <2>1, <2>3, FlatFound
  <2>. QED  BY <2>4 DEF f
<1>. HIDE DEF At
<1>7. AreFound(FlattenSeq(all), text)
  <2>1. ASSUME NEW i \in 1 .. Len(text) PROVE IsList(all[i]) /\ AreFound(all[i], text)
    <3>1. i - 1 \in Nat  BY <1>2
    <3>. QED  BY <3>1, <1>2, <1>6
  <2>2. all = [i \in 1 .. Len(text) |-> all[i]]  BY <1>2
  <2>. HIDE DEF all
  <2>3. IsList(all) /\ Len(all) = Len(text)  BY <1>2, <2>2, ListsMapped
  <2>. QED  BY <2>1, <2>3, FlatFound
<1>. QED  BY <1>3, <1>7

\* What a rule has found reads as its text.
LEMMA FoundRead ==
  ASSUME NEW text, IsList(text), NoSigns(text), NEW f, IsFound(f, text)
  PROVE  Reads(f, text)
<1>1. PICK rule, start : FoundBy(f, rule, start, text)  BY DEF IsFound
<1>. DEFINE end == start + Len(rule.words)
<1>2. Len(rule.words) \in Nat /\ Len(rule.words) # 0 /\ Len(text) \in Nat
  BY <1>1, ListLen, LenZero DEF FoundBy, IsRule
<1>3. /\ start \in 0 .. Len(text) /\ end \in 0 .. Len(text) /\ start <= end
      /\ Len(text) # 0
  BY <1>1, <1>2 DEF FoundBy, Matches
<1>. HIDE DEF end
<1>4. /\ utf16_offsets(text)[start] = UnitsBefore(text, start)
      /\ utf16_offsets(text)[end] = UnitsBefore(text, end)
  BY <1>3, WideOffsets DEF NoSigns
<1>5. /\ f.start = UnitsBefore(text, start) /\ f.end = UnitsBefore(text, end)
      /\ f.text = Slice(text, start, end)
  BY <1>1, <1>4 DEF FoundBy, end
<1>. QED  BY <1>3, <1>5 DEF Reads, ReadsAs

\* What LanguageTool has found reads as its text.
LEMMA LanguageToolRead ==
  ASSUME NEW text, IsList(text), NoSigns(text), NEW lang, NEW config,
         NEW matches, \A k \in DOMAIN matches : IsMatch(matches[k], text)
  PROVE  ReadRightly(languagetool_matches(matches, text, lang, config), text)
<1>. DEFINE fs == languagetool_matches(matches, text, lang, config)
<1>1. DOMAIN fs = DOMAIN matches
      /\ \A k \in DOMAIN matches : fs[k] = MatchResult(matches[k], text, lang, config)
  BY DEF languagetool_matches
<1>. HIDE DEF fs
<1>2. ASSUME NEW k \in DOMAIN fs PROVE Reads(fs[k], text)
  <2>. DEFINE m == matches[k]
  <2>1. IsMatch(m, text) /\ fs[k] = MatchResult(m, text, lang, config)  BY <1>1
  <2>. HIDE DEF m
  <2>2. PICK i \in 1 .. Len(text) : CharacterSpan(text, m) = <<i - 1, i>>
    BY <2>1, MatchesRead DEF NoSigns
  <2>3. Len(text) \in Nat /\ Len(text) # 0  BY <2>2, ListLen
  <2>. DEFINE h == i - 1
  <2>4. h \in 0 .. Len(text) /\ i \in 0 .. Len(text) /\ h <= i /\ i <= Len(text)  BY <2>3
  <2>5. CharacterSpan(text, m)[1] = h /\ CharacterSpan(text, m)[2] = i  BY <2>2
  <2>. HIDE DEF h
  <2>6. fs[k] = Result(AsRule(m, text), text, h, i, lang, config)
    BY <2>1, <2>5 DEF MatchResult
  <2>7. /\ fs[k].text = Slice(text, h, i) /\ fs[k].start = utf16_offsets(text)[h]
        /\ fs[k].end = utf16_offsets(text)[i]
    BY <2>4, <2>6 DEF Result, to_utf16
  <2>8. /\ utf16_offsets(text)[h] = UnitsBefore(text, h)
        /\ utf16_offsets(text)[i] = UnitsBefore(text, i)
    BY <2>4, WideOffsets DEF NoSigns
  <2>. QED  BY <2>3, <2>4, <2>7, <2>8 DEF Reads, ReadsAs
<1>3. ReadRightly(fs, text)  BY <1>2 DEF ReadRightly
<1>. QED  BY <1>3 DEF fs

\* What is left behind the last call to a service reads as it did.
LEMMA SortedRead ==
  ASSUME NEW text, NEW lt_results, AreFindings(lt_results), ReadRightly(lt_results, text),
         NEW results, AreFindings(results), ReadRightly(results, text),
         NEW sentences, NEW genuine, NEW lang, NEW config
  PROVE  ReadRightly(SortedOut(lt_results, results, sentences, genuine, text, lang, config), text)
<1>. DEFINE there == {i \in DOMAIN results : /\ LooksAt(results[i], sentences)
                                             /\ SentenceOf(results[i], sentences) \notin genuine}
            left == context_false_positives(results, sentences, genuine)
            both == lt_results \o left
            wanted == apply_false_positives(both, config)
            marked == mark_masculines_for_bulk(wanted, text, lang, InklusivumWords(wanted, lang))
<1>1. left = KeptAt(results, (1 .. Len(results)) \ there)
  BY RemovedIsKept DEF context_false_positives, AreFindings
<1>2. ASSUME NEW fs, AreFindings(fs), ReadRightly(fs, text), NEW keys
      PROVE  AreFindings(KeptAt(fs, keys)) /\ ReadRightly(KeptAt(fs, keys), text)
  <2>. DEFINE kept == KeptAt(fs, keys)
  <2>1. Len(fs) \in Nat /\ DOMAIN fs = 1 .. Len(fs)  BY <1>2, ListLen DEF AreFindings
  <2>2. \A i \in DOMAIN kept : \E k \in keys \intersect (1 .. Len(fs)) : kept[i] = fs[k]
    BY <2>1, KeptAtFrom
  <2>. HIDE DEF kept
  <2>3. ReadRightly(kept, text)  BY <1>2, <2>1, <2>2 DEF ReadRightly
  <2>. QED  BY <1>2, <2>3, KeptFindings DEF kept
<1>. HIDE DEF there
<1>3. AreFindings(left) /\ ReadRightly(left, text)  BY <1>1, <1>2
<1>. HIDE DEF left
<1>4. AreFindings(both) /\ ReadRightly(both, text)
  <2>1. /\ DOMAIN both = 1 .. Len(lt_results) + Len(left)
        /\ \A i \in 1 .. Len(lt_results) : both[i] = lt_results[i]
        /\ \A i \in 1 .. Len(left) : both[Len(lt_results) + i] = left[i]
    BY <1>3, Joined DEF AreFindings
  <2>2. /\ DOMAIN lt_results = 1 .. Len(lt_results) /\ Len(lt_results) \in Nat
        /\ DOMAIN left = 1 .. Len(left) /\ Len(left) \in Nat
    BY <1>3, ListLen DEF AreFindings
  <2>3. AreFindings(both)  BY <1>3, JoinedFindings
  <2>. HIDE DEF both
  <2>4. ASSUME NEW i \in DOMAIN both PROVE Reads(both[i], text)
    <3>1. CASE i \in 1 .. Len(lt_results)  BY <2>1, <2>2, <3>1 DEF ReadRightly
    <3>2. CASE i \notin 1 .. Len(lt_results)
      <4>. DEFINE k == i - Len(lt_results)
      <4>1. k \in 1 .. Len(left) /\ Len(lt_results) + k = i  BY <2>1, <2>2, <3>2
      <4>. HIDE DEF k
      <4>2. both[i] = left[k] /\ k \in DOMAIN left  BY <2>1, <2>2, <4>1
      <4>. QED  BY <1>3, <4>2 DEF ReadRightly
    <3>. QED  BY <3>1, <3>2
  <2>. QED  BY <2>3, <2>4 DEF ReadRightly
<1>. HIDE DEF both
<1>5. AreFindings(wanted) /\ ReadRightly(wanted, text)
  BY <1>2, <1>4 DEF apply_false_positives
<1>6. SortedOut(lt_results, results, sentences, genuine, text, lang, config) =
        IF bulk_actions(lang, config) = {} THEN wanted ELSE marked
  BY DEF SortedOut, left, both
<1>. HIDE DEF wanted
<1>7. marked \in MarkedVariants(wanted)  BY <1>5, MarkedAreVariants
<1>. HIDE DEF marked
<1>8. ReadRightly(marked, text)
  <2>1. Len(wanted) \in Nat /\ DOMAIN wanted = 1 .. Len(wanted)  BY <1>5, ListLen DEF AreFindings
  <2>2. DOMAIN marked = 1 .. Len(wanted)
        /\ \A i \in 1 .. Len(wanted) : marked[i] \in Variants(wanted[i])
    BY <1>7 DEF MarkedVariants
  <2>3. ASSUME NEW i \in 1 .. Len(wanted)
        PROVE  Reads(marked[i], text)
    <3>1. IsFinding(wanted[i])  BY <1>5, <2>1 DEF AreFindings
    <3>2. /\ marked[i].text = wanted[i].text
          /\ marked[i].start = wanted[i].start /\ marked[i].end = wanted[i].end
      BY <2>2, <3>1, VariantIs
    <3>. QED  BY <1>5, <2>1, <3>2 DEF ReadRightly, Reads
  <2>. QED  BY <2>2, <2>3 DEF ReadRightly
<1>. QED  BY <1>5, <1>6, <1>8

-----------------------------------------------------------------------------
\* Where each list of several begins in the one they make.

\* The places of the lists in what they make: flat[k] is made of the first k.
PlacedUpTo(flat, seqs, k) ==
  /\ \A m \in 1 .. k : Len(flat[m]) = Len(flat[m - 1]) + Len(seqs[m])
  /\ \A m \in 1 .. k : \A j \in 1 .. Len(seqs[m]) :
       /\ Len(flat[m - 1]) + j \in 1 .. Len(flat[k])
       /\ flat[k][Len(flat[m - 1]) + j] = seqs[m][j]
  /\ \A p \in 1 .. Len(flat[k]) :
       \E m \in 1 .. k : \E j \in 1 .. Len(seqs[m]) : p = Len(flat[m - 1]) + j

LEMMA PlacedNext ==
  ASSUME NEW flat, NEW seqs, NEW k \in Nat, IsList(flat[k]), IsList(seqs[k + 1]),
         flat[k + 1] = flat[k] \o seqs[k + 1],
         \A m \in 1 .. k : IsList(flat[m - 1]) /\ IsList(seqs[m]),
         PlacedUpTo(flat, seqs, k)
  PROVE  PlacedUpTo(flat, seqs, k + 1)
<1>. DEFINE n == k + 1
            a == flat[k]
            b == seqs[n]
            c == flat[n]
<1>1. /\ Len(a) \in Nat /\ Len(b) \in Nat /\ n \in Nat
      /\ IsList(a) /\ IsList(b) /\ c = a \o b /\ n - 1 = k
      /\ n \in 1 .. n /\ \A m \in 1 .. n : m \in 1 .. k \/ m = n
  BY ListLen
<1>2. /\ \A m \in 1 .. k : Len(flat[m]) = Len(flat[m - 1]) + Len(seqs[m])
      /\ \A m \in 1 .. k : \A j \in 1 .. Len(seqs[m]) :
           Len(flat[m - 1]) + j \in 1 .. Len(a) /\ a[Len(flat[m - 1]) + j] = seqs[m][j]
      /\ \A p \in 1 .. Len(a) :
           \E m \in 1 .. k : \E j \in 1 .. Len(seqs[m]) : p = Len(flat[m - 1]) + j
  BY DEF PlacedUpTo
<1>3. a = flat[n - 1] /\ b = seqs[n] /\ c = flat[n] /\ \A m \in 1 .. k : m \in 1 .. n
  BY <1>1
<1>. HIDE DEF a, b, c, n
<1>4. /\ Len(c) = Len(a) + Len(b)
      /\ \A i \in 1 .. Len(a) : c[i] = a[i]
      /\ \A i \in 1 .. Len(b) : c[Len(a) + i] = b[i]
  BY <1>1, Joined
<1>5. ASSUME NEW m \in 1 .. n PROVE Len(flat[m]) = Len(flat[m - 1]) + Len(seqs[m])
  BY <1>1, <1>2, <1>3, <1>4
<1>6. ASSUME NEW m \in 1 .. n, NEW j \in 1 .. Len(seqs[m])
      PROVE  Len(flat[m - 1]) + j \in 1 .. Len(c) /\ c[Len(flat[m - 1]) + j] = seqs[m][j]
  <2>1. CASE m \in 1 .. k
    <3>1. Len(flat[m - 1]) + j \in 1 .. Len(a) /\ a[Len(flat[m - 1]) + j] = seqs[m][j]
      BY <1>2, <2>1
    <3>. QED  BY <1>1, <1>4, <3>1
  <2>2. CASE m = n
    <3>1. flat[m - 1] = a /\ seqs[m] = b  BY <1>3, <2>2
    <3>2. j \in 1 .. Len(b)  BY <3>1
    <3>3. c[Len(a) + j] = b[j] /\ Len(a) + j \in 1 .. Len(c)  BY <1>1, <1>4, <3>2
    <3>. QED  BY <3>1, <3>3
  <2>. QED  BY <1>1, <2>1, <2>2
<1>7. ASSUME NEW p \in 1 .. Len(c)
      PROVE  \E m \in 1 .. n : \E j \in 1 .. Len(seqs[m]) : p = Len(flat[m - 1]) + j
  <2>1. CASE p \in 1 .. Len(a)
    <3>1. PICK m \in 1 .. k : \E j \in 1 .. Len(seqs[m]) : p = Len(flat[m - 1]) + j
      BY <1>2, <2>1
    <3>. QED  BY <1>3, <3>1
  <2>2. CASE p \notin 1 .. Len(a)
    <3>. DEFINE j == p - Len(a)
    <3>1. j \in 1 .. Len(b) /\ p = Len(a) + j  BY <1>1, <1>4, <2>2
    <3>. HIDE DEF j
    <3>2. j \in 1 .. Len(seqs[n]) /\ p = Len(flat[n - 1]) + j  BY <1>3, <3>1
    <3>. QED  BY <1>1, <3>2
  <2>. QED  BY <2>1, <2>2
<1>8. PlacedUpTo(flat, seqs, n)  BY <1>3, <1>5, <1>6, <1>7 DEF PlacedUpTo
<1>. QED  BY <1>8 DEF n

LEMMA FlatPlaced ==
  ASSUME NEW seqs, IsList(seqs), \A i \in 1 .. Len(seqs) : IsList(seqs[i]),
         NEW flat, FlattenSteps(flat, seqs, Len(seqs)), \A k \in 0 .. Len(seqs) : IsList(flat[k])
  PROVE  PlacedUpTo(flat, seqs, Len(seqs))
<1>1. Len(seqs) \in Nat  BY ListLen
<1>. DEFINE T == {k \in 0 .. Len(seqs) : PlacedUpTo(flat, seqs, k)}
<1>2. 0 \in T
  <2>1. flat[0] = <<>> /\ Len(<<>>) = 0  BY EmptyList DEF FlattenSteps
  <2>2. PlacedUpTo(flat, seqs, 0)  BY <2>1 DEF PlacedUpTo
  <2>. QED  BY <1>1, <2>2
<1>3. ASSUME NEW k \in 0 .. Len(seqs) - 1, k \in T PROVE k + 1 \in T
  <2>1. k \in Nat /\ k + 1 \in 0 .. Len(seqs) /\ k + 1 \in 1 .. Len(seqs) /\ k \in 0 .. Len(seqs)
    BY <1>1
  <2>2. \A m \in 1 .. k : m - 1 \in 0 .. Len(seqs) /\ m \in 1 .. Len(seqs)  BY <1>1
  <2>3. \A m \in 1 .. k : IsList(flat[m - 1]) /\ IsList(seqs[m])  BY <2>2
  <2>4. flat[k + 1] = flat[k] \o seqs[k + 1]  BY DEF FlattenSteps
  <2>5. PlacedUpTo(flat, seqs, k)  BY <1>3
  <2>6. PlacedUpTo(flat, seqs, k + 1)  BY <2>1, <2>3, <2>4, <2>5, PlacedNext
  <2>. QED  BY <2>1, <2>6
<1>. HIDE DEF T
<1>4. \A k \in 0 .. Len(seqs) : k \in T  BY <1>1, <1>2, <1>3, InductTo
<1>. QED  BY <1>1, <1>4 DEF T

\* The lists before one make what it is behind.
LEMMA FlatBefore ==
  ASSUME NEW seqs, IsList(seqs), \A i \in 1 .. Len(seqs) : IsList(seqs[i]),
         NEW flat, FlattenSteps(flat, seqs, Len(seqs)), \A k \in 0 .. Len(seqs) : IsList(flat[k]),
         NEW n \in 0 .. Len(seqs), NEW first, IsList(first), Len(first) = n,
         \A i \in 1 .. n : first[i] = seqs[i]
  PROVE  FlattenSeq(first) = flat[n]
<1>1. Len(seqs) \in Nat /\ n \in Nat /\ \A i \in 1 .. n : i \in 1 .. Len(seqs)  BY ListLen
<1>2. \A i \in 1 .. Len(first) : IsList(first[i])  BY <1>1
<1>3. PICK g : /\ FlattenSteps(g, first, n) /\ FlattenSeq(first) = g[n]
  BY <1>2, Flattens
<1>. DEFINE T == {k \in 0 .. n : g[k] = flat[k]}
<1>4. 0 \in T  BY <1>1, <1>3 DEF FlattenSteps
<1>5. ASSUME NEW k \in 0 .. n - 1, k \in T PROVE k + 1 \in T
  <2>1. k + 1 \in 1 .. n /\ k + 1 \in 0 .. n /\ k \in 0 .. Len(seqs) - 1  BY <1>1
  <2>2. g[k + 1] = g[k] \o first[k + 1]  BY <1>3 DEF FlattenSteps
  <2>3. flat[k + 1] = flat[k] \o seqs[k + 1]  BY <2>1 DEF FlattenSteps
  <2>4. g[k + 1] = flat[k + 1]  BY <1>5, <2>1, <2>2, <2>3
  <2>. QED  BY <2>1, <2>4
<1>. HIDE DEF T
<1>6. \A k \in 0 .. n : k \in T  BY <1>1, <1>4, <1>5, InductTo
<1>7. n \in T  BY <1>1, <1>6
<1>. QED  BY <1>3, <1>7 DEF T

\* The lists and all they make on the way, with their places.
Places(flat, seqs) ==
  /\ FlattenSteps(flat, seqs, Len(seqs)) /\ FlattenSeq(seqs) = flat[Len(seqs)]
  /\ \A k \in 0 .. Len(seqs) : IsList(flat[k])
  /\ PlacedUpTo(flat, seqs, Len(seqs))

LEMMA PlacesAre ==
  ASSUME NEW seqs, IsList(seqs), \A i \in 1 .. Len(seqs) : IsList(seqs[i])
  PROVE  \E flat : Places(flat, seqs)
<1>1. PICK flat : /\ FlattenSteps(flat, seqs, Len(seqs)) /\ FlattenSeq(seqs) = flat[Len(seqs)]
                  /\ \A k \in 0 .. Len(seqs) : IsList(flat[k])
  BY Flattens
<1>2. PlacedUpTo(flat, seqs, Len(seqs))  BY <1>1, FlatPlaced
<1>3. Places(flat, seqs)  BY <1>1, <1>2 DEF Places
<1>. QED  BY <1>3

\* Lists of the same lengths have the same places.
LEMMA SamePlaces ==
  ASSUME NEW a, IsList(a), NEW f, Places(f, a), NEW b, IsList(b), NEW g, Places(g, b),
         Len(a) = Len(b), \A i \in 1 .. Len(a) : Len(a[i]) = Len(b[i])
  PROVE  \A k \in 0 .. Len(a) : Len(f[k]) = Len(g[k])
<1>. DEFINE n == Len(a)
            T == {k \in 0 .. n : Len(f[k]) = Len(g[k])}
<1>1. n \in Nat /\ n = Len(b)  BY ListLen
<1>2. /\ \A m \in 1 .. n : Len(f[m]) = Len(f[m - 1]) + Len(a[m])
      /\ \A m \in 1 .. n : Len(g[m]) = Len(g[m - 1]) + Len(b[m])
      /\ f[0] = <<>> /\ g[0] = <<>>
  BY <1>1 DEF Places, PlacedUpTo, FlattenSteps
<1>. HIDE DEF n
<1>3. 0 \in T  BY <1>1, <1>2
<1>4. ASSUME NEW k \in 0 .. n - 1, k \in T PROVE k + 1 \in T
  <2>. DEFINE m == k + 1
  <2>1. m \in 1 .. n /\ m - 1 = k /\ m \in 0 .. n  BY <1>1
  <2>. HIDE DEF m
  <2>2. Len(f[m]) = Len(g[m])  BY <1>2, <1>4, <2>1 DEF n
  <2>. QED  BY <2>1, <2>2 DEF m
<1>. HIDE DEF T
<1>5. \A k \in 0 .. n : k \in T  BY <1>1, <1>3, <1>4, InductTo
<1>. QED  BY <1>5 DEF T, n

-----------------------------------------------------------------------------
\* Documents: text and markup.

IsDocument(annotations) ==
  /\ IsList(annotations)
  /\ \A i \in DOMAIN annotations :
       IsList(annotations[i].text) /\ IsList(annotations[i].interpret_as)

\* The markup of a document, and what it stands for; and where in its data that is.
MarkupOf(annotations) ==
  FlattenSeq([i \in DOMAIN annotations |->
                IF annotations[i].markup
                THEN annotations[i].text \o annotations[i].interpret_as ELSE <<>>])

MarksOf(annotations) ==
  FlattenSeq([k \in DOMAIN annotations |->
                [i \in DOMAIN annotations[k].text |-> annotations[k].markup]])

LEMMA InFlat ==
  ASSUME NEW seqs, IsList(seqs), \A i \in 1 .. Len(seqs) : IsList(seqs[i]),
         NEW m \in 1 .. Len(seqs), NEW j \in 1 .. Len(seqs[m])
  PROVE  seqs[m][j] \in Range(FlattenSeq(seqs))
<1>1. PICK flat : Places(flat, seqs)  BY PlacesAre
<1>. DEFINE p == Len(flat[m - 1]) + j
<1>2. p \in 1 .. Len(FlattenSeq(seqs)) /\ FlattenSeq(seqs)[p] = seqs[m][j]
  BY <1>1 DEF Places, PlacedUpTo
<1>. HIDE DEF p
<1>3. IsList(FlattenSeq(seqs))  BY FlattenedFrom
<1>. QED  BY <1>2, <1>3, ListLen DEF Range

LEMMA MarkupIsOf ==
  ASSUME NEW annotations, IsDocument(annotations), NEW m \in DOMAIN annotations,
         annotations[m].markup
  PROVE  /\ \A j \in 1 .. Len(annotations[m].text) :
              annotations[m].text[j] \in Range(MarkupOf(annotations))
         /\ Range(annotations[m].interpret_as) \subseteq Range(MarkupOf(annotations))
<1>. DEFINE seqs == [i \in DOMAIN annotations |->
                      IF annotations[i].markup
                      THEN annotations[i].text \o annotations[i].interpret_as ELSE <<>>]
            text == annotations[m].text
            stands == annotations[m].interpret_as
            n == Len(annotations)
<1>1. n \in Nat /\ DOMAIN annotations = 1 .. n /\ IsList(text) /\ IsList(stands)
  BY ListLen DEF IsDocument
<1>2. ASSUME NEW i \in 1 .. n PROVE IsList(seqs[i])
  <2>1. IsList(annotations[i].text) /\ IsList(annotations[i].interpret_as)
    BY <1>1 DEF IsDocument
  <2>2. IsList(annotations[i].text \o annotations[i].interpret_as)  BY <2>1, Joined
  <2>. QED  BY <1>1, <2>2, EmptyList
<1>3. seqs = [i \in 1 .. n |-> seqs[i]] /\ seqs[m] = text \o stands  BY <1>1
<1>4. MarkupOf(annotations) = FlattenSeq(seqs)  BY DEF MarkupOf
<1>. HIDE DEF seqs, text, stands, n
<1>5. IsList(seqs) /\ Len(seqs) = n /\ m \in 1 .. Len(seqs)  BY <1>1, <1>3, ListsMapped
<1>6. \A j \in 1 .. Len(seqs[m]) : seqs[m][j] \in Range(FlattenSeq(seqs))
  BY <1>2, <1>5, InFlat
<1>7. /\ Len(text) \in Nat /\ Len(stands) \in Nat /\ DOMAIN stands = 1 .. Len(stands)
      /\ Len(seqs[m]) = Len(text) + Len(stands)
      /\ \A j \in 1 .. Len(text) : seqs[m][j] = text[j]
      /\ \A j \in 1 .. Len(stands) : seqs[m][Len(text) + j] = stands[j]
  <2>1. /\ Len(text \o stands) = Len(text) + Len(stands)
        /\ \A j \in 1 .. Len(text) : (text \o stands)[j] = text[j]
        /\ \A j \in 1 .. Len(stands) : (text \o stands)[Len(text) + j] = stands[j]
    BY <1>1, Joined
  <2>2. Len(text) \in Nat /\ Len(stands) \in Nat /\ DOMAIN stands = 1 .. Len(stands)
    BY <1>1, ListLen
  <2>. QED  BY <1>3, <2>1, <2>2
<1>8. ASSUME NEW j \in 1 .. Len(text) PROVE text[j] \in Range(MarkupOf(annotations))
  BY <1>4, <1>6, <1>7
<1>9. ASSUME NEW j \in 1 .. Len(stands) PROVE stands[j] \in Range(MarkupOf(annotations))
  <2>. DEFINE p == Len(text) + j
  <2>1. p \in 1 .. Len(seqs[m]) /\ seqs[m][p] = stands[j]  BY <1>7
  <2>. HIDE DEF p
  <2>. QED  BY <1>4, <1>6, <2>1
<1>10. Range(stands) \subseteq Range(MarkupOf(annotations))
  <2>1. \A c \in Range(stands) : \E j \in 1 .. Len(stands) : c = stands[j]
    BY <1>7, Zenon DEF Range
  <2>. QED  BY <1>9, <2>1
<1>. QED  BY <1>8, <1>10 DEF text, stands

\* What is at a position of a document: text, the same in both, or markup.
LiesAt(annotations, m, p) ==
  /\ m \in DOMAIN annotations /\ p \in Nat
  /\ LengthUpTo(annotations, m - 1) \in Nat /\ LengthUpTo(annotations, m) \in Nat
  /\ LengthUpTo(annotations, m - 1) < p /\ p <= LengthUpTo(annotations, m)
  /\ MarksOf(annotations)[p] = annotations[m].markup
  /\ ~annotations[m].markup => Data(annotations)[p] = TextOf(annotations)[p]
  /\ annotations[m].markup =>
       /\ Data(annotations)[p] \in Range(MarkupOf(annotations))
       /\ TextOf(annotations)[p] \in Range(MarkupOf(annotations)) \union {Blank}

LEMMA UpToIs ==
  ASSUME NEW annotations, IsDocument(annotations), NEW seqs,
         IsList(seqs), \A i \in 1 .. Len(seqs) : IsList(seqs[i]),
         Len(seqs) = Len(annotations), \A i \in DOMAIN annotations : seqs[i] = annotations[i].text,
         NEW flat, Places(flat, seqs), NEW k \in 0 .. Len(annotations)
  PROVE  LengthUpTo(annotations, k) = Len(flat[k])
<1>. DEFINE cut == SubSeq(annotations, 1, k)
            begun == [i \in DOMAIN cut |-> cut[i].text]
<1>1. IsList(annotations) /\ Len(annotations) \in Nat /\ k \in Nat
      /\ DOMAIN annotations = 1 .. Len(annotations) /\ 1 \in Nat \ {0}
  BY ListLen DEF IsDocument
<1>2. /\ IsList(cut) /\ Len(cut) = IF 1 <= k THEN k - 1 + 1 ELSE 0
      /\ DOMAIN cut = 1 .. Len(cut)
      /\ \A i \in 1 .. Len(cut) : cut[i] = annotations[1 + i - 1]
  BY <1>1, Cutout
<1>3. Len(cut) = k  BY <1>1, <1>2
<1>4. \A i \in 1 .. k : 1 + i - 1 = i /\ i \in 1 .. Len(annotations)  BY <1>1
<1>5. \A i \in 1 .. k : cut[i] = annotations[i]  BY <1>2, <1>3, <1>4
<1>6. LengthUpTo(annotations, k) = Len(FlattenSeq(begun))  BY DEF LengthUpTo, Data
<1>. HIDE DEF cut
<1>7. begun = [i \in 1 .. k |-> begun[i]] /\ \A i \in 1 .. k : begun[i] = seqs[i]
  BY <1>1, <1>2, <1>3, <1>4, <1>5
<1>. HIDE DEF begun
<1>8. IsList(begun) /\ Len(begun) = k  BY <1>1, <1>7, ListsMapped
<1>9. FlattenSeq(begun) = flat[k]
  <2>1. k \in 0 .. Len(seqs) /\ FlattenSteps(flat, seqs, Len(seqs))
        /\ \A i \in 0 .. Len(seqs) : IsList(flat[i])
    BY DEF Places
  <2>2. \A i \in 1 .. k : begun[i] = seqs[i]  BY <1>7
  <2>. QED  BY <1>8, <2>1, <2>2, FlatBefore
<1>. QED  BY <1>6, <1>9

LEMMA DocumentIs ==
  ASSUME NEW annotations, IsDocument(annotations)
  PROVE  /\ IsList(Data(annotations)) /\ IsList(TextOf(annotations))
         /\ Len(Data(annotations)) = Len(TextOf(annotations))
         /\ \A p \in 1 .. Len(Data(annotations)) : \E m : LiesAt(annotations, m, p)
<1>. DEFINE n == Len(annotations)
            texts == [i \in DOMAIN annotations |-> annotations[i].text]
            flats == [i \in DOMAIN annotations |-> Flattened(annotations[i])]
            marks == [k \in DOMAIN annotations |->
                        [i \in DOMAIN annotations[k].text |-> annotations[k].markup]]
            data == Data(annotations)
            text == TextOf(annotations)
            mark == MarksOf(annotations)
<1>1. n \in Nat /\ DOMAIN annotations = 1 .. n  BY ListLen DEF IsDocument
<1>2. ASSUME NEW i \in 1 .. n
      PROVE  /\ IsList(texts[i]) /\ Len(texts[i]) \in Nat
             /\ IsList(flats[i]) /\ Len(flats[i]) = Len(texts[i])
             /\ IsList(marks[i]) /\ Len(marks[i]) = Len(texts[i])
             /\ \A j \in 1 .. Len(texts[i]) : marks[i][j] = annotations[i].markup
  <2>1. texts[i] = annotations[i].text /\ IsList(texts[i]) /\ IsList(annotations[i].interpret_as)
    BY <1>1 DEF IsDocument
  <2>2. Len(texts[i]) \in Nat /\ DOMAIN texts[i] = 1 .. Len(texts[i])  BY <2>1, ListLen
  <2>3. flats[i] = Flattened(annotations[i])  BY <1>1
  <2>4. IsList(Flattened(annotations[i])) /\ Len(Flattened(annotations[i])) = Len(texts[i])
    BY <2>1, FlattenedIs
  <2>5. marks[i] = [j \in 1 .. Len(texts[i]) |-> annotations[i].markup]  BY <1>1, <2>1, <2>2
  <2>. DEFINE s == marks[i]
  <2>6. s = [j \in 1 .. Len(texts[i]) |-> s[j]]
        /\ \A j \in 1 .. Len(texts[i]) : s[j] = annotations[i].markup
    BY <2>5
  <2>. HIDE DEF s
  <2>. HIDE DEF texts, flats, marks
  <2>7. IsList(s) /\ Len(s) = Len(texts[i])  BY <2>2, <2>6, ListsMapped
  <2>. QED  BY <2>1, <2>2, <2>3, <2>4, <2>6, <2>7 DEF s
<1>3. /\ texts = [i \in 1 .. n |-> texts[i]] /\ flats = [i \in 1 .. n |-> flats[i]]
      /\ marks = [i \in 1 .. n |-> marks[i]]
  BY <1>1
<1>4. /\ data = FlattenSeq(texts) /\ text = FlattenSeq(flats) /\ mark = FlattenSeq(marks)
  BY DEF Data, TextOf, MarksOf
<1>5. \A i \in 1 .. n : texts[i] = annotations[i].text /\ flats[i] = Flattened(annotations[i])
  BY <1>1
<1>. HIDE DEF texts, flats, marks, data, text, mark
<1>6. /\ IsList(texts) /\ Len(texts) = n /\ IsList(flats) /\ Len(flats) = n
      /\ IsList(marks) /\ Len(marks) = n
  BY <1>1, <1>3, ListsMapped
<1>7. PICK f : Places(f, texts)  BY <1>2, <1>6, PlacesAre
<1>8. PICK g : Places(g, flats)  BY <1>2, <1>6, PlacesAre
<1>9. PICK h : Places(h, marks)  BY <1>2, <1>6, PlacesAre
<1>10. \A k \in 0 .. n : Len(f[k]) = Len(g[k])
  <2>1. \A i \in 1 .. Len(texts) : Len(texts[i]) = Len(flats[i])  BY <1>2, <1>6
  <2>2. \A k \in 0 .. Len(texts) : Len(f[k]) = Len(g[k])
    BY <1>6, <1>7, <1>8, <2>1, SamePlaces
  <2>. QED  BY <1>6, <2>2
<1>11. \A k \in 0 .. n : Len(f[k]) = Len(h[k])
  <2>1. \A i \in 1 .. Len(texts) : Len(texts[i]) = Len(marks[i])  BY <1>2, <1>6
  <2>2. \A k \in 0 .. Len(texts) : Len(f[k]) = Len(h[k])
    BY <1>6, <1>7, <1>9, <2>1, SamePlaces
  <2>. QED  BY <1>6, <2>2
<1>12. IsList(data) /\ IsList(text) /\ Len(data) = Len(text)
  <2>1. n \in 0 .. n /\ data = f[n] /\ text = g[n]  BY <1>1, <1>4, <1>6, <1>7, <1>8 DEF Places
  <2>. QED  BY <1>6, <1>7, <1>8, <1>10, <2>1 DEF Places
<1>13. \A k \in 0 .. n : LengthUpTo(annotations, k) = Len(f[k])
  <2>1. /\ \A i \in 1 .. Len(texts) : IsList(texts[i])
        /\ \A i \in DOMAIN annotations : texts[i] = annotations[i].text
    BY <1>1, <1>2, <1>5, <1>6
  <2>2. Len(texts) = Len(annotations)  BY <1>6
  <2>. HIDE DEF n
  <2>3. \A k \in 0 .. Len(annotations) : LengthUpTo(annotations, k) = Len(f[k])
    BY <1>6, <1>7, <2>1, <2>2, UpToIs
  <2>. QED  BY <2>3 DEF n
<1>14. ASSUME NEW p \in 1 .. Len(data) PROVE \E m : LiesAt(annotations, m, p)
  <2>1. data = f[n] /\ text = g[n] /\ mark = h[n]
    BY <1>4, <1>6, <1>7, <1>8, <1>9 DEF Places
  <2>2. /\ \A m \in 1 .. n : Len(f[m]) = Len(f[m - 1]) + Len(texts[m])
        /\ \A m \in 1 .. n : \A j \in 1 .. Len(texts[m]) :
             f[n][Len(f[m - 1]) + j] = texts[m][j]
        /\ \A q \in 1 .. Len(f[n]) :
             \E m \in 1 .. n : \E j \in 1 .. Len(texts[m]) : q = Len(f[m - 1]) + j
    <3>1. PlacedUpTo(f, texts, n)  BY <1>6, <1>7 DEF Places
    <3>. QED  BY <3>1 DEF PlacedUpTo
  <2>3. \A m \in 1 .. n : \A j \in 1 .. Len(flats[m]) : g[n][Len(g[m - 1]) + j] = flats[m][j]
    BY <1>6, <1>8 DEF Places, PlacedUpTo
  <2>4. \A m \in 1 .. n : \A j \in 1 .. Len(marks[m]) : h[n][Len(h[m - 1]) + j] = marks[m][j]
    BY <1>6, <1>9 DEF Places, PlacedUpTo
  <2>5. PICK m \in 1 .. n : \E j \in 1 .. Len(texts[m]) : p = Len(f[m - 1]) + j  BY <2>1, <2>2
  <2>5a. PICK j \in 1 .. Len(texts[m]) : p = Len(f[m - 1]) + j  BY <2>5
  <2>. DEFINE l == m - 1
              a == annotations[m]
  <2>6. l \in 0 .. n /\ m \in 0 .. n /\ m \in DOMAIN annotations  BY <1>1
  <2>7. IsList(f[l]) /\ IsList(f[m])  BY <1>6, <1>7, <2>6 DEF Places
  <2>8. LengthUpTo(annotations, l) = Len(f[l]) /\ LengthUpTo(annotations, m) = Len(f[m])
    BY <1>13, <2>6
  <2>9. Len(f[l]) \in Nat /\ Len(f[m]) \in Nat /\ Len(f[m]) = Len(f[l]) + Len(texts[m])
        /\ p = Len(f[l]) + j /\ j \in 1 .. Len(flats[m]) /\ j \in 1 .. Len(marks[m])
    BY <1>2, <2>2, <2>5a, <2>7, ListLen
  <2>10. data[p] = texts[m][j]  BY <2>1, <2>2, <2>5a
  <2>11. text[p] = flats[m][j]
    <3>1. Len(g[l]) = Len(f[l])  BY <1>10, <2>6
    <3>2. g[n][Len(g[l]) + j] = flats[m][j]  BY <2>3, <2>9
    <3>. QED  BY <2>1, <2>9, <3>1, <3>2
  <2>12. mark[p] = a.markup
    <3>1. Len(h[l]) = Len(f[l])  BY <1>11, <2>6
    <3>2. h[n][Len(h[l]) + j] = marks[m][j]  BY <2>4, <2>9
    <3>. QED  BY <1>2, <2>1, <2>9, <3>1, <3>2
  <2>13. texts[m] = a.text /\ flats[m] = Flattened(a) /\ IsList(a.text) /\ IsList(a.interpret_as)
    BY <1>5, <2>6 DEF IsDocument
  <2>14. ~a.markup => data[p] = text[p]
    <3>1. ~a.markup => Flattened(a) = a.text  BY <2>13, FlattenedIs
    <3>. QED  BY <2>10, <2>11, <2>13, <3>1
  <2>15. a.markup => /\ data[p] \in Range(MarkupOf(annotations))
                     /\ text[p] \in Range(MarkupOf(annotations)) \union {Blank}
    <3>1. SUFFICES ASSUME a.markup
                   PROVE  /\ data[p] \in Range(MarkupOf(annotations))
                          /\ text[p] \in Range(MarkupOf(annotations)) \union {Blank}
      OBVIOUS
    <3>2. /\ \A i \in 1 .. Len(a.text) : a.text[i] \in Range(MarkupOf(annotations))
          /\ Range(a.interpret_as) \subseteq Range(MarkupOf(annotations))
      BY <2>6, <3>1, MarkupIsOf
    <3>3. \A i \in 1 .. Len(a.text) : Flattened(a)[i] \in Range(a.interpret_as) \union {Blank}
      BY <2>13, <3>1, FlattenedIs
    <3>4. j \in 1 .. Len(a.text)  BY <2>13
    <3>5. data[p] = a.text[j] /\ text[p] = Flattened(a)[j]  BY <2>10, <2>11, <2>13
    <3>6. a.text[j] \in Range(MarkupOf(annotations))  BY <3>2, <3>4
    <3>7. Flattened(a)[j] \in Range(MarkupOf(annotations)) \union {Blank}  BY <3>2, <3>3, <3>4
    <3>. QED  BY <3>5, <3>6, <3>7
  <2>16. p \in Nat /\ Len(f[l]) < p /\ p <= Len(f[m])  BY <2>9, <2>5a, <1>2
  <2>17. LiesAt(annotations, m, p)
    BY <2>6, <2>8, <2>9, <2>12, <2>14, <2>15, <2>16 DEF LiesAt, data, text, mark
  <2>. QED  BY <2>17
<1>. QED  BY <1>12, <1>14 DEF data, text

-----------------------------------------------------------------------------
\* What LanguageTool's clients get reads as what was found.

\* The context of a match has it where its offset in the context says.
LEMMA ContextReads ==
  ASSUME NEW part, IsList(part), NEW i \in Nat, NEW e \in Nat, NEW cs \in Nat, NEW to \in Nat,
         cs <= i, i <= e, e <= Len(part), e <= to,
         NEW from, from = UnitsBefore(part, i) - UnitsBefore(part, cs),
         NEW length, length = UnitsBefore(part, e) - UnitsBefore(part, i)
  PROVE  ReadsAs(Slice(part, cs, to), from, from + length, Slice(part, i, e))
<1>. DEFINE c == Slice(part, cs, to)
            a == i - cs
            b == e - cs
<1>1. Len(part) \in Nat  BY ListLen
<1>2. /\ IsList(c) /\ Len(c) \in Nat
      /\ to <= Len(part) => Len(c) = to - cs
      /\ Len(part) <= to => Len(c) = Len(part) - cs
      /\ \A k \in 1 .. Len(c) : c[k] = part[cs + k]
  BY <1>1, Sliced
<1>3. Len(c) \in 0 .. Len(part) - cs /\ b <= Len(c)  BY <1>1, <1>2
<1>. HIDE DEF c
<1>4. StandsAt(c, part, cs)  BY <1>1, <1>2, <1>3 DEF StandsAt
<1>5. /\ a \in 0 .. Len(c) /\ b \in 0 .. Len(c) /\ a <= b /\ b \in a .. Len(c)
      /\ cs + a = i /\ cs + b = e
  BY <1>2, <1>3
<1>. HIDE DEF a, b
<1>6. \A k \in 0 .. Len(c) : UnitsBefore(part, cs + k) = UnitsBefore(part, cs) + UnitsBefore(c, k)
  BY <1>4, UnitsAhead
<1>7. /\ UnitsBefore(part, i) = UnitsBefore(part, cs) + UnitsBefore(c, a)
      /\ UnitsBefore(part, e) = UnitsBefore(part, cs) + UnitsBefore(c, b)
  BY <1>5, <1>6
<1>8. /\ UnitsBefore(part, cs) \in Nat /\ UnitsBefore(c, a) \in Nat /\ UnitsBefore(c, b) \in Nat
  BY <1>2, <1>5, UnitsIn
<1>9. UnitsBefore(c, a) = from /\ UnitsBefore(c, b) = from + length  BY <1>7, <1>8
<1>10. Slice(part, i, e) = Slice(c, a, b)
  <2>1. Slice(part, cs + a, cs + b) = Slice(c, a, b)  BY <1>4, <1>5, SliceAhead
  <2>. QED  BY <1>5, <2>1
<1>11. ReadsAs(c, from, from + length, Slice(part, i, e))
  BY <1>5, <1>9, <1>10 DEF ReadsAs
<1>. QED  BY <1>11 DEF c

\* A match is of the characters i + 1 .. e of the text, and touches none of the spans.
IsMatchOf(match, part, spans, i, e) ==
  /\ i \in 0 .. Len(part) /\ e \in 0 .. Len(part) /\ i <= e /\ ~InMarkup(spans, i, e)
  /\ match.offset = UnitsBefore(part, i) /\ match.offset + match.length = UnitsBefore(part, e)
  /\ match.found = Slice(part, i, e)
  /\ ReadsAs(match.context.text, match.context.offset, match.context.offset + match.length,
             match.found)

LEMMA BuiltRightly ==
  ASSUME NEW part, IsList(part), NoSigns(part), NEW spans,
         NEW result, ReadsAs(part, result.start, result.end, result.text),
         ~InMarkup(spans, from_utf16(utf16_offsets(part), result.start),
                   from_utf16(utf16_offsets(part), result.end))
  PROVE  \E i, e : IsMatchOf(build_match(result, part), part, spans, i, e)
<1>1. PICK i \in 0 .. Len(part), e \in 0 .. Len(part) :
        /\ UnitsBefore(part, i) = result.start /\ UnitsBefore(part, e) = result.end
        /\ i <= e /\ Slice(part, i, e) = result.text
  BY DEF ReadsAs
<1>. DEFINE offsets == utf16_offsets(part)
            match == build_match(result, part)
            C == {0, i - CONTEXT_RADIUS}
            cs == Max(C)
            to == e + CONTEXT_RADIUS
<1>2. \A k \in 0 .. Len(part) : /\ offsets[k] = UnitsBefore(part, k)
                                /\ from_utf16(offsets, UnitsBefore(part, k)) = k
  BY WideOffsets DEF NoSigns
<1>3. from_utf16(offsets, result.start) = i /\ from_utf16(offsets, result.end) = e
  BY <1>1, <1>2
<1>4. /\ match.offset = result.start /\ match.length = result.end - result.start
      /\ match.found = result.text
      /\ match.context.text = Slice(part, cs, to)
      /\ match.context.offset = offsets[i] - offsets[cs]
  BY <1>3 DEF build_match, to_utf16
<1>5. Len(part) \in Nat /\ i \in Nat /\ e \in Nat /\ CONTEXT_RADIUS \in Nat /\ to \in Nat /\ e <= to
  BY ListLen, LtProtocolAssumption
<1>6. cs \in Nat /\ cs <= i
  <2>. DEFINE w == IF i - CONTEXT_RADIUS >= 0 THEN i - CONTEXT_RADIUS ELSE 0
  <2>1. w \in C /\ \A y \in C : w >= y  BY <1>5
  <2>. HIDE DEF C
  <2>2. Max(C) \in C /\ \A y \in C : Max(C) >= y  BY <2>1, Zenon DEF Max
  <2>3. Max(C) \in {0, i - CONTEXT_RADIUS} /\ Max(C) >= 0  BY <2>2 DEF C
  <2>. HIDE DEF w
  <2>. QED  BY <1>5, <2>3
<1>. HIDE DEF offsets, match, cs, to
<1>7. offsets[i] = UnitsBefore(part, i) /\ offsets[cs] = UnitsBefore(part, cs)
  BY <1>2, <1>5, <1>6
<1>8. UnitsBefore(part, i) \in Nat /\ UnitsBefore(part, e) \in Nat  BY <1>5, UnitsIn
<1>9. match.offset = UnitsBefore(part, i) /\ match.offset + match.length = UnitsBefore(part, e)
  BY <1>1, <1>4, <1>8
<1>10. ReadsAs(Slice(part, cs, to), match.context.offset, match.context.offset + match.length,
               Slice(part, i, e))
  <2>. DEFINE from == match.context.offset
              length == match.length
  <2>1. /\ from = UnitsBefore(part, i) - UnitsBefore(part, cs)
        /\ length = UnitsBefore(part, e) - UnitsBefore(part, i)
    BY <1>1, <1>4, <1>7
  <2>. HIDE DEF from, length
  <2>2. ReadsAs(Slice(part, cs, to), from, from + length, Slice(part, i, e))
    BY <1>1, <1>5, <1>6, <2>1, ContextReads
  <2>. QED  BY <2>2 DEF from, length
<1>11. ~InMarkup(spans, i, e)  BY <1>3 DEF offsets
<1>12. IsMatchOf(match, part, spans, i, e)
  BY <1>1, <1>4, <1>9, <1>10, <1>11 DEF IsMatchOf
<1>. QED  BY <1>12 DEF match

MatchesReadRightly(matches, part, spans) ==
  \A k \in DOMAIN matches : \E i, e : IsMatchOf(matches[k], part, spans, i, e)

LEMMA LtMatchesRead ==
  ASSUME NEW part, IsList(part), NoSigns(part), NEW spans,
         NEW results, AreFindings(results), ReadRightly(results, part)
  PROVE  MatchesReadRightly(LtMatches(results, part, spans), part, spans)
<1>. DEFINE offsets == utf16_offsets(part)
            Outside(r) == ~InMarkup(spans, from_utf16(offsets, r.start), from_utf16(offsets, r.end))
            keys == {i \in DOMAIN results : Outside(results[i])}
            outside == KeptAt(results, keys)
            matches == LtMatches(results, part, spans)
<1>1. matches = [i \in DOMAIN outside |-> build_match(outside[i], part)]  BY DEF LtMatches
<1>2. DOMAIN matches = DOMAIN outside
      /\ \A k \in DOMAIN matches : matches[k] = build_match(outside[k], part)
  BY <1>1
<1>. HIDE DEF matches
<1>3. Len(results) \in Nat /\ DOMAIN results = 1 .. Len(results)  BY ListLen DEF AreFindings
<1>4. \A k \in DOMAIN outside : \E i \in keys \intersect (1 .. Len(results)) : outside[k] = results[i]
  <2>. HIDE DEF keys
  <2>. QED  BY <1>3, KeptAtFrom
<1>. HIDE DEF outside
<1>5. ASSUME NEW k \in DOMAIN matches PROVE \E i, e : IsMatchOf(matches[k], part, spans, i, e)
  <2>1. PICK i \in keys : outside[k] = results[i]  BY <1>2, <1>4
  <2>. DEFINE r == results[i]
  <2>2. Outside(r) /\ ReadsAs(part, r.start, r.end, r.text)
    BY <2>1 DEF ReadRightly, Reads
  <2>3. matches[k] = build_match(r, part)  BY <1>2, <2>1
  <2>. HIDE DEF r
  <2>4. \E j, e : IsMatchOf(build_match(r, part), part, spans, j, e)
    BY <2>2, BuiltRightly
  <2>. QED  BY <2>3, <2>4
<1>6. MatchesReadRightly(matches, part, spans)  BY <1>5 DEF MatchesReadRightly
<1>. QED  BY <1>6 DEF matches

\* A document's text has as many units before a position as its data, where the markup has no
\* wide characters.
LEMMA DocumentUnits ==
  ASSUME NEW annotations, IsDocument(annotations),
         Range(MarkupOf(annotations)) \intersect Wide = {}
  PROVE  \A i \in 0 .. Len(TextOf(annotations)) :
           UnitsBefore(Data(annotations), i) = UnitsBefore(TextOf(annotations), i)
<1>. DEFINE data == Data(annotations)
            text == TextOf(annotations)
            n == Len(text)
<1>1. n \in Nat /\ Len(data) = n /\ \A p \in 1 .. n : \E m : LiesAt(annotations, m, p)
  BY DocumentIs, ListLen
<1>2. Blank \notin Wide  BY FindingsAssumption
<1>3. ASSUME NEW p \in 1 .. n PROVE data[p] \in Wide <=> text[p] \in Wide
  <2>1. PICK m : LiesAt(annotations, m, p)  BY <1>1
  <2>2. CASE annotations[m].markup
    <3>1. /\ data[p] \in Range(MarkupOf(annotations))
          /\ text[p] \in Range(MarkupOf(annotations)) \union {Blank}
      BY <2>1, <2>2 DEF LiesAt
    <3>. HIDE DEF data, text
    <3>. QED  BY <1>2, <3>1
  <2>3. CASE ~annotations[m].markup
    <3>1. data[p] = text[p]  BY <2>1, <2>3 DEF LiesAt
    <3>. QED  BY <3>1
  <2>. QED  BY <2>2, <2>3
<1>. HIDE DEF data, text
<1>4. ASSUME NEW i \in 0 .. n PROVE UnitsBefore(data, i) = UnitsBefore(text, i)
  <2>1. {m \in 1 .. i : data[m] \in Wide} = {m \in 1 .. i : text[m] \in Wide}
    BY <1>1, <1>3
  <2>. QED  BY <2>1 DEF UnitsBefore, CountUpTo
<1>. QED  BY <1>4 DEF data, text

LEMMA DocumentSigns ==
  ASSUME NEW annotations, IsDocument(annotations), NoSigns(Data(annotations)),
         Range(MarkupOf(annotations)) \intersect Signs = {}
  PROVE  NoSigns(TextOf(annotations))
<1>. DEFINE data == Data(annotations)
            text == TextOf(annotations)
<1>1. Len(data) = Len(text) /\ \A p \in 1 .. Len(data) : \E m : LiesAt(annotations, m, p)
  BY DocumentIs
<1>2. Blank \notin Signs  BY FindingsAssumption
<1>3. ASSUME NEW p \in 1 .. Len(text) PROVE text[p] \notin Signs
  <2>1. PICK m : LiesAt(annotations, m, p)  BY <1>1
  <2>2. data[p] = text[p] \/ text[p] \in Range(MarkupOf(annotations)) \union {Blank}
    BY <2>1 DEF LiesAt
  <2>3. data[p] \notin Signs  BY <1>1 DEF NoSigns
  <2>. HIDE DEF data, text
  <2>. QED  BY <1>2, <2>2, <2>3
<1>. QED  BY <1>3 DEF NoSigns

\* Where no span of markup is touched, there is none, and the text is the data.
LEMMA OutsideMarkup ==
  ASSUME NEW annotations, IsDocument(annotations),
         NEW i \in Nat, NEW e \in Nat, e <= Len(TextOf(annotations)),
         ~InMarkup(markup_spans(annotations), i, e)
  PROVE  \A p \in i + 1 .. e : /\ ~MarksOf(annotations)[p]
                               /\ Data(annotations)[p] = TextOf(annotations)[p]
<1>1. \A p \in 1 .. Len(Data(annotations)) : \E m : LiesAt(annotations, m, p)
  BY DocumentIs
<1>2. Len(Data(annotations)) \in Nat /\ Len(Data(annotations)) = Len(TextOf(annotations))
  BY DocumentIs, ListLen
<1>3. ASSUME NEW p \in i + 1 .. e
      PROVE  ~MarksOf(annotations)[p] /\ Data(annotations)[p] = TextOf(annotations)[p]
  <2>1. p \in 1 .. Len(Data(annotations)) /\ i < p /\ p <= e  BY <1>2
  <2>2. PICK m : LiesAt(annotations, m, p)  BY <1>1, <2>1
  <2>. DEFINE from == LengthUpTo(annotations, m - 1)
              to == LengthUpTo(annotations, m)
  <2>3. m \in DOMAIN annotations /\ from \in Nat /\ to \in Nat /\ from < p /\ p <= to
    BY <2>2 DEF LiesAt
  <2>4. ~annotations[m].markup
    <3>1. SUFFICES ASSUME annotations[m].markup PROVE FALSE  OBVIOUS
    <3>2. <<from, to>> \in markup_spans(annotations)  BY <2>3, <3>1 DEF markup_spans
    <3>. HIDE DEF from, to
    <3>3. i < <<from, to>>[2] /\ e > <<from, to>>[1]  BY <2>1, <2>3
    <3>. QED  BY <3>2, <3>3 DEF InMarkup
  <2>5. MarksOf(annotations)[p] = annotations[m].markup  BY <2>2 DEF LiesAt
  <2>6. ~MarksOf(annotations)[p]  BY <2>4, <2>5, Zenon
  <2>7. Data(annotations)[p] = TextOf(annotations)[p]  BY <2>2, <2>4 DEF LiesAt
  <2>. QED  BY <2>6, <2>7
<1>. QED  BY <1>3

\* What reads so in a document's text, outside the markup, reads so in its data.
LEMMA DocumentReads ==
  ASSUME NEW annotations, IsDocument(annotations),
         Range(MarkupOf(annotations)) \intersect Wide = {},
         NEW i \in Nat, NEW e \in Nat, i <= e, e <= Len(TextOf(annotations)),
         ~InMarkup(markup_spans(annotations), i, e)
  PROVE  ReadsAs(Data(annotations), UnitsBefore(TextOf(annotations), i),
                 UnitsBefore(TextOf(annotations), e), Slice(TextOf(annotations), i, e))
<1>. DEFINE data == Data(annotations)
            text == TextOf(annotations)
<1>1. /\ IsList(data) /\ IsList(text) /\ Len(data) = Len(text) /\ Len(text) \in Nat
      /\ e <= Len(text)
  BY DocumentIs, ListLen
<1>2. \A k \in 0 .. Len(text) : UnitsBefore(data, k) = UnitsBefore(text, k)  BY DocumentUnits
<1>3. \A p \in i + 1 .. e : data[p] = text[p]  BY OutsideMarkup
<1>. HIDE DEF data, text
<1>4. Slice(data, i, e) = Slice(text, i, e)
  <2>. DEFINE a == Slice(data, i, e)
              b == Slice(text, i, e)
  <2>1. /\ IsList(a) /\ Len(a) = e - i /\ \A k \in 1 .. Len(a) : a[k] = data[i + k]
        /\ IsList(b) /\ Len(b) = e - i /\ \A k \in 1 .. Len(b) : b[k] = text[i + k]
    <3>1. e <= Len(data)  BY <1>1
    <3>2. IsList(a) /\ Len(a) = e - i /\ \A k \in 1 .. Len(a) : a[k] = data[i + k]
      BY <1>1, <3>1, Sliced
    <3>3. IsList(b) /\ Len(b) = e - i /\ \A k \in 1 .. Len(b) : b[k] = text[i + k]
      BY <1>1, Sliced
    <3>. QED  BY <3>2, <3>3
  <2>. HIDE DEF a, b
  <2>2. \A k \in 1 .. e - i : i + k \in i + 1 .. e  OBVIOUS
  <2>3. \A k \in 1 .. Len(a) : a[k] = b[k]  BY <1>3, <2>1, <2>2
  <2>4. a = b  BY <2>1, <2>3, SameList
  <2>. QED  BY <2>4 DEF a, b
<1>5. i \in 0 .. Len(data) /\ e \in 0 .. Len(data) /\ i \in 0 .. Len(text) /\ e \in 0 .. Len(text)
  BY <1>1
<1>6. ReadsAs(data, UnitsBefore(text, i), UnitsBefore(text, e), Slice(text, i, e))
  BY <1>2, <1>4, <1>5 DEF ReadsAs
<1>. QED  BY <1>6 DEF data, text

\* A document of nothing has no text and no markup.
LEMMA EmptyDocument ==
  /\ Data(<<>>) = <<>> /\ TextOf(<<>>) = <<>> /\ markup_spans(<<>>) = {}
<1>1. IsDocument(<<>>)  BY EmptyList DEF IsDocument
<1>2. /\ IsList(Data(<<>>)) /\ IsList(TextOf(<<>>)) /\ Len(Data(<<>>)) = Len(TextOf(<<>>))
      /\ \A p \in 1 .. Len(Data(<<>>)) : \E m : LiesAt(<<>>, m, p)
  BY <1>1, DocumentIs
<1>3. Len(Data(<<>>)) \in Nat  BY <1>2, ListLen
<1>4. Len(Data(<<>>)) = 0
  <2>1. SUFFICES ASSUME Len(Data(<<>>)) # 0 PROVE FALSE  OBVIOUS
  <2>2. 1 \in 1 .. Len(Data(<<>>))  BY <1>3, <2>1
  <2>3. PICK m : LiesAt(<<>>, m, 1)  BY <1>2, <2>2
  <2>. QED  BY <2>3, EmptyList DEF LiesAt
<1>5. markup_spans(<<>>) = {}  BY EmptyList DEF markup_spans
<1>. QED  BY <1>2, <1>4, <1>5, LenZero

-----------------------------------------------------------------------------
\* What a job has found reads as its text, at every step.

\* What a job reviews is what its request has for a text.
IsOf(j) ==
  /\ j.request.route \in {"check", "guardrail"} => j.answer = j.request.text
  /\ j.request.route = "lt" =>
       IF j.request.text = <<>>
       THEN /\ j.answer = TextOf(j.request.annotations)
            /\ j.spans = markup_spans(j.request.annotations)
       ELSE j.answer = j.request.text /\ j.spans = {}

\* What is found in a part is found where it says, and what goes with the others has moved on.
IsRead(j) ==
  j.stage \in DOMAIN Rank =>
    /\ IsOf(j)
    /\ j.stage \in {"languagetool", "sort"} => AreFound(j.found, j.part)
    /\ NoSigns(j.answer) =>
         /\ ReadRightly(j.findings, j.answer)
         /\ j.stage = "sort" => ReadRightly(j.lt_results, j.part)

LEMMA NothingRead == \A text : ReadRightly(<<>>, text)
BY EmptyList DEF ReadRightly

LEMMA JoinedRead ==
  ASSUME NEW text, NEW a, AreFindings(a), ReadRightly(a, text),
         NEW b, AreFindings(b), ReadRightly(b, text)
  PROVE  ReadRightly(a \o b, text)
<1>. DEFINE c == a \o b
<1>1. /\ DOMAIN c = 1 .. Len(a) + Len(b)
      /\ \A i \in 1 .. Len(a) : c[i] = a[i]
      /\ \A i \in 1 .. Len(b) : c[Len(a) + i] = b[i]
  BY Joined DEF AreFindings
<1>2. /\ DOMAIN a = 1 .. Len(a) /\ Len(a) \in Nat
      /\ DOMAIN b = 1 .. Len(b) /\ Len(b) \in Nat
  BY ListLen DEF AreFindings
<1>. HIDE DEF c
<1>3. ASSUME NEW i \in DOMAIN c PROVE Reads(c[i], text)
  <2>1. CASE i \in 1 .. Len(a)  BY <2>1, <1>1, <1>2 DEF ReadRightly
  <2>2. CASE i \notin 1 .. Len(a)
    <3>. DEFINE k == i - Len(a)
    <3>1. k \in 1 .. Len(b) /\ Len(a) + k = i  BY <2>2, <1>1, <1>2
    <3>. HIDE DEF k
    <3>2. c[i] = b[k] /\ k \in DOMAIN b  BY <3>1, <1>1, <1>2
    <3>. QED  BY <3>2 DEF ReadRightly
  <2>. QED  BY <2>1, <2>2
<1>. QED  BY <1>3 DEF ReadRightly, c

\* The part that is looked at stands in the text where the job is.
LEMMA PartStands ==
  ASSUME IsGood(job), job.stage \in {"languagetool", "sort"}
  PROVE  StandsAt(job.part, job.answer, job.start)
<1>1. /\ IsList(job.answer) /\ IsList(job.part) /\ Len(job.answer) \in Nat
      /\ job.start \in 0 .. Len(job.answer)
  BY ListLen DEF IsGood, IsJob
<1>2. CASE ~IsGuardrail(job.request)
  <2>1. job.start = 0 /\ job.part = fetch_text(job.answer)  BY <1>2 DEF IsGood, IsInText
  <2>2. /\ Len(job.part) \in 0 .. Len(job.answer)
        /\ \A i \in 1 .. Len(job.part) : job.part[i] = job.answer[i]
    BY <1>1, <2>1, FetchedText
  <2>3. \A i \in 1 .. Len(job.part) : 0 + i = i  BY <2>2
  <2>. QED  BY <1>1, <2>1, <2>2, <2>3 DEF StandsAt
<1>3. CASE IsGuardrail(job.request)
  <2>1. job.start < Len(Looked(job.answer)) /\ job.part = Part(Looked(job.answer), job.start)
    BY <1>3 DEF IsGood, IsInText
  <2>. DEFINE checked == Looked(job.answer)
  <2>2. /\ IsList(checked) /\ Len(checked) \in 0 .. Len(job.answer)
        /\ \A i \in 1 .. Len(checked) : checked[i] = job.answer[i]
    BY <1>1, LookedIs
  <2>. HIDE DEF checked
  <2>3. job.start \in 0 .. Len(checked)  BY <1>1, <2>1, <2>2 DEF checked
  <2>4. /\ Len(job.part) \in 0 .. Len(checked) - job.start
        /\ \A i \in 1 .. Len(job.part) : job.part[i] = checked[job.start + i]
    BY <2>1, <2>2, <2>3, PartIs DEF checked
  <2>5. \A i \in 1 .. Len(job.part) : job.start + i \in 1 .. Len(checked)
    BY <1>1, <2>2, <2>4
  <2>6. Len(job.part) \in 0 .. Len(job.answer) - job.start  BY <1>1, <2>2, <2>4
  <2>. QED  BY <1>1, <2>2, <2>4, <2>5, <2>6 DEF StandsAt
<1>. QED  BY <1>2, <1>3

LEMMA PartSigns ==
  ASSUME NEW part, NEW text, NEW start, StandsAt(part, text, start), NoSigns(text)
  PROVE  NoSigns(part)
<1>1. start \in Nat /\ Len(part) \in Nat /\ start + Len(part) <= Len(text) /\ Len(text) \in Nat
  BY ListLen DEF StandsAt
<1>2. \A i \in 1 .. Len(part) : start + i \in 1 .. Len(text)  BY <1>1
<1>. QED  BY <1>2 DEF StandsAt, NoSigns

\* A request is for the text it has.
LEMMA OpenedReads ==
  ASSUME NEW r, IsRequest(r), Opened(r).stage \in DOMAIN Rank
  PROVE  /\ IsOf(Opened(r)) /\ Opened(r).findings = <<>>
         /\ Opened(r).stage \in {"read", "verdict"}
<1>. DEFINE Fine(j) == IsOf(j) /\ j.findings = <<>> /\ j.stage \in {"read", "verdict"}
<1>1. ASSUME NEW response, Opened(r) = Done(Started(r), response) PROVE Fine(Opened(r))
  <2>1. Opened(r).stage = "done"  BY <1>1, StartedIs DEF Done, IsFresh, JobFields
  <2>. QED  BY <2>1, RankIs
<1>2. CASE r.route = "check"
  <2>. DEFINE j == [Started(r) EXCEPT !.stage = "read", !.answer = r.text]
  <2>1. Opened(r) = Done(Started(r), Results(<<>>)) \/ Opened(r) = j
    BY <1>2 DEF Opened, OpenedCheck
  <2>2. /\ j.stage = "read" /\ j.request = r /\ j.answer = r.text /\ j.findings = <<>>
    BY StartedIs DEF IsFresh, JobFields
  <2>. HIDE DEF j
  <2>3. Fine(j)  BY <1>2, <2>2 DEF IsOf
  <2>. QED  BY <1>1, <2>1, <2>3
<1>3. CASE r.route = "lt"
  <2>. DEFINE data == r.text = <<>> /\ r.annotations # <<>>
              text == IF data THEN TextOf(r.annotations) ELSE r.text
              spans == IF data THEN markup_spans(r.annotations) ELSE {}
              q == [r EXCEPT !.lang = resolve_lang(r.code)]
              j == [Started(r) EXCEPT !.stage = "read", !.request.lang = resolve_lang(r.code),
                                      !.answer = text, !.spans = spans]
  <2>1. /\ r.text # <<>> => text = r.text /\ spans = {}
        /\ r.text = <<>> => text = TextOf(r.annotations) /\ spans = markup_spans(r.annotations)
    BY EmptyDocument
  <2>2. /\ q.route = r.route /\ q.text = r.text /\ q.annotations = r.annotations
    OBVIOUS
  <2>. HIDE DEF text, spans
  <2>3. /\ j.stage = "read" /\ j.request = q /\ j.answer = text /\ j.spans = spans
        /\ j.findings = <<>>
    BY StartedIs DEF IsFresh, JobFields
  <2>. HIDE DEF q, j
  <2>4. Fine(j)  BY <1>3, <2>1, <2>2, <2>3 DEF IsOf
  <2>5. \/ OpenedLt(r) = Done(Started(r), Refusal)
        \/ OpenedLt(r) = Done(Started(r), Matched(<<>>, <<>>))
        \/ OpenedLt(r) = j
    BY DEF OpenedLt, text, spans, j
  <2>6. Opened(r) = OpenedLt(r)  BY <1>3 DEF Opened
  <2>. HIDE DEF Fine
  <2>. QED  BY <1>1, <2>4, <2>5, <2>6 DEF Fine
<1>4. CASE r.route = "guardrail"
  <2>. DEFINE q == Reviewed(r)
              j == [Started(q) EXCEPT !.stage = "read", !.answer = r.text]
  <2>1. Opened(r) = Done(Started(r), Refusal) \/ Opened(r) = j
    BY <1>4 DEF Opened, OpenedGuardrail
  <2>2. q.text = r.text /\ q.route = "guardrail"  BY <1>4 DEF Reviewed, IsRequest
  <2>. HIDE DEF q
  <2>3. /\ j.stage = "read" /\ j.request = q /\ j.answer = r.text /\ j.findings = <<>>
    BY StartedIs DEF IsFresh, JobFields
  <2>. HIDE DEF j
  <2>4. Fine(j)  BY <2>2, <2>3 DEF IsOf
  <2>. QED  BY <1>1, <2>1, <2>4
<1>5. CASE r.route = "input"
  <2>. DEFINE chat == Chat(merge_guidance(r.messages, guidance(r.config, r.lang)))
  <2>1. Opened(r) = Done(Started(r), Refusal) \/ Opened(r) = Done(Started(r), chat)
    BY <1>5 DEF Opened, OpenedInput
  <2>. HIDE DEF chat, Fine
  <2>. QED  BY <1>1, <2>1 DEF Fine
<1>6. CASE r.route = "litellm"
  <2>. DEFINE chat == Chat(with_guidance(r.messages, guidance(r.config, r.lang)))
              q == Reviewed(r)
              first == FirstReviewed(r.texts[1])
              whole == first = r.texts[1]
              j == Reviewing(Started(q), 1, first, whole)
  <2>1. Opened(r) = OpenedLitellm(r)  BY <1>6 DEF Opened
  <2>2. \/ Opened(r) = Done(Started(r), Refusal) \/ Opened(r) = Done(Started(r), chat)
        \/ Opened(r) = j
    BY <2>1 DEF OpenedLitellm
  <2>3. q.route = "litellm"  BY <1>6, RequestWith
  <2>. HIDE DEF chat, q, first, whole
  <2>4. DOMAIN Started(q) = JobFields /\ Started(q).request = q  BY StartedIs DEF IsFresh
  <2>5. ReviewGoesOn(Started(q), j, 1, first, whole)  BY <2>4, ReviewingGives
  <2>. HIDE DEF j
  <2>6. j.request = q /\ j.findings = <<>> /\ j.stage \in {"read", "verdict"}
    BY <2>4, <2>5 DEF ReviewGoesOn, Stays, JobFields
  <2>7. Fine(j)  BY <2>3, <2>6 DEF IsOf
  <2>. HIDE DEF Fine
  <2>. QED  BY <1>1, <2>2, <2>7 DEF Fine
<1>7. CASE r.route = "form"
  <2>. DEFINE d == Done(Started(r), Nothing)
  <2>1. Opened(r) = [d EXCEPT !.form = r.form.written, !.format = r.form.format]
    BY <1>7 DEF Opened
  <2>2. DOMAIN d = JobFields /\ d.stage = "done"
    BY StartedIs DEF Done, IsFresh, JobFields
  <2>3. Opened(r).stage = "done"  BY <2>1, <2>2 DEF JobFields
  <2>. QED  BY <2>3, RankIs
<1>. QED  BY <1>2, <1>3, <1>4, <1>5, <1>6, <1>7 DEF IsRequest, Routes

\* Whatever is left of a request when a step is made is still about its text.
LEMMA StaysRead ==
  ASSUME NEW j, IsOf(j), NEW k, k.request = j.request, k.answer = j.answer, k.spans = j.spans
  PROVE  IsOf(k)
BY DEF IsOf

LEMMA ReadOnReads ==
  ASSUME IsGood(job), IsRead(job), job.stage = "read", NEW part, IsList(part),
         NEW k, ReadOn(job, k, part)
  PROVE  IsRead(k)
<1>1. /\ k.request = job.request /\ k.answer = job.answer /\ k.spans = job.spans
      /\ k.findings = job.findings /\ k.part = part /\ k.lt_results = <<>>
  BY DEF ReadOn, Stays, JobFields
<1>2. IsConfig(job.request.config)  BY DEF IsGood, IsAmongTexts, IsRequest
<1>3. AreFound(k.found, k.part)
  <2>1. AreFound(witty_rules(part, LangOf[LocaleFor(job.request, part)], job.request.config), part)
    BY <1>2, WittyFound
  <2>. QED  BY <1>1, <2>1 DEF ReadOn
<1>4. IsOf(job) /\ (NoSigns(job.answer) => ReadRightly(job.findings, job.answer))
  BY RankIs DEF IsRead
<1>5. IsOf(k)  BY <1>1, <1>4, StaysRead
<1>. QED  BY <1>1, <1>3, <1>4, <1>5, NothingRead DEF IsRead

LEMMA ReadTextReads ==
  ASSUME IsGood(job), IsRead(job), ReadText
  PROVE  IsRead(job')
<1>. DEFINE part == fetch_text(job.answer)
<1>1. job.stage = "read" /\ job' = Read(part, Done(job, Refusal))  BY DEF ReadText
<1>2. DOMAIN job = JobFields /\ IsList(job.answer)  BY DEF IsGood, IsJob
<1>3. IsList(part)  BY <1>2, FetchedText
<1>4. Done(job, Refusal).stage = "done"  BY <1>2, DoneIs
<1>. HIDE DEF part
<1>5. job' = Done(job, Refusal) \/ ReadFailed(job, job', part) \/ ReadOn(job, job', part)
  BY <1>1, <1>2, ReadGives
<1>6. ReadOn(job, job', part) => IsRead(job')  BY <1>1, <1>3, ReadOnReads
<1>7. ReadFailed(job, job', part) => job'.stage = "failed"  BY DEF ReadFailed
<1>. QED  BY <1>4, <1>5, <1>6, <1>7, RankIs DEF IsRead

LEMMA ReadAnswerReads ==
  ASSUME IsGood(job), IsRead(job), ReadAnswer
  PROVE  IsRead(job')
<1>. DEFINE part == Part(Looked(job.answer), job.start)
            start == Behind(job.start, part)
<1>1. /\ job.stage = "read"
      /\ \/ job' = [job EXCEPT !.stage = "verdict"]
         \/ job' = [job EXCEPT !.start = start]
         \/ job.start < Len(Looked(job.answer))
              /\ (ReadFailed(job, job', part) \/ ReadOn(job, job', part))
  BY ReadAnswerGives
<1>2. job.start < Len(Looked(job.answer)) => IsList(part)  BY NextPart
<1>3. DOMAIN job = JobFields  BY DEF IsGood, IsJob
<1>. HIDE DEF part, start
<1>4. CASE job' = [job EXCEPT !.stage = "verdict"] \/ job' = [job EXCEPT !.start = start]
  <2>1. /\ job'.request = job.request /\ job'.answer = job.answer /\ job'.spans = job.spans
        /\ job'.findings = job.findings /\ job'.stage \in {"verdict", "read"}
    BY <1>1, <1>3, <1>4 DEF JobFields
  <2>2. IsOf(job) /\ (NoSigns(job.answer) => ReadRightly(job.findings, job.answer))
    BY <1>1, RankIs DEF IsRead
  <2>3. IsOf(job')  BY <2>1, <2>2, StaysRead
  <2>. QED  BY <2>1, <2>2, <2>3 DEF IsRead
<1>5. CASE ReadFailed(job, job', part)
  <2>1. job'.stage = "failed"  BY <1>5 DEF ReadFailed
  <2>. QED  BY <2>1, RankIs DEF IsRead
<1>6. CASE job.start < Len(Looked(job.answer)) /\ ReadOn(job, job', part)
  BY <1>1, <1>2, <1>6, ReadOnReads
<1>. QED  BY <1>1, <1>4, <1>5, <1>6

LEMMA AskReads ==
  ASSUME IsGood(job), IsRead(job), AskLanguageTool
  PROVE  IsRead(job')
<1>1. job.stage = "languagetool" /\ IsList(job.part) /\ DOMAIN job = JobFields
  BY AskGives DEF IsGood, IsJob
<1>2. CASE job'.stage = "failed"  BY <1>2, RankIs DEF IsRead
<1>3. ASSUME Stays(job, job', {"stage", "lt_results"}), job'.stage = "sort",
             NEW matches \in {<<>>, ReportedMatches(job.part, job.locale, Lang,
                                                    job.request.config)},
             job'.lt_results = languagetool_matches(matches, job.part, Lang, job.request.config)
      PROVE  IsRead(job')
  <2>1. /\ job'.request = job.request /\ job'.answer = job.answer /\ job'.spans = job.spans
        /\ job'.findings = job.findings /\ job'.found = job.found /\ job'.part = job.part
    BY <1>3 DEF Stays, JobFields
  <2>2. /\ IsOf(job) /\ AreFound(job.found, job.part)
        /\ NoSigns(job.answer) => ReadRightly(job.findings, job.answer)
    BY <1>1, RankIs DEF IsRead
  <2>3. IsOf(job')  BY <2>1, <2>2, StaysRead
  <2>4. ASSUME NoSigns(job.answer) PROVE ReadRightly(job'.lt_results, job.part)
    <3>1. StandsAt(job.part, job.answer, job.start)  BY <1>1, PartStands
    <3>2. NoSigns(job.part)  BY <2>4, <3>1, PartSigns
    <3>3. \A k \in DOMAIN matches : IsMatch(matches[k], job.part)
      BY <1>1, <1>3, EmptyList, ReportedAreMatches
    <3>4. ReadRightly(languagetool_matches(matches, job.part, Lang, job.request.config), job.part)
      BY <1>1, <3>2, <3>3, LanguageToolRead
    <3>. QED  BY <1>3, <3>4
  <2>. QED  BY <2>1, <2>2, <2>3, <2>4 DEF IsRead
<1>. QED  BY <1>2, <1>3, AskGives

\* What is left of a part's findings reads as its text.
LEMMA SortedReads ==
  ASSUME IsGood(job), IsRead(job), job.stage = "sort", NoSigns(job.answer), NEW genuine
  PROVE  /\ StandsAt(job.part, job.answer, job.start) /\ NoSigns(job.part)
         /\ AreFindings(SortedOut(job.lt_results, job.found, Sentences(job.part), genuine,
                                  job.part, LangOf[job.locale], job.request.config))
         /\ ReadRightly(SortedOut(job.lt_results, job.found, Sentences(job.part), genuine,
                                  job.part, LangOf[job.locale], job.request.config), job.part)
<1>1. AreFindings(job.found) /\ AreFindings(job.lt_results) /\ IsList(job.part)
  BY DEF IsGood, IsJob
<1>2. AreFound(job.found, job.part) /\ ReadRightly(job.lt_results, job.part)
  BY RankIs DEF IsRead
<1>3. StandsAt(job.part, job.answer, job.start)  BY PartStands
<1>4. NoSigns(job.part)  BY <1>3, PartSigns
<1>5. ReadRightly(job.found, job.part)
  BY <1>1, <1>2, <1>4, FoundRead DEF AreFound, ReadRightly
<1>. QED  BY <1>1, <1>2, <1>3, <1>4, <1>5, SortedOutFindings, SortedRead

LEMMA SortReads ==
  ASSUME IsGood(job), IsRead(job), Sort
  PROVE  IsRead(job')
<1>1. job.stage = "sort"  BY SortGives
<1>2. CASE job'.stage = "failed"  BY <1>2, RankIs DEF IsRead
<1>3. ASSUME NEW genuine, SortsTo(job, job', genuine)
      PROVE  IsRead(job')
  <2>. DEFINE results == SortedOut(job.lt_results, job.found, Sentences(job.part), genuine,
                                   job.part, LangOf[job.locale], job.request.config)
              shifted == Shifted(results, Shift(job.answer, job.start))
  <2>1. CASE job.request.route \in {"check", "lt"}
    <3>1. job'.stage = "done"  BY <1>3, <2>1 DEF SortsTo
    <3>. QED  BY <3>1, RankIs DEF IsRead
  <2>2. CASE ~(job.request.route \in {"check", "lt"})
    <3>1. /\ Stays(job, job', {"stage", "found", "genuine", "start", "findings"})
          /\ job'.stage = "read" /\ job'.findings = job.findings \o shifted
      BY <1>3, <2>2 DEF SortsTo
    <3>2. job'.request = job.request /\ job'.answer = job.answer /\ job'.spans = job.spans
      BY <3>1 DEF Stays, JobFields
    <3>3. /\ IsOf(job) /\ AreFindings(job.findings)
          /\ NoSigns(job.answer) => ReadRightly(job.findings, job.answer)
      BY <1>1, RankIs DEF IsRead, IsGood, IsJob
    <3>4. IsOf(job')  BY <3>2, <3>3, StaysRead
    <3>5. ASSUME NoSigns(job.answer) PROVE ReadRightly(job'.findings, job.answer)
      <4>1. /\ StandsAt(job.part, job.answer, job.start)
            /\ AreFindings(results) /\ ReadRightly(results, job.part)
        BY <1>1, <3>5, SortedReads
      <4>2. IsList(job.answer) /\ job.start \in Nat  BY <1>1 DEF IsGood, IsJob
      <4>3. Shift(job.answer, job.start) \in Nat  BY <4>2, ShiftIs
      <4>. HIDE DEF results
      <4>4. ReadRightly(shifted, job.answer)  BY <3>5, <4>1, ShiftedRead
      <4>5. AreFindings(shifted)  BY <4>1, <4>3, ShiftedFindings
      <4>. HIDE DEF shifted
      <4>. QED  BY <3>1, <3>3, <3>5, <4>4, <4>5, JoinedRead
    <3>. QED  BY <3>1, <3>2, <3>4, <3>5 DEF IsRead
  <2>. QED  BY <2>1, <2>2
<1>. QED  BY <1>2, <1>3, SortGives

LEMMA JudgeReads ==
  ASSUME IsGood(job), JudgeText
  PROVE  IsRead(job')
<1>1. DOMAIN job = JobFields /\ job.stage = "verdict" /\ job.request.route = "litellm"
  BY JudgeGives DEF IsGood, IsJob
<1>2. ASSUME NEW j, j.request = job.request, NEW index, NEW text, NEW whole,
             ReviewGoesOn(j, job', index, text, whole)
      PROVE  IsRead(job')
  <2>1. job'.request = job.request /\ job'.findings = <<>> /\ job'.stage \in {"read", "verdict"}
    BY <1>2 DEF ReviewGoesOn, Stays, JobFields
  <2>. QED  BY <1>1, <2>1, NothingRead DEF IsRead, IsOf
<1>3. ASSUME NEW answer, NEW issue, AnswerGoesOn(answer, issue, job') PROVE IsRead(job')
  <2>. DEFINE judged == JudgedWith(answer, issue)
  <2>1. DOMAIN judged = JobFields /\ judged.request = job.request
    BY <1>1 DEF JudgedWith, JobFields
  <2>. HIDE DEF judged
  <2>2. Done(judged, LitellmOut(judged)).stage = "done"  BY <2>1, DoneIs
  <2>3. CASE job' = Done(judged, LitellmOut(judged))
    BY <2>2, <2>3, RankIs DEF IsRead
  <2>4. CASE job' # Done(judged, LitellmOut(judged))
    <3>1. \E index, text, whole : ReviewGoesOn(judged, job', index, text, whole)
      BY <1>3, <2>4 DEF AnswerGoesOn, judged
    <3>. QED  BY <1>2, <2>1, <3>1
  <2>. QED  BY <2>3, <2>4
<1>4. ASSUME NEW index, NEW text, NEW whole, ReviewGoesOn(job, job', index, text, whole)
      PROVE  IsRead(job')
  BY <1>2, <1>4
<1>. QED  BY <1>3, <1>4, JudgeGives

JobIsRead == IsRead(job)

LEMMA JobStaysRead == JobIsGood /\ JobIsRead /\ [Next]_job => JobIsRead'
<1>. SUFFICES ASSUME IsGood(job), IsRead(job), [Next]_job PROVE IsRead(job')
  BY DEF JobIsGood, JobIsRead
<1>1. ASSUME NEW r, IsRequest(r), Stays(Opened(r), job', {"resends"}) PROVE IsRead(job')
  <2>1. /\ job'.stage = Opened(r).stage /\ job'.request = Opened(r).request
        /\ job'.answer = Opened(r).answer /\ job'.spans = Opened(r).spans
        /\ job'.findings = Opened(r).findings
    BY <1>1 DEF Stays, JobFields
  <2>2. SUFFICES ASSUME Opened(r).stage \in DOMAIN Rank PROVE IsRead(job')
    BY <2>1 DEF IsRead
  <2>3. /\ IsOf(Opened(r)) /\ Opened(r).findings = <<>> /\ Opened(r).stage \in {"read", "verdict"}
    BY <1>1, <2>2, OpenedReads
  <2>4. IsOf(job')  BY <2>1, <2>3, StaysRead
  <2>. QED  BY <2>1, <2>3, <2>4, NothingRead DEF IsRead
<1>2. CASE Receive
  <2>1. PICK r \in Requests : job' = Opened(r)  BY <1>2 DEF Receive
  <2>2. IsRequest(r)  BY TextChecksAssumption
  <2>3. DOMAIN job' = JobFields  BY <2>1, <2>2, OpenedIsGood DEF IsGood, IsJob
  <2>. QED  BY <1>1, <2>1, <2>2, <2>3 DEF Stays
<1>3. CASE SendAgain \/ NextTurn
  <2>1. PICK r, resends : IsRequest(r) /\ job' = [Opened(r) EXCEPT !.resends = resends]
    BY <1>3, OpensAgain
  <2>2. DOMAIN Opened(r) = JobFields  BY <2>1, OpenedIsGood DEF IsGood, IsJob
  <2>3. Stays(Opened(r), job', {"resends"})  BY <2>1, <2>2 DEF Stays, JobFields
  <2>. QED  BY <1>1, <2>1, <2>3
<1>4. CASE Verdict
  <2>1. job'.stage = "done"  BY <1>4, DoneIs DEF Verdict, IsGood, IsJob
  <2>. QED  BY <2>1, RankIs DEF IsRead
<1>5. CASE ReadText \/ ReadAnswer \/ AskLanguageTool \/ Sort \/ JudgeText
  BY <1>5, ReadTextReads, ReadAnswerReads, AskReads, SortReads, JudgeReads
<1>6. CASE SwitchFormat \/ SwitchIntoInklusivum
  <2>1. job.stage = "done" /\ Stays(job, job', {"form", "format"})
    BY <1>6, SwitchGives DEF IsGood, IsJob
  <2>2. job'.stage = "done"  BY <2>1 DEF Stays, JobFields
  <2>. QED  BY <2>2, RankIs DEF IsRead
<1>7. CASE Leave
  <2>1. job'.stage = "idle"  BY <1>7 DEF Leave, Idle
  <2>. QED  BY <2>1, RankIs DEF IsRead
<1>8. CASE UNCHANGED job  BY <1>8
<1>. QED  BY <1>2, <1>3, <1>4, <1>5, <1>6, <1>7, <1>8 DEF Next, Serve

\* Whatever is found of a text without an emoji of the BMP reads, where it says, as what it
\* says, at every step of the request: in its part, and in the text once it has moved on.
THEOREM FindingsReadRightly == Spec => []JobIsRead
<1>1. Init => JobIsRead
  <2>1. Idle.stage = "idle"  BY DEF Idle
  <2>. QED  BY <2>1, RankIs DEF Init, JobIsRead, IsRead
<1>. QED  BY <1>1, JobStaysRead, JobsAreGood, PTL DEF Spec

-----------------------------------------------------------------------------
\* What is answered reads as the client's own text.

\* A request is answered with nothing that is found, by what is left of a part's findings, or
\* with a verdict on all of them.
LEMMA AnsweredBy ==
  ASSUME IsGood(job), Next, job'.stage = "done", job'.request.route # "form"
  PROVE  \/ SaysNothing(job'.response)
         \/ job'.response.kind \notin {"results", "verdict", "matches"}
         \/ job.stage = "sort" /\ job.request.route \in {"check", "lt"}
              /\ \E genuine : SortsTo(job, job', genuine)
         \/ Verdict
<1>1. Answering /\ DOMAIN job = JobFields  BY AnsweringIs DEF IsGood, IsJob
<1>2. ASSUME NEW r, IsRequest(r), Opened(r).stage = "done", Stays(Opened(r), job', {"resends"})
      PROVE  SaysNothing(job'.response) \/ job'.response.kind \notin {"results", "verdict", "matches"}
  <2>1. job'.request = Opened(r).request /\ job'.response = Opened(r).response
    BY <1>2 DEF Stays, JobFields
  <2>2. \/ r.route = "form" /\ Opened(r).request = r
        \/ SaysNothing(Opened(r).response)
        \/ \E messages : Opened(r).response = Chat(messages)
    BY <1>2, OpenedDone
  <2>3. \A messages : Chat(messages).kind = "messages"  BY DEF Chat
  <2>. QED  BY <2>1, <2>2, <2>3
<1>3. CASE job.stage = "done" /\ job.request.route = "form" /\ Stays(job, job', {"form", "format"})
  <2>1. job'.request = job.request  BY <1>3 DEF Stays, JobFields
  <2>. QED  BY <1>3, <2>1
<1>4. CASE job' = Done(job, Refusal)
  <2>1. job'.response = Refusal  BY <1>1, <1>4, DoneIs
  <2>. QED  BY <2>1 DEF SaysNothing
<1>5. ASSUME NEW answer, NEW issue,
             job' = Done(JudgedWith(answer, issue), LitellmOut(JudgedWith(answer, issue)))
      PROVE  job'.response.kind \notin {"results", "verdict", "matches"}
  <2>1. DOMAIN JudgedWith(answer, issue) = JobFields  BY <1>1 DEF JudgedWith
  <2>2. job'.response = LitellmOut(JudgedWith(answer, issue))  BY <1>5, <2>1, DoneIs
  <2>. QED  BY <2>2 DEF LitellmOut
<1>. QED  BY <1>1, <1>2, <1>3, <1>4, <1>5 DEF Answering

\* Where nothing is looked for there are no signs, and where something is found there is text.
LEMMA RangeSigns ==
  ASSUME NEW text, IsList(text), Range(text) \intersect Signs = {}
  PROVE  NoSigns(text)
BY ListLen DEF NoSigns, Range

LEMMA EmptySigns == NoSigns(<<>>)
BY EmptyList DEF NoSigns

\* A part at the beginning reads as the text does.
LEMMA FirstUnits ==
  ASSUME NEW part, NEW text, StandsAt(part, text, 0)
  PROVE  /\ \A i \in 0 .. Len(part) : UnitsBefore(text, i) = UnitsBefore(part, i)
         /\ UnitsBefore(text, 0) = 0
<1>1. UnitsBefore(text, 0) = 0
  <2>1. CountUpTo(text, 0, Wide) = 0  BY NoneCounts
  <2>. QED  BY <2>1 DEF UnitsBefore
<1>2. Len(part) \in Nat  BY ListLen DEF StandsAt
<1>3. \A i \in 0 .. Len(part) : UnitsBefore(text, 0 + i) = UnitsBefore(text, 0) + UnitsBefore(part, i)
  BY UnitsAhead
<1>4. \A i \in 0 .. Len(part) : 0 + i = i /\ UnitsBefore(part, i) \in Nat  BY <1>2, UnitsIn
<1>5. ASSUME NEW i \in 0 .. Len(part) PROVE UnitsBefore(text, i) = UnitsBefore(part, i)
  <2>1. UnitsBefore(text, 0 + i) = 0 + UnitsBefore(part, i)  BY <1>1, <1>3
  <2>. QED  BY <1>4, <2>1
<1>. QED  BY <1>1, <1>5

LEMMA FirstRead ==
  ASSUME NEW part, NEW text, StandsAt(part, text, 0), NEW findings, AreFindings(findings),
         ReadRightly(findings, part)
  PROVE  ReadRightly(findings, text)
<1>1. UnitsBefore(text, 0) = 0  BY FirstUnits
<1>2. ASSUME NEW i \in DOMAIN findings PROVE Reads(findings[i], text)
  <2>. DEFINE f == findings[i]
  <2>1. IsFinding(f) /\ Len(part) # 0 /\ ReadsAs(part, f.start, f.end, f.text)
    BY DEF AreFindings, ReadRightly, Reads
  <2>2. f.start \in Nat /\ f.end \in Nat  BY <2>1 DEF IsFinding
  <2>. HIDE DEF f
  <2>3. ReadsAs(text, f.start + UnitsBefore(text, 0), f.end + UnitsBefore(text, 0), f.text)
    BY <2>1, ReadsAhead
  <2>4. ReadsAs(text, f.start, f.end, f.text)
    <3>1. f.start + 0 = f.start /\ f.end + 0 = f.end  BY <2>2
    <3>. QED  BY <1>1, <2>3, <3>1
  <2>5. Len(text) # 0  BY <2>1, ListLen DEF StandsAt
  <2>. QED  BY <2>4, <2>5 DEF Reads, f
<1>. QED  BY <1>2 DEF ReadRightly

LEMMA FirstMatches ==
  ASSUME NEW part, NEW text, StandsAt(part, text, 0), NEW spans, NEW match, NEW i, NEW e,
         IsMatchOf(match, part, spans, i, e)
  PROVE  IsMatchOf(match, text, spans, i, e)
<1>1. /\ Len(part) \in 0 .. Len(text) - 0 /\ Len(text) \in Nat /\ Len(part) \in Nat
      /\ i \in 0 .. Len(part) /\ e \in 0 .. Len(part) /\ i <= e
  BY ListLen DEF StandsAt, IsMatchOf
<1>2. i \in 0 .. Len(text) /\ e \in 0 .. Len(text) /\ 0 + i = i /\ 0 + e = e /\ e \in i .. Len(part)
  BY <1>1
<1>3. UnitsBefore(text, i) = UnitsBefore(part, i) /\ UnitsBefore(text, e) = UnitsBefore(part, e)
  BY <1>1, FirstUnits
<1>4. Slice(text, i, e) = Slice(part, i, e)
  <2>1. Slice(text, 0 + i, 0 + e) = Slice(part, i, e)  BY <1>1, <1>2, SliceAhead
  <2>. QED  BY <1>2, <2>1
<1>. QED  BY <1>2, <1>3, <1>4 DEF IsMatchOf

\* What a check reports, and what a verdict is of, is found in the text of the request.
LEMMA ReportedRead ==
  ASSUME IsGood(job), IsRead(job),
         \/ job.stage = "sort" /\ job.request.route = "check"
              /\ \E genuine : SortsTo(job, job', genuine)
         \/ Verdict,
         Reported' # <<>>, Range(ClientText') \intersect Signs = {}
  PROVE  /\ ClientText' = job'.request.text
         /\ ReadRightly(Reported', job'.request.text)
<1>. DEFINE text == job.request.text
<1>1. /\ IsList(text) /\ IsList(job.answer) /\ job.stage \in DOMAIN Rank /\ IsOf(job)
      /\ DOMAIN job = JobFields
  BY RankIs DEF IsGood, IsJob, IsAmongTexts, IsRequest, IsRead, Verdict
<1>2. /\ job.answer = text /\ job'.request = job.request
      /\ IsList(Reported')
      /\ NoSigns(text) => ReadRightly(Reported', text)
  <2>1. CASE Verdict
    <3>1. /\ job' = Done(job, job'.response) /\ job'.response.kind = "verdict"
          /\ job'.response.findings = job.findings /\ job.request.route = "guardrail"
      <4>. DEFINE said == [kind |-> "verdict", failed_on |-> Failed, findings |-> job.findings,
                           limit_reached |-> Len(job.answer) > GUARDRAIL_MAX_LENGTH,
                           reask |-> IF Failed = {} THEN Nothing ELSE ReviewPrompt(job.findings)]
      <4>1. job' = Done(job, said) /\ job.request.route = "guardrail"  BY <2>1 DEF Verdict
      <4>2. said.kind = "verdict" /\ said.findings = job.findings  OBVIOUS
      <4>. HIDE DEF said
      <4>3. job'.response = said  BY <1>1, <4>1, DoneIs
      <4>. QED  BY <4>1, <4>2, <4>3
    <3>2. job'.request = job.request /\ job'.stage = "done"
      BY <1>1, <3>1, DoneIs DEF Stays, JobFields
    <3>3. Reported' = job.findings  BY <3>1, <3>2 DEF Reported, Ended
    <3>4. job.answer = text  BY <1>1, <3>1 DEF IsOf
    <3>. QED  BY <1>1, <3>2, <3>3, <3>4 DEF IsRead, IsGood, IsJob, AreFindings
  <2>2. ASSUME job.stage = "sort", job.request.route = "check",
               NEW genuine, SortsTo(job, job', genuine)
        PROVE  /\ job.answer = text /\ job'.request = job.request
               /\ IsList(Reported')
               /\ NoSigns(text) => ReadRightly(Reported', text)
    <3>. DEFINE results == SortedOut(job.lt_results, job.found, Sentences(job.part), genuine,
                                     job.part, LangOf[job.locale], job.request.config)
    <3>1. /\ job'.request = job.request /\ job'.stage = "done"
          /\ job'.response = Results(results)
      BY <2>2 DEF SortsTo, Stays, JobFields
    <3>2. AreFindings(results)
      BY SortedOutFindings DEF IsGood, IsJob
    <3>3. job.start = 0 /\ job.answer = text
      BY <1>1, <2>2 DEF IsGood, IsInText, IsGuardrail, IsOf
    <3>4. NoSigns(text) => ReadRightly(results, text)
      <4>1. SUFFICES ASSUME NoSigns(text) PROVE ReadRightly(results, text)  OBVIOUS
      <4>2. StandsAt(job.part, job.answer, job.start) /\ ReadRightly(results, job.part)
        BY <2>2, <3>3, <4>1, SortedReads
      <4>. HIDE DEF results
      <4>. QED  BY <3>2, <3>3, <4>2, FirstRead
    <3>. HIDE DEF results
    <3>5. Reported' = results  BY <2>2, <3>1 DEF Reported, Ended, Results
    <3>. QED  BY <3>1, <3>2, <3>3, <3>4, <3>5 DEF AreFindings
  <2>. QED  BY <2>1, <2>2
<1>3. text # <<>>
  <2>1. SUFFICES ASSUME text = <<>> PROVE FALSE  OBVIOUS
  <2>2. ReadRightly(Reported', text) /\ Len(text) = 0  BY <1>2, <2>1, EmptySigns, EmptyList
  <2>3. 1 \in DOMAIN Reported'  BY <1>2, LenZero, ListLen
  <2>. QED  BY <2>2, <2>3 DEF ReadRightly, Reads
<1>4. ClientText' = text  BY <1>2, <1>3 DEF ClientText
<1>5. NoSigns(text)  BY <1>1, <1>4, RangeSigns
<1>. QED  BY <1>2, <1>4, <1>5

\* What LanguageTool's client gets is found in the text that is checked.
LEMMA MatchedRead ==
  ASSUME IsGood(job), IsRead(job), job.stage = "sort", job.request.route = "lt",
         NEW genuine, SortsTo(job, job', genuine), NoSigns(job.answer)
  PROVE  \A k \in DOMAIN job'.response.matches : \E i, e :
           IsMatchOf(job'.response.matches[k], job.answer, job.spans, i, e)
<1>. DEFINE results == SortedOut(job.lt_results, job.found, Sentences(job.part), genuine,
                                 job.part, LangOf[job.locale], job.request.config)
            matches == LtMatches(results, job.part, job.spans)
<1>1. job'.response.matches = matches  BY DEF SortsTo, Matched
<1>2. /\ StandsAt(job.part, job.answer, job.start) /\ NoSigns(job.part)
      /\ AreFindings(results) /\ ReadRightly(results, job.part)
  BY SortedReads
<1>3. IsList(job.part) /\ job.start = 0  BY DEF IsGood, IsJob, IsInText, IsGuardrail
<1>. HIDE DEF results
<1>4. MatchesReadRightly(matches, job.part, job.spans)  BY <1>2, <1>3, LtMatchesRead
<1>. HIDE DEF matches
<1>5. \A k \in DOMAIN matches : \E i, e : IsMatchOf(matches[k], job.part, job.spans, i, e)
  BY <1>4 DEF MatchesReadRightly
<1>6. \A match, i, e : IsMatchOf(match, job.part, job.spans, i, e) =>
                         IsMatchOf(match, job.answer, job.spans, i, e)
  BY <1>2, <1>3, FirstMatches
<1>. QED  BY <1>1, <1>5, <1>6

\* What the matches are of, in the client's own text.
LEMMA ClientsMatch ==
  ASSUME NEW r, IsRequest(r), r.route = "lt", NEW answer, NEW spans,
         IF r.text = <<>>
         THEN answer = TextOf(r.annotations) /\ spans = markup_spans(r.annotations)
         ELSE answer = r.text /\ spans = {},
         NEW client, client = IF r.text = <<>> THEN Data(r.annotations) ELSE r.text,
         Range(MarkupOf(r.annotations)) \intersect Wide = {},
         NEW match, NEW i, NEW e, IsMatchOf(match, answer, spans, i, e)
  PROVE  ReadsAs(client, match.offset, match.offset + match.length, match.found)
<1>. DEFINE annotations == r.annotations
<1>1. IsDocument(annotations) /\ IsList(r.text)  BY DEF IsRequest, IsDocument
<1>2. /\ i \in 0 .. Len(answer) /\ e \in 0 .. Len(answer) /\ i <= e /\ ~InMarkup(spans, i, e)
      /\ match.offset = UnitsBefore(answer, i)
      /\ match.offset + match.length = UnitsBefore(answer, e)
      /\ match.found = Slice(answer, i, e)
  BY DEF IsMatchOf
<1>3. CASE r.text = <<>>
  <2>1. /\ answer = TextOf(annotations) /\ spans = markup_spans(annotations)
        /\ client = Data(annotations)
    BY <1>3
  <2>2. IsList(answer) /\ Len(answer) \in Nat  BY <1>1, <2>1, DocumentIs, ListLen
  <2>3. i \in Nat /\ e \in Nat /\ e <= Len(answer)  BY <1>2, <2>2
  <2>. HIDE DEF annotations
  <2>4. Range(MarkupOf(annotations)) \intersect Wide = {}  BY DEF annotations
  <2>5. ReadsAs(Data(annotations), UnitsBefore(TextOf(annotations), i),
                UnitsBefore(TextOf(annotations), e), Slice(TextOf(annotations), i, e))
    BY <1>1, <1>2, <2>1, <2>3, <2>4, DocumentReads
  <2>. QED  BY <1>2, <2>1, <2>5
<1>4. CASE r.text # <<>>
  <2>1. answer = r.text /\ client = r.text  BY <1>4
  <2>. QED  BY <1>2, <2>1 DEF ReadsAs
<1>. QED  BY <1>3, <1>4

\* A text that is checked for LanguageTool's client has no sign the client's own has not.
LEMMA ClientsSigns ==
  ASSUME NEW r, IsRequest(r), NEW answer,
         IF r.text = <<>> THEN answer = TextOf(r.annotations) ELSE answer = r.text,
         Range(IF r.text = <<>> THEN Data(r.annotations) ELSE r.text) \intersect Signs = {},
         Range(MarkupOf(r.annotations)) \intersect Signs = {}
  PROVE  NoSigns(answer)
<1>. DEFINE annotations == r.annotations
<1>1. IsDocument(annotations) /\ IsList(r.text)  BY DEF IsRequest, IsDocument
<1>2. CASE r.text = <<>>
  <2>1. answer = TextOf(annotations) /\ Range(Data(annotations)) \intersect Signs = {}
        /\ Range(MarkupOf(annotations)) \intersect Signs = {}
    BY <1>2
  <2>. HIDE DEF annotations
  <2>2. NoSigns(Data(annotations))  BY <1>1, <2>1, DocumentIs, RangeSigns
  <2>. QED  BY <1>1, <2>1, <2>2, DocumentSigns
<1>3. CASE r.text # <<>>  BY <1>1, <1>3, RangeSigns
<1>. QED  BY <1>2, <1>3

LEMMA AnswerPointsAtText ==
  ASSUME IsGood(job), IsRead(job), Next, job'.stage = "done", job'.request.route # "form"
  PROVE  OffsetsPointAtText'
<1>1. CASE SaysNothing(job'.response) \/ job'.response.kind \notin {"results", "verdict", "matches"}
  <2>1. Reported' = <<>>
    BY <1>1 DEF Reported, SaysNothing, Refusal, Results, Matched
  <2>2. Ended' /\ job'.response.kind = "matches" => DOMAIN job'.response.matches = {}
    BY <1>1, EmptyList DEF SaysNothing, Refusal, Results, Matched
  <2>. QED  BY <2>1, <2>2 DEF OffsetsPointAtText
<1>2. CASE \/ job.stage = "sort" /\ job.request.route = "check"
                /\ \E genuine : SortsTo(job, job', genuine)
           \/ Verdict
  <2>1. job'.response.kind # "matches"
    <3>1. CASE Verdict
      <4>. DEFINE said == [kind |-> "verdict", failed_on |-> Failed, findings |-> job.findings,
                           limit_reached |-> Len(job.answer) > GUARDRAIL_MAX_LENGTH,
                           reask |-> IF Failed = {} THEN Nothing ELSE ReviewPrompt(job.findings)]
      <4>1. job' = Done(job, said) /\ DOMAIN job = JobFields
        BY <3>1 DEF Verdict, IsGood, IsJob
      <4>2. said.kind = "verdict"  OBVIOUS
      <4>. HIDE DEF said
      <4>. QED  BY <4>1, <4>2, DoneIs
    <3>2. ASSUME job.request.route = "check", NEW genuine, SortsTo(job, job', genuine)
          PROVE  job'.response.kind # "matches"
      BY <3>2 DEF SortsTo, Results
    <3>. QED  BY <1>2, <3>1, <3>2
  <2>2. Reported' # <<>> /\ Range(ClientText') \intersect Signs = {} =>
          \A i \in DOMAIN Reported' :
            ReadsAs(ClientText', Reported'[i].start, Reported'[i].end, Reported'[i].text)
    <3>1. SUFFICES ASSUME Reported' # <<>>, Range(ClientText') \intersect Signs = {}
                   PROVE  \A i \in DOMAIN Reported' :
                     ReadsAs(ClientText', Reported'[i].start, Reported'[i].end, Reported'[i].text)
      OBVIOUS
    <3>2. ClientText' = job'.request.text /\ ReadRightly(Reported', job'.request.text)
      BY <1>2, <3>1, ReportedRead
    <3>. QED  BY <3>2 DEF ReadRightly, Reads
  <2>. QED  BY <2>1, <2>2 DEF OffsetsPointAtText
<1>3. ASSUME job.stage = "sort", job.request.route = "lt", NEW genuine, SortsTo(job, job', genuine)
      PROVE  OffsetsPointAtText'
  <2>1. job'.request = job.request /\ job'.response.kind = "matches"
    BY <1>3 DEF SortsTo, Stays, JobFields, Matched
  <2>2. Reported' = <<>>  BY <2>1 DEF Reported
  <2>3. IsRequest(job.request) /\ IsOf(job)
    BY <1>3, RankIs DEF IsGood, IsAmongTexts, IsRead
  <2>4. /\ ClientText' = IF job.request.text = <<>> THEN Data(job.request.annotations)
                         ELSE job.request.text
        /\ MarkupText' = MarkupOf(job.request.annotations)
    BY <2>1 DEF ClientText, MarkupText, MarkupOf
  <2>5. ASSUME Range(ClientText') \intersect Signs = {},
               Range(MarkupText') \intersect (Wide \union Signs) = {},
               NEW k \in DOMAIN job'.response.matches
        PROVE  LET m == job'.response.matches[k] IN
               /\ ReadsAs(ClientText', m.offset, m.offset + m.length, m.found)
               /\ ReadsAs(m.context.text, m.context.offset, m.context.offset + m.length, m.found)
    <3>. DEFINE m == job'.response.matches[k]
                client == ClientText'
    <3>1. /\ Range(MarkupOf(job.request.annotations)) \intersect Wide = {}
          /\ Range(MarkupOf(job.request.annotations)) \intersect Signs = {}
      BY <2>4, <2>5
    <3>2. NoSigns(job.answer)  BY <1>3, <2>3, <2>4, <2>5, <3>1, ClientsSigns DEF IsOf
    <3>3. PICK i, e : IsMatchOf(m, job.answer, job.spans, i, e)
      BY <1>3, <3>2, MatchedRead
    <3>. HIDE DEF m, client
    <3>4. ReadsAs(client, m.offset, m.offset + m.length, m.found)
      BY <1>3, <2>3, <2>4, <3>1, <3>3, ClientsMatch DEF IsOf, client
    <3>5. ReadsAs(m.context.text, m.context.offset, m.context.offset + m.length, m.found)
      BY <3>3 DEF IsMatchOf
    <3>. QED  BY <3>4, <3>5 DEF m, client
  <2>. QED  BY <2>2, <2>5 DEF OffsetsPointAtText
<1>. QED  BY <1>1, <1>2, <1>3, AnsweredBy

\* The offsets of whatever is reported are those of the text found, in the units a client
\* slices its own text by: of a check's results, of a verdict's findings and of a match of a
\* document with markup, and in a match's context as well.
THEOREM OffsetsAreTheClients == Spec => []OffsetsPointAtText
<1>1. Init => OffsetsPointAtText
  <2>1. ASSUME Init PROVE ~Ended /\ Reported = <<>>
    BY <2>1 DEF Init, Idle, Ended, Reported
  <2>. QED  BY <2>1 DEF OffsetsPointAtText
<1>2. ASSUME JobIsGood, JobIsRead, OffsetsPointAtText, [Next]_job PROVE OffsetsPointAtText'
  <2>1. CASE UNCHANGED job
    BY <1>2, <2>1 DEF OffsetsPointAtText, Reported, Ended, ClientText, MarkupText
  <2>2. CASE ~UNCHANGED job /\ ~(job'.stage = "done" /\ job'.request.route # "form")
    <3>1. ~Ended' /\ Reported' = <<>>  BY <2>2 DEF Ended, Reported
    <3>. QED  BY <3>1 DEF OffsetsPointAtText
  <2>3. CASE ~UNCHANGED job /\ job'.stage = "done" /\ job'.request.route # "form"
    BY <1>2, <2>3, AnswerPointsAtText DEF JobIsGood, JobIsRead
  <2>. QED  BY <2>1, <2>2, <2>3
<1>. QED  BY <1>1, <1>2, JobsAreGood, FindingsReadRightly, PTL DEF Spec

\* Behind characters of one unit each, a position is how many there are.
LEMMA PlainUnits ==
  ASSUME NEW text, IsList(text), Range(text) \intersect Wide = {}, NEW i \in 0 .. Len(text)
  PROVE  UnitsBefore(text, i) = i
<1>1. Len(text) \in Nat /\ DOMAIN text = 1 .. Len(text)  BY ListLen
<1>2. i \in Nat /\ \A m \in 1 .. i : text[m] \notin Wide  BY <1>1 DEF Range
<1>3. CountUpTo(text, i, Wide) = 0  BY <1>2, NoneCounts
<1>. QED  BY <1>2, <1>3 DEF UnitsBefore

LEMMA AnswerIsOutsideMarkup ==
  ASSUME IsGood(job), IsRead(job), Next, job'.stage = "done", job'.request.route # "form"
  PROVE  LtOutsideMarkup'
<1>. SUFFICES ASSUME job'.response.kind = "matches", Plain(ClientText'), Plain(MarkupText'),
                     job'.request.text = <<>>,
                     NEW k \in DOMAIN job'.response.matches,
                     NEW p \in job'.response.matches[k].offset + 1 ..
                               job'.response.matches[k].offset + job'.response.matches[k].length
              PROVE  ~MarksOf(job'.request.annotations)[p]
  BY DEF LtOutsideMarkup, MarksOf
<1>. DEFINE m == job'.response.matches[k]
<1>1. ~SaysNothing(job'.response)
  BY EmptyList DEF SaysNothing, Refusal, Results, Matched
<1>2. ~Verdict
  <2>1. SUFFICES ASSUME Verdict PROVE FALSE  OBVIOUS
  <2>. DEFINE said == [kind |-> "verdict", failed_on |-> Failed, findings |-> job.findings,
                       limit_reached |-> Len(job.answer) > GUARDRAIL_MAX_LENGTH,
                       reask |-> IF Failed = {} THEN Nothing ELSE ReviewPrompt(job.findings)]
  <2>2. job' = Done(job, said) /\ DOMAIN job = JobFields
    BY <2>1 DEF Verdict, IsGood, IsJob
  <2>3. said.kind = "verdict"  OBVIOUS
  <2>. HIDE DEF said
  <2>. QED  BY <2>2, <2>3, DoneIs
<1>3. PICK genuine : job.stage = "sort" /\ job.request.route \in {"check", "lt"}
                       /\ SortsTo(job, job', genuine)
  BY <1>1, <1>2, AnsweredBy
<1>4. job.request.route = "lt" /\ job'.request = job.request
  BY <1>3 DEF SortsTo, Stays, JobFields, Results
<1>. DEFINE annotations == job.request.annotations
            client == Data(annotations)
<1>5. IsRequest(job.request) /\ IsOf(job) /\ IsDocument(annotations)
  BY <1>3, RankIs DEF IsGood, IsAmongTexts, IsRead, IsRequest, IsDocument
<1>6. job.answer = TextOf(annotations) /\ job.spans = markup_spans(annotations)
  BY <1>4, <1>5 DEF IsOf
<1>7. ClientText' = client /\ MarkupText' = MarkupOf(annotations)
  BY <1>4 DEF ClientText, MarkupText, MarkupOf
<1>8. /\ Range(client) \intersect Wide = {} /\ Range(client) \intersect Signs = {}
      /\ Range(MarkupOf(annotations)) \intersect Wide = {}
      /\ Range(MarkupOf(annotations)) \intersect Signs = {}
  BY <1>7 DEF Plain
<1>9. /\ IsList(client) /\ Len(client) = Len(job.answer) /\ Len(client) \in Nat
  BY <1>5, <1>6, DocumentIs, ListLen
<1>. HIDE DEF client, annotations
<1>10. NoSigns(job.answer)
  <2>1. NoSigns(client)  BY <1>8, <1>9, RangeSigns
  <2>. QED  BY <1>5, <1>6, <1>8, <2>1, DocumentSigns DEF client
<1>11. PICK i, e : IsMatchOf(m, job.answer, job.spans, i, e)
  BY <1>3, <1>4, <1>10, MatchedRead
<1>. HIDE DEF m
<1>12. /\ i \in 0 .. Len(job.answer) /\ e \in 0 .. Len(job.answer)
       /\ ~InMarkup(job.spans, i, e)
       /\ m.offset = UnitsBefore(job.answer, i) /\ m.offset + m.length = UnitsBefore(job.answer, e)
  BY <1>11 DEF IsMatchOf
<1>13. m.offset = i /\ m.offset + m.length = e
  <2>1. UnitsBefore(client, i) = i /\ UnitsBefore(client, e) = e
    BY <1>8, <1>9, <1>12, PlainUnits
  <2>2. \A x \in 0 .. Len(TextOf(annotations)) :
          UnitsBefore(Data(annotations), x) = UnitsBefore(TextOf(annotations), x)
    BY <1>5, <1>8, DocumentUnits
  <2>. QED  BY <1>6, <1>12, <2>1, <2>2 DEF client
<1>14. p \in i + 1 .. e  BY <1>13 DEF m
<1>15. i \in Nat /\ e \in Nat /\ e <= Len(TextOf(annotations))  BY <1>6, <1>9, <1>12
<1>16. ~MarksOf(annotations)[p]  BY <1>5, <1>6, <1>12, <1>14, <1>15, OutsideMarkup
<1>. QED  BY <1>4, <1>16 DEF annotations

\* No replacement for a match is written over a document's markup: whatever the rules find
\* across the pieces of a document, what is reported of it lies between the markup.
THEOREM MatchesAreOutsideMarkup == Spec => []LtOutsideMarkup
<1>1. Init => LtOutsideMarkup
  <2>1. ASSUME Init PROVE ~Ended  BY <2>1 DEF Init, Idle, Ended
  <2>. QED  BY <2>1 DEF LtOutsideMarkup
<1>2. ASSUME JobIsGood, JobIsRead, LtOutsideMarkup, [Next]_job PROVE LtOutsideMarkup'
  <2>1. CASE UNCHANGED job
    BY <1>2, <2>1 DEF LtOutsideMarkup, Ended, ClientText, MarkupText
  <2>2. CASE ~UNCHANGED job /\ ~(job'.stage = "done" /\ job'.request.route # "form")
    <3>1. ~Ended'  BY <2>2 DEF Ended
    <3>. QED  BY <3>1 DEF LtOutsideMarkup
  <2>3. CASE ~UNCHANGED job /\ job'.stage = "done" /\ job'.request.route # "form"
    BY <1>2, <2>3, AnswerIsOutsideMarkup DEF JobIsGood, JobIsRead
  <2>. QED  BY <2>1, <2>2, <2>3
<1>. QED  BY <1>1, <1>2, JobsAreGood, FindingsReadRightly, PTL DEF Spec

-----------------------------------------------------------------------------
\* What is kept of a list, and of what was kept of it.

\* There is one order that some positions have.
LEMMA KeptBy ==
  ASSUME NEW seq, Len(seq) \in Nat, NEW keys, NEW order, KeptRightly(order, keys, Len(seq)),
         NEW kept, IsList(kept), Len(kept) = Len(order),
         \A i \in 1 .. Len(order) : kept[i] = seq[order[i]]
  PROVE  kept = KeptAt(seq, keys)
<1>. DEFINE other == InOrder(keys, Len(seq))
            s == KeptAt(seq, keys)
<1>1. /\ KeptRightly(other, keys, Len(seq)) /\ IsList(s) /\ Len(s) = Len(other)
      /\ \A i \in 1 .. Len(other) : s[i] = seq[other[i]]
  BY KeptAtKeeps
<1>. HIDE DEF other, s
<1>2. /\ Len(order) <= Len(other) /\ Len(other) <= Len(order)
      /\ \A i \in 1 .. Len(order) : order[i] = other[i]
  BY <1>1, OrdersAgree
<1>3. Len(order) \in Nat /\ Len(other) \in Nat  BY <1>1, ListLen DEF KeptRightly
<1>4. Len(order) = Len(other)  BY <1>2, <1>3
<1>5. Len(kept) = Len(s) /\ \A i \in 1 .. Len(kept) : kept[i] = s[i]
  BY <1>1, <1>2, <1>4
<1>6. kept = s  BY <1>1, <1>5, SameList
<1>. QED  BY <1>6 DEF s

\* c is a with b behind it.
JoinedAs(c, a, b) ==
  /\ IsList(c) /\ Len(c) = Len(a) + Len(b)
  /\ \A i \in 1 .. Len(a) : c[i] = a[i]
  /\ \A i \in 1 .. Len(b) : c[Len(a) + i] = b[i]

LEMMA JoinedIs ==
  ASSUME NEW a, IsList(a), NEW b, IsList(b)
  PROVE  JoinedAs(a \o b, a, b)
BY Joined DEF JoinedAs

LEMMA OrdersJoin ==
  ASSUME NEW a, IsList(a), NEW b, IsList(b), NEW K, NEW L, NEW keys,
         \A i \in 1 .. Len(a) : i \in keys <=> i \in K,
         \A i \in 1 .. Len(b) : Len(a) + i \in keys <=> i \in L,
         NEW oa, KeptRightly(oa, K, Len(a)), NEW ob, KeptRightly(ob, L, Len(b)),
         NEW ka, IsList(ka), Len(ka) = Len(oa), \A i \in 1 .. Len(oa) : ka[i] = a[oa[i]],
         NEW kb, IsList(kb), Len(kb) = Len(ob), \A i \in 1 .. Len(ob) : kb[i] = b[ob[i]],
         NEW kept, JoinedAs(kept, ka, kb), NEW c, JoinedAs(c, a, b)
  PROVE  kept = KeptAt(c, keys)
<1>. DEFINE n == Len(a)
            m == Len(b)
            p == Len(oa)
            q == Len(ob)
            order == [i \in 1 .. p + q |-> IF i <= p THEN oa[i] ELSE n + ob[i - p]]
<1>1. n \in Nat /\ m \in Nat  BY ListLen
<1>2. /\ IsList(c) /\ Len(c) = n + m
      /\ \A i \in 1 .. n : c[i] = a[i]
      /\ \A i \in 1 .. m : c[n + i] = b[i]
  BY DEF JoinedAs
<1>3. KeptRightly(oa, K, n) /\ Len(ka) = p /\ \A i \in 1 .. p : ka[i] = a[oa[i]]
  OBVIOUS
<1>4. KeptRightly(ob, L, m) /\ Len(kb) = q /\ \A i \in 1 .. q : kb[i] = b[ob[i]]
  OBVIOUS
<1>5. /\ IsList(kept) /\ Len(kept) = Len(ka) + Len(kb)
      /\ \A i \in 1 .. Len(ka) : kept[i] = ka[i]
      /\ \A i \in 1 .. Len(kb) : kept[Len(ka) + i] = kb[i]
  BY DEF JoinedAs
<1>20. /\ IsList(kept) /\ Len(kept) = p + q
       /\ \A i \in 1 .. p : kept[i] = ka[i]
       /\ \A i \in 1 .. q : kept[p + i] = kb[i]
  BY <1>3, <1>4, <1>5
<1>6. p \in 0 .. n /\ q \in 0 .. m /\ p \in Nat /\ q \in Nat
  BY <1>1, <1>3, <1>4, ListLen DEF KeptRightly
<1>7. /\ \A i \in 1 .. p : oa[i] \in K /\ oa[i] \in 1 .. n
      /\ \A i \in 1 .. q : ob[i] \in L /\ ob[i] \in 1 .. m
      /\ \A i, k \in 1 .. p : i < k => oa[i] < oa[k]
      /\ \A i, k \in 1 .. q : i < k => ob[i] < ob[k]
      /\ \A x \in K \intersect (1 .. n) : \E i \in 1 .. p : oa[i] = x
      /\ \A x \in L \intersect (1 .. m) : \E i \in 1 .. q : ob[i] = x
  BY <1>3, <1>4 DEF KeptRightly
<1>. HIDE DEF n, m, p, q
<1>8. /\ \A i \in 1 .. p : i \in 1 .. p + q /\ order[i] = oa[i]
      /\ \A i \in 1 .. q : p + i \in 1 .. p + q /\ order[p + i] = n + ob[i]
      /\ \A i \in 1 .. p + q : i \in 1 .. p \/ (i - p \in 1 .. q /\ p + (i - p) = i)
  <2>1. \A i \in 1 .. q : p + i \in 1 .. p + q /\ ~(p + i <= p) /\ (p + i) - p = i  BY <1>6
  <2>. QED  BY <1>6, <2>1
<1>9. order = [i \in 1 .. p + q |-> order[i]]  OBVIOUS
<1>. HIDE DEF order
<1>10. IsList(order) /\ Len(order) = p + q
  <2>1. p + q \in Nat  BY <1>6
  <2>. QED  BY <2>1, <1>9, ListsMapped
<1>11. \A i \in 1 .. p + q : order[i] \in keys /\ order[i] \in 1 .. n + m
  <2>1. TAKE i \in 1 .. p + q
  <2>2. CASE i \in 1 .. p
    <3>1. order[i] = oa[i] /\ oa[i] \in K /\ oa[i] \in 1 .. n  BY <2>2, <1>7, <1>8
    <3>. QED  BY <3>1, <1>1 DEF n
  <2>3. CASE i - p \in 1 .. q /\ p + (i - p) = i
    <3>. DEFINE h == i - p
    <3>1. order[p + h] = n + ob[h] /\ ob[h] \in L /\ ob[h] \in 1 .. m  BY <2>3, <1>7, <1>8
    <3>2. p + h = i  BY <2>3
    <3>. HIDE DEF h
    <3>3. n + ob[h] \in keys  BY <3>1 DEF n, m
    <3>. QED  BY <3>1, <3>2, <3>3, <1>1
  <2>. QED  BY <2>2, <2>3, <1>8
<1>12. \A i, k \in 1 .. p + q : i < k => order[i] < order[k]
  <2>1. TAKE i, k \in 1 .. p + q
  <2>2. HAVE i < k
  <2>3. CASE i \in 1 .. p /\ k \in 1 .. p  BY <2>2, <2>3, <1>7, <1>8
  <2>4. CASE i \in 1 .. p /\ k \notin 1 .. p
    <3>1. order[i] \in 1 .. n  BY <2>4, <1>7, <1>8
    <3>. DEFINE h == k - p
    <3>2. h \in 1 .. q /\ p + h = k  BY <2>4, <1>8
    <3>. HIDE DEF h
    <3>3. order[k] = n + ob[h] /\ ob[h] \in 1 .. m  BY <3>2, <1>7, <1>8
    <3>. QED  BY <3>1, <3>3, <1>1
  <2>5. CASE i \notin 1 .. p
    <3>. DEFINE g == i - p
                h == k - p
    <3>1. k \notin 1 .. p  BY <2>2, <2>5, <1>6
    <3>2. g \in 1 .. q /\ p + g = i /\ h \in 1 .. q /\ p + h = k  BY <2>5, <3>1, <1>8
    <3>3. g < h  BY <2>2, <1>6
    <3>. HIDE DEF g, h
    <3>4. ob[g] < ob[h] /\ ob[g] \in 1 .. m /\ ob[h] \in 1 .. m  BY <3>2, <3>3, <1>7
    <3>5. order[i] = n + ob[g] /\ order[k] = n + ob[h]  BY <3>2, <1>8
    <3>. QED  BY <3>4, <3>5, <1>1
  <2>. QED  BY <2>3, <2>4, <2>5
<1>13. ASSUME NEW x \in keys \intersect (1 .. n + m) PROVE \E i \in 1 .. p + q : order[i] = x
  <2>1. CASE x \in 1 .. n
    <3>1. x \in K \intersect (1 .. n)  BY <2>1 DEF n
    <3>2. PICK i \in 1 .. p : oa[i] = x  BY <3>1, <1>7
    <3>. QED  BY <3>2, <1>8
  <2>2. CASE x \notin 1 .. n
    <3>. DEFINE y == x - n
    <3>1. y \in 1 .. m /\ n + y = x  BY <2>2, <1>1
    <3>. HIDE DEF y
    <3>2. y \in L \intersect (1 .. m)  BY <3>1 DEF n, m
    <3>3. PICK i \in 1 .. q : ob[i] = y  BY <3>2, <1>7
    <3>4. p + i \in 1 .. p + q /\ order[p + i] = x  BY <3>1, <3>3, <1>8
    <3>. QED  BY <3>4
  <2>. QED  BY <2>1, <2>2
<1>14. p + q <= n + m  BY <1>1, <1>6
<1>15. KeptRightly(order, keys, Len(c))
  BY <1>2, <1>10, <1>11, <1>12, <1>13, <1>14 DEF KeptRightly, n, m
<1>16. \A i \in 1 .. Len(order) : kept[i] = c[order[i]]
  <2>1. TAKE i \in 1 .. Len(order)
  <2>2. CASE i \in 1 .. p
    <3>1. kept[i] = a[oa[i]] /\ order[i] = oa[i] /\ oa[i] \in 1 .. n
      BY <2>2, <1>3, <1>20, <1>7, <1>8 DEF p
    <3>. QED  BY <3>1, <1>2 DEF n
  <2>3. CASE i \notin 1 .. p
    <3>. DEFINE h == i - p
    <3>1. h \in 1 .. q /\ p + h = i  BY <2>3, <1>8, <1>10
    <3>. HIDE DEF h
    <3>2. kept[i] = b[ob[h]] /\ order[i] = n + ob[h] /\ ob[h] \in 1 .. m
      BY <3>1, <1>4, <1>20, <1>7, <1>8 DEF q, p
    <3>. QED  BY <3>2, <1>2 DEF n, m
  <2>. QED  BY <2>2, <2>3
<1>17. Len(c) \in Nat /\ Len(kept) = Len(order)  BY <1>1, <1>2, <1>20, <1>10 DEF n, m, p, q
<1>18. kept = KeptAt(c, keys)  BY <1>20, <1>15, <1>16, <1>17, KeptBy
<1>. QED  BY <1>18

LEMMA KeptJoined ==
  ASSUME NEW a, IsList(a), NEW b, IsList(b), NEW K, NEW L, NEW keys,
         \A i \in 1 .. Len(a) : i \in keys <=> i \in K,
         \A i \in 1 .. Len(b) : Len(a) + i \in keys <=> i \in L,
         NEW c, JoinedAs(c, a, b), NEW kept, JoinedAs(kept, KeptAt(a, K), KeptAt(b, L))
  PROVE  kept = KeptAt(c, keys)
<1>1. Len(a) \in Nat /\ Len(b) \in Nat  BY ListLen
<1>. DEFINE ka == KeptAt(a, K)
            kb == KeptAt(b, L)
<1>2. PICK oa : /\ KeptRightly(oa, K, Len(a)) /\ IsList(ka) /\ Len(ka) = Len(oa)
                /\ \A i \in 1 .. Len(oa) : ka[i] = a[oa[i]]
  BY <1>1, KeptAtKeeps
<1>3. PICK ob : /\ KeptRightly(ob, L, Len(b)) /\ IsList(kb) /\ Len(kb) = Len(ob)
                /\ \A i \in 1 .. Len(ob) : kb[i] = b[ob[i]]
  BY <1>1, KeptAtKeeps
<1>4. JoinedAs(kept, ka, kb)  OBVIOUS
<1>. HIDE DEF ka, kb
<1>. QED  BY <1>2, <1>3, <1>4, OrdersJoin

\* Those of the findings whose text nobody ruled out.
Wanting(findings, fp) == {i \in DOMAIN findings : findings[i].text \notin fp}

LEMMA KeptTwice ==
  ASSUME NEW s, IsList(s), NEW K, NEW fp, NEW keys,
         \A i \in 1 .. Len(s) : i \in keys <=> i \in K /\ s[i].text \notin fp,
         NEW k, k = KeptAt(s, K), NEW W, W = Wanting(k, fp)
  PROVE  KeptAt(k, W) = KeptAt(s, keys)
<1>. DEFINE n == Len(s)
            o == InOrder(K, n)
            p == Len(o)
            w == InOrder(W, p)
            q == Len(w)
            order == [i \in 1 .. q |-> o[w[i]]]
            kept == KeptAt(k, W)
<1>1. n \in Nat  BY ListLen
<1>2. /\ KeptRightly(o, K, n) /\ IsList(k) /\ Len(k) = p /\ DOMAIN k = 1 .. p
      /\ \A i \in 1 .. p : k[i] = s[o[i]]
  BY <1>1, KeptAtKeeps
<1>. HIDE DEF o
<1>3. p \in 0 .. n /\ p \in Nat  BY <1>1, <1>2, ListLen DEF KeptRightly
<1>4. /\ KeptRightly(w, W, p) /\ IsList(kept) /\ Len(kept) = q
      /\ \A i \in 1 .. q : kept[i] = k[w[i]]
  <2>1. Len(k) \in Nat  BY <1>2, <1>3
  <2>. QED  BY <2>1, <1>2, KeptAtKeeps
<1>5. \A i \in 1 .. p : i \in W <=> s[o[i]].text \notin fp
  BY <1>2 DEF Wanting
<1>. HIDE DEF w, kept
<1>6. q \in 0 .. p /\ q \in Nat  BY <1>3, <1>4, ListLen DEF KeptRightly
<1>7. /\ \A i \in 1 .. p : o[i] \in K /\ o[i] \in 1 .. n
      /\ \A i \in 1 .. q : w[i] \in W /\ w[i] \in 1 .. p
      /\ \A i, j \in 1 .. p : i < j => o[i] < o[j]
      /\ \A i, j \in 1 .. q : i < j => w[i] < w[j]
      /\ \A x \in K \intersect (1 .. n) : \E i \in 1 .. p : o[i] = x
      /\ \A x \in W \intersect (1 .. p) : \E i \in 1 .. q : w[i] = x
  BY <1>2, <1>4 DEF KeptRightly
<1>. HIDE DEF p, q
<1>8. \A i \in 1 .. q : order[i] = o[w[i]]  OBVIOUS
<1>9. order = [i \in 1 .. q |-> order[i]]  OBVIOUS
<1>. HIDE DEF order
<1>10. IsList(order) /\ Len(order) = q  BY <1>6, <1>9, ListsMapped
<1>11. \A i \in 1 .. q : order[i] \in keys /\ order[i] \in 1 .. n
  BY <1>5, <1>7, <1>8 DEF n
<1>12. \A i, j \in 1 .. q : i < j => order[i] < order[j]  BY <1>7, <1>8
<1>13. ASSUME NEW x \in keys \intersect (1 .. n) PROVE \E i \in 1 .. q : order[i] = x
  <2>1. x \in K \intersect (1 .. n) /\ s[x].text \notin fp  BY DEF n
  <2>2. PICK i \in 1 .. p : o[i] = x  BY <2>1, <1>7
  <2>3. i \in W \intersect (1 .. p)  BY <2>1, <2>2, <1>5
  <2>4. PICK j \in 1 .. q : w[j] = i  BY <2>3, <1>7
  <2>. QED  BY <2>2, <2>4, <1>8
<1>14. q <= n  BY <1>1, <1>3, <1>6
<1>15. KeptRightly(order, keys, n)
  BY <1>10, <1>11, <1>12, <1>13, <1>14 DEF KeptRightly
<1>16. \A i \in 1 .. Len(order) : kept[i] = s[order[i]]
  BY <1>2, <1>4, <1>7, <1>8, <1>10 DEF q
<1>17. Len(kept) = Len(order)  BY <1>4, <1>10 DEF q
<1>18. kept = KeptAt(s, keys)  BY <1>1, <1>4, <1>15, <1>16, <1>17, KeptBy DEF n
<1>. QED  BY <1>18 DEF kept
-----------------------------------------------------------------------------
\* What is taken out again.

\* No sentence ends within the words whose sentence is looked at again.
CheckedWithinSentences ==
  \A words \in ContextChecked : \A k \in 1 .. Len(words) - 1 :
    /\ words[k] \notin SentenceMarks
    /\ k = 1 /\ words[1] \in DOMAIN CapitalOf => CapitalOf[words[1]] \notin SentenceMarks

LEMMA SentencesAre ==
  ASSUME NEW text, IsList(text), NEW sentences, sentences = Sentences(text)
  PROVE  /\ IsList(sentences)
         /\ \A i \in 1 .. Len(sentences) :
              /\ IsList(sentences[i].text) /\ sentences[i].end \in 1 .. Len(text)
              /\ sentences[i].end < Len(text) => text[sentences[i].end] \in SentenceMarks
         /\ \A i, k \in 1 .. Len(sentences) : i < k => sentences[i].end < sentences[k].end
<1>. DEFINE ends == {i \in 1 .. Len(text) : text[i] \in SentenceMarks} \union ({Len(text)} \ {0})
            ordered == InOrder(ends, Len(text))
            First(i) == IF i = 1 THEN 0 ELSE ordered[i - 1]
            From(i) == IF First(i) < ordered[i] - 1 /\ text[First(i) + 1] = Blank
                       THEN First(i) + 1 ELSE First(i)
<1>1. Len(text) \in Nat  BY ListLen
<1>2. KeptRightly(ordered, ends, Len(text))  BY <1>1, InOrderKeeps
<1>3. \A p \in ends : p < Len(text) => text[p] \in SentenceMarks  BY <1>1
<1>4. /\ DOMAIN sentences = DOMAIN ordered /\ sentences = [i \in DOMAIN ordered |-> sentences[i]]
      /\ \A i \in DOMAIN ordered :
           sentences[i] = [end |-> ordered[i], text |-> Slice(text, From(i), ordered[i])]
  BY DEF Sentences
<1>. HIDE DEF ends, ordered
<1>5. /\ IsList(ordered) /\ DOMAIN ordered = 1 .. Len(ordered) /\ Len(ordered) \in Nat
      /\ \A i \in 1 .. Len(ordered) : ordered[i] \in ends /\ ordered[i] \in 1 .. Len(text)
      /\ \A i, k \in 1 .. Len(ordered) : i < k => ordered[i] < ordered[k]
  BY <1>2, ListLen DEF KeptRightly
<1>6. IsList(sentences) /\ Len(sentences) = Len(ordered)  BY <1>4, <1>5, ListsMapped
<1>7. ASSUME NEW i \in 1 .. Len(ordered)
      PROVE  sentences[i].end = ordered[i] /\ IsList(sentences[i].text)
  <2>1. First(i) \in Nat
    <3>1. CASE i = 1  BY <3>1
    <3>2. CASE i # 1
      <4>1. i - 1 \in 1 .. Len(ordered)  BY <3>2, <1>5
      <4>. QED  BY <3>2, <4>1, <1>5
    <3>. QED  BY <3>1, <3>2
  <2>2. From(i) \in Nat  BY <2>1
  <2>. HIDE DEF From
  <2>3. IsList(Slice(text, From(i), ordered[i]))
    <3>1. ordered[i] \in Nat  BY <1>5
    <3>. QED  BY <2>2, <3>1, Sliced
  <2>4. sentences[i] = [end |-> ordered[i], text |-> Slice(text, From(i), ordered[i])]
    BY <1>4, <1>5
  <2>. QED  BY <2>3, <2>4
<1>8. \A i \in 1 .. Len(ordered) :
        /\ IsList(sentences[i].text) /\ sentences[i].end \in 1 .. Len(text)
        /\ sentences[i].end < Len(text) => text[sentences[i].end] \in SentenceMarks
  BY <1>3, <1>5, <1>7
<1>. QED  BY <1>5, <1>6, <1>7, <1>8

\* A finding lies in the i-th of the sentences.
LiesIn(f, sentences, i) ==
  /\ f.end <= sentences[i].end
  /\ i > 1 => sentences[i - 1].end <= f.start

PlainText(text) == \A i \in 1 .. Len(text) : text[i] \notin CountedTwice

\* The sentence that a finding is taken to be in is the one it lies in.
LEMMA OneSentence ==
  ASSUME CheckedWithinSentences, NEW text, IsList(text), PlainText(text),
         NEW f, IsFound(f, text), f.text_id \in ContextChecked,
         NEW sentences, sentences = Sentences(text),
         NEW i \in 1 .. Len(sentences), f.end <= sentences[i].end,
         \A k \in 1 .. Len(sentences) : f.end <= sentences[k].end => i <= k
  PROVE  \A k \in 1 .. Len(sentences) : LiesIn(f, sentences, k) <=> k = i
<1>1. PICK rule, start : FoundBy(f, rule, start, text)  BY DEF IsFound
<1>. DEFINE words == rule.words
            n == Len(words)
            end == start + n
<1>2. /\ IsList(words) /\ words # <<>> /\ start \in Nat /\ Matches(rule, text, start)
      /\ f.text_id = words
      /\ f.start = utf16_offsets(text)[start] /\ f.end = utf16_offsets(text)[end]
  BY <1>1 DEF FoundBy, IsRule
<1>3. n \in Nat /\ n # 0 /\ Len(text) \in Nat /\ DOMAIN words = 1 .. n
  BY <1>2, ListLen, LenZero
<1>4. /\ end <= Len(text)
      /\ \A k \in 1 .. n : \/ text[start + k] = words[k]
                           \/ k = 1 /\ words[1] \in DOMAIN CapitalOf
                                /\ text[start + 1] = CapitalOf[words[1]]
  BY <1>2, <1>3 DEF Matches
<1>5. \A k \in 1 .. n - 1 :
        /\ words[k] \notin SentenceMarks
        /\ k = 1 /\ words[1] \in DOMAIN CapitalOf => CapitalOf[words[1]] \notin SentenceMarks
  BY <1>2 DEF CheckedWithinSentences
<1>. HIDE DEF words, n
<1>6. f.start = start /\ f.end = end /\ end \in Nat /\ start < end
  <2>1. start \in 0 .. Len(text) /\ end \in 0 .. Len(text)  BY <1>2, <1>3, <1>4
  <2>2. utf16_offsets(text)[start] = start /\ utf16_offsets(text)[end] = end
    BY <2>1, PlainOffsets DEF PlainText
  <2>. QED  BY <1>2, <1>3, <2>2
<1>7. \A k \in 1 .. n - 1 : text[start + k] \notin SentenceMarks
  <2>1. TAKE k \in 1 .. n - 1
  <2>2. k \in 1 .. n  BY <1>3
  <2>. QED  BY <2>2, <1>4, <1>5
<1>8. /\ IsList(sentences) /\ Len(sentences) \in Nat
      /\ \A k \in 1 .. Len(sentences) :
           /\ sentences[k].end \in 1 .. Len(text)
           /\ sentences[k].end < Len(text) => text[sentences[k].end] \in SentenceMarks
      /\ \A h, k \in 1 .. Len(sentences) : h < k => sentences[h].end < sentences[k].end
  BY SentencesAre, ListLen
<1>9. LiesIn(f, sentences, i)
  <2>. SUFFICES ASSUME i > 1 PROVE sentences[i - 1].end <= f.start
    BY DEF LiesIn
  <2>. DEFINE k == i - 1
              p == sentences[k].end
  <2>1. k \in 1 .. Len(sentences) /\ ~(i <= k)  BY <1>8
  <2>2. p \in 1 .. Len(text) /\ ~(f.end <= p)
        /\ (p < Len(text) => text[p] \in SentenceMarks)
    BY <1>8, <2>1
  <2>. HIDE DEF p
  <2>3. p < end /\ text[p] \in SentenceMarks  BY <1>3, <1>4, <1>6, <2>2
  <2>4. ASSUME start < p PROVE FALSE
    <3>. DEFINE h == p - start
    <3>1. h \in 1 .. n - 1 /\ start + h = p  BY <1>2, <1>3, <2>2, <2>3, <2>4
    <3>. HIDE DEF h
    <3>. QED  BY <1>7, <2>3, <3>1
  <2>5. p <= start  BY <1>2, <2>2, <2>4
  <2>. QED  BY <1>6, <2>5 DEF p
<1>10. ASSUME NEW k \in 1 .. Len(sentences), LiesIn(f, sentences, k) PROVE k = i
  <2>1. f.end <= sentences[k].end /\ i <= k  BY <1>10 DEF LiesIn
  <2>2. ASSUME i < k PROVE FALSE
    <3>. DEFINE h == k - 1
    <3>1. h \in 1 .. Len(sentences) /\ k > 1 /\ (i = h \/ i < h)  BY <1>8, <2>2
    <3>2. sentences[h].end <= f.start  BY <1>10, <3>1 DEF LiesIn
    <3>. HIDE DEF h
    <3>3. /\ sentences[i].end \in Int /\ sentences[h].end \in Int
          /\ sentences[i].end <= sentences[h].end
      BY <1>8, <3>1
    <3>. QED  BY <1>2, <1>6, <3>2, <3>3
  <2>. QED  BY <1>8, <2>1, <2>2
<1>. QED  BY <1>9, <1>10

\* So what is taken out is what the context checker did not let stand.
LEMMA RemovedIsWrong ==
  ASSUME CheckedWithinSentences, NothingIsNoList, NEW text, IsList(text), PlainText(text),
         NEW f, IsFound(f, text), NEW sentences, sentences = Sentences(text), NEW genuine
  PROVE  (LooksAt(f, sentences) /\ SentenceOf(f, sentences) \notin genuine) <=>
           ~\A i \in DOMAIN sentences :
              f.text_id \in ContextChecked /\ LiesIn(f, sentences, i) =>
                sentences[i].text \in genuine
<1>. DEFINE I == {i \in 1 .. Len(sentences) : f.end <= sentences[i].end}
<1>1. /\ Len(sentences) \in Nat /\ DOMAIN sentences = 1 .. Len(sentences)
      /\ \A i \in 1 .. Len(sentences) : IsList(sentences[i].text)
  BY SentencesAre, ListLen
<1>2. SentenceOf(f, sentences) =
        LET i == IF I # {} THEN Min(I) ELSE 0
        IN  IF i = 0 THEN Nothing ELSE sentences[i].text
  BY DEF SentenceOf, SelectInSeq
<1>3. CASE f.text_id \notin ContextChecked  BY <1>3 DEF LooksAt
<1>4. CASE f.text_id \in ContextChecked /\ I = {}
  <2>1. SentenceOf(f, sentences) = Nothing  BY <1>2, <1>4
  <2>2. \A i \in 1 .. Len(sentences) : ~(f.end <= sentences[i].end)  BY <1>4
  <2>. QED  BY <1>1, <2>1, <2>2 DEF LooksAt, LiesIn
<1>5. CASE f.text_id \in ContextChecked /\ I # {}
  <2>. DEFINE i == Min(I)
  <2>1. I \subseteq Nat  BY <1>1
  <2>2. i \in I /\ \A k \in I : i <= k
    <3>. HIDE DEF I
    <3>. QED  BY <1>5, <2>1, MinIn
  <2>3. SentenceOf(f, sentences) = sentences[i].text
    <3>1. i # 0  BY <2>2
    <3>. HIDE DEF I
    <3>. QED  BY <1>2, <1>5, <3>1
  <2>. HIDE DEF i
  <2>4. /\ i \in 1 .. Len(sentences) /\ f.end <= sentences[i].end
        /\ \A k \in 1 .. Len(sentences) : f.end <= sentences[k].end => i <= k
    BY <2>2
  <2>5. \A k \in 1 .. Len(sentences) : LiesIn(f, sentences, k) <=> k = i
    BY <1>5, <2>4, OneSentence
  <2>6. LooksAt(f, sentences)
    <3>1. IsList(sentences[i].text)  BY <1>1, <2>4
    <3>. QED  BY <1>5, <2>3, <3>1 DEF LooksAt, NothingIsNoList
  <2>. QED  BY <1>1, <1>5, <2>3, <2>4, <2>5, <2>6
<1>. QED  BY <1>3, <1>4, <1>5

\* What is left behind the last call to a service, but for the switch of the format.
LEMMA SortedOutLeaves ==
  ASSUME NEW lt_results, AreFindings(lt_results), NEW results, AreFindings(results),
         NEW sentences, NEW genuine, NEW text, NEW lang, NEW config,
         NEW K, \A i \in 1 .. Len(lt_results) : i \in K <=> lt_results[i].text \notin config.false_positives,
         NEW L, \A i \in 1 .. Len(results) : i \in L <=>
           /\ ~(LooksAt(results[i], sentences) /\ SentenceOf(results[i], sentences) \notin genuine)
           /\ results[i].text \notin config.false_positives,
         NEW sorted, sorted = SortedOut(lt_results, results, sentences, genuine, text, lang, config),
         NEW left, JoinedAs(left, KeptAt(lt_results, K), KeptAt(results, L))
  PROVE  /\ DOMAIN sorted = DOMAIN left
         /\ \A i \in DOMAIN left : \A field \in FindingFields \ {"bulk"} :
              sorted[i][field] = left[i][field]
<1>. DEFINE n == Len(results)
            m == Len(lt_results)
            fp == config.false_positives
            there == {i \in DOMAIN results : /\ LooksAt(results[i], sentences)
                                             /\ SentenceOf(results[i], sentences) \notin genuine}
            R == (1 .. n) \ there
            stands == context_false_positives(results, sentences, genuine)
            both == lt_results \o stands
            W == {i \in DOMAIN both : both[i].text \notin fp}
            S == {i \in DOMAIN stands : stands[i].text \notin fp}
<1>1. /\ n \in Nat /\ DOMAIN results = 1 .. n /\ IsList(results)
      /\ m \in Nat /\ DOMAIN lt_results = 1 .. m /\ IsList(lt_results)
  BY ListLen DEF AreFindings
<1>2. stands = KeptAt(results, R)  BY <1>1, RemovedIsKept DEF context_false_positives
<1>3. \A i \in 1 .. n : i \in R <=>
        ~(LooksAt(results[i], sentences) /\ SentenceOf(results[i], sentences) \notin genuine)
  BY <1>1
<1>4. sorted = IF bulk_actions(lang, config) = {} THEN KeptAt(both, W)
               ELSE mark_masculines_for_bulk(KeptAt(both, W), text, lang,
                                             InklusivumWords(KeptAt(both, W), lang))
  BY DEF SortedOut, apply_false_positives
<1>. HIDE DEF there, R
<1>5. AreFindings(stands) /\ IsList(stands)
  <2>1. AreFindings(KeptAt(results, R))  BY KeptFindings
  <2>. HIDE DEF stands
  <2>. QED  BY <1>2, <2>1 DEF AreFindings
<1>6. KeptAt(stands, S) = KeptAt(results, L)
  <2>1. \A i \in 1 .. Len(results) : i \in L <=> i \in R /\ results[i].text \notin fp
    BY <1>3
  <2>2. S = Wanting(stands, fp)  BY DEF Wanting
  <2>. HIDE DEF stands, S, fp
  <2>. QED  BY <1>1, <1>2, <2>1, <2>2, KeptTwice
<1>. HIDE DEF stands
<1>7. /\ JoinedAs(both, lt_results, stands) /\ AreFindings(both)
      /\ DOMAIN both = 1 .. m + Len(stands)
  <2>1. AreFindings(both)  BY <1>5, JoinedFindings
  <2>2. DOMAIN both = 1 .. m + Len(stands)  BY <1>1, <1>5, Joined
  <2>. QED  BY <1>1, <1>5, <2>1, <2>2, JoinedIs
<1>8. Len(stands) \in Nat /\ DOMAIN stands = 1 .. Len(stands)  BY <1>5, ListLen
<1>9. \A i \in 1 .. m : both[i] = lt_results[i]  BY <1>7 DEF JoinedAs
<1>10. \A i \in 1 .. Len(stands) : both[m + i] = stands[i]  BY <1>7 DEF JoinedAs
<1>. HIDE DEF both
<1>11. \A i \in 1 .. m : i \in W <=> i \in K
  <2>1. \A i \in 1 .. m : i \in DOMAIN both  BY <1>1, <1>7, <1>8
  <2>. QED  BY <1>9, <2>1
<1>12. \A i \in 1 .. Len(stands) : m + i \in W <=> i \in S
  <2>1. \A i \in 1 .. Len(stands) : m + i \in DOMAIN both /\ i \in DOMAIN stands
    BY <1>1, <1>7, <1>8
  <2>. QED  BY <1>10, <2>1
<1>. HIDE DEF W, S
<1>17. KeptAt(both, W) = left
  <2>1. JoinedAs(left, KeptAt(lt_results, K), KeptAt(stands, S))  BY <1>6
  <2>. QED  BY <1>1, <1>5, <1>7, <1>11, <1>12, <2>1, KeptJoined
<1>13. AreFindings(left)
  <2>1. AreFindings(KeptAt(both, W))  BY <1>7, KeptFindings
  <2>. QED  BY <1>17, <2>1
<1>14. sorted = left \/ sorted \in MarkedVariants(left)
  <2>1. mark_masculines_for_bulk(left, text, lang, InklusivumWords(left, lang))
          \in MarkedVariants(left)
    BY <1>13, MarkedAreVariants
  <2>. QED  BY <1>4, <1>17, <2>1
<1>15. CASE sorted \in MarkedVariants(left)
  <2>1. DOMAIN left = 1 .. Len(left)  BY <1>13, ListLen DEF AreFindings
  <2>2. DOMAIN sorted = 1 .. Len(left) /\ \A i \in 1 .. Len(left) : sorted[i] \in Variants(left[i])
    BY <1>15 DEF MarkedVariants
  <2>3. ASSUME NEW i \in DOMAIN left, NEW field \in FindingFields \ {"bulk"}
        PROVE  sorted[i][field] = left[i][field]
    <3>1. IsFinding(left[i]) /\ sorted[i] \in Variants(left[i])
      BY <1>13, <2>1, <2>2 DEF AreFindings
    <3>. QED  BY <3>1, VariantIs
  <2>. QED  BY <2>1, <2>2, <2>3
<1>16. CASE sorted = left  BY <1>16
<1>. QED  BY <1>14, <1>15, <1>16

LEMMA SortRemovesRightly ==
  ASSUME CheckedWithinSentences, NothingIsNoList, IsGood(job), IsRead(job), Sort
  PROVE  RemovesRightly
<1>1. job.stage = "sort" /\ IsList(job.part)  BY SortGives DEF IsGood, IsJob
<1>. SUFFICES ASSUME job'.stage # "failed", Plain(job.part) PROVE RemovesRightly
  BY DEF RemovesRightly
<1>2. PICK genuine : SortsTo(job, job', genuine)  BY SortGives
<1>. DEFINE sentences == Sentences(job.part)
            lt == job.lt_results
            fs == job.found
            fp == job.request.config.false_positives
            sorted == SortedOut(lt, fs, sentences, genuine, job.part, LangOf[job.locale],
                                job.request.config)
            Genuine(f) == \A i \in DOMAIN sentences :
                            f.text_id \in ContextChecked /\ LiesIn(f, sentences, i) =>
                              sentences[i].text \in genuine
            K == {i \in DOMAIN lt : lt[i].text \notin fp}
            L == {i \in {k \in DOMAIN fs : Genuine(fs[k])} : fs[i].text \notin fp}
            left == KeptAt(lt, K) \o KeptAt(fs, L)
            Where(list) == [i \in DOMAIN list |-> <<list[i].text_id, list[i].start, list[i].end>>]
<1>3. job'.found = sorted /\ job'.genuine = genuine  BY <1>2 DEF SortsTo
<1>4. /\ AreFindings(lt) /\ AreFindings(fs) /\ AreFound(fs, job.part)
  BY <1>1, RankIs DEF IsGood, IsJob, IsRead
<1>5. PlainText(job.part)
  <2>1. DOMAIN job.part = 1 .. Len(job.part)  BY <1>1, ListLen
  <2>. QED  BY <2>1 DEF Plain, PlainText, Range, CountedTwice
<1>6. \A i \in 1 .. Len(fs) : i \in L <=>
        /\ ~(LooksAt(fs[i], sentences) /\ SentenceOf(fs[i], sentences) \notin genuine)
        /\ fs[i].text \notin fp
  <2>. TAKE i \in 1 .. Len(fs)
  <2>1. i \in DOMAIN fs  BY <1>4, ListLen DEF AreFindings
  <2>2. IsFound(fs[i], job.part)  BY <1>4, <2>1 DEF AreFound
  <2>3. (LooksAt(fs[i], sentences) /\ SentenceOf(fs[i], sentences) \notin genuine) <=>
          ~Genuine(fs[i])
    BY <1>1, <1>5, <2>2, RemovedIsWrong
  <2>. HIDE DEF Genuine
  <2>. QED  BY <2>1, <2>3
<1>7. /\ DOMAIN sorted = DOMAIN left
      /\ \A i \in DOMAIN left : \A field \in FindingFields \ {"bulk"} :
           sorted[i][field] = left[i][field]
  <2>1. sorted = SortedOut(lt, fs, sentences, genuine, job.part, LangOf[job.locale],
                           job.request.config)
    OBVIOUS
  <2>2. \A i \in 1 .. Len(fs) : i \in L <=>
          /\ ~(LooksAt(fs[i], sentences) /\ SentenceOf(fs[i], sentences) \notin genuine)
          /\ fs[i].text \notin job.request.config.false_positives
    BY <1>6
  <2>3. \A i \in 1 .. Len(lt) : i \in K <=> lt[i].text \notin job.request.config.false_positives
    <3>1. DOMAIN lt = 1 .. Len(lt)  BY <1>4, ListLen DEF AreFindings
    <3>. QED  BY <3>1
  <2>4. JoinedAs(left, KeptAt(lt, K), KeptAt(fs, L))
    <3>1. AreFindings(KeptAt(lt, K)) /\ AreFindings(KeptAt(fs, L))  BY <1>4, KeptFindings
    <3>. QED  BY <3>1, JoinedIs DEF AreFindings
  <2>. HIDE DEF sentences, fs, lt, K, L, sorted, left
  <2>. QED  BY <1>4, <2>1, <2>2, <2>3, <2>4, SortedOutLeaves
<1>8. Where(sorted) = Where(left)
  <2>. HIDE DEF sorted, left
  <2>1. \A i \in DOMAIN left : /\ sorted[i].text_id = left[i].text_id
                               /\ sorted[i].start = left[i].start /\ sorted[i].end = left[i].end
    BY <1>7 DEF FindingFields
  <2>. QED  BY <1>7, <2>1
<1>9. Where(job'.found) = Where(left)
  <2>. HIDE DEF sorted, left, Where
  <2>. QED  BY <1>3, <1>8
<1>. QED  BY <1>3, <1>9 DEF RemovesRightly, LiesIn

\* What is taken out again is exactly what the user or the context checker took out, wherever
\* no sentence ends within a finding whose sentence is looked at again. So it is where the
\* rules looked at, the lists at app/rules.py:620 and :1450, name single words.
THEOREM RemovedAreWrong ==
  ASSUME CheckedWithinSentences, NothingIsNoList
  PROVE  Spec => RemovedRightly
<1>1. ASSUME JobIsGood, JobIsRead, [Next]_job PROVE [RemovesRightly]_job
  <2>. SUFFICES ASSUME job.stage = "sort", job' # job, job'.stage # "failed"
                PROVE  RemovesRightly
    BY DEF RemovesRightly
  <2>1. IsGood(job) /\ IsRead(job)  BY <1>1 DEF JobIsGood, JobIsRead
  <2>2. CASE Sort  BY <2>1, <2>2, SortRemovesRightly
  <2>3. CASE Leave  BY <2>3 DEF Leave
  <2>. QED
    BY <1>1, <2>2, <2>3 DEF Next, Serve, Receive, ReadText, ReadAnswer, AskLanguageTool, Verdict,
      JudgeText, SendAgain, NextTurn, SwitchFormat, SwitchIntoInklusivum
<1>. QED  BY <1>1, JobsAreGood, FindingsReadRightly, PTL DEF Spec, RemovedRightly

------------------------------------------------------------------------------
\* What the switch of the format rewrites at once.

Clear(a, b) == a.end <= b.start \/ b.end <= a.start

\* A result of the switch has the alternative it is switched to.
Switches(f) ==
  f.bulk # Nothing => f.bulk \in DOMAIN f.alternatives /\ ~f.alternatives[f.bulk].remove

AllClear(a, b) ==
  \A i \in DOMAIN a : \A k \in DOMAIN b :
    a[i].bulk # Nothing /\ b[k].bulk # Nothing => Clear(a[i], b[k])

StandApart(fs) ==
  /\ \A i \in DOMAIN fs : Switches(fs[i])
  /\ \A i, k \in DOMAIN fs :
       i # k /\ fs[i].bulk # Nothing /\ fs[k].bulk # Nothing => Clear(fs[i], fs[k])

Unmarked(fs) == \A i \in DOMAIN fs : fs[i].bulk = Nothing

LEMMA NothingApart == StandApart(<<>>) /\ Unmarked(<<>>)
BY EmptyList DEF StandApart, Unmarked

LEMMA UnmarkedApart ==
  ASSUME NEW fs, Unmarked(fs)
  PROVE  StandApart(fs) /\ \A gs : AllClear(fs, gs)
BY DEF StandApart, Unmarked, Switches, AllClear

LEMMA JoinedApart ==
  ASSUME NEW a, IsList(a), StandApart(a), NEW b, IsList(b), StandApart(b), AllClear(a, b)
  PROVE  StandApart(a \o b)
<1>. DEFINE c == a \o b
<1>1. JoinedAs(c, a, b)  BY JoinedIs
<1>2. /\ DOMAIN a = 1 .. Len(a) /\ Len(a) \in Nat
      /\ DOMAIN b = 1 .. Len(b) /\ Len(b) \in Nat
      /\ DOMAIN c = 1 .. Len(a) + Len(b)
  BY ListLen, Joined
<1>3. /\ \A i \in 1 .. Len(a) : c[i] = a[i]
      /\ \A i \in 1 .. Len(b) : c[Len(a) + i] = b[i]
  BY Joined
<1>. HIDE DEF c
<1>4. ASSUME NEW i \in DOMAIN c
      PROVE  \/ i \in DOMAIN a /\ c[i] = a[i]
             \/ /\ i \notin DOMAIN a
                /\ i - Len(a) \in DOMAIN b /\ c[i] = b[i - Len(a)]
  <2>1. CASE i \in 1 .. Len(a)  BY <2>1, <1>2, <1>3
  <2>2. CASE i \notin 1 .. Len(a)
    <3>. DEFINE k == i - Len(a)
    <3>1. k \in 1 .. Len(b) /\ Len(a) + k = i  BY <2>2, <1>2
    <3>. HIDE DEF k
    <3>2. c[i] = b[k] /\ k \in DOMAIN b  BY <3>1, <1>2, <1>3
    <3>. QED  BY <2>2, <3>2, <1>2 DEF k
  <2>. QED  BY <2>1, <2>2
<1>5. \A i \in DOMAIN c : Switches(c[i])  BY <1>4 DEF StandApart
<1>6. ASSUME NEW i \in DOMAIN c, NEW k \in DOMAIN c, i # k, c[i].bulk # Nothing,
             c[k].bulk # Nothing
      PROVE  Clear(c[i], c[k])
  <2>1. CASE i \in DOMAIN a /\ k \in DOMAIN a  BY <2>1, <1>4, <1>6 DEF StandApart
  <2>2. CASE i \in DOMAIN a /\ k \notin DOMAIN a  BY <2>2, <1>4, <1>6 DEF AllClear
  <2>3. CASE i \notin DOMAIN a /\ k \in DOMAIN a  BY <2>3, <1>4, <1>6 DEF AllClear, Clear
  <2>4. CASE i \notin DOMAIN a /\ k \notin DOMAIN a
    <3>1. i - Len(a) # k - Len(a)  BY <1>2, <1>6
    <3>2. /\ i - Len(a) \in DOMAIN b /\ c[i] = b[i - Len(a)]
          /\ k - Len(a) \in DOMAIN b /\ c[k] = b[k - Len(a)]
      BY <1>4, <2>4
    <3>. QED  BY <1>6, <3>1, <3>2 DEF StandApart
  <2>. QED  BY <2>1, <2>2, <2>3, <2>4
<1>7. StandApart(c)  BY <1>5, <1>6 DEF StandApart
<1>. QED  BY <1>7 DEF c

\* What stands apart in each of some lists, and in each two of them, does in what they make.
LEMMA FlatApart ==
  ASSUME NEW seqs, IsList(seqs),
         \A i \in 1 .. Len(seqs) : IsList(seqs[i]) /\ StandApart(seqs[i]),
         \A i, k \in 1 .. Len(seqs) : i < k => AllClear(seqs[i], seqs[k])
  PROVE  StandApart(FlattenSeq(seqs))
<1>1. PICK flat : /\ FlattenSteps(flat, seqs, Len(seqs)) /\ FlattenSeq(seqs) = flat[Len(seqs)]
                  /\ \A k \in 0 .. Len(seqs) : IsList(flat[k])
  BY Flattens
<1>2. Len(seqs) \in Nat  BY ListLen
<1>. DEFINE T == {k \in 0 .. Len(seqs) : StandIn(flat[k], seqs, k) /\ StandApart(flat[k])}
<1>3. 0 \in T
  <2>1. flat[0] = <<>> /\ 0 \in 0 .. Len(seqs)  BY <1>1, <1>2 DEF FlattenSteps
  <2>. QED  BY <2>1, EmptyList, NothingApart DEF StandIn
<1>4. ASSUME NEW k \in 0 .. Len(seqs) - 1, k \in T PROVE k + 1 \in T
  <2>1. flat[k + 1] = flat[k] \o seqs[k + 1]  BY <1>1 DEF FlattenSteps
  <2>2. k \in 0 .. Len(seqs) /\ k + 1 \in 1 .. Len(seqs) /\ k + 1 \in 0 .. Len(seqs) /\ k \in Nat
    BY <1>2
  <2>3. IsList(flat[k]) /\ IsList(seqs[k + 1]) /\ StandIn(flat[k], seqs, k) /\ StandApart(flat[k])
    BY <1>1, <1>4, <2>2
  <2>4. StandIn(flat[k + 1], seqs, k + 1)  BY <2>1, <2>2, <2>3, JoinedStandIn
  <2>5. AllClear(flat[k], seqs[k + 1])
    <3>1. ASSUME NEW i \in DOMAIN flat[k], NEW h \in DOMAIN seqs[k + 1],
                 flat[k][i].bulk # Nothing, seqs[k + 1][h].bulk # Nothing
          PROVE  Clear(flat[k][i], seqs[k + 1][h])
      <4>1. PICK m \in 1 .. k : \E j \in DOMAIN seqs[m] : flat[k][i] = seqs[m][j]
        BY <2>3 DEF StandIn
      <4>2. PICK j \in DOMAIN seqs[m] : flat[k][i] = seqs[m][j]  BY <4>1
      <4>3. m \in 1 .. Len(seqs) /\ m < k + 1  BY <2>2
      <4>4. AllClear(seqs[m], seqs[k + 1])  BY <2>2, <4>3
      <4>. QED  BY <3>1, <4>2, <4>4 DEF AllClear
    <3>. QED  BY <3>1 DEF AllClear
  <2>6. StandApart(seqs[k + 1])  BY <2>2
  <2>7. StandApart(flat[k + 1])  BY <2>1, <2>3, <2>5, <2>6, JoinedApart
  <2>. QED  BY <2>2, <2>4, <2>7
<1>. HIDE DEF T
<1>5. \A k \in 0 .. Len(seqs) : k \in T  BY <1>2, <1>3, <1>4, InductTo
<1>6. Len(seqs) \in 0 .. Len(seqs)  BY <1>2
<1>. QED  BY <1>1, <1>5, <1>6 DEF T

LEMMA KeptApart ==
  ASSUME NEW fs, AreFindings(fs), StandApart(fs), NEW keys
  PROVE  StandApart(KeptAt(fs, keys))
<1>. DEFINE order == InOrder(keys, Len(fs))
            kept == KeptAt(fs, keys)
<1>1. Len(fs) \in Nat /\ DOMAIN fs = 1 .. Len(fs)  BY ListLen DEF AreFindings
<1>2. /\ KeptRightly(order, keys, Len(fs)) /\ DOMAIN kept = 1 .. Len(order)
      /\ \A i \in 1 .. Len(order) : kept[i] = fs[order[i]]
  BY <1>1, KeptAtKeeps
<1>. HIDE DEF order, kept
<1>3. Len(order) \in Nat /\ \A i \in 1 .. Len(order) : order[i] \in 1 .. Len(fs)
  BY <1>2, ListLen DEF KeptRightly
<1>4. \A i, k \in 1 .. Len(order) : i # k => order[i] # order[k]
  <2>. SUFFICES ASSUME NEW i \in 1 .. Len(order), NEW k \in 1 .. Len(order), i # k
                PROVE  order[i] # order[k]
    OBVIOUS
  <2>1. i < k \/ k < i  BY <1>3
  <2>2. order[i] < order[k] \/ order[k] < order[i]  BY <1>2, <2>1 DEF KeptRightly
  <2>. QED  BY <1>3, <2>2
<1>5. StandApart(kept)  BY <1>1, <1>2, <1>3, <1>4 DEF StandApart
<1>. QED  BY <1>5 DEF kept

\* The rules that find forms written in another format.
Forms(lang) == {rule \in Rules : rule.lang = lang /\ rule.form}

\* No two forms overlap in a text, as they do not where the loop over the tokens goes on
\* behind each it has found.
FormsStandApart ==
  \A lang : \A rule, other \in Forms(lang) : \A text : IsList(text) => \A s, t \in Nat :
    Matches(rule, text, s) /\ Matches(other, text, t) /\ (rule # other \/ s # t) =>
      s + Len(rule.words) <= t \/ t + Len(other.words) <= s

LEMMA OffsetsGrow ==
  ASSUME NEW text, IsList(text), NEW i \in 0 .. Len(text), NEW k \in 0 .. Len(text), i <= k
  PROVE  utf16_offsets(text)[i] <= utf16_offsets(text)[k]
<1>1. i \in Nat /\ k \in Nat  BY ListLen
<1>2. CountUpTo(text, i, CountedTwice) <= CountUpTo(text, k, CountedTwice)
  BY <1>1, CountGrows
<1>3. CountUpTo(text, i, CountedTwice) \in Nat /\ CountUpTo(text, k, CountedTwice) \in Nat
  BY <1>1, CountIs
<1>. QED  BY <1>1, <1>2, <1>3, OffsetsAre

LEMMA FormsClear ==
  ASSUME FormsStandApart, NEW lang, NEW rule \in Forms(lang), NEW other \in Forms(lang),
         NEW text, IsList(text), NEW s, NEW t, NEW f, NEW g,
         FoundBy(f, rule, s, text), FoundBy(g, other, t, text), rule # other \/ s # t
  PROVE  Clear(f, g)
<1>1. /\ s \in Nat /\ t \in Nat /\ Matches(rule, text, s) /\ Matches(other, text, t)
      /\ IsList(rule.words) /\ IsList(other.words)
  BY DEF FoundBy, IsRule
<1>2. s + Len(rule.words) <= t \/ t + Len(other.words) <= s  BY <1>1 DEF FormsStandApart
<1>3. /\ Len(rule.words) \in Nat /\ Len(other.words) \in Nat /\ Len(text) \in Nat
  BY <1>1, ListLen
<1>4. /\ s \in 0 .. Len(text) /\ s + Len(rule.words) \in 0 .. Len(text)
      /\ t \in 0 .. Len(text) /\ t + Len(other.words) \in 0 .. Len(text)
  BY <1>1, <1>3 DEF Matches
<1>. DEFINE a == s + Len(rule.words)
            b == t + Len(other.words)
            offsets == utf16_offsets(text)
<1>5. f.start = offsets[s] /\ f.end = offsets[a] /\ g.start = offsets[t] /\ g.end = offsets[b]
  BY DEF FoundBy
<1>6. (a <= t => offsets[a] <= offsets[t]) /\ (b <= s => offsets[b] <= offsets[s])
  BY <1>4, OffsetsGrow
<1>. QED  BY <1>2, <1>5, <1>6 DEF Clear

LEMMA MarkedSwitches ==
  ASSUME NEW f, IsFinding(f), Switches(f), NEW index
  PROVE  Switches(mark_bulk(f, index))
<1>. DEFINE b == [f EXCEPT !.bulk = index]
<1>1. b.bulk = index /\ b.alternatives = f.alternatives
  BY DEF IsFinding, FindingFields
<1>. HIDE DEF b
<1>2. mark_bulk(f, index) =
        IF index \in DOMAIN f.alternatives /\ ~f.alternatives[index].remove THEN b ELSE f
  BY DEF mark_bulk, b
<1>. QED  BY <1>1, <1>2 DEF Switches

\* What is in the switch, of what is found at a position, a rule for a form has found there.
FormsAt(fs, lang, text, start) ==
  \A i \in DOMAIN fs : fs[i].bulk # Nothing =>
    \E rule \in Forms(lang) : FoundBy(fs[i], rule, start, text)

FormsOf(fs, lang, text, start, n) ==
  \A i \in DOMAIN fs : fs[i].bulk # Nothing =>
    \E rule \in Forms(lang) : FoundBy(fs[i], rule, start, text) /\ Len(rule.words) = n

LEMMA WittyApart ==
  ASSUME FormsStandApart, NEW text, IsList(text), NEW lang, NEW config, IsConfig(config)
  PROVE  StandApart(witty_rules(text, lang, config))
<1>. DEFINE rules == {r \in Rules : r.lang = lang /\ Enabled(r, config)}
                       \union TermRules(config, lang)
            Rep(start, rule) ==
              LET result == Result(rule, text, start, start + Len(rule.words), lang, config)
              IN  IF rule.form THEN mark_bulk(result, 1) ELSE result
            Of(start, n) == {r \in rules : Len(r.words) = n /\ Matches(r, text, start)}
            OfLength(start, n) ==
              LET found == SetToSeq(Of(start, n)) IN [i \in DOMAIN found |-> Rep(start, found[i])]
            At(start) == FlattenSeq([n \in DOMAIN text |-> OfLength(start, n)])
            all == [i \in DOMAIN text |-> At(i - 1)]
<1>1. IsFiniteSet(rules) /\ \A r \in rules : IsRule(r)  BY RulesKept
<1>2. Len(text) \in Nat /\ DOMAIN text = 1 .. Len(text)  BY ListLen
<1>3. witty_rules(text, lang, config) = FlattenSeq(all)  BY DEF witty_rules
<1>4. ASSUME NEW rule \in rules, rule.form PROVE rule \in Forms(lang)
  <2>1. rule \notin TermRules(config, lang)  BY <1>4 DEF TermRules, IsConfig
  <2>. QED  BY <1>4, <2>1 DEF Forms
<1>. HIDE DEF rules
<1>5. ASSUME NEW start \in Nat, NEW rule \in rules, Matches(rule, text, start)
      PROVE  /\ FoundBy(Rep(start, rule), rule, start, text) /\ Switches(Rep(start, rule))
             /\ Rep(start, rule).bulk # Nothing => rule \in Forms(lang)
  <2>. DEFINE f == Rep(start, rule)
              result == Result(rule, text, start, start + Len(rule.words), lang, config)
  <2>1. IsRule(rule)  BY <1>1
  <2>2. f = IF rule.form THEN mark_bulk(result, 1) ELSE result  OBVIOUS
  <2>3. result.bulk = Nothing  BY DEF Result
  <2>4. Len(rule.words) \in Nat /\ AreAlternatives(rule.alternatives)
    BY <2>1, ListLen DEF IsRule, AreAlternatives
  <2>5. start + Len(rule.words) \in Nat /\ start + Len(rule.words) <= Len(text)
        /\ start <= Len(text)
    BY <1>2, <1>5, <2>4 DEF Matches
  <2>6. IsFinding(result)  BY <2>4, <2>5, ResultIsFinding
  <2>7. f = Result(rule, text, start, start + Len(rule.words), lang, config)
          \/ f = mark_bulk(Result(rule, text, start, start + Len(rule.words), lang, config), 1)
    BY <2>2
  <2>. HIDE DEF f
  <2>8. FoundBy(f, rule, start, text)  BY <1>5, <2>1, <2>7, ResultFound
  <2>. HIDE DEF result
  <2>9. Switches(result)  BY <2>3 DEF Switches
  <2>10. Switches(f)  BY <2>2, <2>6, <2>9, MarkedSwitches
  <2>11. f.bulk # Nothing => rule.form  BY <2>2, <2>3
  <2>12. f.bulk # Nothing => rule \in Forms(lang)  BY <2>11, <1>4
  <2>. QED  BY <2>8, <2>10, <2>12 DEF f
<1>. HIDE DEF Rep
<1>6. ASSUME NEW start \in Nat, NEW n
      PROVE  /\ IsList(OfLength(start, n)) /\ StandApart(OfLength(start, n))
             /\ FormsOf(OfLength(start, n), lang, text, start, n)
  <2>. DEFINE found == SetToSeq(Of(start, n))
              f == [i \in DOMAIN found |-> Rep(start, found[i])]
  <2>1. /\ Of(start, n) \subseteq rules
        /\ \A r \in Of(start, n) : Matches(r, text, start) /\ Len(r.words) = n
    OBVIOUS
  <2>2. IsFiniteSet(Of(start, n))  BY <2>1, <1>1, FS_Subset
  <2>. HIDE DEF Of
  <2>3. /\ IsList(found) /\ \A i \in DOMAIN found : found[i] \in Of(start, n)
        /\ \A i, k \in DOMAIN found : found[i] = found[k] => i = k
    BY <2>2, SetListed
  <2>. HIDE DEF found
  <2>4. Len(found) \in Nat /\ DOMAIN found = 1 .. Len(found)  BY <2>3, ListLen
  <2>5. \A i \in 1 .. Len(found) : f[i] = Rep(start, found[i])  BY <2>4
  <2>6. \A i \in 1 .. Len(found) :
          /\ FoundBy(f[i], found[i], start, text) /\ Switches(f[i])
          /\ f[i].bulk # Nothing => found[i] \in Forms(lang)
          /\ Len(found[i].words) = n
    BY <2>1, <2>3, <2>4, <2>5, <1>5
  <2>7. f = [i \in 1 .. Len(found) |-> f[i]]  BY <2>4
  <2>. HIDE DEF f
  <2>8. IsList(f) /\ DOMAIN f = 1 .. Len(found)  BY <2>4, <2>7, ListsMapped
  <2>9. ASSUME NEW i \in DOMAIN f, NEW k \in DOMAIN f, i # k, f[i].bulk # Nothing,
               f[k].bulk # Nothing
        PROVE  Clear(f[i], f[k])
    <3>1. found[i] # found[k]  BY <2>3, <2>4, <2>8, <2>9
    <3>2. /\ FoundBy(f[i], found[i], start, text) /\ found[i] \in Forms(lang)
          /\ FoundBy(f[k], found[k], start, text) /\ found[k] \in Forms(lang)
      BY <2>6, <2>8, <2>9
    <3>. QED  BY <3>1, <3>2, FormsClear
  <2>10. StandApart(f)  BY <2>6, <2>8, <2>9 DEF StandApart
  <2>11. FormsOf(f, lang, text, start, n)
    <3>1. ASSUME NEW i \in DOMAIN f, f[i].bulk # Nothing
          PROVE  \E rule \in Forms(lang) : FoundBy(f[i], rule, start, text) /\ Len(rule.words) = n
      <4>1. /\ found[i] \in Forms(lang) /\ FoundBy(f[i], found[i], start, text)
            /\ Len(found[i].words) = n
        BY <2>6, <2>8, <3>1
      <4>. QED  BY <4>1
    <3>. QED  BY <3>1 DEF FormsOf
  <2>. QED  BY <2>8, <2>10, <2>11 DEF f, found
<1>. HIDE DEF OfLength
<1>7. ASSUME NEW start \in Nat
      PROVE  IsList(At(start)) /\ StandApart(At(start)) /\ FormsAt(At(start), lang, text, start)
  <2>. DEFINE f == [n \in DOMAIN text |-> OfLength(start, n)]
  <2>1. \A n \in 1 .. Len(text) :
          IsList(f[n]) /\ StandApart(f[n]) /\ FormsOf(f[n], lang, text, start, n)
    BY <1>2, <1>6
  <2>2. f = [n \in 1 .. Len(text) |-> f[n]]  BY <1>2
  <2>. HIDE DEF f
  <2>3. IsList(f) /\ Len(f) = Len(text)  BY <1>2, <2>2, ListsMapped
  <2>4. ASSUME NEW m \in 1 .. Len(f), NEW n \in 1 .. Len(f), m < n PROVE AllClear(f[m], f[n])
    <3>1. ASSUME NEW i \in DOMAIN f[m], NEW k \in DOMAIN f[n], f[m][i].bulk # Nothing,
                 f[n][k].bulk # Nothing
          PROVE  Clear(f[m][i], f[n][k])
      <4>1. PICK rule \in Forms(lang) :
              FoundBy(f[m][i], rule, start, text) /\ Len(rule.words) = m
        BY <2>1, <2>3, <3>1 DEF FormsOf
      <4>2. PICK other \in Forms(lang) :
              FoundBy(f[n][k], other, start, text) /\ Len(other.words) = n
        BY <2>1, <2>3, <3>1 DEF FormsOf
      <4>3. rule # other  BY <2>4, <4>1, <4>2
      <4>. QED  BY <4>1, <4>2, <4>3, FormsClear
    <3>. QED  BY <3>1 DEF AllClear
  <2>5. StandApart(FlattenSeq(f))  BY <2>1, <2>3, <2>4, FlatApart
  <2>6. IsList(FlattenSeq(f)) /\ StandIn(FlattenSeq(f), f, Len(f))  BY <2>1, <2>3, FlattenedFrom
  <2>7. ASSUME NEW i \in DOMAIN FlattenSeq(f), FlattenSeq(f)[i].bulk # Nothing
        PROVE  \E rule \in Forms(lang) : FoundBy(FlattenSeq(f)[i], rule, start, text)
    <3>1. PICK m \in 1 .. Len(f) : \E j \in DOMAIN f[m] : FlattenSeq(f)[i] = f[m][j]
      BY <2>6 DEF StandIn
    <3>2. PICK j \in DOMAIN f[m] : FlattenSeq(f)[i] = f[m][j]  BY <3>1
    <3>3. FormsOf(f[m], lang, text, start, m)  BY <2>1, <2>3
    <3>. QED  BY <2>7, <3>2, <3>3 DEF FormsOf
  <2>8. FormsAt(FlattenSeq(f), lang, text, start)  BY <2>7 DEF FormsAt
  <2>. QED  BY <2>5, <2>6, <2>8 DEF f
<1>. HIDE DEF At
<1>8. StandApart(FlattenSeq(all))
  <2>1. ASSUME NEW i \in 1 .. Len(text)
        PROVE  /\ IsList(all[i]) /\ StandApart(all[i])
               /\ FormsAt(all[i], lang, text, i - 1) /\ i - 1 \in Nat
    <3>1. i - 1 \in Nat  BY <1>2
    <3>. QED  BY <3>1, <1>2, <1>7
  <2>2. all = [i \in 1 .. Len(text) |-> all[i]]  BY <1>2
  <2>. HIDE DEF all
  <2>3. IsList(all) /\ Len(all) = Len(text)  BY <1>2, <2>2, ListsMapped
  <2>4. ASSUME NEW m \in 1 .. Len(all), NEW n \in 1 .. Len(all), m < n
        PROVE  AllClear(all[m], all[n])
    <3>1. ASSUME NEW i \in DOMAIN all[m], NEW k \in DOMAIN all[n], all[m][i].bulk # Nothing,
                 all[n][k].bulk # Nothing
          PROVE  Clear(all[m][i], all[n][k])
      <4>1. PICK rule \in Forms(lang) : FoundBy(all[m][i], rule, m - 1, text)
        BY <2>1, <2>3, <3>1 DEF FormsAt
      <4>2. PICK other \in Forms(lang) : FoundBy(all[n][k], other, n - 1, text)
        BY <2>1, <2>3, <3>1 DEF FormsAt
      <4>3. m - 1 # n - 1  BY <2>3, <2>4, <1>2
      <4>. QED  BY <4>1, <4>2, <4>3, FormsClear
    <3>. QED  BY <3>1 DEF AllClear
  <2>. QED  BY <2>1, <2>3, <2>4, FlatApart
<1>. QED  BY <1>3, <1>8

\* A result only joins the switch clear of what is in it.
LEMMA MarkApart ==
  ASSUME NEW results, AreFindings(results), StandApart(results), NEW text, NEW lang, NEW words
  PROVE  StandApart(mark_masculines_for_bulk(results, text, lang, words))
<1>. DEFINE X == {fs \in MarkedVariants(results) : StandApart(fs)}
<1>1. results \in X  BY VariantsAreFindings
<1>2. ASSUME NEW fs \in X, NEW i PROVE Marked(fs, i, text, lang, words) \in X
  <2>. DEFINE g == [fs EXCEPT ![i] = mark_bulk(@, InclusiveAlternative(@))]
              f == fs[i]
  <2>1. AreFindings(fs) /\ StandApart(fs)  BY VariantsAreFindings
  <2>2. Marked(fs, i, text, lang, words) \in MarkedVariants(results)  BY OneMarked
  <2>3. SUFFICES ASSUME MayJoin(fs, fs[i], text, lang, words), i \in DOMAIN fs
                 PROVE  StandApart(g)
    <3>1. i \notin DOMAIN fs => g = fs
      <4>1. fs = [j \in DOMAIN fs |-> fs[j]]
        <5>1. fs \in Seq({fs[j] : j \in DOMAIN fs})  BY <2>1 DEF AreFindings, IsList
        <5>. QED  BY <5>1, ListLen, <2>1, LenProperties DEF AreFindings
      <4>. QED  BY <4>1
    <3>2. Marked(fs, i, text, lang, words) = IF MayJoin(fs, fs[i], text, lang, words) THEN g ELSE fs
      BY DEF Marked
    <3>. HIDE DEF g, X
    <3>3. StandApart(Marked(fs, i, text, lang, words))  BY <2>1, <2>3, <3>1, <3>2
    <3>. QED  BY <2>2, <3>3 DEF X
  <2>4. IsFinding(f) /\ f.start \in Nat /\ f.end \in Nat  BY <2>1, <2>3 DEF AreFindings, IsFinding
  <2>5. DOMAIN g = DOMAIN fs /\ \A k \in DOMAIN fs :
          g[k] = IF k = i THEN mark_bulk(f, InclusiveAlternative(f)) ELSE fs[k]
    BY <2>3
  <2>. HIDE DEF g
  <2>6. Switches(g[i]) /\ g[i].start = f.start /\ g[i].end = f.end
    <3>1. Switches(f)  BY <2>1, <2>3 DEF StandApart
    <3>2. \A field \in FindingFields \ {"bulk"} :
            mark_bulk(f, InclusiveAlternative(f))[field] = f[field]
      BY <2>4, MarkedBulk
    <3>3. Switches(mark_bulk(f, InclusiveAlternative(f)))  BY <2>4, <3>1, MarkedSwitches
    <3>. HIDE DEF f
    <3>. QED  BY <2>3, <2>5, <3>2, <3>3 DEF FindingFields
  <2>7. ASSUME NEW k \in DOMAIN fs, k # i, fs[k].bulk # Nothing
        PROVE  Clear(g[i], fs[k]) /\ Clear(fs[k], g[i])
    <3>1. ~(fs[k].start < f.end /\ f.start < fs[k].end)
      BY <2>3, <2>7 DEF MayJoin, ClearOf
    <3>2. fs[k].start \in Nat /\ fs[k].end \in Nat  BY <2>1 DEF AreFindings, IsFinding
    <3>. QED  BY <2>4, <2>6, <3>1, <3>2 DEF Clear
  <2>8. \A k \in DOMAIN g : Switches(g[k])  BY <2>1, <2>5, <2>6 DEF StandApart
  <2>9. ASSUME NEW h \in DOMAIN g, NEW k \in DOMAIN g, h # k, g[h].bulk # Nothing,
               g[k].bulk # Nothing
        PROVE  Clear(g[h], g[k])
    <3>1. CASE h # i /\ k # i  BY <2>1, <2>5, <2>9, <3>1 DEF StandApart
    <3>2. CASE h = i
      <4>1. g[k] = fs[k] /\ k \in DOMAIN fs /\ k # i  BY <2>5, <2>9, <3>2
      <4>. QED  BY <2>7, <2>9, <3>2, <4>1
    <3>3. CASE k = i
      <4>1. g[h] = fs[h] /\ h \in DOMAIN fs /\ h # i  BY <2>5, <2>9, <3>3
      <4>. QED  BY <2>7, <2>9, <3>3, <4>1
    <3>. QED  BY <3>1, <3>2, <3>3
  <2>. QED  BY <2>8, <2>9 DEF StandApart
<1>3. IsList(results)  BY DEF AreFindings
<1>. HIDE DEF X
<1>4. \A fs \in X : \A i : Marked(fs, i, text, lang, words) \in X  BY <1>2
<1>5. mark_masculines_for_bulk(results, text, lang, words) \in X  BY <1>1, <1>3, <1>4, MarkedIn
<1>. QED  BY <1>5 DEF X

LEMMA SortedApart ==
  ASSUME NEW lt_results, AreFindings(lt_results), Unmarked(lt_results),
         NEW results, AreFindings(results), StandApart(results),
         NEW sentences, NEW genuine, NEW text, NEW lang, NEW config
  PROVE  StandApart(SortedOut(lt_results, results, sentences, genuine, text, lang, config))
<1>. DEFINE fp == config.false_positives
            there == {i \in DOMAIN results : /\ LooksAt(results[i], sentences)
                                             /\ SentenceOf(results[i], sentences) \notin genuine}
            stands == context_false_positives(results, sentences, genuine)
            both == lt_results \o stands
            W == {i \in DOMAIN both : both[i].text \notin fp}
            left == KeptAt(both, W)
<1>1. Len(results) \in Nat /\ DOMAIN results = 1 .. Len(results) /\ IsList(results)
  BY ListLen DEF AreFindings
<1>2. stands = KeptAt(results, (1 .. Len(results)) \ there)
  BY <1>1, RemovedIsKept DEF context_false_positives
<1>3. SortedOut(lt_results, results, sentences, genuine, text, lang, config) =
        IF bulk_actions(lang, config) = {} THEN left
        ELSE mark_masculines_for_bulk(left, text, lang, InklusivumWords(left, lang))
  BY DEF SortedOut, apply_false_positives
<1>. HIDE DEF there, stands
<1>4. AreFindings(stands) /\ StandApart(stands)  BY <1>2, KeptFindings, KeptApart
<1>5. AreFindings(both) /\ StandApart(both)
  <2>1. StandApart(lt_results) /\ AllClear(lt_results, stands)  BY UnmarkedApart
  <2>2. IsList(lt_results) /\ IsList(stands)  BY <1>4 DEF AreFindings
  <2>. QED  BY <1>4, <2>1, <2>2, JoinedApart, JoinedFindings
<1>. HIDE DEF both, W
<1>6. AreFindings(left) /\ StandApart(left)  BY <1>5, KeptFindings, KeptApart
<1>. HIDE DEF left
<1>. QED  BY <1>3, <1>6, MarkApart

LEMMA LanguageToolUnmarked ==
  ASSUME NEW matches, NEW text, NEW lang, NEW config
  PROVE  Unmarked(languagetool_matches(matches, text, lang, config))
BY DEF Unmarked, languagetool_matches, MatchResult, Result

------------------------------------------------------------------------------
\* What a job has found stands apart, at every step.

IsApart(j) == StandApart(j.found) /\ (j.stage = "sort" => Unmarked(j.lt_results))

LEMMA OpenedFindsNothing ==
  ASSUME NEW r, IsRequest(r)
  PROVE  Opened(r).found = <<>> /\ Opened(r).stage # "sort"
<1>. DEFINE Begins(j) == j.found = <<>> /\ j.stage # "sort"
<1>1. ASSUME NEW response PROVE Begins(Done(Started(r), response))
  BY StartedIs DEF Done, IsFresh, JobFields
<1>2. ASSUME NEW q, NEW text, NEW whole PROVE Begins(Reviewing(Started(q), 1, text, whole))
  <2>. DEFINE k == Reviewing(Started(q), 1, text, whole)
  <2>1. DOMAIN Started(q) = JobFields /\ Started(q).found = <<>>  BY StartedIs DEF IsFresh
  <2>2. ReviewGoesOn(Started(q), k, 1, text, whole)
    BY <2>1, ReviewingGives
  <2>. HIDE DEF k
  <2>3. k.found = <<>> /\ k.stage # "sort"  BY <2>1, <2>2 DEF ReviewGoesOn, Stays, JobFields
  <2>. QED  BY <2>3 DEF k
<1>3. CASE r.route = "check"
  <2>. DEFINE j == [Started(r) EXCEPT !.stage = "read", !.answer = r.text]
  <2>1. Opened(r) = Done(Started(r), Results(<<>>)) \/ Opened(r) = j
    BY <1>3 DEF Opened, OpenedCheck
  <2>2. j.stage = "read" /\ j.found = <<>>  BY StartedIs DEF IsFresh, JobFields
  <2>. HIDE DEF j
  <2>. QED  BY <1>1, <2>1, <2>2
<1>4. CASE r.route = "lt"
  <2>. DEFINE data == r.text = <<>> /\ r.annotations # <<>>
              text == IF data THEN TextOf(r.annotations) ELSE r.text
              spans == IF data THEN markup_spans(r.annotations) ELSE {}
              j == [Started(r) EXCEPT !.stage = "read", !.request.lang = resolve_lang(r.code),
                                      !.answer = text, !.spans = spans]
  <2>. HIDE DEF text, spans
  <2>1. j.stage = "read" /\ j.found = <<>>  BY StartedIs DEF IsFresh, JobFields
  <2>. HIDE DEF j
  <2>2. \/ OpenedLt(r) = Done(Started(r), Refusal)
        \/ OpenedLt(r) = Done(Started(r), Matched(<<>>, <<>>))
        \/ OpenedLt(r) = j
    BY DEF OpenedLt, text, spans, j
  <2>3. Opened(r) = OpenedLt(r)  BY <1>4 DEF Opened
  <2>. QED  BY <1>1, <2>1, <2>2, <2>3
<1>5. CASE r.route = "guardrail"
  <2>. DEFINE j == [Started(Reviewed(r)) EXCEPT !.stage = "read", !.answer = r.text]
  <2>1. Opened(r) = Done(Started(r), Refusal) \/ Opened(r) = j
    BY <1>5 DEF Opened, OpenedGuardrail
  <2>2. j.stage = "read" /\ j.found = <<>>  BY StartedIs DEF IsFresh, JobFields
  <2>. HIDE DEF j
  <2>. QED  BY <1>1, <2>1, <2>2
<1>6. CASE r.route = "input"
  <2>1. Opened(r) = OpenedInput(r)  BY <1>6 DEF Opened
  <2>. HIDE DEF Begins
  <2>2. Begins(OpenedInput(r))  BY <1>1 DEF OpenedInput
  <2>. QED  BY <2>1, <2>2 DEF Begins
<1>7. CASE r.route = "litellm"
  <2>1. Opened(r) = OpenedLitellm(r)  BY <1>7 DEF Opened
  <2>. HIDE DEF Begins
  <2>2. Begins(OpenedLitellm(r))  BY <1>1, <1>2 DEF OpenedLitellm
  <2>. QED  BY <2>1, <2>2 DEF Begins
<1>8. CASE r.route = "form"
  <2>. DEFINE d == Done(Started(r), Nothing)
  <2>1. Opened(r) = [d EXCEPT !.form = r.form.written, !.format = r.form.format]
    BY <1>8 DEF Opened
  <2>2. DOMAIN d = JobFields /\ d.stage = "done" /\ d.found = <<>>
    BY StartedIs DEF Done, IsFresh, JobFields
  <2>. HIDE DEF d
  <2>. QED  BY <2>1, <2>2 DEF JobFields
<1>. QED  BY <1>3, <1>4, <1>5, <1>6, <1>7, <1>8 DEF IsRequest, Routes

\* Whatever a step keeps of what is found still stands apart.
LEMMA StaysApart ==
  ASSUME NEW j, IsApart(j), NEW k, k.found = j.found, k.stage # "sort"
  PROVE  IsApart(k)
BY DEF IsApart

LEMMA ReadOnApart ==
  ASSUME FormsStandApart, IsGood(job), job.stage = "read", NEW part, IsList(part),
         NEW k, ReadOn(job, k, part)
  PROVE  IsApart(k)
<1>1. IsConfig(job.request.config)  BY DEF IsGood, IsAmongTexts, IsRequest
<1>2. StandApart(k.found)  BY <1>1, WittyApart DEF ReadOn
<1>3. Unmarked(k.lt_results)  BY NothingApart DEF ReadOn
<1>. QED  BY <1>2, <1>3 DEF IsApart

LEMMA ReadFailedApart ==
  ASSUME IsApart(job), NEW part, NEW k, ReadFailed(job, k, part)
  PROVE  IsApart(k)
<1>1. k.found = job.found /\ k.stage = "failed"  BY DEF ReadFailed, Stays, JobFields
<1>. QED  BY <1>1, StaysApart

LEMMA ReadApart ==
  ASSUME FormsStandApart, IsGood(job), IsApart(job), ReadText \/ ReadAnswer
  PROVE  IsApart(job')
<1>1. DOMAIN job = JobFields /\ IsList(job.answer)  BY DEF IsGood, IsJob
<1>2. CASE ReadText
  <2>. DEFINE part == fetch_text(job.answer)
              done == Done(job, Refusal)
  <2>1. job.stage = "read" /\ job' = Read(part, done)  BY <1>2 DEF ReadText
  <2>2. IsList(part)  BY <1>1, FetchedText
  <2>3. done.stage = "done" /\ done.found = job.found
    <3>1. Stays(job, done, {"stage", "response"}) /\ done.stage = "done"  BY <1>1, DoneIs
    <3>. HIDE DEF done
    <3>. QED  BY <3>1 DEF Stays, JobFields
  <2>. HIDE DEF part, done
  <2>4. job' = done \/ ReadFailed(job, job', part) \/ ReadOn(job, job', part)
    BY <1>1, <2>1, ReadGives
  <2>. QED  BY <2>1, <2>2, <2>3, <2>4, StaysApart, ReadOnApart, ReadFailedApart
<1>3. CASE ReadAnswer
  <2>. DEFINE part == Part(Looked(job.answer), job.start)
              start == Behind(job.start, part)
  <2>1. /\ job.stage = "read"
        /\ \/ job' = [job EXCEPT !.stage = "verdict"]
           \/ job' = [job EXCEPT !.start = start]
           \/ job.start < Len(Looked(job.answer))
                /\ (ReadFailed(job, job', part) \/ ReadOn(job, job', part))
    BY <1>3, ReadAnswerGives
  <2>2. job.start < Len(Looked(job.answer)) => IsList(part)  BY NextPart
  <2>. HIDE DEF part, start
  <2>3. CASE job' = [job EXCEPT !.stage = "verdict"] \/ job' = [job EXCEPT !.start = start]
    <3>1. job'.found = job.found /\ job'.stage \in {"verdict", "read"}
      BY <1>1, <2>1, <2>3 DEF JobFields
    <3>. QED  BY <3>1, StaysApart
  <2>. QED  BY <2>1, <2>2, <2>3, ReadOnApart, ReadFailedApart
<1>. QED  BY <1>2, <1>3

LEMMA AskApart ==
  ASSUME IsGood(job), IsApart(job), AskLanguageTool
  PROVE  IsApart(job')
<1>1. job.stage = "languagetool"  BY AskGives
<1>2. CASE Stays(job, job', {"stage", "down"}) /\ job'.stage = "failed"
  <2>1. job'.found = job.found  BY <1>2 DEF Stays, JobFields
  <2>. QED  BY <1>2, <2>1, StaysApart
<1>3. ASSUME Stays(job, job', {"stage", "lt_results"}), NEW matches,
             job'.lt_results = languagetool_matches(matches, job.part, Lang, job.request.config)
      PROVE  IsApart(job')
  <2>1. job'.found = job.found  BY <1>3 DEF Stays, JobFields
  <2>2. Unmarked(job'.lt_results)  BY <1>3, LanguageToolUnmarked
  <2>. QED  BY <2>1, <2>2 DEF IsApart
<1>. QED  BY <1>2, <1>3, AskGives

LEMMA SortApart ==
  ASSUME IsGood(job), IsApart(job), Sort
  PROVE  IsApart(job')
<1>1. job.stage = "sort" /\ AreFindings(job.found) /\ AreFindings(job.lt_results)
  BY SortGives DEF IsGood, IsJob
<1>2. ASSUME NEW genuine, SortsTo(job, job', genuine) PROVE IsApart(job')
  <2>. DEFINE sorted == SortedOut(job.lt_results, job.found, Sentences(job.part), genuine,
                                  job.part, LangOf[job.locale], job.request.config)
  <2>1. StandApart(sorted)  BY <1>1, SortedApart DEF IsApart
  <2>2. job'.found = sorted /\ job'.stage \in {"done", "read"}  BY <1>2 DEF SortsTo
  <2>. QED  BY <2>1, <2>2 DEF IsApart
<1>3. CASE Stays(job, job', {"stage", "down"}) /\ job'.stage = "failed"
  <2>1. job'.found = job.found  BY <1>3 DEF Stays, JobFields
  <2>. QED  BY <1>3, <2>1, StaysApart
<1>. QED  BY <1>2, <1>3, SortGives

LEMMA JudgeApart ==
  ASSUME IsGood(job), IsApart(job), JudgeText
  PROVE  IsApart(job')
<1>1. DOMAIN job = JobFields  BY DEF IsGood, IsJob
<1>2. ASSUME NEW j, IsApart(j), NEW index, NEW text, NEW whole,
             ReviewGoesOn(j, job', index, text, whole)
      PROVE  IsApart(job')
  <2>1. job'.found = j.found /\ job'.stage # "sort"
    BY <1>2 DEF ReviewGoesOn, Stays, JobFields
  <2>. QED  BY <1>2, <2>1, StaysApart
<1>3. ASSUME NEW answer, NEW issue, AnswerGoesOn(answer, issue, job') PROVE IsApart(job')
  <2>. DEFINE judged == JudgedWith(answer, issue)
              done == Done(judged, LitellmOut(judged))
  <2>1. DOMAIN judged = JobFields /\ judged.found = job.found /\ judged.stage = job.stage
    BY <1>1 DEF JudgedWith, JobFields
  <2>2. judged.stage # "sort"  BY <2>1, JudgeGives
  <2>3. AnswerGoesOn(answer, issue, job') =>
          (\E index, text, whole : ReviewGoesOn(judged, job', index, text, whole)) \/ job' = done
    BY DEF AnswerGoesOn
  <2>. HIDE DEF judged
  <2>4. IsApart(judged)  BY <2>1, <2>2, StaysApart
  <2>5. done.stage = "done" /\ done.found = judged.found
    <3>1. Stays(judged, done, {"stage", "response"}) /\ done.stage = "done"  BY <2>1, DoneIs
    <3>. HIDE DEF done
    <3>. QED  BY <3>1 DEF Stays, JobFields
  <2>. HIDE DEF done
  <2>. QED  BY <1>2, <1>3, <2>3, <2>4, <2>5, StaysApart
<1>4. ASSUME NEW index, NEW text, NEW whole, ReviewGoesOn(job, job', index, text, whole)
      PROVE  IsApart(job')
  BY <1>2, <1>4
<1>. QED  BY <1>3, <1>4, JudgeGives

JobIsApart == IsApart(job)

LEMMA JobStaysApart ==
  ASSUME FormsStandApart
  PROVE  JobIsGood /\ JobIsApart /\ [Next]_job => JobIsApart'
<1>. SUFFICES ASSUME IsGood(job), IsApart(job), [Next]_job PROVE IsApart(job')
  BY DEF JobIsGood, JobIsApart
<1>1. ASSUME NEW j, j.found = <<>>, j.stage # "sort" PROVE IsApart(j)
  BY <1>1, NothingApart DEF IsApart
<1>2. CASE Receive
  <2>1. PICK r \in Requests : job' = Opened(r)  BY <1>2 DEF Receive
  <2>2. IsRequest(r)  BY TextChecksAssumption
  <2>. QED  BY <1>1, <2>1, <2>2, OpenedFindsNothing
<1>3. CASE SendAgain \/ NextTurn
  <2>1. PICK r, resends : IsRequest(r) /\ job' = [Opened(r) EXCEPT !.resends = resends]
    BY <1>3, OpensAgain
  <2>2. DOMAIN Opened(r) = JobFields  BY <2>1, OpenedIsGood DEF IsGood, IsJob
  <2>3. job'.found = Opened(r).found /\ job'.stage = Opened(r).stage
    BY <2>1, <2>2 DEF JobFields
  <2>. QED  BY <1>1, <2>1, <2>3, OpenedFindsNothing
<1>4. CASE Verdict
  <2>1. \E response : job' = Done(job, response)  BY <1>4 DEF Verdict
  <2>2. PICK response : job' = Done(job, response)  BY <2>1
  <2>3. Stays(job, job', {"stage", "response"}) /\ job'.stage = "done"
    BY <2>2, DoneIs DEF IsGood, IsJob
  <2>4. job'.found = job.found  BY <2>3 DEF Stays, JobFields
  <2>. QED  BY <2>3, <2>4, StaysApart
<1>5. CASE ReadText \/ ReadAnswer \/ AskLanguageTool \/ Sort \/ JudgeText
  BY <1>5, ReadApart, AskApart, SortApart, JudgeApart
<1>6. CASE SwitchFormat \/ SwitchIntoInklusivum
  <2>1. job.stage = "done" /\ Stays(job, job', {"form", "format"})
    BY <1>6, SwitchGives DEF IsGood, IsJob
  <2>2. job'.stage = "done" /\ job'.found = job.found  BY <2>1 DEF Stays, JobFields
  <2>. QED  BY <2>2, StaysApart
<1>7. CASE Leave
  <2>1. job'.stage = "idle" /\ job'.found = <<>>  BY <1>7 DEF Leave, Idle
  <2>. QED  BY <1>1, <2>1
<1>8. CASE UNCHANGED job  BY <1>8
<1>. QED  BY <1>2, <1>3, <1>4, <1>5, <1>6, <1>7, <1>8 DEF Next, Serve

\* No two results of the switch of the gender format overlap, and each has the alternative it
\* is switched to, wherever no two forms overlap in a text: those the rules find and mark at
\* once (app/regex_check.py:430, app/rule_processors.py:144) by the loop that goes on behind
\* each, the masculines because app/gender_format.py only lets them in clear of the others.
THEOREM SwitchedResultsStandApart ==
  ASSUME FormsStandApart
  PROVE  Spec => []BulkApart
<1>1. Init => JobIsApart
  <2>1. Idle.stage = "idle" /\ Idle.found = <<>>  BY DEF Idle
  <2>. QED  BY <2>1, NothingApart DEF Init, JobIsApart, IsApart
<1>2. JobIsApart => BulkApart
  BY DEF JobIsApart, IsApart, StandApart, Switches, Clear, BulkApart
<1>. QED  BY <1>1, <1>2, JobStaysApart, JobsAreGood, PTL DEF Spec

=============================================================================
