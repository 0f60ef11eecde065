--------------------------- MODULE TranslationProofs ---------------------------
(***************************************************************************)
(* Proofs about the translation between the two APIs, for whatever clients *)
(* and upstreams send: of whole requests and answers (RequestTranslation)  *)
(* and of event streams of any length (StreamRelay).                       *)
(***************************************************************************)
EXTENDS RequestTranslation, StreamRelay, SequenceTheorems, WellFoundedInduction, TLAPS

-----------------------------------------------------------------------------
(* Sequences.  A set stands for the property an induction is about. *)

\* Induction over the natural numbers, for a property given as a set.
LEMMA SetInduction ==
  ASSUME NEW S, 0 \in S, \A n \in Nat : n \in S => n + 1 \in S
  PROVE  Nat \subseteq S
<1> DEFINE T == Nat \ S
<1> SUFFICES ASSUME T # {} PROVE FALSE
  OBVIOUS
<1>1. IsWellFoundedOn(OpToRel(<, Nat), Nat)
  BY NatLessThanWellFounded
<1>2. PICK x \in T : \A y \in T : ~ (<<y, x>> \in OpToRel(<, Nat))
  <2>1. T \subseteq Nat OBVIOUS
  <2> HIDE DEF T
  <2> QED BY <1>1, <2>1, WFMin
<1>3. \A y \in T : ~ (y < x)
  BY <1>2 DEF OpToRel
<1>4. x # 0
  OBVIOUS
<1>5. x - 1 \in Nat /\ x - 1 \notin T
  BY <1>3, <1>4
<1> QED
  BY <1>5

\* Induction over sequences, at their end.
LEMMA AppendInduction ==
  ASSUME NEW T, NEW S, <<>> \in S,
         \A s \in Seq(T), x \in T : s \in S => Append(s, x) \in S
  PROVE  Seq(T) \subseteq S
<1> DEFINE N == {n \in Nat : \A s \in Seq(T) : Len(s) = n => s \in S}
<1>1. 0 \in N
  BY EmptySeq
<1>2. ASSUME NEW n \in Nat, n \in N PROVE n + 1 \in N
  <2> SUFFICES ASSUME NEW s \in Seq(T), Len(s) = n + 1 PROVE s \in S
    OBVIOUS
  <2> DEFINE front == SubSeq(s, 1, n)
  <2>1. front \in Seq(T) /\ Len(front) = n
    BY <1>2
  <2>2. s[n + 1] \in T
    BY <1>2
  <2>3. s = Append(front, s[n + 1])
    BY <1>2
  <2> HIDE DEF front
  <2> QED
    BY <1>2, <2>1, <2>2, <2>3
<1>3. Nat \subseteq N
  <2> HIDE DEF N
  <2> QED
    BY <1>1, <1>2, SetInduction
<1> QED
  BY <1>3, LenProperties

\* f is the recursive function of At.
AtRun(f, T, seq, places) ==
  /\ f \in [0..Len(seq) -> Seq(T)]
  /\ f[0] = <<>>
  /\ \A i \in 1..Len(seq) : f[i] = IF i \in places THEN Append(f[i - 1], seq[i]) ELSE f[i - 1]
  /\ At(seq, places) = f[Len(seq)]

\* There is such a function.
LEMMA AtSteps ==
  ASSUME NEW T, NEW seq \in Seq(T), NEW places
  PROVE  \E f : AtRun(f, T, seq, places)
<1> DEFINE next(s, i) == IF i \in places THEN Append(s, seq[i]) ELSE s
           Run(f, n) == /\ f \in [0..n -> Seq(T)]
                        /\ f[0] = <<>>
                        /\ \A i \in 1..n : f[i] = next(f[i - 1], i)
           Ok == {n \in Nat : n <= Len(seq) => \E f : Run(f, n)}
<1>1. Len(seq) \in Nat
  OBVIOUS
<1>2. \A s \in Seq(T), i \in 1..Len(seq) : next(s, i) \in Seq(T)
  OBVIOUS
<1> HIDE DEF next
<1>3. 0 \in Ok
  <2> DEFINE f == [i \in 0..0 |-> <<>>]
  <2>1. f \in [0..0 -> Seq(T)] /\ f[0] = <<>> /\ 1..0 = {}
    OBVIOUS
  <2>2. Run(f, 0)
    BY <2>1
  <2> QED
    BY <2>2
<1>4. ASSUME NEW n \in Nat, n \in Ok PROVE n + 1 \in Ok
  <2> SUFFICES ASSUME n + 1 <= Len(seq) PROVE \E g : Run(g, n + 1)
    <3> HIDE DEF Run
    <3> QED OBVIOUS
  <2>1. PICK f : Run(f, n)
    <3> HIDE DEF Run
    <3> QED
      BY <1>1, <1>4
  <2> DEFINE last == next(f[n], n + 1)
             g == [i \in 0..(n + 1) |-> IF i = n + 1 THEN last ELSE f[i]]
  <2>2. last \in Seq(T)
    BY <2>1, <1>1, <1>2
  <2> HIDE DEF last
  <2>3. g \in [0..(n + 1) -> Seq(T)]
    BY <2>1, <2>2
  <2>4. g[0] = <<>>
    BY <2>1
  <2>5. ASSUME NEW i \in 1..(n + 1) PROVE g[i] = next(g[i - 1], i)
    <3>1. CASE i = n + 1
      <4>1. g[i - 1] = f[n] /\ g[i] = last
        BY <3>1
      <4> QED
        BY <4>1, <3>1 DEF last
    <3>2. CASE i \in 1..n
      <4>1. g[i - 1] = f[i - 1] /\ g[i] = f[i]
        BY <3>2
      <4> QED
        BY <4>1, <3>2, <2>1
    <3> QED
      BY <3>1, <3>2
  <2> HIDE DEF g
  <2>6. Run(g, n + 1)
    BY <2>3, <2>4, <2>5
  <2> QED
    BY <2>6
<1>5. Nat \subseteq Ok
  <2> HIDE DEF Ok
  <2> QED
    BY <1>3, <1>4, SetInduction
<1>6. PICK f : Run(f, Len(seq))
  <2> HIDE DEF Run
  <2> QED
    BY <1>1, <1>5
<1> DEFINE step(g, i) == IF i = 0 THEN <<>>
                         ELSE IF i \in places THEN Append(g[i - 1], seq[i]) ELSE g[i - 1]
           Is(g) == g = [i \in 0..Len(seq) |-> step(g, i)]
           h == CHOOSE g : Is(g)
<1>7. Is(f)
  <2>1. ASSUME NEW i \in 0..Len(seq) PROVE f[i] = step(f, i)
    <3>1. CASE i = 0
      BY <3>1, <1>6
    <3>2. CASE i \in 1..Len(seq)
      BY <3>2, <1>6 DEF next
    <3> QED
      BY <1>1, <3>1, <3>2
  <2> HIDE DEF step
  <2> QED
    BY <2>1, <1>6
<1>8. Is(h)
  BY <1>7, Zenon
<1>9. At(seq, places) = h[Len(seq)]
  BY DEF At
<1> HIDE DEF h
<1>10. \A i \in 0..Len(seq) : h[i] = step(h, i)
  <2> HIDE DEF step
  <2> QED
    BY <1>8
<1>11. h[0] = <<>>
  BY <1>10, <1>1
<1>12. ASSUME NEW i \in 1..Len(seq) PROVE h[i] = next(h[i - 1], i)
  <2>1. i \in 0..Len(seq) /\ i # 0
    BY <1>1
  <2> QED
    BY <2>1, <1>10 DEF next
<1> DEFINE Same == {n \in Nat : n <= Len(seq) => h[n] = f[n]}
<1>13. 0 \in Same
  BY <1>6, <1>11
<1>14. ASSUME NEW n \in Nat, n \in Same PROVE n + 1 \in Same
  <2> SUFFICES ASSUME n + 1 <= Len(seq) PROVE h[n + 1] = f[n + 1]
    OBVIOUS
  <2>1. n + 1 \in 1..Len(seq) /\ (n + 1) - 1 = n
    BY <1>1
  <2> QED
    BY <2>1, <1>6, <1>12, <1>14
<1>15. Nat \subseteq Same
  <2> HIDE DEF Same
  <2> QED
    BY <1>13, <1>14, SetInduction
<1>16. h[Len(seq)] = f[Len(seq)]
  BY <1>15, <1>1
<1>17. AtRun(f, T, seq, places)
  BY <1>6, <1>9, <1>16 DEF AtRun, next
<1> QED
  BY <1>17

\* Only the places within the sequence count.
LEMMA AtSame ==
  ASSUME NEW T, NEW seq \in Seq(T), NEW I, NEW J,
         \A i \in 1..Len(seq) : i \in I <=> i \in J
  PROVE  At(seq, I) = At(seq, J)
<1>1. PICK f : AtRun(f, T, seq, I)
  BY AtSteps
<1>2. PICK g : AtRun(g, T, seq, J)
  BY AtSteps
<1> DEFINE Same == {n \in Nat : n <= Len(seq) => f[n] = g[n]}
<1>3. 0 \in Same
  BY <1>1, <1>2 DEF AtRun
<1>4. ASSUME NEW n \in Nat, n \in Same PROVE n + 1 \in Same
  <2> SUFFICES ASSUME n + 1 <= Len(seq) PROVE f[n + 1] = g[n + 1]
    OBVIOUS
  <2>1. n + 1 \in 1..Len(seq) /\ (n + 1) - 1 = n /\ f[n] = g[n]
    BY <1>4
  <2> QED
    BY <2>1, <1>1, <1>2 DEF AtRun
<1>5. Nat \subseteq Same
  <2> HIDE DEF Same
  <2> QED
    BY <1>3, <1>4, SetInduction
<1>6. Len(seq) \in Same
  <2> HIDE DEF Same
  <2> QED
    BY <1>5, LenProperties
<1> QED
  BY <1>1, <1>2, <1>6 DEF AtRun

\* Nothing is at any place of an empty sequence.
LEMMA AtEmpty ==
  ASSUME NEW places
  PROVE  At(<<>>, places) = <<>>
<1>1. <<>> \in Seq({}) /\ Len(<<>>) = 0
  BY EmptySeq
<1>2. PICK f : AtRun(f, {}, <<>>, places)
  BY <1>1, AtSteps
<1> QED
  BY <1>1, <1>2 DEF AtRun

\* What is taken from a sequence is of its type.
LEMMA AtType ==
  ASSUME NEW T, NEW seq \in Seq(T), NEW places
  PROVE  At(seq, places) \in Seq(T)
<1>1. Len(seq) \in 0..Len(seq)
  BY LenProperties
<1>2. PICK f : AtRun(f, T, seq, places)
  BY AtSteps
<1> QED
  BY <1>1, <1>2 DEF AtRun

\* One element more.
LEMMA AtAppend ==
  ASSUME NEW T, NEW seq \in Seq(T), NEW x \in T, NEW places
  PROVE  At(Append(seq, x), places) =
           IF Len(seq) + 1 \in places THEN Append(At(seq, places), x) ELSE At(seq, places)
<1> DEFINE longer == Append(seq, x)
<1>1. /\ longer \in Seq(T) /\ Len(longer) = Len(seq) + 1 /\ Len(seq) \in Nat
      /\ \A i \in 1..Len(seq) : longer[i] = seq[i]
      /\ longer[Len(seq) + 1] = x
  BY AppendProperties
<1> HIDE DEF longer
<1>2. PICK f : AtRun(f, T, seq, places)
  BY AtSteps
<1>3. PICK g : AtRun(g, T, longer, places)
  BY <1>1, AtSteps
<1> DEFINE Same == {k \in Nat : k <= Len(seq) => f[k] = g[k]}
<1>4. 0 \in Same
  BY <1>2, <1>3 DEF AtRun
<1>5. ASSUME NEW k \in Nat, k \in Same PROVE k + 1 \in Same
  <2> SUFFICES ASSUME k + 1 <= Len(seq) PROVE f[k + 1] = g[k + 1]
    OBVIOUS
  <2>1. k + 1 \in 1..Len(seq) /\ k + 1 \in 1..Len(longer) /\ (k + 1) - 1 = k
    BY <1>1
  <2>2. f[k] = g[k] /\ longer[k + 1] = seq[k + 1]
    BY <1>1, <1>5, <2>1
  <2> QED
    BY <2>1, <2>2, <1>2, <1>3 DEF AtRun
<1>6. Nat \subseteq Same
  <2> HIDE DEF Same
  <2> QED
    BY <1>4, <1>5, SetInduction
<1>7. f[Len(seq)] = g[Len(seq)]
  BY <1>1, <1>6
<1>8. Len(seq) + 1 \in 1..Len(longer) /\ (Len(seq) + 1) - 1 = Len(seq)
  BY <1>1
<1>9. g[Len(longer)] =
        IF Len(seq) + 1 \in places THEN Append(g[Len(seq)], x) ELSE g[Len(seq)]
  BY <1>1, <1>3, <1>8 DEF AtRun
<1>10. At(seq, places) = f[Len(seq)] /\ At(longer, places) = g[Len(longer)]
  BY <1>2, <1>3 DEF AtRun
<1> QED
  BY <1>7, <1>9, <1>10 DEF longer

\* Nothing is added that is not at one of the places.
LEMMA AtElements ==
  ASSUME NEW T, NEW seq \in Seq(T), NEW places, NEW U,
         \A i \in 1..Len(seq) : i \in places => seq[i] \in U
  PROVE  At(seq, places) \in Seq(U)
<1>1. PICK f : AtRun(f, T, seq, places)
  BY AtSteps
<1>2. Len(seq) \in Nat
  OBVIOUS
<1> DEFINE V == {k \in Nat : k <= Len(seq) => f[k] \in Seq(U)}
<1>4. 0 \in V
  BY <1>1, EmptySeq DEF AtRun
<1>5. ASSUME NEW k \in Nat, k \in V PROVE k + 1 \in V
  <2> SUFFICES ASSUME k + 1 <= Len(seq) PROVE f[k + 1] \in Seq(U)
    OBVIOUS
  <2>1. k + 1 \in 1..Len(seq) /\ (k + 1) - 1 = k /\ f[k] \in Seq(U)
    BY <1>2, <1>5
  <2>2. f[k + 1] = IF k + 1 \in places THEN Append(f[k], seq[k + 1]) ELSE f[k]
    BY <1>1, <2>1 DEF AtRun
  <2>3. k + 1 \in places => seq[k + 1] \in U
    BY <2>1
  <2> QED
    BY <2>1, <2>2, <2>3, AppendProperties
<1>6. Nat \subseteq V
  <2> HIDE DEF V
  <2> QED
    BY <1>4, <1>5, SetInduction
<1>7. f[Len(seq)] \in Seq(U)
  BY <1>2, <1>6
<1> QED
  BY <1>1, <1>7 DEF AtRun

\* Every place taken gives the sequence back.
LEMMA AtAll ==
  ASSUME NEW T, NEW seq \in Seq(T), NEW places, \A i \in 1..Len(seq) : i \in places
  PROVE  At(seq, places) = seq
<1> DEFINE S == {s \in Seq(T) : At(s, Nat) = s}
<1>1. <<>> \in S
  BY AtEmpty, EmptySeq
<1>2. ASSUME NEW s \in Seq(T), NEW x \in T, s \in S PROVE Append(s, x) \in S
  <2>1. At(Append(s, x), Nat) = Append(At(s, Nat), x)
    BY AtAppend, LenProperties
  <2> QED
    BY <2>1, <1>2, AppendProperties
<1>3. Seq(T) \subseteq S
  <2> HIDE DEF S
  <2> QED
    BY <1>1, <1>2, AppendInduction
<1>4. At(seq, places) = At(seq, Nat)
  BY AtSame
<1> QED
  BY <1>3, <1>4

\* No place taken gives nothing.
LEMMA AtNone ==
  ASSUME NEW T, NEW seq \in Seq(T), NEW places, \A i \in 1..Len(seq) : i \notin places
  PROVE  At(seq, places) = <<>>
<1>1. At(seq, places) \in Seq({})
  BY AtElements
<1> QED
  BY <1>1

\* The places of a second sequence are counted after the first, of n elements.
Shifted(places, n) == {i \in Nat : n + i \in places}

\* What is taken from two sequences joined, the places of the second shifted.
LEMMA AtConcatShifted ==
  ASSUME NEW T, NEW a \in Seq(T), NEW b \in Seq(T), NEW places
  PROVE  At(a \o b, places) = At(a, places) \o At(b, Shifted(places, Len(a)))
<1> DEFINE shifted == Shifted(places, Len(a))
           S == {s \in Seq(T) : At(a \o s, places) = At(a, places) \o At(s, shifted)}
<1>1. <<>> \in S
  BY AtEmpty, AtType, EmptySeq, ConcatEmptySeq
<1>2. ASSUME NEW s \in Seq(T), NEW x \in T, s \in S PROVE Append(s, x) \in S
  <2>1. a \o Append(s, x) = Append(a \o s, x) /\ a \o s \in Seq(T)
    OBVIOUS
  <2>2. Len(a \o s) + 1 \in places <=> Len(s) + 1 \in shifted
    <3>1. Len(a \o s) = Len(a) + Len(s) /\ Len(a) \in Nat /\ Len(s) \in Nat
      OBVIOUS
    <3>2. Len(a \o s) + 1 = Len(a) + (Len(s) + 1) /\ Len(s) + 1 \in Nat
      BY <3>1
    <3> QED
      BY <3>2 DEF Shifted
  <2> HIDE DEF shifted
  <2>3. At(Append(a \o s, x), places) =
          IF Len(s) + 1 \in shifted THEN Append(At(a \o s, places), x) ELSE At(a \o s, places)
    <3>1. At(Append(a \o s, x), places) =
            IF Len(a \o s) + 1 \in places THEN Append(At(a \o s, places), x)
            ELSE At(a \o s, places)
      <4> DEFINE w == a \o s
      <4>1. w \in Seq(T) /\ a \o Append(s, x) = Append(w, x)
        BY <2>1
      <4> HIDE DEF w
      <4>2. At(Append(w, x), places) =
              IF Len(w) + 1 \in places THEN Append(At(w, places), x) ELSE At(w, places)
        BY <4>1, AtAppend
      <4> QED
        BY <2>1, <4>2 DEF w
    <3> QED
      BY <2>2, <3>1
  <2>4. At(Append(s, x), shifted) =
          IF Len(s) + 1 \in shifted THEN Append(At(s, shifted), x) ELSE At(s, shifted)
    BY AtAppend
  <2>5. At(a \o s, places) = At(a, places) \o At(s, shifted)
    BY <1>2
  <2>6. At(a, places) \in Seq(T) /\ At(s, shifted) \in Seq(T)
    BY AtType
  <2>7. At(a, places) \o Append(At(s, shifted), x) = Append(At(a, places) \o At(s, shifted), x)
    BY <2>6
  <2>8. At(a \o Append(s, x), places) = At(a, places) \o At(Append(s, x), shifted)
    BY <2>1, <2>3, <2>4, <2>5, <2>7
  <2> QED
    BY <2>8, AppendProperties
<1>3. Seq(T) \subseteq S
  <2> HIDE DEF S
  <2> QED
    BY <1>1, <1>2, AppendInduction
<1> QED
  BY <1>3

\* The same, the places of the second given as they are.
LEMMA AtConcat ==
  ASSUME NEW T, NEW a \in Seq(T), NEW b \in Seq(T), NEW places, NEW after,
         \A i \in 1..Len(b) : i \in after <=> Len(a) + i \in places
  PROVE  At(a \o b, places) = At(a, places) \o At(b, after)
<1> DEFINE shifted == Shifted(places, Len(a))
<1>1. \A i \in 1..Len(b) : i \in after <=> i \in shifted
  BY DEF Shifted
<1>2. At(a \o b, places) = At(a, places) \o At(b, shifted)
  BY AtConcatShifted
<1> HIDE DEF shifted
<1>3. At(b, after) = At(b, shifted)
  BY <1>1, AtSame
<1> QED
  BY <1>2, <1>3

Mapped(F, s) == [i \in DOMAIN s |-> F[s[i]]]

\* Taking places and applying a function commute.
LEMMA AtMap ==
  ASSUME NEW T, NEW seq \in Seq(T), NEW G, NEW places
  PROVE  At(Mapped(G, seq), places) = Mapped(G, At(seq, places))
<1> DEFINE map(s) == Mapped(G, s)
           U == {G[x] : x \in T}
           S == {s \in Seq(T) : At(map(s), places) = map(At(s, places))}
<1>1. \A s \in Seq(T) : map(s) \in Seq(U) /\ Len(map(s)) = Len(s)
  BY DEF Mapped
<1>7. \A x \in T : G[x] \in U
  OBVIOUS
<1>2. \A s \in Seq(T), x \in T : map(Append(s, x)) = Append(map(s), G[x])
  BY DEF Mapped
<1>3. map(<<>>) = <<>>
  BY DEF Mapped
<1> HIDE DEF map, U
<1>4. <<>> \in S
  BY <1>3, AtEmpty, EmptySeq
<1>5. ASSUME NEW s \in Seq(T), NEW x \in T, s \in S PROVE Append(s, x) \in S
  <2>1. At(map(Append(s, x)), places) =
          IF Len(s) + 1 \in places THEN Append(At(map(s), places), G[x]) ELSE At(map(s), places)
    <3>1. map(s) \in Seq(U) /\ Len(map(s)) = Len(s) /\ G[x] \in U
      BY <1>1, <1>7
    <3>2. At(Append(map(s), G[x]), places) =
            IF Len(map(s)) + 1 \in places THEN Append(At(map(s), places), G[x])
            ELSE At(map(s), places)
      <4>1. \A z \in Seq(U), y \in U :
              At(Append(z, y), places) =
                IF Len(z) + 1 \in places THEN Append(At(z, places), y) ELSE At(z, places)
        BY AtAppend
      <4> QED
        BY <3>1, <4>1
    <3> QED
      BY <1>2, <3>1, <3>2
  <2>2. At(Append(s, x), places) =
          IF Len(s) + 1 \in places THEN Append(At(s, places), x) ELSE At(s, places)
    BY AtAppend
  <2>3. At(s, places) \in Seq(T)
    BY AtType
  <2>4. map(Append(At(s, places), x)) = Append(map(At(s, places)), G[x])
    BY <1>2, <2>3
  <2> QED
    BY <1>5, <2>1, <2>2, <2>4, AppendProperties
<1>6. Seq(T) \subseteq S
  <2> HIDE DEF S
  <2> QED
    BY <1>4, <1>5, AppendInduction
<1>8. At(map(seq), places) = map(At(seq, places))
  BY <1>6
<1> QED
  BY <1>8 DEF map

-----------------------------------------------------------------------------
(* Texts and who said them *)

\* One sequence flattens to itself.
LEMMA FlattenOne ==
  ASSUME NEW s
  PROVE  FlattenSeq(<<s>>) = s
<1> DEFINE P(f) == f = [i \in 1..1 |-> IF i = 1 THEN s ELSE f[i - 1] \o <<s>>[i]]
<1>1. P([i \in 1..1 |-> s])
  OBVIOUS
<1>2. P(CHOOSE f : P(f))
  BY <1>1, Zenon
<1>3. FlattenSeq(<<s>>) = (CHOOSE f : P(f))[1]
  BY DEF FlattenSeq
<1> QED
  BY <1>2, <1>3

\* No sequences flatten to nothing.
LEMMA FlattenEmpty == FlattenSeq(<<>>) = <<>>
BY DEF FlattenSeq

\* A single text is joined to itself.
LEMMA JoinOne ==
  ASSUME NEW text
  PROVE  Join(<<text>>) = text
<1>1. <<text>> # <<>>
  OBVIOUS
<1> QED
  BY <1>1, FlattenOne DEF Join

\* A message with one text says that text.
LEMMA TextMessageSays ==
  ASSUME NEW role, NEW text
  PROVE  /\ Said(TextMessage(role, text)) = [role |-> role, text |-> text]
         /\ Readable(TextMessage(role, text).content)
         /\ normalize_content(TextMessage(role, text).content) = <<text>>
<1> DEFINE content == TextMessage(role, text).content
<1>1. /\ content.shape = "text"
      /\ content.parts = <<[type |-> "text", text |-> text]>>
      /\ TextMessage(role, text).role = role
  BY DEF TextMessage
<1> HIDE DEF content
<1>2. normalize_content(content) = <<text>>
  BY <1>1 DEF normalize_content, Each
<1>3. Readable(content)
  BY <1>1 DEF Readable
<1>4. Said(TextMessage(role, text)) = [role |-> role, text |-> text]
  BY <1>1, <1>2, JoinOne DEF Said, TextOf, content
<1> QED
  BY <1>2, <1>3, <1>4 DEF content

\* What a list of messages says.
SaidIn(messages) == [i \in DOMAIN messages |-> Said(messages[i])]

\* A request without a system field says what its messages say.
LEMMA SaidByMessages ==
  ASSUME NEW r, r.system = None
  PROVE  SaidBy(r) = SaidIn(r.messages)
<1>1. SystemTexts(r.system) = <<>>
  BY DEF SystemTexts
<1> QED
  BY <1>1 DEF SaidBy, Each, SaidIn

\* A canonical message in its own text says what the client's message said.
LEMMA JoinedSays ==
  ASSUME NEW T, NEW messages \in Seq(T)
  PROVE  LET joined == JoinedMessages(CanonicalMessages(messages)) IN
         /\ DOMAIN joined = 1..Len(messages)
         /\ \A i \in 1..Len(messages) :
              joined[i] = TextMessage(messages[i].role, TextOf(messages[i]))
         /\ SaidIn(joined) = SaidIn(messages)
<1> DEFINE canonicals == CanonicalMessages(messages)
           joined == JoinedMessages(canonicals)
<1>1. DOMAIN messages = 1..Len(messages) /\ DOMAIN canonicals = DOMAIN messages
  BY DEF CanonicalMessages, Each
<1>2. DOMAIN joined = DOMAIN messages
  BY <1>1 DEF JoinedMessages, Each
<1>3. ASSUME NEW i \in DOMAIN messages
      PROVE  joined[i] = TextMessage(messages[i].role, TextOf(messages[i]))
  <2>1. canonicals[i] = [role |-> messages[i].role,
                         content |-> normalize_content(messages[i].content)]
    BY DEF CanonicalMessages, Each
  <2>2. joined[i] = TextMessage(canonicals[i].role, Join(canonicals[i].content))
    BY <1>1, <1>2 DEF JoinedMessages, Each
  <2> HIDE DEF canonicals, joined
  <2> QED
    BY <2>1, <2>2 DEF TextOf
<1> HIDE DEF joined
<1>4. ASSUME NEW i \in DOMAIN messages PROVE Said(joined[i]) = Said(messages[i])
  BY <1>3, TextMessageSays DEF Said
<1>5. SaidIn(joined) = SaidIn(messages)
  BY <1>2, <1>4 DEF SaidIn
<1> QED
  BY <1>1, <1>2, <1>3, <1>5 DEF joined

\* Instructions in front of turns are told apart by their roles.
LEMMA InstructionsFirst ==
  ASSUME NEW T, NEW a \in Seq(T), NEW b \in Seq(T),
         \A i \in 1..Len(a) : a[i].role = "system",
         \A i \in 1..Len(b) : b[i].role # "system"
  PROVE  TurnsOnly(a \o b) = b /\ SystemMessages(a \o b) = a
<1> DEFINE both == a \o b
           systems == {i \in DOMAIN both : both[i].role = "system"}
           turns == {i \in DOMAIN both : both[i].role # "system"}
<1>1. /\ Len(a) \in Nat /\ Len(b) \in Nat
      /\ DOMAIN both = 1..(Len(a) + Len(b))
      /\ \A i \in 1..Len(a) : both[i] = a[i]
      /\ \A i \in 1..Len(b) : both[Len(a) + i] = b[i]
  OBVIOUS
<1> HIDE DEF both
<1>2. \A i \in 1..Len(a) : i \in systems /\ i \notin turns
  BY <1>1
<1>3. \A i \in 1..Len(b) : Len(a) + i \in turns /\ Len(a) + i \notin systems
  BY <1>1
<1> HIDE DEF systems, turns
<1>4. At(both, turns) = At(a, turns) \o At(b, Nat)
  <2>1. \A i \in 1..Len(b) : i \in Nat <=> Len(a) + i \in turns
    BY <1>3
  <2> QED
    BY <2>1, AtConcat DEF both
<1>5. At(both, systems) = At(a, systems) \o At(b, {})
  BY <1>1, <1>3, AtConcat DEF both
<1>6. At(a, turns) = <<>> /\ At(a, systems) = a
  BY <1>2, AtNone, AtAll
<1>7. At(b, Nat) = b
  BY <1>1, AtAll
<1>8. At(b, {}) = <<>>
  BY <1>1, AtNone
<1>9. <<>> \o b = b /\ a \o <<>> = a
  OBVIOUS
<1> QED
  BY <1>4, <1>5, <1>6, <1>7, <1>8, <1>9 DEF TurnsOnly, SystemMessages, turns, systems, both

\* Choosing messages and reading them commute.
LEMMA ChosenSay ==
  ASSUME NEW T, NEW messages \in Seq(T)
  PROVE  /\ TurnsOnly(SaidIn(messages)) = SaidIn(TurnsOnly(messages))
         /\ SystemMessages(SaidIn(messages)) = SaidIn(SystemMessages(messages))
<1> DEFINE G == [m \in T |-> Said(m)]
<1>2. \A s \in Seq(T) : SaidIn(s) = Mapped(G, s)
  BY DEF SaidIn, Mapped
<1> HIDE DEF G
<1>3. /\ DOMAIN SaidIn(messages) = DOMAIN messages
      /\ \A i \in DOMAIN messages : SaidIn(messages)[i].role = messages[i].role
  BY DEF SaidIn, Said
<1>4. ASSUME NEW places PROVE At(SaidIn(messages), places) = SaidIn(At(messages, places))
  <2>1. At(Mapped(G, messages), places) = Mapped(G, At(messages, places))
    BY AtMap
  <2>2. At(messages, places) \in Seq(T)
    BY AtType
  <2> QED
    BY <1>2, <2>1, <2>2
<1>5. /\ {i \in DOMAIN SaidIn(messages) : SaidIn(messages)[i].role # "system"} =
           {i \in DOMAIN messages : messages[i].role # "system"}
      /\ {i \in DOMAIN SaidIn(messages) : SaidIn(messages)[i].role = "system"} =
           {i \in DOMAIN messages : messages[i].role = "system"}
  BY <1>3
<1> QED
  BY <1>4, <1>5 DEF TurnsOnly, SystemMessages

\* What instructions given as texts say.
InstructionsOf(texts) == [i \in DOMAIN texts |-> [role |-> "system", text |-> texts[i]]]

TextsOf(said) == [i \in DOMAIN said |-> said[i].text]

\* A request says its system field, then its messages.
LEMMA SaidByParts ==
  ASSUME NEW r
  PROVE  SaidBy(r) = InstructionsOf(SystemTexts(r.system)) \o SaidIn(r.messages)
BY DEF SaidBy, Each, InstructionsOf, SaidIn

\* What is said in instructions and turns is told apart, instruction by instruction.
LEMMA InstructionsThenTurns ==
  ASSUME NEW A, NEW texts \in Seq(A), NEW T, NEW turns \in Seq(T),
         \A i \in 1..Len(turns) : turns[i].role # "system"
  PROVE  LET said == InstructionsOf(texts) \o SaidIn(turns) IN
         /\ Turns(said) = SaidIn(turns)
         /\ Instructions(said) = FlattenSeq(texts)
<1> DEFINE a == InstructionsOf(texts)
           b == SaidIn(turns)
           U == {[role |-> "system", text |-> t] : t \in A} \cup {Said(m) : m \in T}
<1>1. a \in Seq(U) /\ DOMAIN a = DOMAIN texts /\ DOMAIN texts = 1..Len(texts)
  BY DEF InstructionsOf
<1>2. b \in Seq(U) /\ DOMAIN b = DOMAIN turns /\ DOMAIN turns = 1..Len(turns)
  BY DEF SaidIn
<1>3. \A i \in DOMAIN texts : a[i].role = "system" /\ a[i].text = texts[i]
  BY DEF InstructionsOf
<1>4. \A i \in DOMAIN turns : b[i].role = turns[i].role
  BY DEF SaidIn, Said
<1> HIDE DEF a, b, U
<1>5. /\ \A i \in 1..Len(a) : a[i].role = "system"
      /\ \A i \in 1..Len(b) : b[i].role # "system"
  <2>1. 1..Len(a) = DOMAIN texts /\ 1..Len(b) = DOMAIN turns
    <3>1. 1..Len(a) = DOMAIN a
      BY <1>1
    <3>2. 1..Len(b) = DOMAIN b
      BY <1>2
    <3> QED
      BY <1>1, <1>2, <3>1, <3>2
  <2>2. \A i \in DOMAIN turns : turns[i].role # "system"
    OBVIOUS
  <2> QED
    BY <1>3, <1>4, <2>1, <2>2
<1>6. TurnsOnly(a \o b) = b /\ SystemMessages(a \o b) = a
  BY <1>1, <1>2, <1>5, InstructionsFirst
<1>7. TextsOf(a) = texts
  BY <1>1, <1>3 DEF TextsOf
<1>8. Instructions(a \o b) = FlattenSeq(TextsOf(SystemMessages(a \o b)))
  BY DEF Instructions, Each, TextsOf
<1> QED
  BY <1>6, <1>7, <1>8 DEF Turns, a, b

\* The texts of a system field are a sequence.
LEMMA SystemTextsType ==
  ASSUME NEW system, system # None => IsContent(system)
  PROVE  /\ SystemTexts(system) = normalize_system(system)
         /\ \E T : SystemTexts(system) \in Seq(T)
<1>1. SystemTexts(system) = normalize_system(system)
  BY DEF SystemTexts, normalize_system, normalize_content
<1>2. CASE system = None
  BY <1>1, <1>2, EmptySeq DEF SystemTexts
<1>3. CASE system # None
  <2> DEFINE T == ToSet(system.parts)
             texts == [i \in DOMAIN system.parts |-> system.parts[i].text]
  <2>1. system.parts \in Seq(T)
    BY <1>3 DEF IsContent
  <2> HIDE DEF T
  <2>2. texts \in Seq({p.text : p \in T})
    BY <2>1
  <2>3. SystemTexts(system) = texts
    BY <1>3 DEF SystemTexts, Each
  <2> QED
    BY <1>1, <2>2, <2>3
<1> QED
  BY <1>2, <1>3

-----------------------------------------------------------------------------
(* What each codec makes of a canonical request *)

\* The openai codec sends a chat request's own messages.
LEMMA OpenAiSendsChat ==
  ASSUME NEW r \in Request, r.api = "chat"
  PROVE  LET sends == OpenAiBody(Canonical(r)) IN
         /\ sends.messages = r.messages
         /\ sends.system = None
         /\ SaidBy(sends) = SaidBy(r)
<1> DEFINE sends == OpenAiBody(Canonical(r))
<1>1. r.system = None /\ r.messages # None
  BY RequestAssumption
<1>2. Canonical(r).raw_messages = r.messages
  BY DEF Canonical, ChatCanonical
<1>3. sends.messages = r.messages /\ sends.system = None
  BY <1>1, <1>2 DEF OpenAiBody
<1> HIDE DEF sends
<1>4. SaidBy(sends) = SaidBy(r)
  BY <1>1, <1>3, SaidByParts
<1> QED
  BY <1>3, <1>4 DEF sends

\* Instructions as messages say what they said.
InstructionMessages(texts) == [i \in DOMAIN texts |-> TextMessage("system", texts[i])]

\* Instructions sent as messages say what the instructions say.
LEMMA InstructionMessagesSay ==
  ASSUME NEW T, NEW texts \in Seq(T)
  PROVE  SaidIn(InstructionMessages(texts)) = InstructionsOf(texts)
<1> DEFINE messages == InstructionMessages(texts)
<1>1. DOMAIN messages = DOMAIN texts
  BY DEF InstructionMessages
<1>2. ASSUME NEW i \in DOMAIN texts PROVE Said(messages[i]) = [role |-> "system", text |-> texts[i]]
  <2>1. messages[i] = TextMessage("system", texts[i])
    BY DEF InstructionMessages
  <2> QED
    BY <2>1, TextMessageSays
<1> HIDE DEF messages
<1>3. SaidIn(messages) = InstructionsOf(texts)
  BY <1>1, <1>2 DEF SaidIn, InstructionsOf
<1> QED
  BY <1>3 DEF messages

\* A sequence that is one and then another.
LEMMA ConcatByPlace ==
  ASSUME NEW S, NEW x \in Seq(S), NEW y \in Seq(S), NEW z \in Seq(S),
         Len(z) = Len(x) + Len(y),
         \A i \in 1..Len(x) : z[i] = x[i],
         \A i \in 1..Len(y) : z[Len(x) + i] = y[i]
  PROVE  z = x \o y
<1>1. x \o y \in Seq(S) /\ Len(x \o y) = Len(x) + Len(y)
  OBVIOUS
<1>2. ASSUME NEW i \in 1..Len(z) PROVE z[i] = (x \o y)[i]
  <2>1. CASE i <= Len(x)
    BY <2>1
  <2>2. CASE i > Len(x)
    <3>1. i - Len(x) \in 1..Len(y) /\ i = Len(x) + (i - Len(x))
      BY <2>2
    <3>2. (x \o y)[i] = y[i - Len(x)]
      BY <2>2
    <3>3. z[Len(x) + (i - Len(x))] = y[i - Len(x)]
      BY <3>1
    <3> QED
      BY <3>1, <3>2, <3>3
  <2> QED
    BY <2>1, <2>2
<1> QED
  BY <1>1, <1>2, SeqEqual

\* Messages one after the other say what each of them says.
LEMMA SaidInConcat ==
  ASSUME NEW T, NEW a \in Seq(T), NEW b \in Seq(T)
  PROVE  SaidIn(a \o b) = SaidIn(a) \o SaidIn(b)
<1> DEFINE U == {Said(m) : m \in T}
           x == SaidIn(a)
           y == SaidIn(b)
           z == SaidIn(a \o b)
<1>1. x \in Seq(U) /\ Len(x) = Len(a) /\ \A i \in 1..Len(a) : x[i] = Said(a[i])
  BY DEF SaidIn
<1>2. y \in Seq(U) /\ Len(y) = Len(b) /\ \A i \in 1..Len(b) : y[i] = Said(b[i])
  BY DEF SaidIn
<1>3. /\ z \in Seq(U) /\ Len(z) = Len(a) + Len(b)
      /\ \A i \in 1..(Len(a) + Len(b)) : z[i] = Said((a \o b)[i])
  BY DEF SaidIn
<1>4. /\ \A i \in 1..Len(a) : z[i] = x[i]
      /\ \A i \in 1..Len(b) : z[Len(a) + i] = y[i]
  <2>1. /\ \A i \in 1..Len(a) : i \in 1..(Len(a) + Len(b)) /\ (a \o b)[i] = a[i]
        /\ \A i \in 1..Len(b) : /\ Len(a) + i \in 1..(Len(a) + Len(b))
                                /\ (a \o b)[Len(a) + i] = b[i]
    OBVIOUS
  <2> HIDE DEF x, y, z
  <2> QED
    BY <2>1, <1>1, <1>2, <1>3
<1> HIDE DEF U, x, y, z
<1>5. /\ Len(z) = Len(x) + Len(y)
      /\ \A i \in 1..Len(x) : z[i] = x[i]
      /\ \A i \in 1..Len(y) : z[Len(x) + i] = y[i]
  BY <1>1, <1>2, <1>3, <1>4
<1>6. x \in Seq(U) /\ y \in Seq(U) /\ z \in Seq(U)
  BY <1>1, <1>2, <1>3
<1>7. z = x \o y
  BY <1>5, <1>6, ConcatByPlace
<1> QED
  BY <1>7 DEF x, y, z

\* The openai codec sends what a Messages request says as messages, one each.
LEMMA OpenAiSendsMessages ==
  ASSUME NEW r \in Request, r.api = "messages", Acceptable(r)
  PROVE  LET sends == OpenAiBody(Canonical(r)) IN
         /\ sends.system = None
         /\ SaidBy(sends) = SaidBy(r)
         /\ ReadableMessages(sends.messages, {"system", "user", "assistant"})
<1> DEFINE c == Canonical(r)
           sends == OpenAiBody(c)
           texts == SystemTexts(r.system)
           front == InstructionMessages(texts)
           turns == JoinedMessages(CanonicalMessages(r.messages))
           T == ToSet(r.messages)
<1>1. r.messages \in Seq(T) /\ (r.system # None => IsContent(r.system))
  BY RequestAssumption
<1>2. PICK A : texts \in Seq(A)
  BY <1>1, SystemTextsType
<1>3. c.system = texts /\ c.messages = CanonicalMessages(r.messages) /\ c.raw_messages = None
  BY <1>1, SystemTextsType DEF Canonical, into_canonical_request
<1>4. sends.messages = front \o turns /\ sends.system = None
  <2> HIDE DEF c, texts
  <2> QED
    BY <1>3 DEF OpenAiBody, Each, InstructionMessages
<1>5. /\ DOMAIN turns = 1..Len(r.messages)
      /\ \A i \in 1..Len(r.messages) :
           turns[i] = TextMessage(r.messages[i].role, TextOf(r.messages[i]))
      /\ SaidIn(turns) = SaidIn(r.messages)
  <2> HIDE DEF T
  <2> QED BY <1>1, JoinedSays
<1>6. DOMAIN front = 1..Len(texts) /\ \A i \in 1..Len(texts) : front[i] = TextMessage("system", texts[i])
  <2> HIDE DEF texts
  <2> QED
    BY <1>2 DEF InstructionMessages
<1>7. SaidIn(front) = InstructionsOf(texts)
  <2> HIDE DEF texts
  <2> QED
    BY <1>2, InstructionMessagesSay
<1>8. Len(texts) \in Nat /\ Len(r.messages) \in Nat
  <2> HIDE DEF texts, T
  <2> QED
    BY <1>1, <1>2
<1>9. \A m \in T : m.role \in {"user", "assistant"}
  BY DEF Acceptable, ReadableMessages
<1>10. \A i \in 1..Len(r.messages) : r.messages[i] \in T
  BY <1>1
<1> HIDE DEF c, sends, texts, front, turns, T
<1> DEFINE n == Len(texts)
           k == Len(r.messages)
           V == {front[i] : i \in 1..n} \cup {turns[i] : i \in 1..k}
<1>11. front \in Seq(V) /\ turns \in Seq(V) /\ Len(front) = n /\ Len(turns) = k
  <2>1. front = [i \in 1..n |-> front[i]] /\ turns = [i \in 1..k |-> turns[i]]
    BY <1>5, <1>6, Zenon DEF InstructionMessages, JoinedMessages, Each, front, turns
  <2> HIDE DEF n, k
  <2> QED
    BY <2>1, <1>8 DEF n, k
<1> HIDE DEF V
<1>12. SaidIn(front \o turns) = SaidIn(front) \o SaidIn(turns)
  BY <1>11, SaidInConcat
<1>13. SaidBy(sends) = SaidBy(r)
  <2>1. SaidBy(sends) = SaidIn(sends.messages)
    BY <1>4, SaidByMessages
  <2>2. SaidBy(r) = InstructionsOf(texts) \o SaidIn(r.messages)
    BY SaidByParts DEF texts
  <2> QED
    BY <2>1, <2>2, <1>4, <1>5, <1>7, <1>12
<1>14. ASSUME NEW m \in ToSet(sends.messages)
       PROVE  m.role \in {"system", "user", "assistant"} /\ Readable(m.content)
  <2>1. PICK i \in 1..(n + k) : m = IF i <= n THEN front[i] ELSE turns[i - n]
    <3>1. PICK i \in 1..(n + k) : m = (front \o turns)[i]
      BY <1>4, <1>8, <1>11 DEF ToSet
    <3>2. (front \o turns)[i] = IF i <= n THEN front[i] ELSE turns[i - n]
      BY <1>8, <1>11
    <3> QED
      BY <3>1, <3>2
  <2>2. CASE i <= n
    <3>1. m = TextMessage("system", texts[i])
      BY <2>1, <2>2, <1>6, <1>8
    <3> QED
      BY <3>1, TextMessageSays DEF TextMessage
  <2>3. CASE i > n
    <3>1. i - n \in 1..k /\ ~(i <= n)
      BY <2>3, <1>8
    <3>2. m = TextMessage(r.messages[i - n].role, TextOf(r.messages[i - n]))
      BY <2>1, <3>1, <1>5
    <3>3. r.messages[i - n].role \in {"user", "assistant"}
      BY <3>1, <1>9, <1>10
    <3>4. m.role = r.messages[i - n].role
      BY <3>2 DEF TextMessage
    <3> QED
      BY <3>2, <3>3, <3>4, TextMessageSays
  <2> QED
    BY <2>2, <2>3, <1>8
<1>15. ReadableMessages(sends.messages, {"system", "user", "assistant"})
  BY <1>14 DEF ReadableMessages
<1> QED
  BY <1>4, <1>13, <1>15 DEF sends, c

\* The anthropic codec sends the instructions in one text, then the turns.
LEMMA AnthropicSends ==
  ASSUME NEW c, NEW T, NEW turns \in Seq(T),
         c.messages = CanonicalMessages(turns),
         \A i \in 1..Len(turns) : turns[i].role # "system",
         c.system # <<>> => TextMessage("system", Join(c.system)).content # None
  PROVE  LET sends == AnthropicBody(c) IN
         /\ Turns(SaidBy(sends)) = SaidIn(turns)
         /\ Instructions(SaidBy(sends)) = FlattenSeq(c.system)
<1> DEFINE sends == AnthropicBody(c)
           front == SystemTexts(sends.system)
           joined == JoinedMessages(CanonicalMessages(turns))
<1>1. sends.messages = joined
  BY DEF AnthropicBody
<1>2. sends.system = IF c.system = <<>> THEN None ELSE TextMessage("system", Join(c.system)).content
  BY DEF AnthropicBody
<1>3. front = IF c.system = <<>> THEN <<>> ELSE <<Join(c.system)>>
  <2>1. CASE c.system = <<>>
    BY <1>2, <2>1 DEF SystemTexts
  <2>2. CASE c.system # <<>>
    <3> DEFINE text == Join(c.system)
               content == TextMessage("system", text).content
    <3>1. sends.system = content /\ content # None
      BY <1>2, <2>2
    <3> HIDE DEF text
    <3>2. normalize_content(content) = <<text>>
      BY TextMessageSays
    <3> HIDE DEF content, sends
    <3>3. front = normalize_content(content)
      BY <3>1 DEF SystemTexts, normalize_content
    <3> QED
      BY <2>2, <3>2, <3>3 DEF text
  <2> QED
    BY <2>1, <2>2
<1>4. SaidIn(joined) = SaidIn(turns)
  BY JoinedSays
<1> HIDE DEF sends, joined
<1>5. SaidBy(sends) = InstructionsOf(front) \o SaidIn(turns)
  BY <1>1, <1>4, SaidByParts
<1>6. front \in Seq({Join(c.system)})
  <2> DEFINE text == Join(c.system)
  <2> HIDE DEF text, front
  <2>1. front = <<>> \/ front = <<text>>
    BY <1>3 DEF text
  <2>2. <<>> \in Seq({text}) /\ <<text>> \in Seq({text})
    OBVIOUS
  <2> QED
    BY <2>1, <2>2 DEF text
<1> HIDE DEF front
<1>7. /\ Turns(SaidBy(sends)) = SaidIn(turns)
      /\ Instructions(SaidBy(sends)) = FlattenSeq(front)
  BY <1>5, <1>6, InstructionsThenTurns
<1>8. FlattenSeq(front) = FlattenSeq(c.system)
  <2>1. CASE c.system = <<>>
    BY <1>3, <2>1
  <2>2. CASE c.system # <<>>
    BY <1>3, <2>2, FlattenOne DEF Join
  <2> QED
    BY <2>1, <2>2
<1> QED
  BY <1>7, <1>8 DEF sends

\* For a chat request that is what the client's instructions and turns say.
LEMMA AnthropicSendsChat ==
  ASSUME NEW r \in Request, r.api = "chat", Acceptable(r)
  PROVE  LET sends == AnthropicBody(Canonical(r)) IN
         /\ Turns(SaidBy(sends)) = Turns(SaidBy(r))
         /\ Instructions(SaidBy(sends)) = Instructions(SaidBy(r))
<1> DEFINE c == Canonical(r)
           T == ToSet(r.messages)
           turns == TurnsOnly(r.messages)
           systems == SystemMessages(r.messages)
<1>1. r.messages \in Seq(T) /\ r.system = None
  BY RequestAssumption
<1>2. c.messages = CanonicalMessages(turns) /\ c.system = [i \in DOMAIN systems |-> TextOf(systems[i])]
  BY DEF Canonical, ChatCanonical, Each
<1>3. c.system # <<>> => TextMessage("system", Join(c.system)).content # None
  BY FieldAssumption
<1>4. turns \in Seq({m \in T : m.role # "system"})
  <2> DEFINE places == {i \in DOMAIN r.messages : r.messages[i].role # "system"}
             U == {m \in T : m.role # "system"}
  <2>1. \A i \in 1..Len(r.messages) : i \in places => r.messages[i] \in U
    BY <1>1
  <2>2. turns = At(r.messages, places)
    BY DEF TurnsOnly
  <2> HIDE DEF places, U, turns, T
  <2>3. At(r.messages, places) \in Seq(U)
    BY <1>1, <2>1, AtElements
  <2> QED
    BY <2>2, <2>3 DEF U
<1> HIDE DEF c, T, turns, systems
<1>5. turns \in Seq(T) /\ \A i \in 1..Len(turns) : turns[i].role # "system"
  BY <1>4
<1>6. /\ Turns(SaidBy(AnthropicBody(c))) = SaidIn(turns)
      /\ Instructions(SaidBy(AnthropicBody(c))) = FlattenSeq(c.system)
  BY <1>2, <1>3, <1>5, AnthropicSends
<1>7. SaidBy(r) = SaidIn(r.messages)
  BY <1>1, SaidByMessages
<1>8. TurnsOnly(SaidIn(r.messages)) = SaidIn(turns) /\ SystemMessages(SaidIn(r.messages)) = SaidIn(systems)
  BY <1>1, ChosenSay DEF turns, systems
<1>9. Instructions(SaidIn(r.messages)) = FlattenSeq(TextsOf(SaidIn(systems)))
  BY <1>8 DEF Instructions, Each, TextsOf
<1>10. TextsOf(SaidIn(systems)) = c.system
  BY <1>2 DEF TextsOf, SaidIn, Said
<1> QED
  BY <1>6, <1>7, <1>8, <1>9, <1>10 DEF Turns, c

\* And for a Messages request.
LEMMA AnthropicSendsMessages ==
  ASSUME NEW r \in Request, r.api = "messages", Acceptable(r)
  PROVE  LET sends == AnthropicBody(Canonical(r)) IN
         /\ Turns(SaidBy(sends)) = Turns(SaidBy(r))
         /\ Instructions(SaidBy(sends)) = Instructions(SaidBy(r))
<1> DEFINE c == Canonical(r)
           T == ToSet(r.messages)
           texts == SystemTexts(r.system)
<1>1. r.messages \in Seq(T) /\ (r.system # None => IsContent(r.system))
  BY RequestAssumption
<1>2. c.messages = CanonicalMessages(r.messages) /\ c.system = texts
  BY <1>1, SystemTextsType DEF Canonical, into_canonical_request
<1>3. c.system # <<>> => TextMessage("system", Join(c.system)).content # None
  BY FieldAssumption
<1>4. \A m \in T : m.role \in {"user", "assistant"}
  BY DEF Acceptable, ReadableMessages
<1>5. \A i \in 1..Len(r.messages) : r.messages[i].role # "system"
  BY <1>1, <1>4
<1>6. PICK A : texts \in Seq(A)
  BY <1>1, SystemTextsType
<1> HIDE DEF c, T, texts
<1>7. /\ Turns(SaidBy(AnthropicBody(c))) = SaidIn(r.messages)
      /\ Instructions(SaidBy(AnthropicBody(c))) = FlattenSeq(c.system)
  BY <1>1, <1>2, <1>3, <1>5, AnthropicSends
<1>8. SaidBy(r) = InstructionsOf(texts) \o SaidIn(r.messages)
  BY SaidByParts DEF texts
<1>9. Turns(SaidBy(r)) = SaidIn(r.messages) /\ Instructions(SaidBy(r)) = FlattenSeq(texts)
  BY <1>1, <1>5, <1>6, <1>8, InstructionsThenTurns
<1> QED
  BY <1>2, <1>7, <1>9 DEF c

-----------------------------------------------------------------------------
(* The calls *)

\* What is kept at a key is a success an upstream gave to a request with that
\* signature.
Honest(key, entry) ==
  /\ entry.answer \in Answer
  /\ Success(entry.answer.status)
  /\ entry.body = entry.answer.body
  /\ entry.usage = extract_usage(entry.body)
  /\ \E r \in Request :
       /\ Acceptable(r) /\ r.api # "embeddings" /\ ~Canonical(r).stream
       /\ key = request_signature(Canonical(r))
       /\ entry.asked = build_upstream_request(kind, Canonical(r))

\* The client got what its API makes of the upstream's answer, with its status or,
\* from the cache, with that of another success.
Rendered ==
  /\ answer \in Answer
  /\ usage = IF Success(answer.status) THEN extract_usage(answer.body) ELSE None
  /\ \E status \in Nat :
       /\ Success(status) <=> Success(answer.status)
       /\ ~Success(status) => status = answer.status
       /\ response = Render(request.api, [status |-> status, body |-> answer.body],
                            extract_usage(answer.body))

Failed ==
  /\ usage = None
  /\ \E status \in {400, 500, 502} : response = GatewayError(request.api, status)

\* The request under way and what was made of it.
InProgress ==
  /\ request \in Request
  /\ Acceptable(request)
  /\ canonical = Canonical(request)

CacheHonest == \A key \in DOMAIN cache : Honest(key, cache[key])

\* The inductive invariant: what each local of a call was computed from.
CallsInv ==
  /\ kind \in {"openai", "anthropic"} /\ calls \in 0..MaxCalls
  /\ pc \in {"idle", "accepted", "sent", "answered"}
  /\ cached \in BOOLEAN
  /\ pc = "idle" => request = None
  /\ pc # "idle" => request \in Request
  /\ pc \in {"accepted", "sent"} => InProgress
  /\ pc \in {"idle", "accepted"} => sent = None
  /\ pc = "sent" => /\ Executable(kind, canonical)
                    /\ sent = build_upstream_request(kind, canonical)
  /\ sent # None => /\ pc \in {"sent", "answered"} /\ InProgress
                    /\ Executable(kind, canonical)
                    /\ sent = build_upstream_request(kind, canonical)
  /\ pc # "answered" => answer = None /\ ~cached /\ usage = None
  /\ pc = "answered" => IF answer = None THEN Failed ELSE Rendered
  /\ cached => /\ InProgress /\ LooksUp /\ Key \in DOMAIN cache
               /\ answer = cache[Key].answer
  /\ CacheHonest

\* extract_usage finds usage or none.
LEMMA UsageType ==
  ASSUME NEW a \in Answer
  PROVE  extract_usage(a.body) \in Usage \cup {None}
<1> DEFINE json == a.body
<1>1. CASE json = Garbage \/ json.usage = None \/ json.usage.input = None
  BY <1>1 DEF extract_usage
<1>2. CASE ~(json = Garbage \/ json.usage = None \/ json.usage.input = None)
  <2>1. json.usage \in WireUsage
    BY <1>2, AnswerAssumption
  <2>2. json.usage.input \in Nat /\ json.usage.output \in Nat \cup {None}
    BY <1>2, <2>1 DEF WireUsage, Count
  <2>3. OrElse(json.usage.output, 0) \in Nat
    BY <2>2 DEF OrElse
  <2> HIDE DEF json
  <2>4. extract_usage(json) = [input |-> json.usage.input, output |-> OrElse(json.usage.output, 0)]
    BY <1>2 DEF extract_usage
  <2> QED
    BY <2>2, <2>3, <2>4 DEF Usage, json
<1> QED
  BY <1>1, <1>2

\* A canonical request keeps its API and, where it has one, its stream flag.
LEMMA CanonicalFields ==
  ASSUME NEW r \in Request
  PROVE  /\ Canonical(r).api = r.api
         /\ r.api # "embeddings" => Canonical(r).stream = r.stream
BY RequestAssumption DEF Canonical, ChatCanonical, into_canonical_request, EmbeddingsCanonical

\* The invariant holds of the calls, whatever clients send and upstreams answer.
LEMMA CallsInvHolds == Spec => []CallsInv
<1>1. Init => CallsInv
  <2> SUFFICES ASSUME Init PROVE CallsInv
    OBVIOUS
  <2>1. CacheHonest
    BY DEF Init, CacheHonest
  <2>2. sent = None /\ pc = "idle" /\ ~cached /\ cached \in BOOLEAN /\ answer = None
        /\ usage = None /\ request = None /\ kind \in {"openai", "anthropic"}
    BY DEF Init
  <2>3. calls \in 0..MaxCalls
    BY MaxCallsAssumption DEF Init
  <2> QED
    BY <2>1, <2>2, <2>3 DEF CallsInv
<1>2. CallsInv /\ [Next]_vars => CallsInv'
  <2> SUFFICES ASSUME CallsInv, [Next]_vars PROVE CallsInv'
    OBVIOUS
  <2>1. ASSUME kind' = kind, cache' = cache
        PROVE  CacheHonest'
    <3>1. CacheHonest
      BY DEF CallsInv
    <3> QED
      BY <2>1, <3>1 DEF CacheHonest, Honest
  <2>2. ASSUME NEW r \in Request, Accept(r) PROVE CallsInv'
    <3>1. kind' = kind /\ cache' = cache
      BY <2>2 DEF Accept
    <3>2. InProgress' /\ pc' = "accepted" /\ request' = r
      BY <2>2 DEF Accept, Arrive, Goto, InProgress
    <3>3. calls' \in 0..MaxCalls
      BY <2>2, MaxCallsAssumption DEF Accept, Arrive, CallsInv
    <3>4. sent' = None /\ answer' = None /\ ~cached' /\ cached' \in BOOLEAN /\ usage' = None
      BY <2>2 DEF Accept, Arrive, Goto, CallsInv
    <3> QED
      BY <2>1, <3>1, <3>2, <3>3, <3>4 DEF CallsInv
  <2>3. ASSUME NEW r \in Request, Reject(r) PROVE CallsInv'
    <3>1. kind' = kind /\ cache' = cache
      BY <2>3 DEF Reject
    <3>2. pc' = "answered" /\ request' = r /\ response' = GatewayError(request'.api, 400)
      BY <2>3 DEF Reject, Arrive, Goto
    <3>3. calls' \in 0..MaxCalls
      BY <2>3, MaxCallsAssumption DEF Reject, Arrive, CallsInv
    <3>4. sent' = None /\ answer' = None /\ ~cached' /\ cached' \in BOOLEAN /\ usage' = None
      BY <2>3 DEF Reject, Arrive, Goto, CallsInv
    <3>5. Failed'
      BY <3>2, <3>4 DEF Failed
    <3> QED
      BY <2>1, <3>1, <3>2, <3>3, <3>4, <3>5 DEF CallsInv
  <2>4. ASSUME Hit PROVE CallsInv'
    <3>1. /\ kind' = kind /\ cache' = cache /\ calls' = calls /\ request' = request
          /\ canonical' = canonical /\ sent' = sent /\ pc = "accepted" /\ pc' = "answered"
      BY <2>4 DEF Hit, Goto
    <3>2. LooksUp /\ Key \in DOMAIN cache /\ InProgress /\ sent = None /\ request \in Request
      BY <2>4, <3>1 DEF Hit, IsHit, CallsInv
    <3>3. LooksUp' /\ Key' = Key /\ InProgress'
      BY <3>1, <3>2 DEF LooksUp, Key, InProgress
    <3>4. cached' = TRUE /\ answer' = cache[Key].answer /\ usage' = cache[Key].usage
          /\ response' = Render(request.api, [status |-> 200, body |-> cache[Key].body],
                                cache[Key].usage)
      BY <2>4 DEF Hit
    <3>5. Honest(Key, cache[Key])
      BY <3>2 DEF CallsInv, CacheHonest
    <3>6. Rendered'
      <4>1. answer' \in Answer /\ Success(answer'.status)
        BY <3>4, <3>5 DEF Honest
      <4>2. usage' = extract_usage(answer'.body)
        BY <3>4, <3>5 DEF Honest
      <4>3. response' = Render(request'.api, [status |-> 200, body |-> answer'.body],
                               extract_usage(answer'.body))
        BY <3>1, <3>4, <3>5 DEF Honest
      <4>4. Success(200) /\ 200 \in Nat
        BY DEF Success
      <4> QED
        BY <4>1, <4>2, <4>3, <4>4 DEF Rendered
    <3>7. answer' # None /\ cached' /\ cached' \in BOOLEAN
      BY <3>4, <3>6, AnswerAssumption DEF Rendered
    <3>8. Key' \in DOMAIN cache' /\ answer' = cache'[Key'].answer
      BY <3>1, <3>2, <3>3, <3>4
    <3>9. CacheHonest'
      BY <2>1, <3>1
    <3>10. /\ kind' \in {"openai", "anthropic"} /\ calls' \in 0..MaxCalls
           /\ request' \in Request /\ sent' = None
      BY <3>1, <3>2 DEF CallsInv
    <3> QED
      BY <3>1, <3>3, <3>6, <3>7, <3>8, <3>9, <3>10 DEF CallsInv
  <2>5. ASSUME NEW status \in {400, 500, 502}, FailWith(status), pc \in {"accepted", "sent"}
        PROVE CallsInv'
    <3>1. kind' = kind /\ cache' = cache /\ calls' = calls /\ request' = request
          /\ canonical' = canonical /\ sent' = sent /\ pc' = "answered"
          /\ answer' = answer /\ cached' = cached /\ usage' = usage
          /\ response' = GatewayError(request.api, status)
      BY <2>5 DEF FailWith
    <3>2. answer = None /\ ~cached /\ usage = None /\ InProgress
      BY <2>5 DEF CallsInv
    <3>3. Failed'
      BY <3>1, <3>2 DEF Failed
    <3>4. InProgress' /\ request' \in Request
      BY <3>1, <3>2 DEF InProgress
    <3>5. sent' # None => /\ Executable(kind', canonical')
                          /\ sent' = build_upstream_request(kind', canonical')
      BY <3>1 DEF CallsInv
    <3>6. /\ kind' \in {"openai", "anthropic"} /\ calls' \in 0..MaxCalls
          /\ answer' = None /\ ~cached' /\ cached' \in BOOLEAN
      BY <3>1, <3>2 DEF CallsInv
    <3>7. CacheHonest'
      BY <2>1, <3>1
    <3> QED
      BY <3>1, <3>3, <3>4, <3>5, <3>6, <3>7 DEF CallsInv
  <2>6. CASE CannotExecute
    BY <2>5, <2>6 DEF CannotExecute
  <2>7. CASE NoSecret
    BY <2>5, <2>7 DEF NoSecret
  <2>8. CASE UpstreamFails
    BY <2>5, <2>8 DEF UpstreamFails
  <2>9. CASE Send
    <3>1. kind' = kind /\ cache' = cache /\ calls' = calls /\ request' = request
          /\ canonical' = canonical /\ pc = "accepted" /\ pc' = "sent"
          /\ answer' = answer /\ cached' = cached /\ usage' = usage
          /\ sent' = build_upstream_request(kind, canonical) /\ Executable(kind, canonical)
      BY <2>9 DEF Send, Goto
    <3>2. InProgress'
      BY <3>1 DEF InProgress, CallsInv
    <3> QED
      BY <2>1, <3>1, <3>2 DEF CallsInv
  <2>10. CASE UpstreamAnswers
    <3>1. kind' = kind /\ calls' = calls /\ request' = request /\ canonical' = canonical
          /\ sent' = sent /\ cached' = cached /\ pc = "sent" /\ pc' = "answered"
          /\ ~canonical.stream
      BY <2>10 DEF UpstreamAnswers, Goto
    <3>2. PICK a \in Answer :
            /\ answer' = a
            /\ usage' = IF Success(a.status) THEN extract_usage(a.body) ELSE None
            /\ cache' = IF Success(a.status) /\ LooksUp
                        THEN [k \in {Key} \cup DOMAIN cache |->
                                IF k = Key THEN Stored(a, extract_usage(a.body)) ELSE cache[k]]
                        ELSE cache
            /\ response' = Render(request.api, a, extract_usage(a.body))
      BY <2>10 DEF UpstreamAnswers
    <3>3. /\ InProgress /\ ~cached /\ request \in Request
          /\ Executable(kind, canonical) /\ sent = build_upstream_request(kind, canonical)
      BY <3>1 DEF CallsInv
    <3>4. InProgress'
      BY <3>1, <3>3 DEF InProgress
    <3>5. Rendered'
      <4>1. response' = Render(request'.api, [status |-> a.status, body |-> a.body],
                               extract_usage(a.body))
        BY <3>1, <3>2 DEF Render, build_anthropic_json_response, build_json_response,
                          AnthropicErrorResponse
      <4>2. a.status \in Nat
        BY AnswerAssumption
      <4> QED
        BY <3>2, <4>1, <4>2 DEF Rendered
    <3>6. answer' # None
      BY <3>2, AnswerAssumption
    <3>7. CacheHonest'
      <4>1. CASE Success(a.status) /\ LooksUp
        <5> DEFINE entry == Stored(a, extract_usage(a.body))
        <5>1. Honest(Key, entry)
          <6>1. /\ entry.answer = a /\ entry.body = a.body
                /\ entry.usage = extract_usage(a.body) /\ entry.asked = sent
            BY DEF Stored
          <6> HIDE DEF entry
          <6>2. /\ request \in Request /\ Acceptable(request) /\ request.api # "embeddings"
                /\ ~Canonical(request).stream /\ Key = request_signature(Canonical(request))
                /\ sent = build_upstream_request(kind, Canonical(request))
            BY <3>1, <3>3, <4>1 DEF InProgress, LooksUp, Key
          <6> QED
            BY <4>1, <6>1, <6>2 DEF Honest
        <5> HIDE DEF entry
        <5>2. cache' = [k \in {Key} \cup DOMAIN cache |-> IF k = Key THEN entry ELSE cache[k]]
          BY <3>2, <4>1 DEF entry
        <5>3. ASSUME NEW k \in {Key} \cup DOMAIN cache PROVE Honest(k, cache'[k])
          BY <5>1, <5>2 DEF CallsInv, CacheHonest
        <5>4. ASSUME NEW k, NEW e, Honest(k, e) PROVE Honest(k, e)'
          BY <3>1, <5>4 DEF Honest
        <5>5. DOMAIN cache' = {Key} \cup DOMAIN cache
          BY <5>2
        <5> QED
          BY <5>3, <5>4, <5>5 DEF CacheHonest
      <4>2. CASE ~(Success(a.status) /\ LooksUp)
        BY <2>1, <3>1, <3>2, <4>2
      <4> QED
        BY <4>1, <4>2
    <3> QED
      BY <3>1, <3>3, <3>4, <3>5, <3>6, <3>7 DEF CallsInv
  <2>11. CASE End
    <3>1. /\ kind' = kind /\ cache' = cache /\ calls' = calls /\ pc' = "idle"
          /\ request' = None /\ sent' = None /\ answer' = None /\ cached' = FALSE /\ usage' = None
      BY <2>11 DEF End
    <3> QED
      BY <2>1, <3>1 DEF CallsInv
  <2>12. CASE UNCHANGED vars
    <3>1. /\ kind' = kind /\ cache' = cache /\ calls' = calls /\ pc' = pc
          /\ request' = request /\ sent' = sent /\ answer' = answer /\ cached' = cached
          /\ usage' = usage /\ canonical' = canonical /\ response' = response
      BY <2>12 DEF vars
    <3>2. /\ InProgress' = InProgress /\ Rendered' = Rendered /\ Failed' = Failed
          /\ LooksUp' = LooksUp /\ Key' = Key
      BY <3>1 DEF InProgress, Rendered, Failed, LooksUp, Key
    <3> QED
      BY <2>1, <3>1, <3>2 DEF CallsInv
  <2> QED
    BY <2>2, <2>3, <2>4, <2>6, <2>7, <2>8, <2>9, <2>10, <2>11, <2>12 DEF Next
<1> QED
  BY <1>1, <1>2, PTL DEF Spec

\* Errors have a status that is one, and each client is answered in its API's form.
THEOREM TypeCorrect == Spec => []TypeOK
<1>1. CallsInv => TypeOK
  <2> SUFFICES ASSUME CallsInv PROVE TypeOK
    OBVIOUS
  <2>1. request \in Request \cup {None} /\ (request = None <=> pc = "idle")
    BY RequestAssumption DEF CallsInv
  <2>2. pc \in {"accepted", "sent"} => canonical.api = request.api
    BY CanonicalFields DEF CallsInv, InProgress
  <2>3. answer \in Answer \cup {None} /\ usage \in Usage \cup {None}
    BY UsageType DEF CallsInv, Rendered, Failed
  <2>4. ASSUME pc = "answered"
        PROVE  \/ response.form = "error" /\ ~Success(response.status)
               \/ response.form = "message" /\ request.api = "messages" /\ Success(response.status)
               \/ response.form = "openai" /\ request.api # "messages"
    <3>1. ASSUME NEW s \in {400, 500, 502}, response = GatewayError(request.api, s)
          PROVE  response.form = "error" /\ ~Success(response.status)
      <4>1. response.form = "error" /\ response.status = s
        BY <3>1 DEF GatewayError, ErrorResponse
      <4> QED
        BY <4>1 DEF Success
    <3>2. CASE answer = None
      BY <2>4, <3>1, <3>2 DEF CallsInv, Failed
    <3>3. CASE answer # None
      <4>1. PICK status \in Nat :
              response = Render(request.api, [status |-> status, body |-> answer.body],
                                extract_usage(answer.body))
        BY <2>4, <3>3 DEF CallsInv, Rendered
      <4>2. CASE request.api # "messages"
        <5>1. response.form = "openai"
          BY <4>1, <4>2 DEF Render, build_json_response
        <5> QED
          BY <4>2, <5>1
      <4>3. CASE request.api = "messages" /\ ~Success(status)
        <5>1. response.form = "error" /\ response.status = status
          BY <4>1, <4>3 DEF Render, build_anthropic_json_response, AnthropicErrorResponse, ErrorResponse
        <5> QED
          BY <4>3, <5>1
      <4>4. CASE request.api = "messages" /\ Success(status) /\ answer.body = Garbage
        <5>1. response.form = "error" /\ response.status = 500
          BY <4>1, <4>4 DEF Render, build_anthropic_json_response, GatewayError, ErrorResponse
        <5> QED
          BY <5>1 DEF Success
      <4>5. CASE request.api = "messages" /\ Success(status) /\ answer.body # Garbage
        <5>1. response.form = "message" /\ response.status = status
          BY <4>1, <4>5 DEF Render, build_anthropic_json_response
        <5> QED
          BY <4>5, <5>1
      <4> QED
        BY <4>2, <4>3, <4>4, <4>5
    <3> QED
      BY <3>2, <3>3
  <2> QED
    BY <2>1, <2>2, <2>3, <2>4 DEF CallsInv, TypeOK
<1> QED
  BY <1>1, CallsInvHolds, PTL

\* Calls with one signature that are looked up are put to an upstream in the same body.
LEMMA SameSignatureSameBody ==
  ASSUME NEW r \in Request, r.api # "embeddings", ~Canonical(r).stream,
         NEW s \in Request, s.api # "embeddings", ~Canonical(s).stream,
         request_signature(Canonical(r)) = request_signature(Canonical(s))
  PROVE  build_upstream_request(kind, Canonical(r)) = build_upstream_request(kind, Canonical(s))
<1> DEFINE c == Canonical(r)
           d == Canonical(s)
<1>1. c.api # "embeddings" /\ d.api # "embeddings"
  BY CanonicalFields
<1>2. c.stream = FALSE /\ d.stream = FALSE
  BY RequestAssumption, CanonicalFields
<1> HIDE DEF c, d
<1>3. /\ c.system = d.system /\ c.messages = d.messages
      /\ c.raw_messages = d.raw_messages /\ c.params = d.params
  BY DEF request_signature, c, d
<1>4. OpenAiBody(c) = OpenAiBody(d)
  BY <1>1, <1>2, <1>3 DEF OpenAiBody
<1>5. AnthropicBody(c) = AnthropicBody(d)
  BY <1>3 DEF AnthropicBody
<1> QED
  BY <1>4, <1>5 DEF build_upstream_request, c, d

\* An answer from the cache is one that a success gave to the very request that
\* would have been sent now, whichever API either came through.
THEOREM HitsAreAnswers == Spec => []HitsAnswerTheirQuestion
<1>1. CallsInv => HitsAnswerTheirQuestion
  <2> SUFFICES ASSUME CallsInv, cached PROVE HitsAnswerTheirQuestion
    BY DEF HitsAnswerTheirQuestion
  <2>1. InProgress /\ LooksUp /\ Key \in DOMAIN cache /\ answer = cache[Key].answer
    BY DEF CallsInv
  <2>2. Honest(Key, cache[Key])
    BY <2>1 DEF CallsInv, CacheHonest
  <2>3. PICK r \in Request :
          /\ r.api # "embeddings" /\ ~Canonical(r).stream
          /\ Key = request_signature(Canonical(r))
          /\ cache[Key].asked = build_upstream_request(kind, Canonical(r))
    BY <2>2 DEF Honest
  <2>4. /\ request \in Request /\ request.api # "embeddings" /\ ~Canonical(request).stream
        /\ canonical = Canonical(request)
    BY <2>1 DEF InProgress, LooksUp
  <2>5. build_upstream_request(kind, Canonical(r)) =
          build_upstream_request(kind, Canonical(request))
    BY <2>3, <2>4, SameSignatureSameBody DEF Key
  <2> QED
    BY <2>1, <2>2, <2>3, <2>4, <2>5 DEF Honest, HitsAnswerTheirQuestion
<1> QED
  BY <1>1, CallsInvHolds, PTL

\* A missing field is none of the words the code compares with.
LEMMA NoneIsNoWord ==
  \A word \in {"stop", "length", "content_filter", "end_turn", "max_tokens",
                       "stop_sequence", "2023-06-01"} : None # word
BY NoneAssumption DEF Word

\* map_finish_reason keeps a length limit, and a missing reason missing.
LEMMA FinishesAlike ==
  ASSUME NEW finish \in (STRING \ {"max_tokens"}) \cup {None}
  PROVE  /\ map_finish_reason(finish) = "max_tokens" <=> finish = "length"
         /\ map_finish_reason(finish) = None <=> finish = None
<1>1. None \notin {"end_turn", "max_tokens", "stop_sequence", "stop", "length", "content_filter"}
  BY NoneIsNoWord
<1>2. finish # "max_tokens"
  BY <1>1
<1>3. CASE finish \in {"stop", "length", "content_filter"}
  BY <1>1, <1>3 DEF map_finish_reason
<1>4. CASE finish \notin {"stop", "length", "content_filter"}
  <2>1. map_finish_reason(finish) = finish
    BY <1>4 DEF map_finish_reason
  <2> QED
    BY <1>2, <1>4, <2>1
<1> QED
  BY <1>3, <1>4

\* Text, reason and counts of an answer arrive, from the cache as from the upstream:
\* what is billed is what the client is told and the upstream said, and an error keeps
\* its status and costs nothing.
THEOREM AnswersArrive == Spec => []AnswerReachesClient
<1>1. CallsInv => AnswerReachesClient
  <2> SUFFICES ASSUME CallsInv, answer # None PROVE AnswerReachesClient
    BY DEF AnswerReachesClient
  <2>1. pc = "answered" /\ Rendered
    BY DEF CallsInv
  <2>2. answer \in Answer /\ answer.status \in Nat
    BY <2>1, AnswerAssumption DEF Rendered
  <2> DEFINE u == extract_usage(answer.body)
  <2>3. PICK status \in Nat :
          /\ Success(status) <=> Success(answer.status)
          /\ ~Success(status) => status = answer.status
          /\ response = Render(request.api, [status |-> status, body |-> answer.body], u)
    BY <2>1 DEF Rendered
  <2>4. CASE ~Success(answer.status)
    <3>1. response.status = answer.status
      <4>1. CASE request.api = "messages"
        BY <2>3, <2>4, <4>1 DEF Render, build_anthropic_json_response, AnthropicErrorResponse,
                                ErrorResponse
      <4>2. CASE request.api # "messages"
        BY <2>3, <2>4, <4>2 DEF Render, build_json_response
      <4> QED
        BY <4>1, <4>2
    <3>2. usage = None
      BY <2>1, <2>4 DEF Rendered
    <3> QED
      BY <2>4, <3>1, <3>2 DEF AnswerReachesClient
  <2>5. CASE Success(answer.status)
    <3>1. usage = u
      BY <2>1, <2>5 DEF Rendered
    <3>2. usage # None =>
            /\ usage.input = answer.body.usage.input
            /\ answer.body.usage.output # None => usage.output = answer.body.usage.output
      BY <3>1 DEF extract_usage, OrElse
    <3>3. CASE request.api # "messages"
      <4>1. response.form = "openai" /\ response.body = answer.body
        BY <2>3, <3>3 DEF Render, build_json_response
      <4> QED
        BY <2>5, <3>2, <4>1 DEF AnswerReachesClient
    <3>4. CASE request.api = "messages" /\ answer.body = Garbage
      <4>1. response.form = "error"
        BY <2>3, <2>5, <3>4 DEF Render, build_anthropic_json_response, GatewayError, ErrorResponse
      <4> QED
        BY <2>5, <3>2, <3>4, <4>1 DEF AnswerReachesClient
    <3>5. CASE request.api = "messages" /\ answer.body # Garbage
      <4>1. response.form = "message" /\ response.body = Message(answer.body, u)
        BY <2>3, <2>5, <3>5 DEF Render, build_anthropic_json_response
      <4>2. /\ response.body.text = OrElse(answer.body.text, <<Empty>>)
            /\ response.body.stop_reason = map_finish_reason(answer.body.finish)
            /\ usage # None => response.body.usage = usage
        <5>1. /\ response.body.text = OrElse(answer.body.text, <<Empty>>)
              /\ response.body.stop_reason = map_finish_reason(answer.body.finish)
              /\ response.body.usage = OrElse(u, NoUsage)
          BY <4>1 DEF Message
        <5> QED
          BY <3>1, <5>1 DEF OrElse
      <4>3. answer.body.finish \in (STRING \ {"max_tokens"}) \cup {None}
        BY <2>2, <3>5, AnswerAssumption
      <4>4. /\ response.body.stop_reason = "max_tokens" <=> answer.body.finish = "length"
            /\ response.body.stop_reason = None <=> answer.body.finish = None
        BY <4>2, <4>3, FinishesAlike
      <4> QED
        BY <2>5, <3>2, <4>1, <4>2, <4>4 DEF AnswerReachesClient
    <3> QED
      BY <3>3, <3>4, <3>5
  <2> QED
    BY <2>4, <2>5
<1> QED
  BY <1>1, CallsInvHolds, PTL

\* An embeddings request is sent as it came.
LEMMA SendsEmbeddings ==
  ASSUME NEW r \in Request, r.api = "embeddings"
  PROVE  /\ Canonical(r) = EmbeddingsCanonical(r)
         /\ OpenAiBody(Canonical(r)).messages = r.messages
         /\ ~Executable("anthropic", Canonical(r))
<1>1. Canonical(r) = EmbeddingsCanonical(r)
  BY DEF Canonical
<1>2. r.messages # None
  BY RequestAssumption
<1>3. EmbeddingsCanonical(r).raw_messages = r.messages /\ EmbeddingsCanonical(r).stream = FALSE
  BY DEF EmbeddingsCanonical
<1> HIDE DEF Canonical
<1>4. OpenAiBody(Canonical(r)).messages = r.messages
  BY <1>1, <1>2, <1>3 DEF OpenAiBody
<1> QED
  BY <1>1, <1>3, <1>4 DEF Executable

\* The parameters of a body.
LEMMA SendsParams ==
  ASSUME NEW r \in Request, NEW k \in {"openai", "anthropic"}
  PROVE  LET sends == build_upstream_request(k, Canonical(r)) IN
         /\ \A n \in ParamName :
              /\ r.api = "messages" /\ n \in Knows[k] /\ r.params[n] # None =>
                   sends.params[n] = r.params[n]
              /\ sends.params[n] \in {None, r.params[n]} \/ (k = "anthropic" /\ n = "max_tokens")
         /\ k = "anthropic" => sends.params.max_tokens # None
<1> DEFINE c == Canonical(r)
           sends == build_upstream_request(k, c)
<1>1. c.params = IF r.api = "messages" THEN r.params ELSE NoParams
  BY RequestAssumption DEF Canonical, ChatCanonical, into_canonical_request, EmbeddingsCanonical
<1>2. "max_tokens" \in ParamName /\ "max_tokens" # "user"
  BY DEF ParamName
<1>3. \A n \in ParamName : NoParams[n] = None
  BY DEF NoParams
<1> HIDE DEF c
<1>4. CASE k = "openai"
  <2>1. sends.params = Keep(c.params, ParamName \ {"top_k"})
    BY <1>4 DEF build_upstream_request, OpenAiBody
  <2>2. \A n \in ParamName :
          sends.params[n] = IF n \in ParamName \ {"top_k"} THEN c.params[n] ELSE None
    BY <2>1 DEF Keep
  <2>3. Knows[k] = ParamName \ {"top_k"}
    BY <1>4 DEF Knows
  <2> HIDE DEF sends
  <2> QED
    BY <1>1, <1>3, <1>4, <2>2, <2>3 DEF sends, c
<1>5. CASE k = "anthropic"
  <2> DEFINE kept == Keep(c.params, ParamName \ {"user"})
  <2>1. sends.params = [kept EXCEPT !["max_tokens"] = OrElse(@, 1024)]
    BY <1>5 DEF build_upstream_request, AnthropicBody
  <2>2. kept = [n \in ParamName |-> IF n \in ParamName \ {"user"} THEN c.params[n] ELSE None]
    BY DEF Keep
  <2>3. \A n \in ParamName :
          sends.params[n] =
            IF n = "max_tokens" THEN OrElse(c.params[n], 1024)
            ELSE IF n # "user" THEN c.params[n] ELSE None
    BY <1>2, <2>1, <2>2
  <2>4. Knows[k] = ParamName \ {"user"}
    BY <1>5 DEF Knows
  <2>5. \A v : OrElse(v, 1024) # None /\ (v # None => OrElse(v, 1024) = v)
    BY NoneAssumption DEF OrElse
  <2> HIDE DEF sends, kept
  <2>6. \A n \in ParamName :
          /\ r.api = "messages" /\ n \in Knows[k] /\ r.params[n] # None =>
               sends.params[n] = r.params[n]
          /\ sends.params[n] \in {None, r.params[n]} \/ n = "max_tokens"
    BY <1>1, <1>3, <2>3, <2>4, <2>5
  <2>7. sends.params["max_tokens"] # None
    BY <1>2, <2>3, <2>5
  <2> QED
    BY <1>5, <2>6, <2>7 DEF sends, c
<1> QED
  BY <1>4, <1>5

\* What the client said arrives whole, in order and in the same roles, and so do the
\* parameters the upstream knows.
THEOREM QuestionsArrive == Spec => []QuestionReachesUpstream
<1>1. CallsInv => QuestionReachesUpstream
  <2> SUFFICES ASSUME CallsInv, sent # None PROVE QuestionReachesUpstream
    BY DEF QuestionReachesUpstream
  <2>1. /\ request \in Request /\ Acceptable(request) /\ kind \in {"openai", "anthropic"}
        /\ Executable(kind, Canonical(request))
        /\ sent = build_upstream_request(kind, Canonical(request))
    BY DEF CallsInv, InProgress
  <2>2. request.api \in {"chat", "messages", "embeddings"}
    BY <2>1, RequestAssumption
  <2>3. request.api = "embeddings" => sent.messages = request.messages
    BY <2>1, SendsEmbeddings DEF build_upstream_request
  <2>4. request.api # "embeddings" =>
          /\ kind = "openai" => SaidBy(sent) = SaidBy(request)
          /\ Turns(SaidBy(sent)) = Turns(SaidBy(request))
          /\ Instructions(SaidBy(sent)) = Instructions(SaidBy(request))
    <3>1. CASE kind = "openai"
      <4>1. sent = OpenAiBody(Canonical(request))
        BY <2>1, <3>1 DEF build_upstream_request
      <4>2. request.api # "embeddings" => SaidBy(sent) = SaidBy(request)
        BY <2>1, <2>2, <4>1, OpenAiSendsChat, OpenAiSendsMessages
      <4> QED
        BY <3>1, <4>2
    <3>2. CASE kind = "anthropic"
      <4>1. sent = AnthropicBody(Canonical(request))
        BY <2>1, <3>2 DEF build_upstream_request
      <4> QED
        BY <2>1, <2>2, <3>2, <4>1, AnthropicSendsChat, AnthropicSendsMessages
    <3> QED
      BY <2>1, <3>1, <3>2
  <2>5. /\ \A n \in ParamName :
             /\ request.api = "messages" /\ n \in Knows[kind] /\ request.params[n] # None =>
                  sent.params[n] = request.params[n]
             /\ sent.params[n] \in {None, request.params[n]}
                  \/ (kind = "anthropic" /\ n = "max_tokens")
        /\ kind = "anthropic" => sent.params.max_tokens # None
    BY <2>1, SendsParams
  <2> QED
    BY <2>3, <2>4, <2>5 DEF QuestionReachesUpstream
<1> QED
  BY <1>1, CallsInvHolds, PTL

\* A second gateway's codec sends on what the first one sent, as far as its client's
\* API lets the parameters through.
Understands(k, sends) ==
  LET second == AsClient(sends)
      again  == build_upstream_request(k, Canonical(second)) IN
  /\ Acceptable(second)
  /\ again.path = sends.path /\ again.stream = sends.stream
  /\ again.system = sends.system /\ again.messages = sends.messages
  /\ k = "anthropic" => again.params = sends.params

\* An upstream that speaks the OpenAI API understands what an acceptable request
\* becomes.
LEMMA OpenAiChained ==
  ASSUME NEW r \in Request, Acceptable(r)
  PROVE  Understands("openai", OpenAiBody(Canonical(r)))
<1> DEFINE c == Canonical(r)
           sends == OpenAiBody(c)
           second == AsClient(sends)
           again == build_upstream_request("openai", Canonical(second))
<1>1. sends.messages # None /\ c.api = r.api /\ r.api \in {"chat", "messages", "embeddings"}
  BY FieldAssumption, CanonicalFields, RequestAssumption
<1>2. /\ sends.path = IF r.api = "embeddings" THEN "/v1/embeddings" ELSE "/v1/chat/completions"
      /\ sends.system = None
      /\ sends.stream = c.stream
  BY <1>1 DEF OpenAiBody
<1>3. r.api # "embeddings" => ReadableMessages(sends.messages, {"system", "user", "assistant"})
  <2>1. CASE r.api = "chat"
    BY <2>1, OpenAiSendsChat DEF Acceptable
  <2>2. CASE r.api = "messages"
    BY <2>2, OpenAiSendsMessages
  <2> QED
    BY <1>1, <2>1, <2>2
<1>4. r.api = "embeddings" => c.stream = FALSE
  BY DEF Canonical, EmbeddingsCanonical
<1> HIDE DEF c, sends
<1>5. /\ second.api = IF r.api = "embeddings" THEN "embeddings" ELSE "chat"
      /\ second.messages = sends.messages /\ second.stream = sends.stream
  BY <1>2 DEF AsClient
<1> HIDE DEF second
<1>6. Acceptable(second)
  <2>1. CASE r.api = "embeddings"
    <3>1. second.api = "embeddings"
      BY <1>5, <2>1
    <3> QED
      BY <3>1 DEF Acceptable
  <2>2. CASE r.api # "embeddings"
    <3>1. second.api = "chat"
      BY <1>5, <2>2
    <3> QED
      BY <1>3, <1>5, <2>2, <3>1 DEF Acceptable
  <2> QED
    BY <2>1, <2>2
<1> DEFINE d == Canonical(second)
<1>7. /\ d.raw_messages = sends.messages /\ d.api = second.api
      /\ d.stream = IF r.api = "embeddings" THEN FALSE ELSE second.stream
  <2>1. CASE r.api = "embeddings"
    BY <1>5, <2>1 DEF Canonical, EmbeddingsCanonical
  <2>2. CASE r.api # "embeddings"
    BY <1>5, <2>2 DEF Canonical, ChatCanonical
  <2> QED
    BY <2>1, <2>2
<1>8. again = OpenAiBody(d)
  BY DEF build_upstream_request
<1> HIDE DEF d, again
<1>9. /\ again.path = IF d.api = "embeddings" THEN "/v1/embeddings" ELSE "/v1/chat/completions"
      /\ again.system = None /\ again.stream = d.stream
      /\ again.messages = IF d.raw_messages # None THEN d.raw_messages ELSE again.messages
  BY <1>8 DEF OpenAiBody
<1>10. again.path = sends.path /\ again.system = sends.system /\ again.messages = sends.messages
  BY <1>1, <1>2, <1>5, <1>7, <1>9
<1>11. again.stream = sends.stream
  BY <1>2, <1>4, <1>5, <1>7, <1>9
<1> QED
  BY <1>6, <1>10, <1>11 DEF Understands, again, d, second, sends, c

\* Joined once, messages and instructions stay as they are.
LEMMA JoinedAgain ==
  ASSUME NEW T, NEW turns \in Seq(T)
  PROVE  LET joined == JoinedMessages(CanonicalMessages(turns)) IN
         JoinedMessages(CanonicalMessages(joined)) = joined
<1> DEFINE joined == JoinedMessages(CanonicalMessages(turns))
           U == {TextMessage(m.role, TextOf(m)) : m \in T}
<1>1. /\ DOMAIN joined = 1..Len(turns)
      /\ \A i \in 1..Len(turns) : joined[i] = TextMessage(turns[i].role, TextOf(turns[i]))
  BY JoinedSays
<1>2. joined = [i \in 1..Len(turns) |-> joined[i]]
  <2>1. joined = [i \in DOMAIN CanonicalMessages(turns) |->
                   TextMessage(CanonicalMessages(turns)[i].role, Join(CanonicalMessages(turns)[i].content))]
    BY DEF JoinedMessages, Each
  <2> QED
    BY <1>1, <2>1, Zenon
<1> HIDE DEF joined
<1>3. joined \in Seq(U) /\ Len(joined) = Len(turns)
  BY <1>1, <1>2
<1> HIDE DEF U
<1> DEFINE twice == JoinedMessages(CanonicalMessages(joined))
<1>4. /\ DOMAIN twice = 1..Len(turns)
      /\ \A i \in 1..Len(turns) : twice[i] = TextMessage(joined[i].role, TextOf(joined[i]))
  BY <1>3, JoinedSays
<1>5. twice = [i \in 1..Len(turns) |-> twice[i]]
  <2>1. twice = [i \in DOMAIN CanonicalMessages(joined) |->
                   TextMessage(CanonicalMessages(joined)[i].role, Join(CanonicalMessages(joined)[i].content))]
    BY DEF JoinedMessages, Each
  <2> QED
    BY <1>4, <2>1, Zenon
<1> HIDE DEF twice
<1>6. ASSUME NEW i \in 1..Len(turns) PROVE twice[i] = joined[i]
  <2> DEFINE role == turns[i].role
             text == TextOf(turns[i])
  <2>1. joined[i] = TextMessage(role, text)
    BY <1>1
  <2> HIDE DEF role, text
  <2>2. joined[i].role = role /\ TextOf(joined[i]) = text
    <3>1. Said(joined[i]) = [role |-> role, text |-> text]
      BY <2>1, TextMessageSays
    <3> QED
      BY <3>1 DEF Said
  <2> QED
    BY <2>1, <2>2, <1>4
<1>7. twice = joined
  BY <1>2, <1>5, <1>6
<1> QED
  BY <1>7 DEF twice, joined

\* The roles and the form of joined messages.
LEMMA JoinedReadable ==
  ASSUME NEW T, NEW turns \in Seq(T), NEW roles, \A i \in 1..Len(turns) : turns[i].role \in roles
  PROVE  ReadableMessages(JoinedMessages(CanonicalMessages(turns)), roles)
<1> DEFINE joined == JoinedMessages(CanonicalMessages(turns))
<1>1. /\ DOMAIN joined = 1..Len(turns)
      /\ \A i \in 1..Len(turns) : joined[i] = TextMessage(turns[i].role, TextOf(turns[i]))
  BY JoinedSays
<1> HIDE DEF joined
<1>2. ASSUME NEW m \in ToSet(joined) PROVE m.role \in roles /\ Readable(m.content)
  <2>1. PICK i \in 1..Len(turns) : m = TextMessage(turns[i].role, TextOf(turns[i]))
    BY <1>1 DEF ToSet
  <2>2. m.role = turns[i].role
    BY <2>1 DEF TextMessage
  <2> QED
    BY <2>1, <2>2, TextMessageSays
<1> QED
  BY <1>2 DEF ReadableMessages, joined

\* The parameters the anthropic codec sends.
Limited(params) == [Keep(params, ParamName \ {"user"}) EXCEPT !.max_tokens = OrElse(@, 1024)]

\* They stay as they are.
LEMMA ParamsAgain ==
  ASSUME NEW params
  PROVE  Limited(Limited(params)) = Limited(params)
<1>1. "max_tokens" \in ParamName /\ "max_tokens" # "user"
  BY DEF ParamName
<1>2. \A v : OrElse(v, 1024) # None /\ (v # None => OrElse(v, 1024) = v)
  BY NoneAssumption DEF OrElse
<1>3. ASSUME NEW p
      PROVE  Limited(p) = [n \in ParamName |->
                             IF n = "max_tokens" THEN OrElse(p[n], 1024)
                             ELSE IF n # "user" THEN p[n] ELSE None]
  <2> DEFINE kept == Keep(p, ParamName \ {"user"})
  <2>1. kept = [n \in ParamName |-> IF n \in ParamName \ {"user"} THEN p[n] ELSE None]
    BY DEF Keep
  <2>2. Limited(p) = [kept EXCEPT !["max_tokens"] = OrElse(@, 1024)]
    BY DEF Limited
  <2>3. \A n \in ParamName :
          Limited(p)[n] = IF n = "max_tokens" THEN OrElse(p[n], 1024)
                          ELSE IF n # "user" THEN p[n] ELSE None
    <3> SUFFICES ASSUME NEW n \in ParamName
                 PROVE  Limited(p)[n] = IF n = "max_tokens" THEN OrElse(p[n], 1024)
                                        ELSE IF n # "user" THEN p[n] ELSE None
      OBVIOUS
    <3>1. kept[n] = IF n \in ParamName \ {"user"} THEN p[n] ELSE None
      BY <2>1
    <3>2. DOMAIN kept = ParamName
      BY <2>1
    <3> HIDE DEF kept
    <3>3. CASE n = "max_tokens"
      BY <1>1, <2>2, <3>1, <3>2, <3>3
    <3>4. CASE n # "max_tokens"
      BY <2>2, <3>1, <3>2, <3>4
    <3> QED
      BY <3>3, <3>4
  <2> HIDE DEF kept
  <2>4. Limited(p) = [n \in ParamName |-> Limited(p)[n]]
    <3>1. kept = [n \in ParamName |-> kept[n]]
      BY <2>1 DEF kept
    <3> DEFINE v == OrElse(kept["max_tokens"], 1024)
    <3> HIDE DEF v
    <3>2. [kept EXCEPT !["max_tokens"] = v] =
            [n \in ParamName |-> [kept EXCEPT !["max_tokens"] = v][n]]
      BY <3>1
    <3>3. Limited(p) = [kept EXCEPT !["max_tokens"] = v]
      BY <2>2 DEF v
    <3> QED
      BY <3>2, <3>3
  <2> QED
    BY <2>3, <2>4
<1>4. \A n \in ParamName : Limited(Limited(params))[n] = Limited(params)[n]
  BY <1>2, <1>3
<1>5. \A p : Limited(p) = [n \in ParamName |-> Limited(p)[n]]
  BY <1>3
<1>6. Limited(Limited(params)) = Limited(params)
  BY <1>4, <1>5
<1> QED
  BY <1>6

\* An upstream that speaks the Anthropic API understands it too.
LEMMA AnthropicChained ==
  ASSUME NEW c, NEW T, NEW turns \in Seq(T),
         c.messages = CanonicalMessages(turns),
         \A i \in 1..Len(turns) : turns[i].role \in {"user", "assistant"},
         c.system # <<>> => TextMessage("system", Join(c.system)).content # None
  PROVE  Understands("anthropic", AnthropicBody(c))
<1> DEFINE sends == AnthropicBody(c)
           second == AsClient(sends)
           d == Canonical(second)
           again == build_upstream_request("anthropic", d)
           joined == JoinedMessages(CanonicalMessages(turns))
<1>1. /\ sends.path = "/v1/messages" /\ sends.stream = TRUE /\ sends.messages = joined
      /\ sends.system = IF c.system = <<>> THEN None
                        ELSE TextMessage("system", Join(c.system)).content
      /\ sends.params = Limited(c.params)
  BY DEF AnthropicBody, Limited
<1> HIDE DEF sends, joined
<1>2. /\ second.api = "messages" /\ second.version = "2023-06-01" /\ second.unsupported = FALSE
      /\ second.system = sends.system /\ second.messages = joined
      /\ second.params = sends.params /\ second.stream = TRUE
  BY <1>1 DEF AsClient
<1> HIDE DEF second
<1>3. Acceptable(second)
  <2>1. require_anthropic_version(second) /\ OnlySupportedFields(second)
    <3>1. None # "2023-06-01"
      BY NoneIsNoWord
    <3> QED
      BY <1>2, <3>1 DEF require_anthropic_version, OnlySupportedFields
  <2>2. ReadableMessages(second.messages, {"user", "assistant"})
    BY <1>2, JoinedReadable DEF joined
  <2>3. ReadableSystem(second.system)
    <3>1. second.system # None => second.system.shape = "text"
      BY <1>1, <1>2 DEF TextMessage
    <3> QED
      BY <3>1 DEF ReadableSystem
  <2> QED
    BY <1>2, <2>1, <2>2, <2>3 DEF Acceptable
<1>4. /\ d.system = normalize_system(second.system)
      /\ d.messages = CanonicalMessages(joined) /\ d.params = sends.params
  BY <1>2 DEF Canonical, into_canonical_request
<1> HIDE DEF d
<1>5. /\ again.path = "/v1/messages" /\ again.stream = TRUE
      /\ again.messages = JoinedMessages(d.messages)
      /\ again.system = IF d.system = <<>> THEN None
                        ELSE TextMessage("system", Join(d.system)).content
      /\ again.params = Limited(d.params)
  BY DEF build_upstream_request, AnthropicBody, Limited
<1> HIDE DEF again
<1>6. again.messages = sends.messages
  BY <1>1, <1>4, <1>5, JoinedAgain DEF joined
<1>7. again.params = sends.params
  BY <1>1, <1>4, <1>5, ParamsAgain
<1>8. again.system = sends.system
  <2>1. CASE c.system = <<>>
    <3>1. d.system = <<>>
      BY <1>1, <1>2, <1>4, <2>1 DEF normalize_system
    <3> QED
      BY <1>1, <1>5, <2>1, <3>1
  <2>2. CASE c.system # <<>>
    <3> DEFINE text == Join(c.system)
    <3>1. sends.system = TextMessage("system", text).content /\ sends.system # None
      BY <1>1, <2>2
    <3> HIDE DEF text
    <3>2. d.system = <<text>>
      BY <1>2, <1>4, <3>1, TextMessageSays DEF normalize_system
    <3>3. d.system # <<>> /\ Join(d.system) = text
      BY <3>2, JoinOne
    <3> QED
      BY <1>5, <3>1, <3>3
  <2> QED
    BY <2>1, <2>2
<1> QED
  BY <1>1, <1>3, <1>5, <1>6, <1>7, <1>8 DEF Understands, again, d, second, sends

\* A gateway behind this one accepts what this one sends and asks the same.
THEOREM ChainUnderstands == Spec => []ChainedGatewayUnderstands
<1>1. CallsInv => ChainedGatewayUnderstands
  <2> SUFFICES ASSUME CallsInv, sent # None PROVE Understands(kind, sent)
    BY DEF ChainedGatewayUnderstands, Understands
  <2>1. /\ request \in Request /\ Acceptable(request) /\ kind \in {"openai", "anthropic"}
        /\ Executable(kind, Canonical(request))
        /\ sent = build_upstream_request(kind, Canonical(request))
    BY DEF CallsInv, InProgress
  <2>2. CASE kind = "openai"
    BY <2>1, <2>2, OpenAiChained DEF build_upstream_request
  <2>3. CASE kind = "anthropic"
    <3> DEFINE c == Canonical(request)
               T == ToSet(request.messages)
    <3>1. /\ request.api \in {"chat", "messages"} /\ request.messages \in Seq(T)
          /\ sent = AnthropicBody(c)
      BY <2>1, <2>3, SendsEmbeddings, RequestAssumption DEF build_upstream_request
    <3>2. c.system # <<>> => TextMessage("system", Join(c.system)).content # None
      BY <2>1, FieldAssumption
    <3>3. CASE request.api = "messages"
      <4>1. c.messages = CanonicalMessages(request.messages)
        BY <3>3 DEF Canonical, into_canonical_request
      <4>2. \A m \in T : m.role \in {"user", "assistant"}
        BY <2>1, <3>3 DEF Acceptable, ReadableMessages
      <4>3. \A i \in 1..Len(request.messages) : request.messages[i].role \in {"user", "assistant"}
        BY <3>1, <4>2
      <4> HIDE DEF c, T
      <4> QED
        BY <2>3, <3>1, <3>2, <4>1, <4>3, AnthropicChained
    <3>4. CASE request.api = "chat"
      <4> DEFINE turns == TurnsOnly(request.messages)
                 U == {m \in T : m.role \in {"user", "assistant"}}
                 places == {i \in DOMAIN request.messages : request.messages[i].role # "system"}
      <4>1. c.messages = CanonicalMessages(turns)
        BY <3>4 DEF Canonical, ChatCanonical
      <4>2. \A m \in T : m.role \in {"system", "user", "assistant"}
        BY <2>1, <3>4 DEF Acceptable, ReadableMessages
      <4>3. \A i \in 1..Len(request.messages) : i \in places => request.messages[i] \in U
        BY <3>1, <4>2
      <4>4. turns = At(request.messages, places)
        BY DEF TurnsOnly
      <4> HIDE DEF c, T, turns, U, places
      <4>5. At(request.messages, places) \in Seq(U)
        BY <3>1, <4>3, AtElements
      <4>6. turns \in Seq(U)
        BY <4>4, <4>5
      <4>7. \A i \in 1..Len(turns) : turns[i].role \in {"user", "assistant"}
        BY <4>6 DEF U
      <4> QED
        BY <2>3, <3>1, <3>2, <4>1, <4>6, <4>7, AnthropicChained
    <3> QED
      BY <3>1, <3>3, <3>4
  <2> QED
    BY <2>1, <2>2, <2>3
<1> QED
  BY <1>1, CallsInvHolds, PTL

-----------------------------------------------------------------------------
(* What frames say, one frame more or some frames after others *)

\* Leaving a value out, one member more.
LEMMA WithoutAppend ==
  ASSUME NEW T, NEW seq \in Seq(T), NEW y \in T, NEW x
  PROVE  Without(Append(seq, y), x) = IF y = x THEN Without(seq, x) ELSE Append(Without(seq, x), y)
<1> DEFINE longer == Append(seq, y)
           there == {i \in DOMAIN seq : seq[i] # x}
           now == {i \in DOMAIN longer : longer[i] # x}
<1>1. /\ longer \in Seq(T) /\ Len(longer) = Len(seq) + 1 /\ Len(seq) \in Nat
      /\ \A i \in 1..Len(seq) : longer[i] = seq[i]
      /\ longer[Len(seq) + 1] = y
  BY AppendProperties
<1>2. DOMAIN seq = 1..Len(seq) /\ DOMAIN longer = 1..(Len(seq) + 1)
  BY <1>1
<1>3. \A i \in 1..Len(seq) : i \in now <=> i \in there
  BY <1>1, <1>2
<1>4. Len(seq) + 1 \in now <=> y # x
  BY <1>1, <1>2
<1>5. Without(seq, x) = At(seq, there) /\ Without(longer, x) = At(longer, now)
  BY DEF Without
<1> HIDE DEF there, now
<1>6. At(seq, now) = At(seq, there)
  BY <1>3, AtSame
<1>7. At(longer, now) = IF Len(seq) + 1 \in now THEN Append(At(seq, now), y) ELSE At(seq, now)
  BY AtAppend
<1> QED
  BY <1>4, <1>5, <1>6, <1>7

\* Leaving a value out of nothing.
LEMMA WithoutEmpty ==
  ASSUME NEW x
  PROVE  Without(<<>>, x) = <<>>
BY AtEmpty DEF Without

\* What is left no longer has the value.
LEMMA WithoutType ==
  ASSUME NEW T, NEW seq \in Seq(T), NEW x
  PROVE  Without(seq, x) \in Seq(T \ {x})
<1> DEFINE places == {i \in DOMAIN seq : seq[i] # x}
           U == T \ {x}
<1>1. \A i \in 1..Len(seq) : i \in places => seq[i] \in U
  OBVIOUS
<1>2. Without(seq, x) = At(seq, places)
  BY DEF Without
<1> HIDE DEF places, U
<1>3. At(seq, places) \in Seq(U)
  BY <1>1, AtElements
<1> QED
  BY <1>2, <1>3 DEF U

\* A value that is not there leaves the sequence as it is.
LEMMA WithoutNothing ==
  ASSUME NEW T, NEW seq \in Seq(T), NEW x, x \notin T
  PROVE  Without(seq, x) = seq
<1> DEFINE places == {i \in DOMAIN seq : seq[i] # x}
<1>1. \A i \in 1..Len(seq) : i \in places
  OBVIOUS
<1> HIDE DEF places
<1>2. At(seq, places) = seq
  BY <1>1, AtAll
<1> QED
  BY <1>2 DEF Without, places

\* Leaving a value out of two sequences joined.
LEMMA WithoutConcat ==
  ASSUME NEW T, NEW a \in Seq(T), NEW b \in Seq(T), NEW x
  PROVE  Without(a \o b, x) = Without(a, x) \o Without(b, x)
<1> DEFINE both == a \o b
           all == {i \in DOMAIN both : both[i] # x}
           first == {i \in DOMAIN a : a[i] # x}
           second == {i \in DOMAIN b : b[i] # x}
<1>1. /\ Len(a) \in Nat /\ Len(b) \in Nat
      /\ DOMAIN both = 1..(Len(a) + Len(b)) /\ DOMAIN a = 1..Len(a) /\ DOMAIN b = 1..Len(b)
      /\ \A i \in 1..Len(a) : both[i] = a[i]
      /\ \A i \in 1..Len(b) : both[Len(a) + i] = b[i]
  OBVIOUS
<1>2. Without(both, x) = At(both, all) /\ Without(a, x) = At(a, first) /\ Without(b, x) = At(b, second)
  BY DEF Without
<1> HIDE DEF both
<1>3. \A i \in 1..Len(a) : i \in all <=> i \in first
  BY <1>1
<1>4. \A i \in 1..Len(b) : i \in second <=> Len(a) + i \in all
  BY <1>1
<1> HIDE DEF all, first, second
<1>5. At(a, all) = At(a, first)
  BY <1>3, AtSame
<1>6. At(a \o b, all) = At(a, all) \o At(b, second)
  BY <1>4, AtConcat
<1> QED
  BY <1>2, <1>5, <1>6 DEF both

\* A field of the frames, one frame more.
LEMMA FieldAppend ==
  ASSUME NEW T, NEW frames \in Seq(T), NEW e \in T, NEW f
  PROVE  /\ Field(Append(frames, e), f) = Append(Field(frames, f), e[f])
         /\ Field(frames, f) \in Seq({t[f] : t \in T})
BY DEF Field

\* No frames have no field.
LEMMA FieldEmpty ==
  ASSUME NEW f
  PROVE  Field(<<>>, f) = <<>>
BY DEF Field

\* The values of a field, one frame more.
LEMMA GivenAppend ==
  ASSUME NEW T, NEW frames \in Seq(T), NEW e \in T, NEW f
  PROVE  Given(Field(Append(frames, e), f)) =
           IF e[f] = None THEN Given(Field(frames, f)) ELSE Append(Given(Field(frames, f)), e[f])
<1> DEFINE values == Field(frames, f)
           V == {t[f] : t \in T}
           y == e[f]
<1>1. Field(Append(frames, e), f) = Append(values, y) /\ values \in Seq(V)
  BY FieldAppend
<1>2. y \in V
  OBVIOUS
<1> HIDE DEF values, V, y
<1>3. Without(Append(values, y), None) =
        IF y = None THEN Without(values, None) ELSE Append(Without(values, None), y)
  BY <1>1, <1>2, WithoutAppend
<1> QED
  BY <1>1, <1>3 DEF Given, values, y

\* No frames give no values.
LEMMA GivenEmpty ==
  ASSUME NEW f
  PROVE  Given(Field(<<>>, f)) = <<>>
BY FieldEmpty, WithoutEmpty DEF Given

\* The values a field is given are of the field's type.
LEMMA GivenType ==
  ASSUME NEW T, NEW frames \in Seq(T), NEW f, NEW V, \A t \in T : t[f] \in V \cup {None}
  PROVE  Given(Field(frames, f)) \in Seq(V)
<1> DEFINE values == Field(frames, f)
           W == V \cup {None}
<1>1. values \in Seq(W)
  BY DEF Field
<1> HIDE DEF values, W
<1>2. Without(values, None) \in Seq(W \ {None})
  BY <1>1, WithoutType
<1>3. W \ {None} \subseteq V
  BY DEF W
<1> QED
  BY <1>2, <1>3 DEF Given, values

-----------------------------------------------------------------------------
(* Up to the end mark *)

Ended(frames) == \E i \in DOMAIN frames : IsEnd(frames[i])

\* The end mark is the first.
LEMMA EndMarkIsFirst ==
  ASSUME NEW T, NEW frames \in Seq(T)
  PROVE  /\ ~Ended(frames) => EndMark(frames) = 0
         /\ Ended(frames) => /\ EndMark(frames) \in 1..Len(frames)
                             /\ IsEnd(frames[EndMark(frames)])
                             /\ \A i \in 1..Len(frames) : IsEnd(frames[i]) => EndMark(frames) <= i
<1> DEFINE I == {i \in 1..Len(frames) : IsEnd(frames[i])}
           First(i) == i \in I /\ \A j \in I : i <= j
<1>1. EndMark(frames) = IF I # {} THEN (CHOOSE i \in I : \A j \in I : i <= j) ELSE 0
  BY DEF EndMark, SelectInSeq, Min
<1>2. Ended(frames) <=> I # {}
  BY DEF Ended
<1>3. ASSUME I # {} PROVE \E i \in I : \A j \in I : i <= j
  <2>1. IsWellFoundedOn(OpToRel(<, Nat), Nat)
    BY NatLessThanWellFounded
  <2>2. I \subseteq Nat
    OBVIOUS
  <2> HIDE DEF I
  <2>3. PICK i \in I : \A j \in I : ~ (<<j, i>> \in OpToRel(<, Nat))
    BY <1>3, <2>1, <2>2, WFMin
  <2>4. \A j \in I : ~ (j < i)
    BY <2>2, <2>3 DEF OpToRel
  <2> QED
    BY <2>2, <2>4
<1> HIDE DEF I
<1>4. I # {} => /\ EndMark(frames) \in I
                /\ \A j \in I : EndMark(frames) <= j
  BY <1>1, <1>3
<1> QED
  BY <1>1, <1>2, <1>4 DEF I

\* One frame more ends a stream if it is an end mark.
LEMMA EndedAppend ==
  ASSUME NEW T, NEW frames \in Seq(T), NEW x \in T
  PROVE  Ended(Append(frames, x)) <=> Ended(frames) \/ IsEnd(x)
<1> DEFINE longer == Append(frames, x)
<1>1. /\ Len(frames) \in Nat /\ DOMAIN frames = 1..Len(frames)
      /\ DOMAIN longer = 1..(Len(frames) + 1)
      /\ \A i \in 1..Len(frames) : longer[i] = frames[i]
      /\ longer[Len(frames) + 1] = x
  OBVIOUS
<1> HIDE DEF longer
<1>2. \A i \in 1..(Len(frames) + 1) : i \in 1..Len(frames) \/ i = Len(frames) + 1
  BY <1>1
<1>3. 1..Len(frames) \subseteq 1..(Len(frames) + 1) /\ Len(frames) + 1 \in 1..(Len(frames) + 1)
  BY <1>1
<1> HIDE DEF IsEnd
<1> QED
  BY <1>1, <1>2, <1>3 DEF Ended, longer

\* A stream that has not ended is read whole.
LEMMA UpToEndOpen ==
  ASSUME NEW T, NEW frames \in Seq(T), ~Ended(frames)
  PROVE  UpToEnd(frames) = frames
BY EndMarkIsFirst DEF UpToEnd

\* The frames up to the end are frames of the stream, and the last is the first
\* end mark.
LEMMA UpToEndType ==
  ASSUME NEW T, NEW frames \in Seq(T)
  PROVE  /\ UpToEnd(frames) \in Seq(T)
         /\ Len(UpToEnd(frames)) <= Len(frames)
         /\ Ended(frames) => Len(UpToEnd(frames)) = EndMark(frames)
<1>1. CASE ~Ended(frames)
  BY <1>1, UpToEndOpen
<1>2. CASE Ended(frames)
  <2>1. EndMark(frames) \in 1..Len(frames)
    BY <1>2, EndMarkIsFirst
  <2>2. UpToEnd(frames) = SubSeq(frames, 1, EndMark(frames))
    BY <2>1 DEF UpToEnd
  <2> QED
    BY <1>2, <2>1, <2>2, SubSeqProperties
<1> QED
  BY <1>1, <1>2

\* One that ends with its last frame too.
LEMMA UpToEndLast ==
  ASSUME NEW T, NEW frames \in Seq(T), EndMark(frames) = Len(frames)
  PROVE  UpToEnd(frames) = frames
<1>1. CASE EndMark(frames) = 0
  BY <1>1 DEF UpToEnd
<1>2. CASE EndMark(frames) # 0
  <2>1. UpToEnd(frames) = SubSeq(frames, 1, Len(frames))
    BY <1>2 DEF UpToEnd
  <2> QED
    BY <2>1
<1> QED
  BY <1>1, <1>2

\* A stream that has not ended is read up to its newest frame.
LEMMA UpToEndAppend ==
  ASSUME NEW T, NEW frames \in Seq(T), NEW x \in T, ~Ended(frames)
  PROVE  UpToEnd(Append(frames, x)) = Append(frames, x)
<1> DEFINE longer == Append(frames, x)
<1>1. /\ longer \in Seq(T) /\ Len(longer) = Len(frames) + 1 /\ Len(frames) \in Nat
      /\ \A i \in 1..Len(frames) : longer[i] = frames[i]
  OBVIOUS
<1> HIDE DEF longer
<1>2. ASSUME ~Ended(longer) PROVE UpToEnd(longer) = longer
  BY <1>1, <1>2, UpToEndOpen
<1>3. ASSUME Ended(longer) PROVE UpToEnd(longer) = longer
  <2>1. EndMark(longer) \in 1..Len(longer) /\ IsEnd(longer[EndMark(longer)])
    BY <1>1, <1>3, EndMarkIsFirst
  <2>2. EndMark(longer) \notin 1..Len(frames)
    <3> HIDE DEF IsEnd
    <3> QED
      BY <1>1, <2>1 DEF Ended
  <2>3. EndMark(longer) = Len(longer)
    BY <1>1, <2>1, <2>2
  <2> QED
    BY <1>1, <2>3, UpToEndLast
<1> QED
  BY <1>2, <1>3 DEF longer

\* What follows the end mark is not read.
LEMMA UpToEndConcat ==
  ASSUME NEW T, NEW frames \in Seq(T), NEW rest \in Seq(T), Ended(frames)
  PROVE  /\ UpToEnd(frames \o rest) = UpToEnd(frames)
         /\ Ended(frames \o rest)
<1> DEFINE longer == frames \o rest
           mark == EndMark(frames)
<1>1. /\ longer \in Seq(T) /\ Len(frames) \in Nat /\ Len(rest) \in Nat
      /\ Len(longer) = Len(frames) + Len(rest)
      /\ DOMAIN longer = 1..(Len(frames) + Len(rest))
      /\ \A i \in 1..Len(frames) : longer[i] = frames[i]
  OBVIOUS
<1>2. /\ mark \in 1..Len(frames) /\ IsEnd(frames[mark])
      /\ \A i \in 1..Len(frames) : IsEnd(frames[i]) => mark <= i
  BY EndMarkIsFirst
<1> HIDE DEF longer, mark, IsEnd
<1>3. mark \in DOMAIN longer /\ IsEnd(longer[mark])
  BY <1>1, <1>2
<1>4. Ended(longer)
  BY <1>3 DEF Ended
<1>5. /\ EndMark(longer) \in 1..Len(longer) /\ IsEnd(longer[EndMark(longer)])
      /\ \A i \in 1..Len(longer) : IsEnd(longer[i]) => EndMark(longer) <= i
  BY <1>1, <1>4, EndMarkIsFirst
<1>6. EndMark(longer) <= mark
  BY <1>1, <1>3, <1>5
<1>7. EndMark(longer) \in 1..Len(frames)
  BY <1>1, <1>2, <1>5, <1>6
<1>8. mark <= EndMark(longer)
  BY <1>1, <1>2, <1>5, <1>7
<1>9. EndMark(longer) = mark
  BY <1>2, <1>6, <1>7, <1>8
<1>10. UpToEnd(longer) = SubSeq(longer, 1, mark) /\ UpToEnd(frames) = SubSeq(frames, 1, mark)
  BY <1>2, <1>9 DEF UpToEnd, mark
<1>11. SubSeq(longer, 1, mark) = SubSeq(frames, 1, mark)
  <2>1. SubSeq(longer, 1, mark) \in Seq(T) /\ Len(SubSeq(longer, 1, mark)) = mark
    BY <1>1, <1>2, SubSeqProperties
  <2>2. SubSeq(frames, 1, mark) \in Seq(T) /\ Len(SubSeq(frames, 1, mark)) = mark
    BY <1>1, <1>2, SubSeqProperties
  <2>3. \A i \in 1..mark : SubSeq(longer, 1, mark)[i] = longer[i] /\ SubSeq(frames, 1, mark)[i] = frames[i]
    BY <1>1, <1>2
  <2>4. \A i \in 1..mark : longer[i] = frames[i]
    BY <1>1, <1>2
  <2> QED
    BY <2>1, <2>2, <2>3, <2>4, SeqEqual
<1> QED
  BY <1>4, <1>10, <1>11 DEF longer

-----------------------------------------------------------------------------
(* The chunks of an Anthropic answer, and the events of a rendered one *)

Contents(id, texts) == [i \in DOMAIN texts |-> ContentChunk(id, texts[i])]

ChunkIds == Id \cup {AnthropicId, RenderedId}

NormalChunk == [id : ChunkIds, text : Text \cup {None}, finish : {None, "stop", "length"},
                usage : Usage \cup {None}]

\* The content chunks of an answer carry its texts and nothing else.
LEMMA ContentsSay ==
  ASSUME NEW id \in ChunkIds, NEW texts \in Seq(Text)
  PROVE  LET chunks == Contents(id, texts) IN
         /\ chunks \in Seq(NormalChunk)
         /\ Given(Field(chunks, "text")) = texts
         /\ Given(Field(chunks, "finish")) = <<>>
         /\ Given(Field(chunks, "usage")) = <<>>
<1> DEFINE T == {ContentChunk(id, t) : t \in Text}
           chunks == Contents(id, texts)
<1>1. chunks \in Seq(T) /\ Len(chunks) = Len(texts)
  BY DEF Contents
<1>2. T \subseteq NormalChunk
  BY DEF ContentChunk, NormalChunk
<1>3. Field(chunks, "text") = texts
  BY DEF Contents, Field, ContentChunk
<1>4. /\ \A t \in T : t["finish"] \in {} \cup {None}
      /\ \A t \in T : t["usage"] \in {} \cup {None}
  BY DEF ContentChunk
<1> HIDE DEF T, chunks
<1>5. chunks \in Seq(NormalChunk)
  BY <1>1, <1>2
<1>6. Given(Field(chunks, "text")) = texts
  BY <1>3, FieldsAssumption, WithoutNothing DEF Given
<1>7. Given(Field(chunks, "finish")) \in Seq({}) /\ Given(Field(chunks, "usage")) \in Seq({})
  BY <1>1, <1>4, GivenType
<1>8. Given(Field(chunks, "finish")) = <<>> /\ Given(Field(chunks, "usage")) = <<>>
  BY <1>7
<1> QED
  BY <1>5, <1>6, <1>8 DEF chunks

\* The chunks of an answer and its end mark: what one message_stop adds.
AnswerChunks(id, texts, finish, usages) ==
  Append(Contents(id, texts), FinalChunk(id, finish, usages))

\* A whole answer in chunks carries its texts, its reason and its counts.
LEMMA AnswerSays ==
  ASSUME NEW id \in ChunkIds, NEW texts \in Seq(Text),
         NEW finish \in {None, "stop", "length"}, NEW counts \in Usage \cup {None}
  PROVE  LET chunks == AnswerChunks(id, texts, finish, counts) IN
         /\ chunks \in Seq(NormalChunk)
         /\ ~Ended(chunks)
         /\ Ended(Append(chunks, Done))
         /\ Append(chunks, Done) \in Seq(NormalChunk \cup {Done})
         /\ UpToEnd(Append(chunks, Done)) = Append(chunks, Done)
         /\ Chunks(Append(chunks, Done)) = chunks
         /\ Given(Field(chunks, "text")) = texts
         /\ Given(Field(chunks, "finish")) = <<OrElse(finish, "stop")>>
         /\ Given(Field(chunks, "usage")) = IF counts = None THEN <<>> ELSE <<counts>>
<1> DEFINE contents == Contents(id, texts)
           final == FinalChunk(id, finish, counts)
           chunks == Append(contents, final)
<1>1. final \in NormalChunk
  BY DEF FinalChunk, OrElse, NormalChunk
<1>2. final["text"] = None /\ final["finish"] = OrElse(finish, "stop") /\ final["usage"] = counts
  BY DEF FinalChunk
<1>3. contents \in Seq(NormalChunk) /\ Given(Field(contents, "text")) = texts
      /\ Given(Field(contents, "finish")) = <<>> /\ Given(Field(contents, "usage")) = <<>>
  BY ContentsSay
<1>4. OrElse(finish, "stop") # None
  BY NoneIsNoWord DEF OrElse
<1> HIDE DEF contents, final
<1>5. /\ Given(Field(chunks, "text")) = texts
      /\ Given(Field(chunks, "finish")) = <<OrElse(finish, "stop")>>
      /\ Given(Field(chunks, "usage")) = IF counts = None THEN <<>> ELSE <<counts>>
  <2>1. \A f : Given(Field(chunks, f)) =
                IF final[f] = None THEN Given(Field(contents, f))
                ELSE Append(Given(Field(contents, f)), final[f])
    <3>1. contents \in Seq(NormalChunk)
      BY <1>3
    <3> QED
      BY <1>1, <3>1, GivenAppend
  <2> HIDE DEF chunks
  <2>2. Given(Field(chunks, "text")) = texts
    BY <1>2, <1>3, <2>1
  <2>3. Given(Field(chunks, "finish")) = Append(<<>>, OrElse(finish, "stop"))
    BY <1>2, <1>3, <1>4, <2>1
  <2>4. Given(Field(chunks, "usage")) = IF counts = None THEN <<>> ELSE Append(<<>>, counts)
    BY <1>2, <1>3, <2>1
  <2> QED
    BY <2>2, <2>3, <2>4
<1>6. chunks \in Seq(NormalChunk)
  BY <1>1, <1>3
<1> HIDE DEF chunks
<1>7. \A c \in NormalChunk : ~IsEnd(c) /\ c # Done
  BY DEF NormalChunk, IsEnd, Done
<1>8. ~Ended(chunks)
  <2> HIDE DEF IsEnd
  <2> QED
    BY <1>6, <1>7 DEF Ended
<1> DEFINE F == NormalChunk \cup {Done}
<1>9. chunks \in Seq(F) /\ Done \in F
  BY <1>6
<1> HIDE DEF F
<1>10. Ended(Append(chunks, Done))
  BY <1>9, EndedAppend DEF IsEnd
<1>11. UpToEnd(Append(chunks, Done)) = Append(chunks, Done)
  BY <1>8, <1>9, UpToEndAppend
<1>12. Chunks(Append(chunks, Done)) = chunks
  <2>1. Without(Append(chunks, Done), Done) = Without(chunks, Done)
    BY <1>9, WithoutAppend
  <2>2. Done \notin NormalChunk
    BY <1>7
  <2>3. Without(chunks, Done) = chunks
    BY <1>6, <2>2, WithoutNothing
  <2> QED
    BY <2>1, <2>3 DEF Chunks
<1>13. Append(chunks, Done) \in Seq(F)
  BY <1>9
<1> QED
  BY <1>5, <1>6, <1>8, <1>10, <1>11, <1>12, <1>13 DEF AnswerChunks, chunks, contents, final, F

\* Sequences written out.
LEMMA AppendToOne ==
  ASSUME NEW p, NEW q
  PROVE  Append(<<p>>, q) = <<p, q>>
<1> DEFINE T == {p, q}
           both == <<p, q>>
<1>1. <<p>> \in Seq(T) /\ both \in Seq(T) /\ q \in T
  OBVIOUS
<1>2. Len(both) = 2 /\ both[1] = p /\ both[2] = q /\ Len(<<p>>) = 1 /\ <<p>>[1] = p
  OBVIOUS
<1> HIDE DEF T, both
<1>3. Append(<<p>>, q) \in Seq(T) /\ Len(Append(<<p>>, q)) = 2
  BY <1>1, <1>2, AppendProperties
<1>4. Append(<<p>>, q)[1] = p /\ Append(<<p>>, q)[2] = q
  BY <1>1, <1>2, AppendProperties
<1>5. \A i \in 1..2 : Append(<<p>>, q)[i] = both[i]
  <2>1. \A i \in 1..2 : i = 1 \/ i = 2
    OBVIOUS
  <2> QED
    BY <1>2, <1>4, <2>1
<1>6. Append(<<p>>, q) = both
  BY <1>1, <1>2, <1>3, <1>5, SeqEqual
<1> QED
  BY <1>6 DEF both

StartEvent(id, counts) ==
  [Event("message_start") EXCEPT !.id = id, !.usage = [input |-> counts.input, output |-> 0]]

TextEvent(text) == [Event("content_block_delta") EXCEPT !.text = text]

TextEvents(texts) == [i \in DOMAIN texts |-> TextEvent(texts[i])]

StopEvent(stop, counts) ==
  [Event("message_delta") EXCEPT !.stop = stop,
                                 !.usage = [input |-> None, output |-> counts.output]]

\* A rendered answer up to its last text, and the whole of it.
BegunEvents(id, counts, texts) ==
  <<StartEvent(id, counts), Event("content_block_start")>> \o TextEvents(texts)

MessageEvents(id, counts, texts, stop) ==
  Append(Append(Append(BegunEvents(id, counts, texts), Event("content_block_stop")),
                StopEvent(stop, counts)),
         Event("message_stop"))

\* The events the lemmas below are about.
EventSet(id, counts, stop) ==
  {StartEvent(id, counts), Event("content_block_start"), Event("content_block_stop"),
   StopEvent(stop, counts), Event("message_stop")} \cup {TextEvent(t) : t \in Text}

\* A message begun grows by an event with each text.
LEMMA BegunByText ==
  ASSUME NEW id, NEW counts, NEW stop
  PROVE  /\ BegunEvents(id, counts, <<>>) =
              Append(Append(<<>>, StartEvent(id, counts)), Event("content_block_start"))
         /\ \A texts \in Seq(Text), x \in Text :
              BegunEvents(id, counts, Append(texts, x)) =
                Append(BegunEvents(id, counts, texts), TextEvent(x))
         /\ \A texts \in Seq(Text) :
              BegunEvents(id, counts, texts) \in Seq(EventSet(id, counts, stop))
<1> DEFINE T == EventSet(id, counts, stop)
           a == StartEvent(id, counts)
           b == Event("content_block_start")
<1>1. /\ a \in T /\ b \in T
      /\ \A t \in Text : TextEvent(t) \in T
  BY DEF EventSet
<1>2. TextEvents(<<>>) = <<>>
  BY DEF TextEvents
<1>3. ASSUME NEW texts \in Seq(Text)
      PROVE  /\ TextEvents(texts) \in Seq(T)
             /\ \A x \in Text : TextEvents(Append(texts, x)) = Append(TextEvents(texts), TextEvent(x))
  <2>1. TextEvents(texts) \in Seq(T)
    <3> HIDE DEF T
    <3> QED
      BY <1>1 DEF TextEvents
  <2>2. ASSUME NEW x \in Text
        PROVE  TextEvents(Append(texts, x)) = Append(TextEvents(texts), TextEvent(x))
    BY DEF TextEvents
  <2> QED
    BY <2>1, <2>2
<1> HIDE DEF T, a, b
<1>4. <<a, b>> \in Seq(T) /\ <<a, b>> = Append(Append(<<>>, a), b)
  BY <1>1
<1>5. \A texts : BegunEvents(id, counts, texts) = <<a, b>> \o TextEvents(texts)
  BY DEF BegunEvents, a, b
<1>6. BegunEvents(id, counts, <<>>) = <<a, b>>
  BY <1>2, <1>4, <1>5, ConcatEmptySeq
<1>7. ASSUME NEW texts \in Seq(Text), NEW x \in Text
      PROVE  BegunEvents(id, counts, Append(texts, x)) =
               Append(BegunEvents(id, counts, texts), TextEvent(x))
  <2>1. TextEvents(Append(texts, x)) = Append(TextEvents(texts), TextEvent(x))
    BY <1>3
  <2>2. \A s \in Seq(T), y \in T : <<a, b>> \o Append(s, y) = Append(<<a, b>> \o s, y)
    BY <1>4
  <2>3. TextEvents(texts) \in Seq(T) /\ TextEvent(x) \in T
    BY <1>1, <1>3
  <2> QED
    BY <1>5, <2>1, <2>2, <2>3
<1>8. ASSUME NEW texts \in Seq(Text) PROVE BegunEvents(id, counts, texts) \in Seq(T)
  <2>1. TextEvents(texts) \in Seq(T)
    BY <1>3
  <2> QED
    BY <1>4, <1>5, <2>1, ConcatProperties
<1> QED
  BY <1>4, <1>6, <1>7, <1>8 DEF T, a, b

\* What a rendered answer says, up to its last text.
LEMMA BegunSays ==
  ASSUME NEW id, NEW counts \in Usage, NEW stop, NEW texts \in Seq(Text)
  PROVE  LET begun == BegunEvents(id, counts, texts) IN
         /\ Given(Field(begun, "text")) = texts
         /\ Given(Field(begun, "stop")) = <<>>
         /\ Given(Field(begun, "usage")) = <<[input |-> counts.input, output |-> 0]>>
         /\ ~Ended(begun)
<1> DEFINE T == EventSet(id, counts, stop)
           begun(t) == BegunEvents(id, counts, t)
           start == StartEvent(id, counts)
           block == Event("content_block_start")
           first == [input |-> counts.input, output |-> 0]
           Says(t) == /\ Given(Field(begun(t), "text")) = t
                      /\ Given(Field(begun(t), "stop")) = <<>>
                      /\ Given(Field(begun(t), "usage")) = <<first>>
                      /\ ~Ended(begun(t))
           S == {t \in Seq(Text) : Says(t)}
<1>1. /\ start["text"] = None /\ start["stop"] = None /\ start["usage"] = first
      /\ block["text"] = None /\ block["stop"] = None /\ block["usage"] = None
      /\ ~IsEnd(start) /\ ~IsEnd(block) /\ start \in T /\ block \in T
  BY DEF StartEvent, Event, IsEnd, Done, EventSet
<1>2. \A x \in Text : /\ TextEvent(x)["text"] = x /\ TextEvent(x)["stop"] = None
                      /\ TextEvent(x)["usage"] = None /\ ~IsEnd(TextEvent(x)) /\ TextEvent(x) \in T
  BY DEF TextEvent, Event, IsEnd, Done, EventSet
<1>3. first # None
  <2>1. first \in WireUsage
    BY DEF WireUsage, Usage, Count
  <2> QED
    BY <2>1, FieldsAssumption
<1>4. /\ begun(<<>>) = Append(Append(<<>>, start), block)
      /\ \A t \in Seq(Text), x \in Text : begun(Append(t, x)) = Append(begun(t), TextEvent(x))
      /\ \A t \in Seq(Text) : begun(t) \in Seq(T)
  BY BegunByText
<1> HIDE DEF T, begun, start, block, first
<1>5. Says(<<>>)
  <2> DEFINE one == Append(<<>>, start)
  <2>1. <<>> \in Seq(T) /\ one \in Seq(T)
    BY <1>1
  <2>2. \A f : Given(Field(one, f)) =
                 IF start[f] = None THEN Given(Field(<<>>, f)) ELSE Append(Given(Field(<<>>, f)), start[f])
    BY <1>1, <2>1, GivenAppend
  <2>3. Ended(one) <=> Ended(<<>>) \/ IsEnd(start)
    BY <1>1, <2>1, EndedAppend
  <2>4. ~Ended(<<>>)
    BY DEF Ended
  <2> HIDE DEF one, IsEnd
  <2>5. \A f : Given(Field(Append(one, block), f)) =
                 IF block[f] = None THEN Given(Field(one, f)) ELSE Append(Given(Field(one, f)), block[f])
    BY <1>1, <2>1, GivenAppend
  <2>6. Ended(Append(one, block)) <=> Ended(one) \/ IsEnd(block)
    BY <1>1, <2>1, EndedAppend
  <2>9. begun(<<>>) = Append(one, block)
    BY <1>4 DEF one
  <2>7. \A f : Given(Field(<<>>, f)) = <<>>
    BY GivenEmpty
  <2>8. Append(<<>>, first) = <<first>>
    OBVIOUS
  <2> QED
    BY <1>1, <1>3, <2>2, <2>3, <2>4, <2>5, <2>6, <2>7, <2>8, <2>9
<1>6. ASSUME NEW t \in Seq(Text), NEW x \in Text, Says(t) PROVE Says(Append(t, x))
  <2>1. begun(t) \in Seq(T) /\ TextEvent(x) \in T /\ x # None
    BY <1>2, <1>4, FieldsAssumption
  <2>2. \A f : Given(Field(Append(begun(t), TextEvent(x)), f)) =
                 IF TextEvent(x)[f] = None THEN Given(Field(begun(t), f))
                 ELSE Append(Given(Field(begun(t), f)), TextEvent(x)[f])
    BY <2>1, GivenAppend
  <2>3. Ended(Append(begun(t), TextEvent(x))) <=> Ended(begun(t)) \/ IsEnd(TextEvent(x))
    BY <2>1, EndedAppend
  <2>4. begun(Append(t, x)) = Append(begun(t), TextEvent(x))
    BY <1>4
  <2> HIDE DEF IsEnd
  <2> QED
    BY <1>2, <1>6, <2>1, <2>2, <2>3, <2>4
<1> HIDE DEF Says
<1>7. <<>> \in S
  BY <1>5, EmptySeq
<1>8. \A t \in Seq(Text), x \in Text : t \in S => Append(t, x) \in S
  BY <1>6
<1>9. Seq(Text) \subseteq S
  <2> HIDE DEF S
  <2> QED
    BY <1>7, <1>8, AppendInduction
<1>10. Says(texts)
  BY <1>9
<1> QED
  BY <1>10 DEF Says, begun, first

\* The counts of a rendered answer are those it was rendered with.
LEMMA CountsRead ==
  ASSUME NEW counts \in Usage, NEW frames,
         Given(Field(frames, "usage")) = <<[input |-> counts.input, output |-> 0],
                                           [input |-> None, output |-> counts.output]>>
  PROVE  UsageRead("anthropic", frames) = counts
<1> DEFINE first == [input |-> counts.input, output |-> 0]
           second == [input |-> None, output |-> counts.output]
           T == {first, second}
           one == Append(<<>>, first)
           two == Append(one, second)
<1>1. Given(Field(frames, "usage")) = two /\ one = <<first>> /\ two # <<>>
  OBVIOUS
<1>2. first["input"] = counts.input /\ second["input"] = None
      /\ first["output"] = 0 /\ second["output"] = counts.output
      /\ counts.input \in Nat /\ counts.output \in Nat /\ 0 \in Nat
      /\ counts = [input |-> counts.input, output |-> counts.output]
  BY DEF Usage
<1>3. None \notin Nat
  BY NoneAssumption
<1>4. <<>> \in Seq(T) /\ one \in Seq(T) /\ first \in T /\ second \in T
  OBVIOUS
<1> HIDE DEF first, second, T
<1>5. \A f : Given(Field(one, f)) =
               IF first[f] = None THEN Given(Field(<<>>, f)) ELSE Append(Given(Field(<<>>, f)), first[f])
  BY <1>4, GivenAppend
<1> HIDE DEF one
<1>6. \A f : Given(Field(two, f)) =
               IF second[f] = None THEN Given(Field(one, f)) ELSE Append(Given(Field(one, f)), second[f])
  BY <1>4, GivenAppend
<1>7. \A f : Given(Field(<<>>, f)) = <<>>
  BY GivenEmpty
<1> HIDE DEF two
<1>8. Given(Field(two, "input")) = Append(<<>>, counts.input)
  <2>1. Given(Field(one, "input")) = Append(<<>>, counts.input)
    BY <1>2, <1>3, <1>5, <1>7
  <2> QED
    BY <1>2, <1>6, <2>1
<1>9. Given(Field(two, "output")) = Append(Append(<<>>, 0), counts.output)
  <2>1. Given(Field(one, "output")) = Append(<<>>, 0)
    BY <1>2, <1>3, <1>5, <1>7
  <2> QED
    BY <1>2, <1>3, <1>6, <2>1
<1>10. LastOf(Given(Field(two, "input"))) = counts.input
       /\ LastOf(Given(Field(two, "output"))) = counts.output
  BY <1>8, <1>9 DEF LastOf, Last
<1>11. UsageRead("anthropic", frames) =
         [input |-> OrElse(LastOf(Given(Field(two, "input"))), 0),
          output |-> OrElse(LastOf(Given(Field(two, "output"))), 0)]
  BY <1>1 DEF UsageRead
<1> QED
  BY <1>2, <1>3, <1>10, <1>11 DEF OrElse

\* What a whole rendered answer says.
LEMMA MessageSays ==
  ASSUME NEW id, NEW counts \in Usage, NEW stop, NEW texts \in Seq(Text)
  PROVE  LET events == MessageEvents(id, counts, texts, stop) IN
         /\ Ended(events)
         /\ Chunks(UpToEnd(events)) = events
         /\ Given(Field(events, "text")) = texts
         /\ Given(Field(events, "stop")) = IF stop = None THEN <<>> ELSE <<stop>>
         /\ UsageRead("anthropic", events) = counts
<1> DEFINE T == EventSet(id, counts, stop)
           begun == BegunEvents(id, counts, texts)
           x == Event("content_block_stop")
           y == StopEvent(stop, counts)
           z == Event("message_stop")
           ax == Append(begun, x)
           ay == Append(ax, y)
           az == Append(ay, z)
           first == [input |-> counts.input, output |-> 0]
           second == [input |-> None, output |-> counts.output]
<1>1. /\ x["text"] = None /\ x["stop"] = None /\ x["usage"] = None
      /\ y["text"] = None /\ y["stop"] = stop /\ y["usage"] = second
      /\ z["text"] = None /\ z["stop"] = None /\ z["usage"] = None
      /\ ~IsEnd(x) /\ ~IsEnd(y) /\ IsEnd(z) /\ x \in T /\ y \in T /\ z \in T
  BY DEF StopEvent, Event, IsEnd, Done, EventSet
<1>2. second # None
  <2>1. second \in WireUsage
    BY DEF WireUsage, Usage, Count
  <2> QED
    BY <2>1, FieldsAssumption
<1>3. begun \in Seq(T)
  BY BegunByText
<1>4. /\ Given(Field(begun, "text")) = texts /\ Given(Field(begun, "stop")) = <<>>
      /\ Given(Field(begun, "usage")) = <<first>> /\ ~Ended(begun)
  BY BegunSays
<1>5. Done \notin T
  BY DEF EventSet, StartEvent, Event, TextEvent, StopEvent, Done
<1> HIDE DEF T, begun, x, y, z, first, second, IsEnd
<1>6. ax \in Seq(T) /\ ay \in Seq(T) /\ az \in Seq(T)
  BY <1>1, <1>3
<1>7. \A f : Given(Field(ax, f)) =
               IF x[f] = None THEN Given(Field(begun, f)) ELSE Append(Given(Field(begun, f)), x[f])
  BY <1>1, <1>3, GivenAppend
<1>8. Ended(ax) <=> Ended(begun) \/ IsEnd(x)
  BY <1>1, <1>3, EndedAppend
<1> HIDE DEF ax
<1>9. \A f : Given(Field(ay, f)) =
               IF y[f] = None THEN Given(Field(ax, f)) ELSE Append(Given(Field(ax, f)), y[f])
  BY <1>1, <1>6, GivenAppend
<1>10. Ended(ay) <=> Ended(ax) \/ IsEnd(y)
  BY <1>1, <1>6, EndedAppend
<1> HIDE DEF ay
<1>11. \A f : Given(Field(az, f)) =
               IF z[f] = None THEN Given(Field(ay, f)) ELSE Append(Given(Field(ay, f)), z[f])
  BY <1>1, <1>6, GivenAppend
<1>12. Ended(az) <=> Ended(ay) \/ IsEnd(z)
  BY <1>1, <1>6, EndedAppend
<1>13. UpToEnd(az) = az
  BY <1>1, <1>4, <1>6, <1>8, <1>10, UpToEndAppend
<1> HIDE DEF az
<1>14. Chunks(az) = az
  BY <1>5, <1>6, WithoutNothing DEF Chunks
<1>15. Ended(az)
  BY <1>1, <1>12
<1>16. Given(Field(az, "text")) = texts
  BY <1>1, <1>4, <1>7, <1>9, <1>11
<1>17. Given(Field(az, "stop")) = IF stop = None THEN <<>> ELSE Append(<<>>, stop)
  BY <1>1, <1>4, <1>7, <1>9, <1>11
<1>18. Given(Field(az, "usage")) = Append(<<first>>, second)
  BY <1>1, <1>2, <1>4, <1>7, <1>9, <1>11
<1>19. Append(<<>>, stop) = <<stop>> /\ Append(<<first>>, second) = <<first, second>>
  <2>1. \A p : Append(<<>>, p) = <<p>>
    OBVIOUS
  <2>2. \A p, q : Append(<<p>>, q) = <<p, q>>
    BY AppendToOne
  <2> QED
    BY <2>1, <2>2
<1>20. UsageRead("anthropic", az) = counts
  BY <1>18, <1>19, CountsRead DEF first, second
<1> QED
  BY <1>13, <1>14, <1>15, <1>16, <1>17, <1>19, <1>20
     DEF MessageEvents, begun, x, y, z, ax, ay, az

\* Sequences written out.
LEMMA AppendToTwo ==
  ASSUME NEW p, NEW q, NEW r
  PROVE  Append(<<p, q>>, r) = <<p, q, r>>
<1> DEFINE T == {p, q, r}
           pair == <<p, q>>
           all == <<p, q, r>>
<1>1. pair \in Seq(T) /\ all \in Seq(T) /\ r \in T
  OBVIOUS
<1>2. /\ Len(all) = 3 /\ all[1] = p /\ all[2] = q /\ all[3] = r
      /\ Len(pair) = 2 /\ pair[1] = p /\ pair[2] = q
  OBVIOUS
<1> HIDE DEF T, all, pair
<1>3. \A s \in Seq(T), x \in T :
        /\ Append(s, x) \in Seq(T) /\ Len(Append(s, x)) = Len(s) + 1
        /\ \A i \in 1..Len(s) : Append(s, x)[i] = s[i]
        /\ Append(s, x)[Len(s) + 1] = x
  OBVIOUS
<1>4. /\ Append(pair, r) \in Seq(T) /\ Len(Append(pair, r)) = 3
      /\ \A i \in 1..2 : Append(pair, r)[i] = pair[i]
      /\ Append(pair, r)[3] = r
  <2>1. /\ Append(pair, r) \in Seq(T) /\ Len(Append(pair, r)) = Len(pair) + 1
        /\ \A i \in 1..Len(pair) : Append(pair, r)[i] = pair[i]
        /\ Append(pair, r)[Len(pair) + 1] = r
    BY <1>1, <1>3, Zenon
  <2>2. Len(pair) + 1 = 3
    BY <1>2
  <2> QED
    BY <1>2, <2>1, <2>2, Zenon
<1>5. \A i \in 1..3 : Append(pair, r)[i] = all[i]
  <2>1. \A i \in 1..3 : i = 1 \/ i = 2 \/ i = 3
    OBVIOUS
  <2>2. 1 \in 1..2 /\ 2 \in 1..2
    OBVIOUS
  <2> QED
    BY <1>2, <1>4, <2>1, <2>2
<1>6. Append(pair, r) = all
  BY <1>1, <1>2, <1>4, <1>5, SeqEqual
<1> QED
  BY <1>6 DEF all, pair

\* Three members more are three appends.
LEMMA ConcatThree ==
  ASSUME NEW T, NEW s \in Seq(T), NEW p \in T, NEW q \in T, NEW r \in T
  PROVE  s \o <<p, q, r>> = Append(Append(Append(s, p), q), r)
<1> DEFINE a == Append(<<>>, p)
           b == Append(a, q)
           c == Append(b, r)
<1>1. a = <<p>> /\ <<>> \in Seq(T)
  OBVIOUS
<1>2. a \in Seq(T) /\ b \in Seq(T)
  OBVIOUS
<1>3. b = <<p, q>>
  BY <1>1, AppendToOne
<1>4. c = <<p, q, r>>
  BY <1>3, AppendToTwo
<1>5. \A u \in Seq(T), x \in T : s \o Append(u, x) = Append(s \o u, x)
  OBVIOUS
<1>6. s \o <<>> = s
  BY ConcatEmptySeq
<1> HIDE DEF a, b, c
<1>7. s \o a = Append(s, p)
  BY <1>1, <1>5, <1>6 DEF a
<1>8. s \o b = Append(s \o a, q)
  BY <1>2, <1>5 DEF b
<1>9. s \o c = Append(s \o b, r)
  BY <1>2, <1>5 DEF c
<1> QED
  BY <1>4, <1>7, <1>8, <1>9

\* The answer the code renders.
LEMMA RenderedIsMessage ==
  ASSUME NEW chunks, Given(Field(chunks, "text")) \in Seq(Text),
         Given(Field(chunks, "id")) \in Seq(ChunkIds), NEW recorded
  PROVE  \E id \in ChunkIds :
           RenderedMessage(chunks, recorded) =
             MessageEvents(id, OrElse(recorded, NoUsage), Given(Field(chunks, "text")),
                           to_stop_reason(FinishReason(chunks)))
<1> DEFINE id == OrElse(FirstOf(Given(Field(chunks, "id"))), RenderedId)
           counts == OrElse(recorded, NoUsage)
           texts == Given(Field(chunks, "text"))
           stop == to_stop_reason(FinishReason(chunks))
           T == EventSet(id, counts, stop)
           begun == BegunEvents(id, counts, texts)
           x == Event("content_block_stop")
           y == StopEvent(stop, counts)
           z == Event("message_stop")
<1>1. RenderedMessage(chunks, recorded) = begun \o <<x, y, z>>
  BY DEF RenderedMessage, BegunEvents, StartEvent, TextEvents, TextEvent, StopEvent
<1>2. begun \in Seq(T)
  BY BegunByText
<1>3. x \in T /\ y \in T /\ z \in T
  BY DEF EventSet
<1>0. id \in ChunkIds
  BY DEF OrElse, FirstOf, ChunkIds
<1> HIDE DEF T, begun, x, y, z, stop, texts, counts, id
<1>4. begun \o <<x, y, z>> = Append(Append(Append(begun, x), y), z)
  BY <1>2, <1>3, ConcatThree
<1>5. MessageEvents(id, counts, texts, stop) = Append(Append(Append(begun, x), y), z)
  BY DEF MessageEvents, begun, x, y, z
<1>6. RenderedMessage(chunks, recorded) = MessageEvents(id, counts, texts, stop)
  BY <1>1, <1>4, <1>5
<1> QED
  BY <1>0, <1>6 DEF counts, texts, stop

-----------------------------------------------------------------------------
(* Reading a rendered answer back *)

\* f is the recursive function of normalize_anthropic_chat_sse.
NormalizeRun(f, frames) ==
  /\ f[0] = NoNormal
  /\ \A i \in 1..Len(frames) : f[i] = AnthropicEvent(f[i - 1], frames[i])
  /\ normalize_anthropic_chat_sse(frames) = f[Len(frames)]

\* The normaliser's recursive function exists: each frame's state follows from
\* the one before.
LEMMA NormalizeSteps ==
  ASSUME NEW T, NEW frames \in Seq(T)
  PROVE  \E f : NormalizeRun(f, frames)
<1> DEFINE next(n, i) == AnthropicEvent(n, frames[i])
           Run(f, n) == /\ f = [i \in 0..n |-> f[i]]
                        /\ f[0] = NoNormal
                        /\ \A i \in 1..n : f[i] = next(f[i - 1], i)
           Ok == {n \in Nat : \E f : Run(f, n)}
<1>1. Len(frames) \in Nat
  OBVIOUS
<1> HIDE DEF next
<1>2. 0 \in Ok
  <2> DEFINE f == [i \in 0..0 |-> NoNormal]
  <2>1. f[0] = NoNormal /\ 1..0 = {} /\ f = [i \in 0..0 |-> f[i]]
    OBVIOUS
  <2>2. Run(f, 0)
    BY <2>1
  <2> QED
    BY <2>2
<1>3. ASSUME NEW n \in Nat, n \in Ok PROVE n + 1 \in Ok
  <2> SUFFICES \E g : Run(g, n + 1)
    <3> HIDE DEF Run
    <3> QED OBVIOUS
  <2>1. PICK f : Run(f, n)
    <3> HIDE DEF Run
    <3> QED
      BY <1>3
  <2> DEFINE last == next(f[n], n + 1)
             g == [i \in 0..(n + 1) |-> IF i = n + 1 THEN last ELSE f[i]]
  <2> HIDE DEF last
  <2>2. g = [i \in 0..(n + 1) |-> g[i]]
    OBVIOUS
  <2>3. g[0] = NoNormal
    BY <2>1
  <2>4. ASSUME NEW i \in 1..(n + 1) PROVE g[i] = next(g[i - 1], i)
    <3>1. CASE i = n + 1
      <4>1. g[i - 1] = f[n] /\ g[i] = last
        BY <3>1
      <4> QED
        BY <4>1, <3>1 DEF last
    <3>2. CASE i \in 1..n
      <4>1. g[i - 1] = f[i - 1] /\ g[i] = f[i]
        BY <3>2
      <4> QED
        BY <4>1, <3>2, <2>1
    <3> QED
      BY <3>1, <3>2
  <2> HIDE DEF g
  <2>5. Run(g, n + 1)
    BY <2>2, <2>3, <2>4
  <2> QED
    BY <2>5
<1>4. Nat \subseteq Ok
  <2> HIDE DEF Ok
  <2> QED
    BY <1>2, <1>3, SetInduction
<1>5. PICK f : Run(f, Len(frames))
  <2> HIDE DEF Run
  <2> QED
    BY <1>1, <1>4
<1> DEFINE step(g, i) == IF i = 0 THEN NoNormal ELSE AnthropicEvent(g[i - 1], frames[i])
           Is(g) == g = [i \in 0..Len(frames) |-> step(g, i)]
           h == CHOOSE g : Is(g)
<1>6. Is(f)
  <2>1. ASSUME NEW i \in 0..Len(frames) PROVE f[i] = step(f, i)
    <3>1. CASE i = 0
      BY <3>1, <1>5
    <3>2. CASE i \in 1..Len(frames)
      BY <3>2, <1>5 DEF next
    <3> QED
      BY <1>1, <3>1, <3>2
  <2> HIDE DEF step
  <2> QED
    BY <2>1, <1>5
<1>7. Is(h)
  BY <1>6, Zenon
<1>8. normalize_anthropic_chat_sse(frames) = h[Len(frames)]
  BY DEF normalize_anthropic_chat_sse
<1> HIDE DEF h
<1>9. \A i \in 0..Len(frames) : h[i] = step(h, i)
  <2> HIDE DEF step
  <2> QED
    BY <1>7
<1>10. h[0] = NoNormal
  BY <1>9, <1>1
<1>11. ASSUME NEW i \in 1..Len(frames) PROVE h[i] = AnthropicEvent(h[i - 1], frames[i])
  <2>1. i \in 0..Len(frames) /\ i # 0
    BY <1>1
  <2> QED
    BY <2>1, <1>9
<1>12. NormalizeRun(h, frames)
  BY <1>8, <1>10, <1>11 DEF NormalizeRun
<1> QED
  BY <1>12

\* One frame more is one iteration more.
LEMMA NormalizeAppend ==
  ASSUME NEW T, NEW frames \in Seq(T), NEW e \in T
  PROVE  normalize_anthropic_chat_sse(Append(frames, e)) =
           AnthropicEvent(normalize_anthropic_chat_sse(frames), e)
<1> DEFINE longer == Append(frames, e)
<1>1. /\ longer \in Seq(T) /\ Len(longer) = Len(frames) + 1 /\ Len(frames) \in Nat
      /\ \A i \in 1..Len(frames) : longer[i] = frames[i]
      /\ longer[Len(frames) + 1] = e
  BY AppendProperties
<1> HIDE DEF longer
<1>2. PICK f : NormalizeRun(f, frames)
  BY NormalizeSteps
<1>3. PICK g : NormalizeRun(g, longer)
  BY <1>1, NormalizeSteps
<1> DEFINE Same == {k \in Nat : k <= Len(frames) => f[k] = g[k]}
<1>4. 0 \in Same
  BY <1>2, <1>3 DEF NormalizeRun
<1>5. ASSUME NEW k \in Nat, k \in Same PROVE k + 1 \in Same
  <2> SUFFICES ASSUME k + 1 <= Len(frames) PROVE f[k + 1] = g[k + 1]
    OBVIOUS
  <2>1. k + 1 \in 1..Len(frames) /\ k + 1 \in 1..Len(longer) /\ (k + 1) - 1 = k
    BY <1>1
  <2>2. f[k] = g[k] /\ longer[k + 1] = frames[k + 1]
    BY <1>1, <1>5, <2>1
  <2>3. f[k + 1] = AnthropicEvent(f[k], frames[k + 1])
    BY <2>1, <1>2 DEF NormalizeRun
  <2>4. g[k + 1] = AnthropicEvent(g[k], longer[k + 1])
    BY <2>1, <1>3 DEF NormalizeRun
  <2> QED
    BY <2>2, <2>3, <2>4
<1>6. Nat \subseteq Same
  <2> HIDE DEF Same
  <2> QED
    BY <1>4, <1>5, SetInduction
<1>7. f[Len(frames)] = g[Len(frames)]
  BY <1>1, <1>6
<1>8. Len(frames) + 1 \in 1..Len(longer) /\ (Len(frames) + 1) - 1 = Len(frames)
  BY <1>1
<1>9. g[Len(longer)] = AnthropicEvent(g[Len(frames)], e)
  <2>1. g[Len(frames) + 1] = AnthropicEvent(g[(Len(frames) + 1) - 1], longer[Len(frames) + 1])
    BY <1>3, <1>8 DEF NormalizeRun
  <2> QED
    BY <2>1, <1>1, <1>8
<1>10. /\ normalize_anthropic_chat_sse(frames) = f[Len(frames)]
       /\ normalize_anthropic_chat_sse(longer) = g[Len(longer)]
  BY <1>2, <1>3 DEF NormalizeRun
<1> QED
  BY <1>7, <1>9, <1>10 DEF longer

\* Nothing read, nothing normalised.
LEMMA NormalizeEmpty == normalize_anthropic_chat_sse(<<>>) = NoNormal
<1>1. <<>> \in Seq({}) /\ Len(<<>>) = 0
  BY EmptySeq
<1>2. PICK f : NormalizeRun(f, <<>>)
  BY <1>1, NormalizeSteps
<1> QED
  BY <1>1, <1>2 DEF NormalizeRun

\* Two members more are two appends.
LEMMA ConcatTwo ==
  ASSUME NEW T, NEW s \in Seq(T), NEW p \in T, NEW q \in T
  PROVE  s \o <<p, q>> = Append(Append(s, p), q)
<1> DEFINE a == Append(<<>>, p)
           b == Append(a, q)
<1>1. a = <<p>> /\ <<>> \in Seq(T)
  OBVIOUS
<1>2. a \in Seq(T)
  OBVIOUS
<1>3. b = <<p, q>>
  BY <1>1, AppendToOne
<1>4. \A u \in Seq(T), x \in T : s \o Append(u, x) = Append(s \o u, x)
  OBVIOUS
<1>5. s \o <<>> = s
  BY ConcatEmptySeq
<1> HIDE DEF a, b
<1>6. s \o a = Append(s, p)
  BY <1>1, <1>4, <1>5 DEF a
<1>7. s \o b = Append(s \o a, q)
  BY <1>2, <1>4 DEF b
<1> QED
  BY <1>3, <1>6, <1>7

\* The end of an answer adds its chunks and the end mark.
LEMMA StopAdds ==
  ASSUME NEW before \in Seq(NormalChunk \cup {Done}), NEW id \in ChunkIds, NEW texts \in Seq(Text),
         NEW finish \in {None, "stop", "length"}, NEW counts \in Usage \cup {None}
  PROVE  before \o Contents(id, texts) \o <<FinalChunk(id, finish, counts), Done>> =
           before \o Append(AnswerChunks(id, texts, finish, counts), Done)
<1> DEFINE F == NormalChunk \cup {Done}
           contents == Contents(id, texts)
           final == FinalChunk(id, finish, counts)
<1>1. contents \in Seq(NormalChunk)
  BY ContentsSay
<1>2. final \in F /\ Done \in F
  BY DEF FinalChunk, OrElse, NormalChunk
<1>3. before \in Seq(F) /\ contents \in Seq(F)
  BY <1>1
<1> HIDE DEF F, contents, final
<1>4. before \o contents \in Seq(F)
  BY <1>3, ConcatProperties
<1>5. (before \o contents) \o <<final, Done>> = Append(Append(before \o contents, final), Done)
  <2> DEFINE s == before \o contents
  <2> HIDE DEF s
  <2>0. s \in Seq(F)
    BY <1>4 DEF s
  <2> DEFINE d == Done
  <2> HIDE DEF d
  <2>2. d \in F
    BY <1>2 DEF d
  <2>3. s \o <<final, d>> = Append(Append(s, final), d)
    BY <1>2, <2>0, <2>2, ConcatTwo
  <2>1. s \o <<final, Done>> = Append(Append(s, final), Done)
    BY <2>3 DEF d
  <2> QED
    BY <2>1 DEF s
<1>6. \A s \in Seq(F), x \in F : before \o Append(s, x) = Append(before \o s, x)
  BY <1>3
<1>7. Append(contents, final) \in Seq(F)
  BY <1>2, <1>3
<1>8. before \o Append(Append(contents, final), Done) = Append(before \o Append(contents, final), Done)
  BY <1>2, <1>6, <1>7
<1>9. before \o Append(contents, final) = Append(before \o contents, final)
  BY <1>2, <1>3, <1>6
<1> QED
  BY <1>5, <1>8, <1>9 DEF AnswerChunks, contents, final

\* What the normaliser knows before the end of an answer.
Known(id, counts, finish, texts) ==
  [events |-> <<>>, usage |-> counts, id |-> id, finish |-> finish, deltas |-> texts]

\* Read back, a rendered answer yields its text, its usage and its reason.
LEMMA BegunReadBack ==
  ASSUME NEW id \in ChunkIds, NEW counts \in Usage, NEW texts \in Seq(Text)
  PROVE  normalize_anthropic_chat_sse(BegunEvents(id, counts, texts)) =
           Known(id, [input |-> counts.input, output |-> 0], None, texts)
<1> DEFINE T == EventSet(id, counts, None)
           first == [input |-> counts.input, output |-> 0]
           start == StartEvent(id, counts)
           block == Event("content_block_start")
           begun(t) == BegunEvents(id, counts, t)
           Reads(t) == normalize_anthropic_chat_sse(begun(t)) = Known(id, first, None, t)
           S == {t \in Seq(Text) : Reads(t)}
<1>1. first # None /\ counts.input # None
  <2>1. first \in WireUsage /\ counts.input \in Nat
    BY DEF WireUsage, Usage, Count
  <2> QED
    BY <2>1, FieldsAssumption, NoneAssumption
<1>2. UsageAfter(None, first) = first
  BY <1>1 DEF UsageAfter, merge_usage, OrElse
<1>3. AnthropicEvent(NoNormal, start) = Known(id, first, None, <<>>)
  <2>1. start.event = "message_start" /\ start.id = id /\ start.usage = first
    BY DEF StartEvent, Event
  <2>2. AnthropicEvent(NoNormal, start) = MessageStart(NoNormal, start)
    BY <2>1 DEF AnthropicEvent
  <2> HIDE DEF start, first
  <2>3. OrElse(id, None) = id
    BY DEF OrElse
  <2> QED
    BY <1>2, <2>1, <2>2, <2>3 DEF MessageStart, NoNormal, Known
<1>4. AnthropicEvent(Known(id, first, None, <<>>), block) = Known(id, first, None, <<>>)
  <2>1. block.event = "content_block_start"
    BY DEF Event
  <2> HIDE DEF first, block
  <2> QED
    BY <2>1 DEF AnthropicEvent
<1>5. ASSUME NEW t \in Seq(Text), NEW x \in Text
      PROVE  AnthropicEvent(Known(id, first, None, t), TextEvent(x)) = Known(id, first, None, Append(t, x))
  <2>1. TextEvent(x).event = "content_block_delta" /\ TextEvent(x).text = x /\ x # None
    BY FieldsAssumption DEF TextEvent, Event
  <2> HIDE DEF first
  <2>2. AnthropicEvent(Known(id, first, None, t), TextEvent(x)) =
          ContentBlockDelta(Known(id, first, None, t), TextEvent(x))
    BY <2>1 DEF AnthropicEvent
  <2> QED
    BY <2>1, <2>2 DEF ContentBlockDelta, Known
<1>6. /\ start \in T /\ block \in T
      /\ \A x \in Text : TextEvent(x) \in T
  BY DEF EventSet
<1>7. /\ begun(<<>>) = Append(Append(<<>>, start), block)
      /\ \A t \in Seq(Text), x \in Text : begun(Append(t, x)) = Append(begun(t), TextEvent(x))
      /\ \A t \in Seq(Text) : begun(t) \in Seq(T)
  BY BegunByText
<1> HIDE DEF T, first, start, block, begun
<1>8. Reads(<<>>)
  <2> DEFINE one == Append(<<>>, start)
  <2>1. <<>> \in Seq(T) /\ one \in Seq(T)
    BY <1>6
  <2>2. normalize_anthropic_chat_sse(one) =
          AnthropicEvent(normalize_anthropic_chat_sse(<<>>), start)
    BY <1>6, <2>1, NormalizeAppend
  <2> HIDE DEF one
  <2>3. normalize_anthropic_chat_sse(Append(one, block)) =
          AnthropicEvent(normalize_anthropic_chat_sse(one), block)
    BY <1>6, <2>1, NormalizeAppend
  <2>4. begun(<<>>) = Append(one, block)
    BY <1>7 DEF one
  <2> QED
    BY <1>3, <1>4, <2>2, <2>3, <2>4, NormalizeEmpty
<1>9. ASSUME NEW t \in Seq(Text), NEW x \in Text, Reads(t) PROVE Reads(Append(t, x))
  <2>1. begun(t) \in Seq(T) /\ TextEvent(x) \in T
    BY <1>6, <1>7
  <2>2. normalize_anthropic_chat_sse(Append(begun(t), TextEvent(x))) =
          AnthropicEvent(normalize_anthropic_chat_sse(begun(t)), TextEvent(x))
    BY <2>1, NormalizeAppend
  <2>3. begun(Append(t, x)) = Append(begun(t), TextEvent(x))
    BY <1>7
  <2> QED
    BY <1>5, <1>9, <2>2, <2>3
<1> HIDE DEF Reads
<1>10. <<>> \in S
  BY <1>8, EmptySeq
<1>11. \A t \in Seq(Text), x \in Text : t \in S => Append(t, x) \in S
  BY <1>9
<1>12. Seq(Text) \subseteq S
  <2> HIDE DEF S
  <2> QED
    BY <1>10, <1>11, AppendInduction
<1>13. Reads(texts)
  BY <1>12
<1> QED
  BY <1>13 DEF Reads, begun, first

\* A rendered message, normalised by the next gateway, is the answer it was
\* rendered from.
LEMMA MessageReadBack ==
  ASSUME NEW id \in ChunkIds, NEW counts \in Usage, NEW texts \in Seq(Text), NEW stop
  PROVE  LET again == normalize_anthropic_chat_sse(MessageEvents(id, counts, texts, stop))
             finish == IF stop = None THEN None ELSE to_finish_reason(stop)
         IN  /\ again.usage = counts
             /\ \E of \in ChunkIds :
                  again.events = Append(AnswerChunks(of, texts, finish, counts), Done)
<1> DEFINE T == EventSet(id, counts, stop)
           first == [input |-> counts.input, output |-> 0]
           second == [input |-> None, output |-> counts.output]
           finish == IF stop = None THEN None ELSE to_finish_reason(stop)
           of == OrElse(id, AnthropicId)
           begun == BegunEvents(id, counts, texts)
           x == Event("content_block_stop")
           y == StopEvent(stop, counts)
           z == Event("message_stop")
           ax == Append(begun, x)
           ay == Append(ax, y)
           az == Append(ay, z)
<1>1. first # None /\ second # None /\ counts.output # None
  <2>1. first \in WireUsage /\ second \in WireUsage /\ counts.output \in Nat
    BY DEF WireUsage, Usage, Count
  <2> QED
    BY <2>1, FieldsAssumption, NoneAssumption
<1>2. UsageAfter(first, second) = counts
  <2>1. counts = [input |-> counts.input, output |-> counts.output]
    BY DEF Usage
  <2>2. UsageAfter(first, second) = [input |-> counts.input, output |-> counts.output]
    BY <1>1 DEF UsageAfter, merge_usage, OrElse
  <2> QED
    BY <2>1, <2>2
<1>3. finish \in {None, "stop", "length"}
  BY DEF to_finish_reason
<1>4. /\ x.event = "content_block_stop"
      /\ y.event = "message_delta" /\ y.usage = second /\ y.stop = stop
      /\ z.event = "message_stop" /\ z.id = None /\ z.usage = None
      /\ x \in T /\ y \in T /\ z \in T
  BY DEF StopEvent, Event, EventSet
<1>5. begun \in Seq(T)
  BY BegunByText
<1>6. normalize_anthropic_chat_sse(begun) = Known(id, first, None, texts)
  BY BegunReadBack
<1>7. of \in ChunkIds
  BY DEF of, OrElse, ChunkIds
<1> HIDE DEF T, first, second, finish, begun, x, y, z, of
<1>8. ax \in Seq(T) /\ ay \in Seq(T)
  BY <1>4, <1>5
<1>9. normalize_anthropic_chat_sse(ax) = AnthropicEvent(normalize_anthropic_chat_sse(begun), x)
  BY <1>4, <1>5, NormalizeAppend
<1> HIDE DEF ax
<1>10. normalize_anthropic_chat_sse(ay) = AnthropicEvent(normalize_anthropic_chat_sse(ax), y)
  BY <1>4, <1>8, NormalizeAppend
<1> HIDE DEF ay
<1>11. normalize_anthropic_chat_sse(az) = AnthropicEvent(normalize_anthropic_chat_sse(ay), z)
  BY <1>4, <1>8, NormalizeAppend
<1> HIDE DEF az
<1>12. normalize_anthropic_chat_sse(ax) = Known(id, first, None, texts)
  BY <1>4, <1>6, <1>9 DEF AnthropicEvent
<1>13. normalize_anthropic_chat_sse(ay) = Known(id, counts, finish, texts)
  <2>1. normalize_anthropic_chat_sse(ay) = MessageDelta(Known(id, first, None, texts), y)
    BY <1>4, <1>10, <1>12 DEF AnthropicEvent
  <2> QED
    BY <1>2, <1>4, <2>1 DEF MessageDelta, Known, finish
<1>14. normalize_anthropic_chat_sse(az) = MessageStop(Known(id, counts, finish, texts), z)
  BY <1>4, <1>11, <1>13 DEF AnthropicEvent
<1> DEFINE known == Known(id, counts, finish, texts)
<1>15. MessageStart(known, z) = known
  BY <1>4 DEF MessageStart, UsageAfter, OrElse, Known
<1>16. known.id = id /\ known.finish = finish /\ known.usage = counts /\ known.deltas = texts
       /\ known.events = <<>>
       /\ \A v : [known EXCEPT !.events = v].events = v /\ [known EXCEPT !.events = v].usage = counts
  BY DEF Known
<1> HIDE DEF known
<1>17. MessageStop(known, z) =
         [known EXCEPT !.events =
           <<>> \o Contents(of, texts) \o <<FinalChunk(of, finish, counts), Done>>]
  BY <1>15, <1>16 DEF MessageStop, Contents, of
<1>18. <<>> \o Contents(of, texts) \o <<FinalChunk(of, finish, counts), Done>> =
         Append(AnswerChunks(of, texts, finish, counts), Done)
  <2>1. <<>> \in Seq(NormalChunk \cup {Done})
    OBVIOUS
  <2> DEFINE before == <<>>
  <2> HIDE DEF before
  <2>2. before \in Seq(NormalChunk \cup {Done}) =>
          before \o Contents(of, texts) \o <<FinalChunk(of, finish, counts), Done>> =
            before \o Append(AnswerChunks(of, texts, finish, counts), Done)
    <3> DEFINE id0 == of
    <3>1. id0 \in ChunkIds /\ texts \in Seq(Text) /\ finish \in {None, "stop", "length"}
          /\ counts \in Usage \cup {None}
      BY <1>3, <1>7
    <3> HIDE DEF id0
    <3>2. before \in Seq(NormalChunk \cup {Done}) =>
            before \o Contents(id0, texts) \o <<FinalChunk(id0, finish, counts), Done>> =
              before \o Append(AnswerChunks(id0, texts, finish, counts), Done)
      BY ONLY <3>1, StopAdds
    <3> QED
      BY <3>2 DEF id0
  <2> USE DEF before
  <2>3. Append(AnswerChunks(of, texts, finish, counts), Done) \in Seq(NormalChunk \cup {Done})
    BY <1>3, <1>7, AnswerSays
  <2> QED
    BY <2>2, <2>3, ConcatEmptySeq
<1>19. normalize_anthropic_chat_sse(az).usage = counts
  BY <1>14, <1>16, <1>17 DEF known
<1>20. normalize_anthropic_chat_sse(az).events =
         Append(AnswerChunks(of, texts, finish, counts), Done)
  BY <1>14, <1>16, <1>17, <1>18 DEF known
<1>21. MessageEvents(id, counts, texts, stop) = az
  BY DEF MessageEvents, begun, x, y, z, ax, ay, az
<1> QED
  BY <1>7, <1>19, <1>20, <1>21 DEF finish

-----------------------------------------------------------------------------
(***************************************************************************)
(* What is true of the relay after every frame.  An upstream of the        *)
(* OpenAI API is passed on as it is.  Of one of the Messages API the       *)
(* normaliser knows at each point what a reader of the frames so far knows *)
(* and the first end mark turns that into the answer, which nothing later  *)
(* changes.                                                                *)
(***************************************************************************)
RelayedChunk == OpenAiFrame \cup NormalChunk

Frames == OpenAiFrame \cup AnthropicFrame \cup {Done, Garbage}

Outcomes == {"reading", "answered", "invalid_request", "upstream_error", "upstream_status"}

NormalState == [events : Seq(RelayedChunk \cup {Done}), usage : Usage \cup {None},
                id : Id \cup {None}, finish : {None, "stop", "length"}, deltas : Seq(Text)]

\* The reason the normaliser gives for frames.
ReasonRead(frames) ==
  LET stop == LastOf(Given(Field(frames, "stop")))
  IN  IF stop = None THEN None ELSE to_finish_reason(stop)

\* What a whole Anthropic answer becomes.
Translated(id, frames) ==
  Append(AnswerChunks(id, Given(Field(frames, "text")), ReasonRead(frames),
                      UsageRead("anthropic", frames)),
         Done)

OpenAiSide(b, n) ==
  /\ b \in Seq(OpenAiFrame \cup {Done})
  /\ n.events = b
  /\ Len(Given(Field(Chunks(b), "usage"))) <= 1 => n.usage = UsageRead("openai", Chunks(b))

AnthropicSide(b, n) ==
  /\ b \in Seq(AnthropicFrame)
  /\ n.deltas = Given(Field(b, "text"))
  /\ n.finish = ReasonRead(b)
  /\ n.usage = UsageRead("anthropic", b)
  /\ ~Ended(b) => n.events = <<>>
  /\ Ended(b) => \E id \in ChunkIds, rest \in Seq(NormalChunk \cup {Done}) :
                   /\ n.events = Translated(id, UpToEnd(b)) \o rest
                   /\ UpToEnd(b) = b => rest = <<>>

AnswerIs(p, n, frames, bill) ==
  /\ bill = n.usage
  /\ frames = IF p = "openai" THEN n.events ELSE RenderedMessage(Chunks(n.events), n.usage)

\* The inductive invariant: the normalised state is what reading the body so far gives,
\* by the side it came from, and what was relayed and billed is that state, rendered.
RelayInv ==
  /\ provider \in Api /\ protocol \in Api /\ outcome \in Outcomes
  /\ body \in Seq(Frames)
  /\ normal \in NormalState
  /\ outcome \in {"reading", "answered"} =>
       /\ provider = "openai" => OpenAiSide(body, normal)
       /\ provider = "anthropic" => AnthropicSide(body, normal)
  /\ outcome = "answered" => AnswerIs(protocol, normal, relayed, billed)
  /\ outcome # "answered" => billed = None /\ relayed = <<>>

\* The last member is the one appended last.
LEMMA LastOfAppend ==
  ASSUME NEW T, NEW seq \in Seq(T), NEW x \in T
  PROVE  LastOf(Append(seq, x)) = x /\ Append(seq, x) # <<>>
<1>1. /\ Append(seq, x) \in Seq(T) /\ Len(Append(seq, x)) = Len(seq) + 1 /\ Len(seq) \in Nat
      /\ Append(seq, x)[Len(seq) + 1] = x
  BY AppendProperties
<1>2. Append(seq, x) # <<>>
  BY <1>1
<1> QED
  BY <1>1, <1>2 DEF LastOf, Last

\* The first and the last member are members, or there are none.
LEMMA LastOfType ==
  ASSUME NEW T, NEW seq \in Seq(T)
  PROVE  LastOf(seq) \in T \cup {None} /\ FirstOf(seq) \in T \cup {None}
<1>1. CASE seq = <<>>
  BY <1>1 DEF LastOf, FirstOf
<1>2. CASE seq # <<>>
  BY <1>2 DEF LastOf, FirstOf, Last
<1> QED
  BY <1>1, <1>2

\* The frames of either upstream, by field.
LEMMA AnthropicFields ==
  ASSUME NEW e \in AnthropicFrame
  PROVE  /\ e["id"] = e.id /\ e["text"] = e.text /\ e["stop"] = e.stop /\ e["usage"] = e.usage
         /\ e.id \in Id \cup {None} /\ e.text \in Text \cup {None}
         /\ e.stop \in AnthropicReason \cup {None} /\ e.usage \in WireUsage \cup {None}
         /\ e # Done
BY AnthropicAssumption DEF Done

\* The fields of a chunk have their types, and no chunk is an end mark or
\* garbage.
LEMMA OpenAiFields ==
  ASSUME NEW c \in OpenAiFrame
  PROVE  /\ c["id"] = c.id /\ c["text"] = c.text /\ c["finish"] = c.finish /\ c["usage"] = c.usage
         /\ c.id \in Id \cup {None} /\ c.text \in Text \cup {None}
         /\ c.finish \in OpenAiReason \cup {None} /\ c.usage \in WireUsage \cup {None}
         /\ c # Done /\ c # Garbage
BY OpenAiAssumption DEF Done, Garbage

\* What merge_usage makes of the events is usage or none.
LEMMA UsageReadType ==
  ASSUME NEW frames \in Seq(AnthropicFrame)
  PROVE  /\ UsageRead("anthropic", frames) \in Usage \cup {None}
         /\ Given(Field(frames, "usage")) # <<>> => UsageRead("anthropic", frames) \in Usage
<1> DEFINE usages == Given(Field(frames, "usage"))
<1>1. usages \in Seq(WireUsage)
  <2>1. \A t \in AnthropicFrame : t["usage"] \in WireUsage \cup {None}
    BY AnthropicFields
  <2> QED
    BY <2>1, GivenType
<1>2. \A u \in WireUsage : u["input"] \in Nat \cup {None} /\ u["output"] \in Nat \cup {None}
  BY DEF WireUsage, Count
<1> HIDE DEF usages
<1>3. Given(Field(usages, "input")) \in Seq(Nat) /\ Given(Field(usages, "output")) \in Seq(Nat)
  BY <1>1, <1>2, GivenType
<1> DEFINE input == LastOf(Given(Field(usages, "input")))
           output == LastOf(Given(Field(usages, "output")))
<1>4. input \in Nat \cup {None} /\ output \in Nat \cup {None}
  BY <1>3, LastOfType
<1>5. UsageRead("anthropic", frames) =
        IF usages = <<>> THEN None ELSE [input |-> OrElse(input, 0), output |-> OrElse(output, 0)]
  BY DEF UsageRead, usages
<1> HIDE DEF input, output
<1>6. OrElse(input, 0) \in Nat /\ OrElse(output, 0) \in Nat
  BY <1>4 DEF OrElse
<1> QED
  BY <1>5, <1>6 DEF Usage, usages

\* No usage is a missing one.
LEMMA UsageIsSomething == None \notin Usage
<1>1. Usage \subseteq WireUsage
  BY DEF Usage, WireUsage, Count
<1> QED
  BY <1>1, FieldsAssumption

\* The usage of events so far, one event more: what merge_usage computes.
LEMMA UsageReadAppend ==
  ASSUME NEW frames \in Seq(AnthropicFrame), NEW e \in AnthropicFrame
  PROVE  UsageRead("anthropic", Append(frames, e)) =
           UsageAfter(UsageRead("anthropic", frames), e.usage)
<1> DEFINE usages == Given(Field(frames, "usage"))
           longer == Given(Field(Append(frames, e), "usage"))
           u == e.usage
           last(s, f) == LastOf(Given(Field(s, f)))
           read(s) == [input |-> OrElse(last(s, "input"), 0), output |-> OrElse(last(s, "output"), 0)]
<1>1. usages \in Seq(WireUsage)
  <2>1. \A t \in AnthropicFrame : t["usage"] \in WireUsage \cup {None}
    BY AnthropicFields
  <2> QED
    BY <2>1, GivenType
<1>2. longer = IF u = None THEN usages ELSE Append(usages, u)
  BY GivenAppend, AnthropicFields
<1>3. u \in WireUsage \cup {None}
  BY AnthropicFields
<1>4. /\ UsageRead("anthropic", frames) = IF usages = <<>> THEN None ELSE read(usages)
      /\ UsageRead("anthropic", Append(frames, e)) = IF longer = <<>> THEN None ELSE read(longer)
  BY DEF UsageRead
<1>5. UsageRead("anthropic", frames) # None <=> usages # <<>>
  <2>1. usages # <<>> => UsageRead("anthropic", frames) \in Usage
    BY UsageReadType
  <2>2. usages = <<>> => UsageRead("anthropic", frames) = None
    BY <1>4
  <2> HIDE DEF usages
  <2> QED
    BY <2>1, <2>2, UsageIsSomething
<1> HIDE DEF usages, longer, u
<1>6. CASE u = None
  BY <1>2, <1>4, <1>6 DEF UsageAfter, u
<1>7. CASE u # None
  <2>1. u \in WireUsage /\ longer = Append(usages, u)
    BY <1>2, <1>3, <1>7
  <2>2. longer # <<>>
    BY <1>1, <2>1, LastOfAppend
  <2>3. ASSUME NEW f \in {"input", "output"}
        PROVE  last(longer, f) = IF u[f] = None THEN last(usages, f) ELSE u[f]
    <3>1. Given(Field(longer, f)) =
            IF u[f] = None THEN Given(Field(usages, f)) ELSE Append(Given(Field(usages, f)), u[f])
      BY <1>1, <2>1, GivenAppend
    <3>2. \A w \in WireUsage : w[f] \in Count \cup {None}
      BY DEF WireUsage
    <3>3. Given(Field(usages, f)) \in Seq(Count)
      BY <1>1, <3>2, GivenType
    <3>4. u[f] \in Count
      BY <2>1 DEF WireUsage
    <3>5. LastOf(Append(Given(Field(usages, f)), u[f])) = u[f]
      BY <3>3, <3>4, LastOfAppend
    <3> QED
      BY <3>1, <3>5
  <2>4. u.input = u["input"] /\ u.output = u["output"]
    OBVIOUS
  <2>5. usages = <<>> => last(usages, "input") = None /\ last(usages, "output") = None
    <3>1. Given(Field(<<>>, "input")) = <<>> /\ Given(Field(<<>>, "output")) = <<>>
      BY GivenEmpty
    <3> QED
      BY <3>1 DEF LastOf
  <2>6. read(longer) = [input  |-> OrElse(u.input, OrElse(last(usages, "input"), 0)),
                        output |-> OrElse(u.output, OrElse(last(usages, "output"), 0))]
    BY <2>3, <2>4 DEF OrElse
  <2> HIDE DEF last
  <2>7. CASE usages = <<>>
    <3>1. UsageAfter(None, u) = [input |-> OrElse(u.input, 0), output |-> OrElse(u.output, 0)]
      BY <1>7 DEF UsageAfter, merge_usage
    <3>2. OrElse(None, 0) = 0
      BY DEF OrElse
    <3> QED
      BY <1>4, <2>2, <2>5, <2>6, <2>7, <3>1, <3>2 DEF u
  <2>8. CASE usages # <<>>
    <3> DEFINE current == read(usages)
    <3>1. UsageRead("anthropic", frames) = current /\ current # None
      BY <1>4, <1>5, <2>8
    <3>2. current.input = OrElse(last(usages, "input"), 0)
          /\ current.output = OrElse(last(usages, "output"), 0)
      OBVIOUS
    <3> HIDE DEF current
    <3>3. UsageAfter(current, u) =
            [input |-> OrElse(u.input, current.input), output |-> OrElse(u.output, current.output)]
      BY <1>7, <3>1 DEF UsageAfter, merge_usage
    <3> QED
      BY <1>4, <2>2, <2>6, <3>1, <3>2, <3>3 DEF u
  <2> QED
    BY <2>7, <2>8
<1> QED
  BY <1>6, <1>7

\* So for the reason the answer ended.
LEMMA ReasonReadAppend ==
  ASSUME NEW frames \in Seq(AnthropicFrame), NEW e \in AnthropicFrame
  PROVE  ReasonRead(Append(frames, e)) =
           IF e.stop = None THEN ReasonRead(frames) ELSE to_finish_reason(e.stop)
<1> DEFINE stops == Given(Field(frames, "stop"))
<1>1. stops \in Seq(AnthropicReason)
  <2>1. \A t \in AnthropicFrame : t["stop"] \in AnthropicReason \cup {None}
    BY AnthropicFields
  <2> QED
    BY <2>1, GivenType
<1>2. Given(Field(Append(frames, e), "stop")) =
        IF e.stop = None THEN stops ELSE Append(stops, e.stop)
  BY GivenAppend, AnthropicFields
<1>3. e.stop \in AnthropicReason \cup {None}
  BY AnthropicFields
<1>4. ReasonRead(frames) = IF LastOf(stops) = None THEN None ELSE to_finish_reason(LastOf(stops))
  BY DEF ReasonRead
<1>5. ReasonRead(Append(frames, e)) =
        LET s == Given(Field(Append(frames, e), "stop"))
        IN  IF LastOf(s) = None THEN None ELSE to_finish_reason(LastOf(s))
  BY DEF ReasonRead
<1> HIDE DEF stops
<1>6. CASE e.stop = None
  BY <1>2, <1>4, <1>5, <1>6
<1>7. CASE e.stop # None
  <2>1. LastOf(Append(stops, e.stop)) = e.stop
    BY <1>1, <1>3, <1>7, LastOfAppend
  <2> QED
    BY <1>2, <1>5, <1>7, <2>1
<1> QED
  BY <1>6, <1>7

\* Each frame keeps what is true of its side.
LEMMA ChunkStep ==
  ASSUME NEW b, NEW n \in NormalState, OpenAiSide(b, n), NEW c \in OpenAiFrame
  PROVE  OpenAiSide(Append(b, c), OpenAiData(n, c)) /\ OpenAiData(n, c) \in NormalState
<1> DEFINE T == OpenAiFrame \cup {Done}
           usages == Given(Field(Chunks(b), "usage"))
           longer == Given(Field(Chunks(Append(b, c)), "usage"))
           one == extract_usage(c)
<1>1. /\ b \in Seq(T) /\ n.events = b
      /\ Len(usages) <= 1 => n.usage = UsageRead("openai", Chunks(b))
      /\ c \in T
  BY DEF OpenAiSide
<1>2. Append(b, c) \in Seq(T)
  BY <1>1
<1>3. c.usage \in WireUsage \cup {None} /\ c["usage"] = c.usage /\ c # Done /\ c # Garbage
  BY OpenAiFields
<1>4. one \in Usage \cup {None} /\ one = extract_usage([usage |-> c.usage])
  <2>1. [usage |-> c.usage] # Garbage
    BY DEF Garbage
  <2>2. one = extract_usage([usage |-> c.usage])
    BY <1>3, <2>1 DEF extract_usage
  <2>3. c.usage # None /\ c.usage.input # None =>
          /\ c.usage.input \in Nat
          /\ OrElse(c.usage.output, 0) \in Nat
    BY <1>3 DEF WireUsage, Count, OrElse
  <2> QED
    BY <1>3, <2>2, <2>3 DEF extract_usage, Usage
<1>5. Chunks(b) \in Seq(OpenAiFrame) /\ Chunks(Append(b, c)) = Append(Chunks(b), c)
  <2>1. Without(b, Done) \in Seq(T \ {Done})
    BY <1>1, WithoutType
  <2>2. Without(Append(b, c), Done) = Append(Without(b, Done), c)
    BY <1>1, <1>3, WithoutAppend
  <2>3. T \ {Done} \subseteq OpenAiFrame
    OBVIOUS
  <2> QED
    BY <2>1, <2>2, <2>3 DEF Chunks
<1>6. longer = IF c.usage = None THEN usages ELSE Append(usages, c.usage)
  BY <1>3, <1>5, GivenAppend
<1>7. usages \in Seq(WireUsage)
  <2>1. \A t \in OpenAiFrame : t["usage"] \in WireUsage \cup {None}
    BY OpenAiFields
  <2> QED
    BY <1>5, <2>1, GivenType
<1>8. /\ UsageRead("openai", Chunks(b)) = extract_usage([usage |-> LastOf(usages)])
      /\ UsageRead("openai", Chunks(Append(b, c))) = extract_usage([usage |-> LastOf(longer)])
  BY DEF UsageRead
<1>9. /\ OpenAiData(n, c).events = Append(n.events, c)
      /\ OpenAiData(n, c).usage = OrElse(n.usage, one)
  BY DEF OpenAiData, NormalState
<1>10. OpenAiData(n, c) \in NormalState
  <2>1. Append(n.events, c) \in Seq(RelayedChunk \cup {Done})
    <3>1. n.events \in Seq(RelayedChunk \cup {Done}) /\ c \in RelayedChunk \cup {Done}
      BY DEF NormalState, RelayedChunk
    <3> QED
      BY <3>1
  <2>2. OrElse(n.usage, one) \in Usage \cup {None}
    BY <1>4 DEF OrElse, NormalState
  <2> HIDE DEF one
  <2>3. OpenAiData(n, c) = [n EXCEPT !.usage = OrElse(n.usage, one), !.events = Append(n.events, c)]
    BY DEF OpenAiData, one
  <2> QED
    BY <2>1, <2>2, <2>3 DEF NormalState
<1> HIDE DEF usages, longer, one, T
<1>11. ASSUME Len(longer) <= 1 PROVE OrElse(n.usage, one) = extract_usage([usage |-> LastOf(longer)])
  <2>1. CASE c.usage = None
    <3>1. one = None
      BY <1>4, <2>1 DEF extract_usage
    <3>2. OrElse(n.usage, one) = n.usage
      BY <3>1 DEF OrElse
    <3> QED
      BY <1>1, <1>6, <1>8, <1>11, <2>1, <3>2
  <2>2. CASE c.usage # None
    <3>1. longer = Append(usages, c.usage) /\ c.usage \in WireUsage
      BY <1>3, <1>6, <2>2
    <3>2. LastOf(longer) = c.usage
      BY <1>7, <3>1, LastOfAppend
    <3>3. Len(longer) = Len(usages) + 1 /\ Len(usages) \in Nat
      BY <1>7, <3>1
    <3>4. usages = <<>>
      BY <1>7, <1>11, <3>3
    <3>5. LastOf(usages) = None
      BY <3>4 DEF LastOf
    <3>6. extract_usage([usage |-> None]) = None
      BY DEF extract_usage
    <3>7. n.usage = None
      <4>1. Len(usages) <= 1
        BY <1>11, <3>3
      <4> QED
        BY <1>1, <1>8, <3>5, <3>6, <4>1
    <3>8. OrElse(n.usage, one) = one
      BY <3>7 DEF OrElse
    <3> QED
      BY <1>4, <3>2, <3>8
  <2> QED
    BY <2>1, <2>2
<1>12. OpenAiSide(Append(b, c), OpenAiData(n, c))
  BY <1>1, <1>2, <1>8, <1>9, <1>11 DEF OpenAiSide, T, longer
<1> QED
  BY <1>10, <1>12

\* [DONE] is passed on, and the usage read by then stays.
LEMMA DoneStep ==
  ASSUME NEW b, NEW n \in NormalState, OpenAiSide(b, n)
  PROVE  OpenAiSide(Append(b, Done), OpenAiDone(n)) /\ OpenAiDone(n) \in NormalState
<1> DEFINE T == OpenAiFrame \cup {Done}
<1>1. /\ b \in Seq(T) /\ n.events = b /\ Done \in T
      /\ Len(Given(Field(Chunks(b), "usage"))) <= 1 => n.usage = UsageRead("openai", Chunks(b))
  BY DEF OpenAiSide
<1>2. Append(b, Done) \in Seq(T)
  BY <1>1
<1> HIDE DEF T
<1>3. Chunks(Append(b, Done)) = Chunks(b)
  BY <1>1, WithoutAppend DEF Chunks
<1>4. OpenAiDone(n).events = Append(n.events, Done) /\ OpenAiDone(n).usage = n.usage
  BY DEF OpenAiDone, NormalState
<1>5. OpenAiDone(n) \in NormalState
  <2>1. Append(n.events, Done) \in Seq(RelayedChunk \cup {Done})
    BY DEF NormalState
  <2> QED
    BY <2>1 DEF OpenAiDone, NormalState
<1> QED
  BY <1>1, <1>2, <1>3, <1>4, <1>5 DEF OpenAiSide, T

\* What an event does to what is known, field by field.
LEMMA EventEffect ==
  ASSUME NEW n \in NormalState, NEW e \in AnthropicFrame
  PROVE  LET next == AnthropicEvent(n, e) IN
         /\ next = [events |-> next.events, usage |-> next.usage, id |-> next.id,
                    finish |-> next.finish, deltas |-> next.deltas]
         /\ next.deltas = IF e.text = None THEN n.deltas ELSE Append(n.deltas, e.text)
         /\ next.usage = UsageAfter(n.usage, e.usage)
         /\ next.finish = IF e.stop = None THEN n.finish ELSE to_finish_reason(e.stop)
         /\ next.id \in Id \cup {None}
         /\ e.event # "message_stop" => next.events = n.events
         /\ e.event = "message_stop" =>
              \E id \in ChunkIds :
                next.events = n.events \o Contents(id, n.deltas)
                                \o <<FinalChunk(id, n.finish, next.usage), Done>>
<1> DEFINE next == AnthropicEvent(n, e)
<1>1. /\ n = [events |-> n.events, usage |-> n.usage, id |-> n.id, finish |-> n.finish,
              deltas |-> n.deltas]
      /\ n.id \in Id \cup {None}
  BY DEF NormalState
<1>2. /\ e.id \in Id \cup {None}
      /\ e.text # None => e.event = "content_block_delta"
      /\ e.stop # None => e.event = "message_delta"
      /\ e.usage # None => e.event \in {"message_start", "message_delta", "message_stop"}
  BY AnthropicFields, AnthropicAssumption
<1>3. \A u : UsageAfter(u, None) = u
  BY DEF UsageAfter
<1>4. OrElse(e.id, n.id) \in Id \cup {None}
  BY <1>1, <1>2 DEF OrElse
<1> DEFINE started == MessageStart(n, e)
<1>5. started = [events |-> n.events, usage |-> UsageAfter(n.usage, e.usage),
                 id |-> OrElse(e.id, n.id), finish |-> n.finish, deltas |-> n.deltas]
  <2>1. MessageStart(n, e) =
          [n EXCEPT !.id = OrElse(e.id, n.id), !.usage = UsageAfter(n.usage, e.usage)]
    BY DEF MessageStart
  <2> QED
    BY <1>1, <2>1
<1>6. CASE e.event = "message_start"
  <2>1. next = started /\ e.text = None /\ e.stop = None
    BY <1>2, <1>6 DEF AnthropicEvent
  <2> HIDE DEF next, started
  <2> QED
    BY <1>4, <1>5, <1>6, <2>1 DEF next
<1>7. CASE e.event = "content_block_delta"
  <2>1. next = ContentBlockDelta(n, e) /\ e.stop = None /\ e.usage = None
    BY <1>2, <1>7 DEF AnthropicEvent
  <2>2. next = [events |-> n.events, usage |-> n.usage, id |-> n.id, finish |-> n.finish,
                deltas |-> IF e.text = None THEN n.deltas ELSE Append(n.deltas, e.text)]
    BY <1>1, <2>1 DEF ContentBlockDelta
  <2> HIDE DEF next
  <2> QED
    BY <1>1, <1>3, <1>7, <2>1, <2>2 DEF next
<1>8. CASE e.event = "message_delta"
  <2>1. next = MessageDelta(n, e) /\ e.text = None
    BY <1>2, <1>8 DEF AnthropicEvent
  <2>2. next = [events |-> n.events, usage |-> UsageAfter(n.usage, e.usage), id |-> n.id,
                finish |-> IF e.stop = None THEN n.finish ELSE to_finish_reason(e.stop),
                deltas |-> n.deltas]
    <3>1. MessageDelta(n, e) =
            [n EXCEPT !.usage = UsageAfter(n.usage, e.usage),
                      !.finish = IF e.stop = None THEN n.finish ELSE to_finish_reason(e.stop)]
      BY DEF MessageDelta
    <3> QED
      BY <1>1, <2>1, <3>1
  <2> HIDE DEF next
  <2> QED
    BY <1>1, <1>8, <2>1, <2>2 DEF next
<1>9. CASE e.event = "message_stop"
  <2> DEFINE id == OrElse(started.id, AnthropicId)
             all == n.events \o Contents(id, n.deltas) \o <<FinalChunk(id, n.finish, started.usage), Done>>
  <2>1. next = MessageStop(n, e) /\ e.text = None /\ e.stop = None
    BY <1>2, <1>9 DEF AnthropicEvent
  <2> HIDE DEF started
  <2>2. next = [started EXCEPT !.events = all]
    BY <1>5, <2>1 DEF MessageStop, started, Contents
  <2>3. id \in ChunkIds
    BY <1>4, <1>5 DEF OrElse, ChunkIds
  <2> HIDE DEF all, id, next
  <2>4. next = [events |-> all, usage |-> UsageAfter(n.usage, e.usage),
                id |-> OrElse(e.id, n.id), finish |-> n.finish, deltas |-> n.deltas]
    BY <1>5, <2>2
  <2>5. next.events = n.events \o Contents(id, n.deltas) \o <<FinalChunk(id, n.finish, next.usage), Done>>
    BY <1>5, <2>4 DEF all
  <2>6. /\ next = [events |-> next.events, usage |-> next.usage, id |-> next.id,
                   finish |-> next.finish, deltas |-> next.deltas]
        /\ next.deltas = n.deltas /\ next.usage = UsageAfter(n.usage, e.usage)
        /\ next.finish = n.finish /\ next.id \in Id \cup {None}
    BY <1>4, <2>4
  <2>7. \E i \in ChunkIds :
          next.events = n.events \o Contents(i, n.deltas) \o <<FinalChunk(i, n.finish, next.usage), Done>>
    BY <2>3, <2>5
  <2> QED
    BY <1>9, <2>1, <2>6, <2>7 DEF next
<1>10. CASE e.event \notin {"message_start", "content_block_delta", "message_delta", "message_stop"}
  <2>1. next = n /\ e.text = None /\ e.stop = None /\ e.usage = None
    BY <1>2, <1>10 DEF AnthropicEvent
  <2> HIDE DEF next
  <2> QED
    BY <1>1, <1>3, <1>10, <2>1 DEF next
<1> QED
  BY <1>6, <1>7, <1>8, <1>9, <1>10

\* Merging counts into usage gives usage.
LEMMA MergedUsageType ==
  ASSUME NEW current \in Usage \cup {None}, NEW u \in WireUsage \cup {None}
  PROVE  UsageAfter(current, u) \in Usage \cup {None}
<1>1. CASE u = None
  BY <1>1 DEF UsageAfter
<1>2. CASE u # None
  <2>1. u.input \in Nat \cup {None} /\ u.output \in Nat \cup {None}
    BY <1>2 DEF WireUsage, Count
  <2> DEFINE input == IF current = None THEN 0 ELSE current.input
             output == IF current = None THEN 0 ELSE current.output
  <2>2. input \in Nat /\ output \in Nat
    BY DEF Usage
  <2>3. UsageAfter(current, u) = [input |-> OrElse(u.input, input), output |-> OrElse(u.output, output)]
    BY <1>2 DEF UsageAfter, merge_usage
  <2> HIDE DEF input, output
  <2>4. OrElse(u.input, input) \in Nat /\ OrElse(u.output, output) \in Nat
    BY <2>1, <2>2 DEF OrElse
  <2> QED
    BY <2>3, <2>4 DEF Usage
<1> QED
  BY <1>1, <1>2

\* An event keeps the normaliser's state typed; message_stop adds the whole
\* answer.
LEMMA EventType ==
  ASSUME NEW n \in NormalState, NEW e \in AnthropicFrame, n.events \in Seq(NormalChunk \cup {Done})
  PROVE  /\ AnthropicEvent(n, e) \in NormalState
         /\ e.event = "message_stop" =>
              \E id \in ChunkIds :
                AnthropicEvent(n, e).events =
                  n.events \o Append(AnswerChunks(id, n.deltas, n.finish, AnthropicEvent(n, e).usage), Done)
<1> DEFINE next == AnthropicEvent(n, e)
           F == NormalChunk \cup {Done}
<1>1. /\ next = [events |-> next.events, usage |-> next.usage, id |-> next.id,
                 finish |-> next.finish, deltas |-> next.deltas]
      /\ next.deltas = IF e.text = None THEN n.deltas ELSE Append(n.deltas, e.text)
      /\ next.usage = UsageAfter(n.usage, e.usage)
      /\ next.finish = IF e.stop = None THEN n.finish ELSE to_finish_reason(e.stop)
      /\ next.id \in Id \cup {None}
      /\ e.event # "message_stop" => next.events = n.events
      /\ e.event = "message_stop" =>
           \E id \in ChunkIds :
             next.events = n.events \o Contents(id, n.deltas)
                             \o <<FinalChunk(id, n.finish, next.usage), Done>>
  BY EventEffect
<1>2. /\ n.deltas \in Seq(Text) /\ n.finish \in {None, "stop", "length"}
      /\ n.usage \in Usage \cup {None} /\ n.events \in Seq(RelayedChunk \cup {Done})
  BY DEF NormalState
<1>3. e.text \in Text \cup {None} /\ e.usage \in WireUsage \cup {None}
  BY AnthropicFields
<1> HIDE DEF next
<1>4. next.deltas \in Seq(Text)
  BY <1>1, <1>2, <1>3
<1>5. next.usage \in Usage \cup {None}
  BY <1>1, <1>2, <1>3, MergedUsageType
<1>6. next.finish \in {None, "stop", "length"}
  BY <1>1, <1>2 DEF to_finish_reason
<1>7. ASSUME e.event = "message_stop"
      PROVE  \E id \in ChunkIds :
               next.events = n.events \o Append(AnswerChunks(id, n.deltas, n.finish, next.usage), Done)
  <2>1. PICK id \in ChunkIds : next.events = n.events \o Contents(id, n.deltas)
                                  \o <<FinalChunk(id, n.finish, next.usage), Done>>
    BY <1>1, <1>7
  <2> DEFINE before == n.events
             texts == n.deltas
             finish == n.finish
             counts == next.usage
  <2>2. /\ before \in Seq(NormalChunk \cup {Done}) /\ texts \in Seq(Text)
        /\ finish \in {None, "stop", "length"} /\ counts \in Usage \cup {None}
    BY <1>2, <1>5
  <2> HIDE DEF before, texts, finish, counts
  <2>3. before \o Contents(id, texts) \o <<FinalChunk(id, finish, counts), Done>> =
          before \o Append(AnswerChunks(id, texts, finish, counts), Done)
    BY <2>2, StopAdds
  <2> QED
    BY <2>1, <2>3 DEF before, texts, finish, counts
<1>8. next.events \in Seq(RelayedChunk \cup {Done})
  <2>1. CASE e.event = "message_stop"
    <3>1. PICK id \in ChunkIds :
            next.events = n.events \o Append(AnswerChunks(id, n.deltas, n.finish, next.usage), Done)
      BY <1>7, <2>1
    <3>2. Append(AnswerChunks(id, n.deltas, n.finish, next.usage), Done) \in Seq(F)
      BY <1>2, <1>5, AnswerSays
    <3> DEFINE more == Append(AnswerChunks(id, n.deltas, n.finish, next.usage), Done)
    <3>3. more \in Seq(RelayedChunk \cup {Done})
      <4>1. F \subseteq RelayedChunk \cup {Done}
        BY DEF RelayedChunk
      <4> HIDE DEF F, more
      <4>2. more \in Seq(F)
        BY <3>2 DEF more
      <4> QED
        BY <4>1, <4>2
    <3> HIDE DEF more
    <3>4. n.events \o more \in Seq(RelayedChunk \cup {Done})
      BY <1>2, <3>3, ConcatProperties
    <3> QED
      BY <3>1, <3>4 DEF more
  <2> QED
    BY <1>1, <1>2, <2>1
<1>9. next \in NormalState
  BY <1>1, <1>4, <1>5, <1>6, <1>8 DEF NormalState
<1> QED
  BY <1>7, <1>9 DEF next

\* What is read of a translated answer.
LEMMA TranslatedSays ==
  ASSUME NEW id \in ChunkIds, NEW frames \in Seq(AnthropicFrame)
  PROVE  LET whole == Translated(id, frames)
             chunks == Chunks(whole)
             counts == UsageRead("anthropic", frames)
         IN  /\ whole \in Seq(NormalChunk \cup {Done})
             /\ Ended(whole)
             /\ UpToEnd(whole) = whole
             /\ Given(Field(frames, "text")) \in Seq(Text)
             /\ Given(Field(chunks, "text")) = Given(Field(frames, "text"))
             /\ Given(Field(chunks, "finish")) = <<OrElse(ReasonRead(frames), "stop")>>
             /\ Given(Field(chunks, "usage")) = IF counts = None THEN <<>> ELSE <<counts>>
<1> DEFINE texts == Given(Field(frames, "text"))
           finish == ReasonRead(frames)
           counts == UsageRead("anthropic", frames)
           chunks == AnswerChunks(id, texts, finish, counts)
<1>1. texts \in Seq(Text)
  <2>1. \A t \in AnthropicFrame : t["text"] \in Text \cup {None}
    BY AnthropicFields
  <2> QED
    BY <2>1, GivenType
<1>2. finish \in {None, "stop", "length"}
  BY DEF ReasonRead, to_finish_reason
<1>3. counts \in Usage \cup {None}
  BY UsageReadType
<1> HIDE DEF texts, finish, counts
<1>4. /\ chunks \in Seq(NormalChunk)
      /\ ~Ended(chunks)
      /\ Ended(Append(chunks, Done))
      /\ Append(chunks, Done) \in Seq(NormalChunk \cup {Done})
      /\ UpToEnd(Append(chunks, Done)) = Append(chunks, Done)
      /\ Chunks(Append(chunks, Done)) = chunks
      /\ Given(Field(chunks, "text")) = texts
      /\ Given(Field(chunks, "finish")) = <<OrElse(finish, "stop")>>
      /\ Given(Field(chunks, "usage")) = IF counts = None THEN <<>> ELSE <<counts>>
  <2>1. Ended(Append(chunks, Done)) /\ ~Ended(chunks) /\ chunks \in Seq(NormalChunk)
    BY <1>1, <1>2, <1>3, AnswerSays
  <2>2. Append(chunks, Done) \in Seq(NormalChunk \cup {Done})
    BY <1>1, <1>2, <1>3, AnswerSays
  <2>3. UpToEnd(Append(chunks, Done)) = Append(chunks, Done) /\ Chunks(Append(chunks, Done)) = chunks
    BY <1>1, <1>2, <1>3, AnswerSays
  <2>4. Given(Field(chunks, "text")) = texts
    BY <1>1, <1>2, <1>3, AnswerSays
  <2>5. Given(Field(chunks, "finish")) = <<OrElse(finish, "stop")>>
    BY <1>1, <1>2, <1>3, AnswerSays
  <2>6. Given(Field(chunks, "usage")) = IF counts = None THEN <<>> ELSE <<counts>>
    BY <1>1, <1>2, <1>3, AnswerSays
  <2> HIDE DEF chunks
  <2> QED
    BY <2>1, <2>2, <2>3, <2>4, <2>5, <2>6
<1>5. Translated(id, frames) = Append(chunks, Done)
  BY DEF Translated, texts, finish, counts
<1> QED
  BY <1>1, <1>4, <1>5 DEF texts, finish, counts

\* What an Anthropic upstream's frames have become so far.
LEMMA SideEvents ==
  ASSUME NEW b, NEW n, AnthropicSide(b, n)
  PROVE  n.events \in Seq(NormalChunk \cup {Done})
<1> DEFINE F == NormalChunk \cup {Done}
<1>1. CASE ~Ended(b)
  <2>1. n.events = <<>>
    BY <1>1, Zenon DEF AnthropicSide
  <2> QED
    BY <2>1
<1>2. CASE Ended(b)
  <2>1. PICK id \in ChunkIds, rest \in Seq(F) : n.events = Translated(id, UpToEnd(b)) \o rest
    BY <1>2 DEF AnthropicSide
  <2>2. UpToEnd(b) \in Seq(AnthropicFrame)
    <3>1. b \in Seq(AnthropicFrame)
      BY DEF AnthropicSide
    <3> QED
      BY <3>1, UpToEndType
  <2> DEFINE whole == Translated(id, UpToEnd(b))
  <2>3. whole \in Seq(F)
    BY <2>2, TranslatedSays
  <2> HIDE DEF F, whole
  <2>4. whole \o rest \in Seq(F)
    BY <2>3, ConcatProperties
  <2> QED
    BY <2>1, <2>4 DEF F, whole
<1> QED
  BY <1>1, <1>2

\* An event keeps what the Anthropic side of the normaliser says about the frames
\* so far.
LEMMA EventStep ==
  ASSUME NEW b, NEW n \in NormalState, AnthropicSide(b, n), NEW e \in AnthropicFrame
  PROVE  /\ AnthropicSide(Append(b, e), AnthropicEvent(n, e))
         /\ AnthropicEvent(n, e) \in NormalState
<1> DEFINE F == NormalChunk \cup {Done}
           next == AnthropicEvent(n, e)
           longer == Append(b, e)
           TextIn(frames) == Given(Field(frames, "text"))
           counts == UsageRead("anthropic", longer)
           Added(id) == Append(AnswerChunks(id, n.deltas, n.finish, next.usage), Done)
<1>1. /\ b \in Seq(AnthropicFrame) /\ n.deltas = TextIn(b) /\ n.finish = ReasonRead(b)
      /\ n.usage = UsageRead("anthropic", b)
      /\ ~Ended(b) => n.events = <<>>
      /\ Ended(b) => \E id \in ChunkIds, rest \in Seq(F) :
                       /\ n.events = Translated(id, UpToEnd(b)) \o rest
                       /\ UpToEnd(b) = b => rest = <<>>
  BY DEF AnthropicSide
<1>2. n.events \in Seq(F)
  BY SideEvents
<1>3. /\ next.deltas = IF e.text = None THEN n.deltas ELSE Append(n.deltas, e.text)
      /\ next.usage = UsageAfter(n.usage, e.usage)
      /\ next.finish = IF e.stop = None THEN n.finish ELSE to_finish_reason(e.stop)
      /\ e.event # "message_stop" => next.events = n.events
  BY EventEffect
<1>4. /\ next \in NormalState
      /\ e.event = "message_stop" => \E id \in ChunkIds : next.events = n.events \o Added(id)
  BY <1>2, EventType
<1>5. /\ e.text = e["text"]
      /\ e.event = "message_stop" => e.text = None /\ e.stop = None
      /\ IsEnd(e) <=> e.event = "message_stop"
  <2>1. e # Done /\ "event" \in DOMAIN e
    BY AnthropicFields, AnthropicAssumption
  <2> QED
    BY <2>1, AnthropicFields, AnthropicAssumption DEF IsEnd
<1>6. longer \in Seq(AnthropicFrame) /\ Len(longer) = Len(b) + 1 /\ Len(b) \in Nat
  BY <1>1
<1>7. next.deltas = TextIn(longer)
  <2>1. TextIn(longer) = IF e["text"] = None THEN TextIn(b) ELSE Append(TextIn(b), e["text"])
    BY <1>1, GivenAppend
  <2> QED
    BY <1>1, <1>3, <1>5, <2>1
<1>8. next.finish = ReasonRead(longer)
  BY <1>1, <1>3, ReasonReadAppend
<1>9. next.usage = counts
  BY <1>1, <1>3, UsageReadAppend
<1>10. Ended(longer) <=> Ended(b) \/ e.event = "message_stop"
  BY <1>1, <1>5, EndedAppend
<1> HIDE DEF F, next, longer, counts
<1>11. CASE ~Ended(b) /\ e.event # "message_stop"
  <2>1. next.events = <<>> /\ ~Ended(longer)
    BY <1>1, <1>3, <1>10, <1>11
  <2> QED
    BY <1>4, <1>6, <1>7, <1>8, <1>9, <2>1 DEF AnthropicSide, counts, next, longer
<1>12. CASE ~Ended(b) /\ e.event = "message_stop"
  <2>1. PICK id \in ChunkIds : next.events = <<>> \o Added(id)
    BY <1>1, <1>4, <1>12
  <2>2. UpToEnd(longer) = longer
    BY <1>1, <1>12, UpToEndAppend DEF longer
  <2>3. n.deltas = TextIn(longer) /\ n.finish = ReasonRead(longer)
    BY <1>3, <1>5, <1>7, <1>8, <1>12
  <2>4. Added(id) = Translated(id, longer)
    BY <1>9, <2>3 DEF Translated, counts
  <2>5. Translated(id, longer) \in Seq(F)
    BY <1>6, TranslatedSays DEF F
  <2>6. <<>> \o Translated(id, longer) = Translated(id, longer)
        /\ Translated(id, longer) \o <<>> = Translated(id, longer)
    <3> HIDE DEF Translated
    <3> QED
      BY <2>5, ConcatEmptySeq
  <2>7. next.events = Translated(id, UpToEnd(longer)) \o <<>>
    BY <2>1, <2>2, <2>4, <2>6
  <2>8. Ended(longer) /\ <<>> \in Seq(F)
    BY <1>10, <1>12
  <2>9. \E i \in ChunkIds, rest \in Seq(F) :
          /\ next.events = Translated(i, UpToEnd(longer)) \o rest
          /\ UpToEnd(longer) = longer => rest = <<>>
    BY <2>7, <2>8
  <2> QED
    BY <1>4, <1>6, <1>7, <1>8, <1>9, <2>8, <2>9 DEF AnthropicSide, counts, next, longer, F
<1>13. CASE Ended(b)
  <2>1. PICK id \in ChunkIds, rest \in Seq(F) : n.events = Translated(id, UpToEnd(b)) \o rest
    BY <1>1, <1>13
  <2>2. Ended(longer)
    BY <1>10, <1>13
  <2>3. UpToEnd(longer) = UpToEnd(b)
    <3>1. longer = b \o <<e>> /\ <<e>> \in Seq(AnthropicFrame)
      BY <1>1 DEF longer
    <3> QED
      BY <1>1, <1>13, <3>1, UpToEndConcat
  <2>4. UpToEnd(longer) # longer
    <3>1. Len(UpToEnd(b)) <= Len(b)
      BY <1>1, UpToEndType
    <3>2. UpToEnd(b) \in Seq(AnthropicFrame)
      BY <1>1, UpToEndType
    <3> QED
      BY <1>6, <2>3, <3>1, <3>2
  <2>5. \E more \in Seq(F) : next.events = n.events \o more
    <3>1. CASE e.event = "message_stop"
      <4>1. PICK i \in ChunkIds : next.events = n.events \o Added(i)
        BY <1>4, <3>1
      <4>2. n.deltas \in Seq(Text) /\ n.finish \in {None, "stop", "length"}
            /\ next.usage \in Usage \cup {None}
        BY <1>4 DEF NormalState
      <4>3. Added(i) \in Seq(F)
        BY <4>2, AnswerSays DEF F
      <4> QED
        BY <4>1, <4>3
    <3>2. CASE e.event # "message_stop"
      <4>1. n.events \o <<>> = n.events /\ <<>> \in Seq(F)
        BY <1>2, ConcatEmptySeq
      <4> QED
        BY <1>3, <3>2, <4>1 DEF next
    <3> QED
      BY <3>1, <3>2
  <2>6. PICK more \in Seq(F) : next.events = n.events \o more
    BY <2>5
  <2> DEFINE whole == Translated(id, UpToEnd(b))
  <2>7. whole \in Seq(F)
    <3>1. UpToEnd(b) \in Seq(AnthropicFrame)
      BY <1>1, UpToEndType
    <3> QED
      BY <3>1, TranslatedSays DEF F
  <2> HIDE DEF whole
  <2>8. (whole \o rest) \o more = whole \o (rest \o more) /\ rest \o more \in Seq(F)
    BY <2>7, ConcatProperties, ConcatAssociative
  <2>9. next.events = Translated(id, UpToEnd(longer)) \o (rest \o more)
    BY <2>1, <2>3, <2>6, <2>8 DEF whole
  <2>10. \E i \in ChunkIds, s \in Seq(F) :
           /\ next.events = Translated(i, UpToEnd(longer)) \o s
           /\ UpToEnd(longer) = longer => s = <<>>
    BY <2>4, <2>8, <2>9
  <2> QED
    BY <1>4, <1>6, <1>7, <1>8, <1>9, <2>2, <2>10 DEF AnthropicSide, counts, next, longer, F
<1> QED
  BY <1>11, <1>12, <1>13

\* Before the first frame nothing is relayed.
LEMMA RelayInitInv == RelayInit => RelayInv
<1> SUFFICES ASSUME RelayInit PROVE RelayInv
  OBVIOUS
<1>1. /\ provider \in Api /\ protocol \in Api /\ body = <<>> /\ normal = NoNormal
      /\ outcome = "reading" /\ relayed = <<>> /\ billed = None
  BY DEF RelayInit
<1>2. NoNormal \in NormalState
  BY DEF NoNormal, NormalState
<1>3. /\ \A f : Given(Field(<<>>, f)) = <<>>
      /\ Chunks(<<>>) = <<>>
  BY GivenEmpty, WithoutEmpty DEF Chunks
<1>4. LastOf(<<>>) = None
  BY DEF LastOf
<1>5. UsageRead("openai", <<>>) = None /\ UsageRead("anthropic", <<>>) = None /\ ReasonRead(<<>>) = None
  BY <1>3, <1>4 DEF UsageRead, ReasonRead, extract_usage
<1>6. ~Ended(<<>>)
  BY DEF Ended
<1>7. OpenAiSide(<<>>, NoNormal)
  <2>1. <<>> \in Seq(OpenAiFrame \cup {Done}) /\ NoNormal.events = <<>> /\ NoNormal.usage = None
    BY DEF NoNormal
  <2> QED
    BY <1>3, <1>5, <2>1 DEF OpenAiSide
<1>8. AnthropicSide(<<>>, NoNormal)
  <2>1. /\ <<>> \in Seq(AnthropicFrame) /\ NoNormal.events = <<>> /\ NoNormal.usage = None
        /\ NoNormal.deltas = <<>> /\ NoNormal.finish = None
    BY DEF NoNormal
  <2> QED
    BY <1>3, <1>5, <1>6, <2>1 DEF AnthropicSide
<1>9. body \in Seq(Frames) /\ outcome \in Outcomes
  BY <1>1 DEF Outcomes
<1> QED
  BY <1>1, <1>2, <1>7, <1>8, <1>9 DEF RelayInv

\* Each frame, and a broken connection, keep the invariant.
LEMMA RelayStepInv == RelayInv /\ [RelayNext]_relayVars => RelayInv'
<1> SUFFICES ASSUME RelayInv, [RelayNext]_relayVars PROVE RelayInv'
  OBVIOUS
<1>1. /\ provider \in Api /\ protocol \in Api /\ outcome \in Outcomes
      /\ body \in Seq(Frames) /\ normal \in NormalState
      /\ outcome \in {"reading", "answered"} =>
           /\ provider = "openai" => OpenAiSide(body, normal)
           /\ provider = "anthropic" => AnthropicSide(body, normal)
      /\ outcome = "answered" => AnswerIs(protocol, normal, relayed, billed)
      /\ outcome # "answered" => billed = None /\ relayed = <<>>
  BY DEF RelayInv
<1>2. \A f \in Frames : Append(body, f) \in Seq(Frames)
  BY <1>1
<1>3. Done \in Frames /\ Garbage \in Frames /\ OpenAiFrame \subseteq Frames /\ AnthropicFrame \subseteq Frames
  BY DEF Frames
<1>4. ASSUME NEW frame \in Frames, NEW next \in NormalState, Handle(frame, next),
             /\ provider = "openai" => OpenAiSide(Append(body, frame), next)
             /\ provider = "anthropic" => AnthropicSide(Append(body, frame), next)
      PROVE  RelayInv'
  <2>1. /\ outcome = "reading" /\ body' = Append(body, frame) /\ normal' = next
        /\ UNCHANGED <<provider, protocol, outcome, relayed, billed>>
    BY <1>4 DEF Handle
  <2>2. /\ provider' = "openai" => OpenAiSide(body', normal')
        /\ provider' = "anthropic" => AnthropicSide(body', normal')
    BY <1>4, <2>1
  <2>3. provider' \in Api /\ protocol' \in Api /\ outcome' \in Outcomes /\ body' \in Seq(Frames)
        /\ normal' \in NormalState /\ outcome' = "reading" /\ billed' = None /\ relayed' = <<>>
    BY <1>1, <1>2, <2>1
  <2> QED
    BY <2>2, <2>3 DEF RelayInv
<1>5. ASSUME NEW frame \in Frames, NEW failed \in {"upstream_error", "invalid_request"},
             Break(frame, failed)
      PROVE  RelayInv'
  <2>1. /\ outcome = "reading" /\ body' = Append(body, frame) /\ outcome' = failed
        /\ UNCHANGED <<provider, protocol, normal, relayed, billed>>
    BY <1>5 DEF Break
  <2>2. provider' \in Api /\ protocol' \in Api /\ body' \in Seq(Frames) /\ normal' \in NormalState
        /\ outcome' \notin {"reading", "answered"} /\ billed' = None /\ relayed' = <<>>
    BY <1>1, <1>2, <2>1
  <2>3. outcome' \in Outcomes
    BY <2>1 DEF Outcomes
  <2> QED
    BY <2>2, <2>3 DEF RelayInv
<1>6. CASE ReceiveChunk
  <2>1. PICK chunk \in OpenAiFrame : Handle(chunk, OpenAiData(normal, chunk))
    BY <1>6 DEF ReceiveChunk
  <2>2. provider = "openai" /\ OpenAiSide(body, normal)
    BY <1>1, <1>6, <2>1 DEF ReceiveChunk, Handle
  <2>3. OpenAiSide(Append(body, chunk), OpenAiData(normal, chunk)) /\ OpenAiData(normal, chunk) \in NormalState
    BY <1>1, <2>2, ChunkStep
  <2> QED
    BY <1>3, <1>4, <2>1, <2>2, <2>3
<1>7. CASE ReceiveDone
  <2>1. provider = "openai" /\ Handle(Done, OpenAiDone(normal)) /\ OpenAiSide(body, normal)
    BY <1>1, <1>7 DEF ReceiveDone, Handle
  <2>2. OpenAiSide(Append(body, Done), OpenAiDone(normal)) /\ OpenAiDone(normal) \in NormalState
    BY <1>1, <2>1, DoneStep
  <2> QED
    BY <1>3, <1>4, <2>1, <2>2
<1>8. CASE ReceiveGarbage
  BY <1>3, <1>5, <1>8 DEF ReceiveGarbage
<1>9. CASE ReceiveEvent
  <2>1. PICK e \in AnthropicFrame : Handle(e, AnthropicEvent(normal, e))
    BY <1>9 DEF ReceiveEvent
  <2>2. provider = "anthropic" /\ AnthropicSide(body, normal)
    BY <1>1, <1>9, <2>1 DEF ReceiveEvent, Handle
  <2>3. AnthropicSide(Append(body, e), AnthropicEvent(normal, e)) /\ AnthropicEvent(normal, e) \in NormalState
    BY <1>1, <2>2, EventStep
  <2> QED
    BY <1>3, <1>4, <2>1, <2>2, <2>3
<1>10. CASE ReceiveToolUse
  <2>1. PICK e \in AnthropicFrame : Break(e, "invalid_request")
    BY <1>10 DEF ReceiveToolUse
  <2> QED
    BY <1>3, <1>5, <2>1
<1>11. CASE Respond
  <2>1. /\ outcome = "reading" /\ outcome' = "answered" /\ billed' = normal.usage
        /\ relayed' = IF protocol = "openai" THEN normal.events
                      ELSE RenderedMessage(Chunks(normal.events), normal.usage)
        /\ UNCHANGED <<provider, protocol, body, normal>>
    BY <1>11 DEF Respond
  <2>2. AnswerIs(protocol', normal', relayed', billed')
    BY <2>1 DEF AnswerIs
  <2>3. /\ provider' = "openai" => OpenAiSide(body', normal')
        /\ provider' = "anthropic" => AnthropicSide(body', normal')
    BY <1>1, <2>1
  <2>4. provider' \in Api /\ protocol' \in Api /\ outcome' \in Outcomes /\ body' \in Seq(Frames)
        /\ normal' \in NormalState /\ outcome' = "answered"
    BY <1>1, <2>1 DEF Outcomes
  <2> QED
    BY <2>2, <2>3, <2>4 DEF RelayInv
<1>12. CASE PassErrorThrough
  <2>1. /\ outcome = "reading" /\ outcome' = "upstream_status"
        /\ UNCHANGED <<provider, protocol, body, normal, relayed, billed>>
    BY <1>12 DEF PassErrorThrough
  <2>2. provider' \in Api /\ protocol' \in Api /\ body' \in Seq(Frames) /\ normal' \in NormalState
        /\ outcome' \notin {"reading", "answered"} /\ billed' = None /\ relayed' = <<>>
        /\ outcome' \in Outcomes
    BY <1>1, <2>1 DEF Outcomes
  <2> QED
    BY <2>2 DEF RelayInv
<1>13. CASE UNCHANGED relayVars
  <2>1. /\ provider' = provider /\ protocol' = protocol /\ body' = body /\ normal' = normal
        /\ outcome' = outcome /\ relayed' = relayed /\ billed' = billed
    BY <1>13 DEF relayVars
  <2> QED
    BY <1>1, <2>1 DEF RelayInv
<1> QED
  BY <1>6, <1>7, <1>8, <1>9, <1>10, <1>11, <1>12, <1>13 DEF RelayNext

\* The invariant holds of a stream of any length.
LEMMA RelayInvHolds == RelaySpec => []RelayInv
<1>1. RelayInit => RelayInv
  BY RelayInitInv
<1>2. RelayInv /\ [RelayNext]_relayVars => RelayInv'
  BY RelayStepInv
<1> QED
  BY <1>1, <1>2, PTL DEF RelaySpec

-----------------------------------------------------------------------------
(* What arrives at the client *)

\* What the relay works with is of the right type.
THEOREM RelayTypeCorrect == RelaySpec => []RelayTypeOK
<1>1. RelayInv => RelayTypeOK
  <2> SUFFICES ASSUME RelayInv PROVE RelayTypeOK
    OBVIOUS
  <2>1. /\ provider \in Api /\ protocol \in Api /\ outcome \in Outcomes
        /\ body \in Seq(Frames) /\ normal \in NormalState
        /\ outcome = "answered" => billed = normal.usage
        /\ outcome # "answered" => billed = None /\ relayed = <<>>
    BY DEF RelayInv, AnswerIs
  <2>2. /\ normal.usage \in Usage \cup {None} /\ normal.finish \in {None, "stop", "length"}
        /\ normal.deltas \in Seq(Text) /\ normal.id \in Id \cup {None}
    BY <2>1 DEF NormalState
  <2> QED
    BY <2>1, <2>2 DEF RelayTypeOK, Outcomes, Frames
<1> QED
  BY <1>1, RelayInvHolds, PTL

\* The chunks the answer is built from.
LEMMA RelayedChunks ==
  ASSUME NEW n \in NormalState
  PROVE  /\ Given(Field(Chunks(n.events), "text")) \in Seq(Text)
         /\ Given(Field(Chunks(n.events), "id")) \in Seq(ChunkIds)
         /\ FinishReason(Chunks(n.events)) \in OpenAiReason \cup {"stop", "length"} \cup {None}
<1> DEFINE F == RelayedChunk \cup {Done}
           chunks == Chunks(n.events)
           R == OpenAiReason \cup {"stop", "length"}
<1>1. n.events \in Seq(F)
  BY DEF NormalState
<1>2. F \ {Done} \subseteq RelayedChunk
  OBVIOUS
<1>3. /\ \A t \in RelayedChunk : t["text"] \in Text \cup {None}
      /\ \A t \in RelayedChunk : t["id"] \in ChunkIds \cup {None}
      /\ \A t \in RelayedChunk : t["finish"] \in R \cup {None}
  <2>1. \A t \in OpenAiFrame : /\ t["text"] \in Text \cup {None}
                               /\ t["id"] \in ChunkIds \cup {None}
                               /\ t["finish"] \in R \cup {None}
    BY OpenAiFields DEF ChunkIds
  <2>2. \A t \in NormalChunk : /\ t["text"] \in Text \cup {None}
                               /\ t["id"] \in ChunkIds \cup {None}
                               /\ t["finish"] \in R \cup {None}
    BY DEF NormalChunk
  <2> QED
    BY <2>1, <2>2 DEF RelayedChunk
<1>4. Without(n.events, Done) \in Seq(F \ {Done})
  BY <1>1, WithoutType
<1> HIDE DEF F, R
<1>5. chunks \in Seq(RelayedChunk)
  BY <1>2, <1>4 DEF Chunks
<1> HIDE DEF chunks
<1>6. Given(Field(chunks, "text")) \in Seq(Text) /\ Given(Field(chunks, "id")) \in Seq(ChunkIds)
  BY <1>3, <1>5, GivenType
<1>7. Given(Field(chunks, "finish")) \in Seq(R)
  BY <1>3, <1>5, GivenType
<1>8. FinishReason(chunks) \in R \cup {None}
  BY <1>7, LastOfType DEF FinishReason
<1> QED
  BY <1>6, <1>8 DEF R, chunks

\* What a client of the Messages API is sent.
LEMMA MessageSent ==
  ASSUME RelayInv, outcome = "answered", protocol = "anthropic"
  PROVE  /\ OrElse(billed, NoUsage) \in Usage
         /\ \E id \in ChunkIds :
              relayed = MessageEvents(id, OrElse(billed, NoUsage),
                                      Given(Field(Chunks(normal.events), "text")),
                                      to_stop_reason(FinishReason(Chunks(normal.events))))
<1>1. /\ normal \in NormalState /\ billed = normal.usage
      /\ relayed = RenderedMessage(Chunks(normal.events), normal.usage)
  BY DEF RelayInv, AnswerIs
<1>2. normal.usage \in Usage \cup {None}
  BY <1>1 DEF NormalState
<1>3. OrElse(billed, NoUsage) \in Usage
  BY <1>1, <1>2 DEF OrElse, NoUsage, Usage
<1> DEFINE chunks == Chunks(normal.events)
<1>4. Given(Field(chunks, "text")) \in Seq(Text) /\ Given(Field(chunks, "id")) \in Seq(ChunkIds)
  BY <1>1, RelayedChunks
<1> HIDE DEF chunks
<1>5. \E id \in ChunkIds :
        RenderedMessage(chunks, billed) =
          MessageEvents(id, OrElse(billed, NoUsage), Given(Field(chunks, "text")),
                        to_stop_reason(FinishReason(chunks)))
  BY <1>4, RenderedIsMessage
<1> QED
  BY <1>1, <1>3, <1>5 DEF chunks

\* A finish reason survives the way through a second gateway.
LEMMA ReasonsAlike ==
  ASSUME NEW finish \in OpenAiReason \cup {"stop", "length"} \cup {None}
  PROVE  LET stop == to_stop_reason(finish)
             again == IF stop = None THEN None ELSE to_finish_reason(stop)
         IN  OrElse(again, "stop") = IF finish = "length" THEN "length" ELSE "stop"
<1>1. /\ None # "stop" /\ None # "length" /\ None # "content_filter" /\ None # "max_tokens"
      /\ None # "end_turn" /\ None # "stop_sequence"
  BY NoneIsNoWord
<1>2. finish # "max_tokens"
  BY <1>1 DEF OpenAiReason
<1>3. CASE finish \in {"stop", "length", "content_filter"}
  BY <1>1, <1>3 DEF to_stop_reason, to_finish_reason, OrElse
<1>4. CASE finish \notin {"stop", "length", "content_filter"}
  <2>1. to_stop_reason(finish) = finish
    BY <1>4 DEF to_stop_reason
  <2> QED
    BY <1>1, <1>2, <1>4, <2>1 DEF to_finish_reason, OrElse
<1> QED
  BY <1>3, <1>4

\* A gateway that reads what this one sent bills and relays the same.
THEOREM ChainAgrees == RelaySpec => []ChainedGatewayAgrees
<1>1. RelayInv => ChainedGatewayAgrees
  <2> SUFFICES ASSUME RelayInv, outcome = "answered", protocol = "anthropic"
               PROVE  LET here  == Chunks(normal.events)
                          again == normalize_anthropic_chat_sse(relayed)
                          there == Chunks(again.events)
                      IN  /\ again.events = Append(there, Done)
                          /\ Given(Field(there, "text")) = Given(Field(here, "text"))
                          /\ again.usage = OrElse(billed, NoUsage)
                          /\ FinishReason(there) = IF FinishReason(here) = "length" THEN "length" ELSE "stop"
    BY DEF ChainedGatewayAgrees
  <2> DEFINE here == Chunks(normal.events)
             texts == Given(Field(here, "text"))
             finish == FinishReason(here)
             counts == OrElse(billed, NoUsage)
             stop == to_stop_reason(finish)
             again == normalize_anthropic_chat_sse(relayed)
             why == IF stop = None THEN None ELSE to_finish_reason(stop)
  <2>1. counts \in Usage /\ \E id \in ChunkIds : relayed = MessageEvents(id, counts, texts, stop)
    BY MessageSent
  <2>2. texts \in Seq(Text) /\ finish \in OpenAiReason \cup {"stop", "length"} \cup {None}
    BY RelayedChunks DEF RelayInv
  <2>3. OrElse(why, "stop") = IF finish = "length" THEN "length" ELSE "stop"
    <3> HIDE DEF finish
    <3> QED
      BY <2>2, ReasonsAlike
  <2>4. why \in {None, "stop", "length"}
    BY DEF to_finish_reason
  <2> HIDE DEF here, texts, finish, counts, stop, why
  <2>5. PICK id \in ChunkIds : relayed = MessageEvents(id, counts, texts, stop)
    BY <2>1
  <2>6. again.usage = counts
    BY <2>1, <2>2, <2>5, MessageReadBack
  <2>7. \E of \in ChunkIds : again.events = Append(AnswerChunks(of, texts, why, counts), Done)
    BY <2>1, <2>2, <2>5, MessageReadBack DEF why
  <2>8. PICK of \in ChunkIds : again.events = Append(AnswerChunks(of, texts, why, counts), Done)
    BY <2>7
  <2> DEFINE there == AnswerChunks(of, texts, why, counts)
  <2>9. counts \in Usage \cup {None}
    BY <2>1
  <2>10. Chunks(Append(there, Done)) = there
    BY <2>2, <2>4, <2>9, AnswerSays
  <2>11. Given(Field(there, "text")) = texts
    BY <2>2, <2>4, <2>9, AnswerSays
  <2>12. Given(Field(there, "finish")) = <<OrElse(why, "stop")>>
    BY <2>2, <2>4, <2>9, AnswerSays
  <2> HIDE DEF there, again
  <2>13. FinishReason(there) = OrElse(why, "stop")
    BY <2>12 DEF FinishReason, FirstOf
  <2>14. again.events = Append(there, Done) /\ Chunks(again.events) = there
    BY <2>8, <2>10 DEF there
  <2> QED
    BY <2>3, <2>6, <2>11, <2>13, <2>14 DEF here, texts, finish, counts, again
<1> QED
  BY <1>1, RelayInvHolds, PTL

\* What a client of the OpenAI API reads of an Anthropic upstream's answer.
LEMMA TranslatedArrives ==
  ASSUME NEW b, NEW n, AnthropicSide(b, n), Ended(b)
  PROVE  LET spoken == UpToEnd(b)
             heard  == Chunks(UpToEnd(n.events))
             counts == UsageRead("anthropic", spoken)
         IN  /\ Ended(n.events)
             /\ spoken = b => UpToEnd(n.events) = n.events
             /\ Chunks(spoken) = spoken
             /\ counts \in Usage \cup {None}
             /\ Given(Field(heard, "text")) = Given(Field(spoken, "text"))
             /\ Given(Field(heard, "finish")) = <<OrElse(ReasonRead(spoken), "stop")>>
             /\ Given(Field(heard, "usage")) = IF counts = None THEN <<>> ELSE <<counts>>
<1> DEFINE F == NormalChunk \cup {Done}
           spoken == UpToEnd(b)
           counts == UsageRead("anthropic", spoken)
<1>1. /\ b \in Seq(AnthropicFrame)
      /\ \E id \in ChunkIds, rest \in Seq(F) :
           /\ n.events = Translated(id, spoken) \o rest
           /\ spoken = b => rest = <<>>
  BY DEF AnthropicSide
<1>2. spoken \in Seq(AnthropicFrame)
  BY <1>1, UpToEndType
<1>3. Chunks(spoken) = spoken
  <2>1. Done \notin AnthropicFrame
    BY AnthropicFields
  <2> HIDE DEF spoken
  <2> QED
    BY <1>2, <2>1, WithoutNothing DEF Chunks
<1>4. counts \in Usage \cup {None}
  <2> HIDE DEF spoken
  <2> QED
    BY <1>2, UsageReadType
<1>5. PICK id \in ChunkIds, rest \in Seq(F) : /\ n.events = Translated(id, spoken) \o rest
                                              /\ spoken = b => rest = <<>>
  BY <1>1
<1> DEFINE whole == Translated(id, spoken)
<1>6. /\ whole \in Seq(F) /\ Ended(whole) /\ UpToEnd(whole) = whole
      /\ Given(Field(Chunks(whole), "text")) = Given(Field(spoken, "text"))
      /\ Given(Field(Chunks(whole), "finish")) = <<OrElse(ReasonRead(spoken), "stop")>>
      /\ Given(Field(Chunks(whole), "usage")) = IF counts = None THEN <<>> ELSE <<counts>>
  <2> HIDE DEF spoken
  <2> QED
    BY <1>2, TranslatedSays
<1> HIDE DEF F, spoken, counts, whole
<1>7. Ended(whole \o rest) /\ UpToEnd(whole \o rest) = whole
  BY <1>6, UpToEndConcat
<1>8. n.events = whole \o rest
  BY <1>5 DEF whole
<1>9. whole \o <<>> = whole
  BY <1>6, ConcatEmptySeq
<1>10. spoken = b => UpToEnd(n.events) = n.events
  BY <1>5, <1>7, <1>8, <1>9
<1> QED
  BY <1>3, <1>4, <1>6, <1>7, <1>8, <1>10 DEF spoken, counts

\* What a client of the Messages API reads.
LEMMA MessageHeard ==
  ASSUME RelayInv, outcome = "answered", protocol = "anthropic"
  PROVE  LET chunks == Chunks(normal.events)
             stop == to_stop_reason(FinishReason(chunks))
         IN  /\ Ended(relayed)
             /\ Chunks(UpToEnd(relayed)) = relayed
             /\ Given(Field(relayed, "text")) = Given(Field(chunks, "text"))
             /\ Given(Field(relayed, "stop")) = IF stop = None THEN <<>> ELSE <<stop>>
             /\ UsageRead("anthropic", relayed) = OrElse(billed, NoUsage)
<1> DEFINE texts == Given(Field(Chunks(normal.events), "text"))
           counts == OrElse(billed, NoUsage)
           stop == to_stop_reason(FinishReason(Chunks(normal.events)))
<1>1. counts \in Usage /\ \E id \in ChunkIds : relayed = MessageEvents(id, counts, texts, stop)
  BY MessageSent
<1>2. texts \in Seq(Text)
  BY RelayedChunks DEF RelayInv
<1> HIDE DEF texts, counts, stop
<1>3. PICK id \in ChunkIds : relayed = MessageEvents(id, counts, texts, stop)
  BY <1>1
<1> DEFINE events == MessageEvents(id, counts, texts, stop)
<1>4. Ended(events) /\ Chunks(UpToEnd(events)) = events
  BY <1>1, <1>2, MessageSays
<1>5. Given(Field(events, "text")) = texts
  BY <1>1, <1>2, MessageSays
<1>6. Given(Field(events, "stop")) = IF stop = None THEN <<>> ELSE <<stop>>
  BY <1>1, <1>2, MessageSays
<1>7. UsageRead("anthropic", events) = counts
  BY <1>1, <1>2, MessageSays
<1> HIDE DEF events
<1>8. relayed = events
  BY <1>3 DEF events
<1> QED
  BY <1>4, <1>5, <1>6, <1>7, <1>8 DEF texts, counts, stop

\* The text and the end mark that arrive.
THEOREM TextArrives == RelaySpec => []TextReachesClient
<1>1. RelayInv => TextReachesClient
  <2> SUFFICES ASSUME RelayInv, outcome = "answered"
               PROVE  /\ protocol = "openai" => Heard.complete = Spoken.complete
                      /\ Spoken.complete /\ (protocol = "openai" \/ EndMark(body) = Len(body))
                           => Heard.text = Spoken.text
    BY DEF TextReachesClient
  <2>1. /\ provider \in Api /\ protocol \in Api /\ normal \in NormalState
        /\ provider = "openai" => OpenAiSide(body, normal)
        /\ provider = "anthropic" => AnthropicSide(body, normal)
        /\ protocol = "openai" => relayed = normal.events
    BY DEF RelayInv, AnswerIs
  <2>2. /\ Heard.complete = Ended(relayed) /\ Spoken.complete = Ended(body)
        /\ Heard.text = Given(Field(Chunks(UpToEnd(relayed)), "text"))
        /\ Spoken.text = Given(Field(Chunks(UpToEnd(body)), "text"))
    BY DEF Heard, Spoken, Read, Ended
  <2>3. CASE provider = "openai" /\ protocol = "openai"
    BY <2>1, <2>2, <2>3 DEF OpenAiSide
  <2>4. CASE provider = "anthropic" /\ protocol = "openai"
    <3>1. CASE ~Ended(body)
      <4>1. relayed = <<>>
        BY <2>1, <2>4, <3>1 DEF AnthropicSide
      <4>2. ~Ended(relayed)
        BY <4>1 DEF Ended
      <4>3. Ended(relayed) = FALSE /\ Ended(body) = FALSE
        BY <3>1, <4>2 DEF Ended
      <4> QED
        BY <2>2, <2>4, <4>3
    <3>2. CASE Ended(body)
      <4>1. AnthropicSide(body, normal) /\ relayed = normal.events
        BY <2>1, <2>4
      <4>2. /\ Ended(normal.events)
            /\ Chunks(UpToEnd(body)) = UpToEnd(body)
            /\ Given(Field(Chunks(UpToEnd(normal.events)), "text")) =
                  Given(Field(UpToEnd(body), "text"))
        BY <3>2, <4>1, TranslatedArrives
      <4> QED
        BY <2>2, <3>2, <4>1, <4>2
    <3> QED
      BY <3>1, <3>2
  <2>5. CASE protocol = "anthropic"
    <3> SUFFICES ASSUME Ended(body), EndMark(body) = Len(body)
                 PROVE  Heard.text = Spoken.text
      <4>1. protocol # "openai"
        BY <2>5
      <4> HIDE DEF Heard, Spoken, Ended
      <4> QED
        BY <2>2, <4>1
    <3>1. Heard.text = Given(Field(Chunks(normal.events), "text"))
      <4>1. /\ Chunks(UpToEnd(relayed)) = relayed
            /\ Given(Field(relayed, "text")) = Given(Field(Chunks(normal.events), "text"))
        BY <2>5, MessageHeard
      <4> QED
        BY <2>2, <4>1
    <3>2. UpToEnd(body) = body
      BY UpToEndLast DEF RelayInv
    <3>3. Spoken.text = Given(Field(Chunks(body), "text"))
      BY <2>2, <3>2
    <3>4. CASE provider = "openai"
      BY <2>1, <3>1, <3>3, <3>4 DEF OpenAiSide
    <3>5. CASE provider = "anthropic"
      <4>1. AnthropicSide(body, normal)
        BY <2>1, <3>5
      <4>2. /\ UpToEnd(normal.events) = normal.events
            /\ Chunks(body) = body
            /\ Given(Field(Chunks(UpToEnd(normal.events)), "text")) =
                  Given(Field(UpToEnd(body), "text"))
        BY <3>2, <4>1, TranslatedArrives
      <4> QED
        BY <3>1, <3>2, <3>3, <4>2
    <3> QED
      BY <2>1, <3>4, <3>5 DEF Api
  <2> QED
    BY <2>1, <2>3, <2>4, <2>5 DEF Api
<1> QED
  BY <1>1, RelayInvHolds, PTL

\* What a reader understands of the reason in a field.
Understood(why) ==
  CASE why \in {"stop", "end_turn"}     -> "end of turn"
    [] why \in {"length", "max_tokens"} -> "limit"
    [] OTHER                            -> None

\* The reasons a client understands keep their meaning through both translations.
LEMMA ReasonsUnderstood ==
  /\ \A why \in AnthropicReason \cup OpenAiReason :
       Understood(why) # None => why \in {"stop", "end_turn", "length", "max_tokens"}
  /\ \A why \in AnthropicReason :
       Understood(why) # None /\ why # None =>
         /\ Understood(OrElse(to_finish_reason(why), "stop")) = Understood(why)
         /\ Understood(to_stop_reason(OrElse(to_finish_reason(why), "stop"))) = Understood(why)
         /\ to_stop_reason(OrElse(to_finish_reason(why), "stop")) # None
  /\ \A why \in OpenAiReason :
       Understood(why) # None =>
         /\ Understood(to_stop_reason(why)) = Understood(why)
         /\ to_stop_reason(why) # None
<1>1. /\ None # "stop" /\ None # "length" /\ None # "content_filter" /\ None # "max_tokens"
      /\ None # "end_turn" /\ None # "stop_sequence"
  BY NoneIsNoWord
<1>2. ASSUME NEW why, Understood(why) # None PROVE why \in {"stop", "end_turn", "length", "max_tokens"}
  BY <1>2 DEF Understood
<1>3. ASSUME NEW why \in AnthropicReason, why \in {"stop", "end_turn", "length", "max_tokens"}
      PROVE  /\ Understood(OrElse(to_finish_reason(why), "stop")) = Understood(why)
             /\ Understood(to_stop_reason(OrElse(to_finish_reason(why), "stop"))) = Understood(why)
             /\ to_stop_reason(OrElse(to_finish_reason(why), "stop")) # None
  <2>1. CASE why = "max_tokens"
    <3>1. OrElse(to_finish_reason(why), "stop") = "length"
      BY <1>1, <2>1 DEF OrElse, to_finish_reason
    <3>2. to_stop_reason("length") = "max_tokens"
      BY DEF to_stop_reason
    <3> QED
      BY <1>1, <2>1, <3>1, <3>2 DEF Understood
  <2>2. CASE why \in {"stop", "end_turn"}
    <3>1. OrElse(to_finish_reason(why), "stop") = "stop"
      BY <1>1, <2>2 DEF OrElse, to_finish_reason
    <3>2. to_stop_reason("stop") = "end_turn"
      BY DEF to_stop_reason
    <3> QED
      BY <1>1, <2>2, <3>1, <3>2 DEF Understood
  <2>3. why # "length"
    BY DEF AnthropicReason
  <2> QED
    BY <1>3, <2>1, <2>2, <2>3
<1>4. ASSUME NEW why, why \in {"stop", "end_turn", "length", "max_tokens"}
      PROVE  Understood(to_stop_reason(why)) = Understood(why) /\ to_stop_reason(why) # None
  BY <1>1, <1>4 DEF Understood, to_stop_reason
<1> QED
  BY <1>2, <1>3, <1>4

\* Counts that are all there are extracted as they are.
LEMMA CountsExtracted ==
  ASSUME NEW counts \in Usage \cup {None}
  PROVE  extract_usage([usage |-> counts]) = counts
<1>1. [usage |-> counts] # Garbage /\ [usage |-> counts].usage = counts
  BY DEF Garbage
<1>2. CASE counts = None
  BY <1>1, <1>2 DEF extract_usage
<1>3. CASE counts # None
  <2>1. /\ counts.input \in Nat /\ counts.output \in Nat
        /\ counts = [input |-> counts.input, output |-> counts.output]
    BY <1>3 DEF Usage
  <2>2. counts.input # None /\ counts.output # None
    BY <2>1, NoneAssumption
  <2> QED
    BY <1>1, <1>3, <2>1, <2>2 DEF extract_usage, OrElse
<1> QED
  BY <1>2, <1>3

\* The only member is the first and the last.
LEMMA OnlyOne ==
  ASSUME NEW T, NEW seq \in Seq(T), Len(seq) = 1
  PROVE  LastOf(seq) = FirstOf(seq) /\ LastOf(seq) \in T
<1>1. seq # <<>> /\ seq[1] \in T
  OBVIOUS
<1> QED
  BY <1>1 DEF LastOf, FirstOf, Last

\* A proper body is read whole.
LEMMA ProperIsWhole ==
  ASSUME RelayInv, Proper
  PROVE  UpToEnd(body) = body /\ Ended(body)
<1>1. body \in Seq(Frames) /\ body # <<>> /\ EndMark(body) = Len(body)
  BY DEF RelayInv, Proper
<1>2. UpToEnd(body) = body
  BY <1>1, UpToEndLast
<1>3. Len(body) # 0
  BY <1>1
<1>4. Ended(body)
  BY <1>1, <1>3, EndMarkIsFirst
<1> QED
  BY <1>2, <1>4

\* Of a proper body, what either side is read as.
LEMMA ProperReads ==
  ASSUME RelayInv, outcome = "answered", Proper
  PROVE  /\ Spoken.why = Understood(LastOf(Given(Field(Chunks(body), Why(provider)))))
         /\ Spoken.usage = UsageRead(provider, Chunks(body))
         /\ Heard.why = Understood(LastOf(Given(Field(Chunks(UpToEnd(relayed)), Why(protocol)))))
         /\ Heard.usage = UsageRead(protocol, Chunks(UpToEnd(relayed)))
BY ProperIsWhole DEF Spoken, Heard, Read, Understood

\* The reason is the one the upstream gave.
THEOREM FinishArrives == RelaySpec => []FinishReachesClient
<1>1. RelayInv => FinishReachesClient
  <2> SUFFICES ASSUME RelayInv, outcome = "answered", Proper, Spoken.why # None
               PROVE  Heard.why = Spoken.why
    BY DEF FinishReachesClient
  <2> DEFINE given == Given(Field(Chunks(body), Why(provider)))
             why == LastOf(given)
             chunks == Chunks(normal.events)
             finish == FinishReason(chunks)
             stop == to_stop_reason(finish)
  <2>1. /\ provider \in Api /\ protocol \in Api /\ normal \in NormalState
        /\ provider = "openai" => OpenAiSide(body, normal)
        /\ provider = "anthropic" => AnthropicSide(body, normal)
        /\ protocol = "openai" => relayed = normal.events
    BY DEF RelayInv, AnswerIs
  <2>2. /\ Spoken.why = Understood(why)
        /\ Heard.why = Understood(LastOf(Given(Field(Chunks(UpToEnd(relayed)), Why(protocol)))))
    BY ProperReads
  <2>3. UpToEnd(body) = body /\ Ended(body) /\ Len(given) = 1
    BY ProperIsWhole DEF Proper
  <2>4. ASSUME provider = "openai"
        PROVE  why = finish /\ why \in OpenAiReason
    <3>1. body \in Seq(OpenAiFrame \cup {Done}) /\ normal.events = body
      BY <2>1, <2>4 DEF OpenAiSide
    <3>2. Chunks(body) \in Seq(OpenAiFrame)
      <4> DEFINE F == OpenAiFrame \cup {Done}
      <4>1. Without(body, Done) \in Seq(F \ {Done})
        BY <3>1, WithoutType
      <4>2. F \ {Done} \subseteq OpenAiFrame
        OBVIOUS
      <4> HIDE DEF F
      <4> QED
        BY <4>1, <4>2 DEF Chunks
    <3>3. given = Given(Field(Chunks(body), "finish"))
      BY <2>4 DEF Why
    <3>4. \A c \in OpenAiFrame : c["finish"] \in OpenAiReason \cup {None}
      BY OpenAiFields
    <3>5. given \in Seq(OpenAiReason)
      BY <3>2, <3>3, <3>4, GivenType
    <3>6. finish = FirstOf(given)
      BY <3>1, <3>3 DEF FinishReason
    <3> HIDE DEF given, finish
    <3> QED
      BY <2>3, <3>5, <3>6, OnlyOne
  <2>5. ASSUME provider = "anthropic"
        PROVE  /\ why \in AnthropicReason /\ why # None
               /\ ReasonRead(body) = to_finish_reason(why)
               /\ UpToEnd(normal.events) = normal.events
               /\ Given(Field(chunks, "finish")) = <<OrElse(to_finish_reason(why), "stop")>>
    <3>1. AnthropicSide(body, normal) /\ body \in Seq(AnthropicFrame)
      BY <2>1, <2>5 DEF AnthropicSide
    <3>2. /\ UpToEnd(normal.events) = normal.events /\ Chunks(body) = body
          /\ Given(Field(chunks, "finish")) = <<OrElse(ReasonRead(body), "stop")>>
      <4>1. UpToEnd(body) = body => UpToEnd(normal.events) = normal.events
        BY <2>3, <3>1, TranslatedArrives
      <4>2. Chunks(UpToEnd(body)) = UpToEnd(body)
        BY <2>3, <3>1, TranslatedArrives
      <4>3. Given(Field(Chunks(UpToEnd(normal.events)), "finish")) =
              <<OrElse(ReasonRead(UpToEnd(body)), "stop")>>
        BY <2>3, <3>1, TranslatedArrives
      <4> QED
        BY <2>3, <4>1, <4>2, <4>3
    <3>3. given = Given(Field(body, "stop"))
      BY <2>5, <3>2 DEF Why
    <3>4. given \in Seq(AnthropicReason)
      <4>1. \A e \in AnthropicFrame : e["stop"] \in AnthropicReason \cup {None}
        BY AnthropicFields
      <4> QED
        BY <3>1, <3>3, <4>1, GivenType
    <3>5. given \in Seq(AnthropicReason \ {None})
      <4> DEFINE values == Field(body, "stop")
      <4>1. values \in Seq({e["stop"] : e \in AnthropicFrame})
        BY <3>1 DEF Field
      <4> DEFINE V == {e["stop"] : e \in AnthropicFrame}
      <4>2. V \ {None} \subseteq AnthropicReason \ {None}
        BY AnthropicFields
      <4> HIDE DEF V, values
      <4>3. values \in Seq(V)
        BY <4>1 DEF V
      <4>4. Without(values, None) \in Seq(V \ {None})
        BY <4>3, WithoutType
      <4>5. Without(values, None) \in Seq(AnthropicReason \ {None})
        BY <4>2, <4>4
      <4> QED
        BY <3>3, <4>5 DEF Given, values
    <3> HIDE DEF given
    <3>6. why \in AnthropicReason \ {None}
      BY <2>3, <3>5, OnlyOne
    <3>7. ReasonRead(body) = to_finish_reason(why)
      BY <3>3, <3>6 DEF ReasonRead
    <3> QED
      BY <3>2, <3>6, <3>7
  <2>6. \A x : LastOf(<<x>>) = x /\ FirstOf(<<x>>) = x
    BY DEF LastOf, FirstOf, Last
  <2>7. Understood(why) # None
    BY <2>2
  <2>8. CASE provider = "openai" /\ protocol = "openai"
    <3>1. relayed = body
      BY <2>1, <2>8 DEF OpenAiSide
    <3> QED
      BY <2>2, <2>3, <2>8, <3>1
  <2>9. CASE provider = "anthropic" /\ protocol = "openai"
    <3>1. relayed = normal.events /\ Why(protocol) = "finish"
      BY <2>1, <2>9 DEF Why
    <3>2. Heard.why = Understood(OrElse(to_finish_reason(why), "stop"))
      BY <2>2, <2>5, <2>6, <2>9, <3>1
    <3> HIDE DEF why
    <3> QED
      BY <2>2, <2>5, <2>7, <2>9, <3>2, ReasonsUnderstood
  <2>10. CASE protocol = "anthropic"
    <3>1. /\ Chunks(UpToEnd(relayed)) = relayed
          /\ Given(Field(relayed, "stop")) = IF stop = None THEN <<>> ELSE <<stop>>
      BY <2>10, MessageHeard
    <3>2. Why(protocol) = "stop"
      BY <2>10 DEF Why
    <3>3. stop # None => Heard.why = Understood(stop)
      BY <2>2, <2>6, <3>1, <3>2
    <3>4. CASE provider = "openai"
      <4> HIDE DEF why, finish
      <4> QED
        BY <2>2, <2>4, <2>7, <3>3, <3>4, ReasonsUnderstood
    <3>5. CASE provider = "anthropic"
      <4>1. finish = OrElse(to_finish_reason(why), "stop")
        BY <2>5, <2>6, <3>5 DEF FinishReason
      <4> HIDE DEF why, finish
      <4> QED
        BY <2>2, <2>5, <2>7, <3>3, <3>5, <4>1, ReasonsUnderstood
    <3> QED
      BY <2>1, <3>4, <3>5 DEF Api
  <2> QED
    BY <2>1, <2>8, <2>9, <2>10 DEF Api
<1> QED
  BY <1>1, RelayInvHolds, PTL

\* What is billed is what the upstream said and what the client is told.
THEOREM BilledAsTold == RelaySpec => []BilledIsTold
<1>1. RelayInv => BilledIsTold
  <2> SUFFICES ASSUME RelayInv, outcome = "answered", Proper
               PROVE  /\ billed = Spoken.usage
                      /\ Heard.usage = IF protocol = "openai" THEN billed ELSE OrElse(billed, NoUsage)
    BY DEF BilledIsTold
  <2>1. /\ provider \in Api /\ protocol \in Api /\ normal \in NormalState /\ billed = normal.usage
        /\ provider = "openai" => OpenAiSide(body, normal)
        /\ provider = "anthropic" => AnthropicSide(body, normal)
        /\ protocol = "openai" => relayed = normal.events
    BY DEF RelayInv, AnswerIs
  <2>2. /\ Spoken.usage = UsageRead(provider, Chunks(body))
        /\ Heard.usage = UsageRead(protocol, Chunks(UpToEnd(relayed)))
    BY ProperReads
  <2>3. UpToEnd(body) = body /\ Ended(body)
    BY ProperIsWhole
  <2>4. CASE provider = "openai"
    <3>1. /\ normal.events = body
          /\ Len(Given(Field(Chunks(body), "usage"))) <= 1 =>
               normal.usage = UsageRead("openai", Chunks(body))
      BY <2>1, <2>4 DEF OpenAiSide
    <3>2. Len(Given(Field(Chunks(body), "usage"))) <= 1
      BY <2>4 DEF Proper
    <3>3. billed = Spoken.usage
      BY <2>1, <2>2, <2>4, <3>1, <3>2
    <3>4. CASE protocol = "openai"
      BY <2>1, <2>2, <2>3, <2>4, <3>1, <3>3, <3>4
    <3>5. CASE protocol = "anthropic"
      <4>1. Chunks(UpToEnd(relayed)) = relayed /\ UsageRead("anthropic", relayed) = OrElse(billed, NoUsage)
        BY <3>5, MessageHeard
      <4> QED
        BY <2>2, <3>3, <3>5, <4>1
    <3> QED
      BY <2>1, <3>4, <3>5 DEF Api
  <2>5. CASE provider = "anthropic"
    <3>1. AnthropicSide(body, normal) /\ normal.usage = UsageRead("anthropic", body)
      BY <2>1, <2>5 DEF AnthropicSide
    <3> DEFINE counts == UsageRead("anthropic", body)
               heard == Chunks(UpToEnd(normal.events))
    <3>2. /\ Chunks(body) = body
          /\ counts \in Usage \cup {None}
          /\ Given(Field(heard, "usage")) = IF counts = None THEN <<>> ELSE <<counts>>
      BY <2>3, <3>1, TranslatedArrives
    <3>3. billed = Spoken.usage
      BY <2>1, <2>2, <2>5, <3>1, <3>2
    <3>4. CASE protocol = "openai"
      <4>1. Heard.usage = UsageRead("openai", heard)
        BY <2>1, <2>2, <3>4
      <4> HIDE DEF heard, counts
      <4>2. LastOf(Given(Field(heard, "usage"))) = counts
        BY <3>2 DEF LastOf, Last
      <4>3. UsageRead("openai", heard) = extract_usage([usage |-> counts])
        BY <4>2 DEF UsageRead
      <4>4. extract_usage([usage |-> counts]) = counts
        BY <3>2, CountsExtracted
      <4> QED
        BY <2>1, <3>1, <3>3, <3>4, <4>1, <4>3, <4>4 DEF counts
    <3>5. CASE protocol = "anthropic"
      <4>1. Chunks(UpToEnd(relayed)) = relayed /\ UsageRead("anthropic", relayed) = OrElse(billed, NoUsage)
        BY <3>5, MessageHeard
      <4> QED
        BY <2>2, <3>3, <3>5, <4>1
    <3> QED
      BY <2>1, <3>4, <3>5 DEF Api
  <2> QED
    BY <2>1, <2>4, <2>5 DEF Api
<1> QED
  BY <1>1, RelayInvHolds, PTL
=============================================================================
