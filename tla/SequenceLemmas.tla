--------------------------- MODULE SequenceLemmas ---------------------------
(***************************************************************************)
(* Induction on natural numbers and sequences over a set; what FoldLeft    *)
(* returns for an operator Op, which a module that INSTANCEs this one      *)
(* substitutes; and lemmas on sequences of any kind. FoldLeft and          *)
(* FlattenSeq are written out, so that each instance brings in little.     *)
(***************************************************************************)
EXTENDS Sequences, WellFoundedInduction, TLAPS

CONSTANTS Op(_, _), A, B

Greatest(T) == CHOOSE x \in T : \A y \in T : x >= y

\* What is folded, elements of T into elements of S; as a rule, of B into A.
ClosedOn(S, T) == \A a \in S, b \in T : Op(a, b) \in S
Closed == ClosedOn(A, B)
Fold(base, s) ==
    LET iter[t \in SUBSET DOMAIN s] ==
            IF t = {} THEN base ELSE Op(iter[t \ {Greatest(t)}], s[Greatest(t)])
    IN  iter[DOMAIN s]

\* Induction without an operator parameter: a set with 0 and the successor of
\* each of its numbers contains them all.
LEMMA SetInduction ==
    ASSUME NEW S, 0 \in S, \A n \in Nat : n \in S => n + 1 \in S
    PROVE  Nat \subseteq S
  <1> DEFINE T == Nat \ S
  <1> SUFFICES ASSUME T # {}
               PROVE  FALSE
    OBVIOUS
  <1>1. PICK x \in T : \A y \in T : ~(<<y, x>> \in OpToRel(<, Nat))
    <2>1. T \subseteq Nat
      OBVIOUS
    <2> HIDE DEF T
    <2> QED
      BY Zenon, <2>1, NatLessThanWellFounded, WFMin
  <1>2. \A y \in T : ~(y < x)
    <2> SUFFICES ASSUME NEW y \in T, y < x
                 PROVE  <<y, x>> \in OpToRel(<, Nat)
      BY Zenon, <1>1
    <2>1. <<y, x>> \in Nat \X Nat /\ <<y, x>>[1] = y /\ <<y, x>>[2] = x
      OBVIOUS
    <2> QED
      BY Zenon, <2>1 DEF OpToRel
  <1>3. x - 1 \in Nat /\ x - 1 < x /\ (x - 1) + 1 = x
    OBVIOUS
  <1> QED
    BY <1>2, <1>3

LEMMA GreatestIs ==
    ASSUME NEW T \in SUBSET Int, NEW m \in T, \A y \in T : m >= y
    PROVE  Greatest(T) = m
  <1>1. Greatest(T) \in T /\ \A y \in T : Greatest(T) >= y
    BY DEF Greatest
  <1>2. Greatest(T) \in Int /\ m \in Int
    BY <1>1
  <1>3. Greatest(T) >= m /\ m >= Greatest(T)
    BY <1>1
  <1> QED
    BY <1>2, <1>3

-----------------------------------------------------------------------------
(* The fold of a sequence is the last value of a run through it *)

Iterates(f, base, s, k) ==
    \A t \in SUBSET (1 .. k) :
        f[t] = IF t = {} THEN base ELSE Op(f[t \ {Greatest(t)}], s[Greatest(t)])

Run(r, base, s) ==
    /\ r[0] = base
    /\ \A k \in 1 .. Len(s) : r[k] = Op(r[k - 1], s[k])

IsRun(V, base, s) ==
    \E r \in [0 .. Len(s) -> V] : Run(r, base, s) /\ Fold(base, s) = r[Len(s)]

LEMMA IterationExists ==
    ASSUME NEW V, NEW W, ClosedOn(V, W), NEW base \in V, NEW s \in Seq(W)
    PROVE  \A k \in Nat : k <= Len(s) =>
               \E f \in [SUBSET (1 .. k) -> V] : Iterates(f, base, s, k)
  <1> DEFINE Has(k) == k <= Len(s) => \E f \in [SUBSET (1 .. k) -> V] : Iterates(f, base, s, k)
             S == {k \in Nat : Has(k)}
  <1>1. Has(0)
    <2>1. SUBSET (1 .. 0) = {{}}
      OBVIOUS
    <2> DEFINE f == [t \in SUBSET (1 .. 0) |-> base]
    <2>2. f \in [SUBSET (1 .. 0) -> V] /\ Iterates(f, base, s, 0)
      BY <2>1 DEF Iterates
    <2> QED
      BY <2>2
  <1>2. ASSUME NEW k \in Nat, Has(k)
        PROVE  Has(k + 1)
    <2> SUFFICES ASSUME k + 1 <= Len(s)
                 PROVE  \E f \in [SUBSET (1 .. k + 1) -> V] : Iterates(f, base, s, k + 1)
      OBVIOUS
    <2>1. PICK f \in [SUBSET (1 .. k) -> V] : Iterates(f, base, s, k)
      <3>1. k <= Len(s)
        OBVIOUS
      <3> QED
        BY Zenon, <1>2, <3>1
    <2>2. s[k + 1] \in W
      OBVIOUS
    <2> DEFINE g == [t \in SUBSET (1 .. k + 1) |->
                        IF k + 1 \in t THEN Op(f[t \ {k + 1}], s[k + 1]) ELSE f[t]]
    <2>3. \A t \in SUBSET (1 .. k + 1) : t \ {k + 1} \in SUBSET (1 .. k)
      OBVIOUS
    <2>4. \A t \in SUBSET (1 .. k + 1) : k + 1 \notin t => t \in SUBSET (1 .. k)
      OBVIOUS
    <2>5. g \in [SUBSET (1 .. k + 1) -> V]
      BY <2>2, <2>3, <2>4 DEF ClosedOn
    <2>6. \A t \in SUBSET (1 .. k) : t \in SUBSET (1 .. k + 1) /\ g[t] = f[t]
      OBVIOUS
    <2>7. ASSUME NEW t \in SUBSET (1 .. k + 1)
          PROVE  g[t] = IF t = {} THEN base ELSE Op(g[t \ {Greatest(t)}], s[Greatest(t)])
      <3>1. CASE k + 1 \in t
        <4>1. Greatest(t) = k + 1
          <5>1. t \in SUBSET Int /\ \A y \in t : k + 1 >= y
            OBVIOUS
          <5> QED
            BY <3>1, <5>1, GreatestIs
        <4>2. g[t] = Op(f[t \ {k + 1}], s[k + 1])
          BY <3>1
        <4>3. g[t \ {k + 1}] = f[t \ {k + 1}]
          BY <2>3, <2>6
        <4> HIDE DEF g
        <4> QED
          BY <3>1, <4>1, <4>2, <4>3
      <3>2. CASE k + 1 \notin t
        <4>1. t \in SUBSET (1 .. k) /\ t \ {Greatest(t)} \in SUBSET (1 .. k)
          BY <2>4, <3>2
        <4>2. g[t] = f[t] /\ g[t \ {Greatest(t)}] = f[t \ {Greatest(t)}]
          BY <2>6, <4>1
        <4> HIDE DEF g
        <4> QED
          BY <2>1, <4>1, <4>2 DEF Iterates
      <3> QED
        BY <3>1, <3>2
    <2>8. Iterates(g, base, s, k + 1)
      <3> HIDE DEF g
      <3> QED
        BY <2>7 DEF Iterates
    <2> HIDE DEF g
    <2> QED
      BY <2>5, <2>8
  <1>3. Nat \subseteq S
    <2> HIDE DEF Has
    <2>1. 0 \in S /\ \A n \in Nat : n \in S => n + 1 \in S
      BY <1>1, <1>2
    <2> HIDE DEF S
    <2> QED
      BY <2>1, SetInduction
  <1>4. \A k \in Nat : Has(k)
    <2> HIDE DEF Has
    <2> QED
      BY <1>3
  <1> QED
    BY Zenon, <1>4

LEMMA FoldIsRun ==
    ASSUME NEW V, NEW W, ClosedOn(V, W), NEW base \in V, NEW s \in Seq(W)
    PROVE  IsRun(V, base, s)
  <1> DEFINE Step(f) == [t \in SUBSET (DOMAIN s) |->
                            IF t = {} THEN base ELSE Op(f[t \ {Greatest(t)}], s[Greatest(t)])]
             iter == CHOOSE f : f = Step(f)
  <1>1. Fold(base, s) = iter[DOMAIN s]
    BY Zenon DEF Fold
  <1>2. DOMAIN s = 1 .. Len(s) /\ Len(s) \in Nat
    OBVIOUS
  <1>3. \E f : f = Step(f)
    <2>1. PICK f \in [SUBSET (1 .. Len(s)) -> V] : Iterates(f, base, s, Len(s))
      <3>1. Len(s) <= Len(s)
        BY <1>2
      <3> QED
        BY Zenon, <1>2, <3>1, IterationExists
    <2>2. f = Step(f)
      BY <1>2, <2>1 DEF Iterates
    <2> QED
      BY <2>2
  <1>4. iter = Step(iter)
    BY <1>3
  <1>5. \A t \in SUBSET (1 .. Len(s)) :
           iter[t] = IF t = {} THEN base ELSE Op(iter[t \ {Greatest(t)}], s[Greatest(t)])
    BY <1>2, <1>4
  <1> HIDE DEF iter
  <1>6. iter[1 .. 0] = base
    <2>1. 1 .. 0 = {} /\ {} \in SUBSET (1 .. Len(s))
      OBVIOUS
    <2> QED
      BY Zenon, <1>5, <2>1
  <1>7. ASSUME NEW k \in 1 .. Len(s)
        PROVE  iter[1 .. k] = Op(iter[1 .. k - 1], s[k])
    <2>1. k \in Nat /\ k \in 1 .. k /\ k <= Len(s)
      BY <1>2
    <2>2. PICK t : t = 1 .. k
      OBVIOUS
    <2>3. t \ {k} = 1 .. k - 1
      BY <2>1, <2>2
    <2>4. t \in SUBSET (1 .. Len(s)) /\ t # {}
      <3>1. \A y \in t : y \in 1 .. Len(s)
        BY <1>2, <2>1, <2>2
      <3>2. k \in t
        BY <2>1, <2>2
      <3> QED
        BY <3>1, <3>2
    <2>5. Greatest(t) = k
      <3>1. t \in SUBSET Int /\ k \in t /\ \A y \in t : k >= y
        BY <2>1, <2>2
      <3> QED
        BY <3>1, GreatestIs
    <2> QED
      BY <1>5, <2>2, <2>3, <2>4, <2>5
  <1>8. \A k \in Nat : k <= Len(s) => iter[1 .. k] \in V
    <2> DEFINE S == {k \in Nat : k <= Len(s) => iter[1 .. k] \in V}
    <2>1. 0 \in S
      BY <1>6
    <2>2. ASSUME NEW k \in Nat, k \in S
          PROVE  k + 1 \in S
      <3> SUFFICES ASSUME k + 1 <= Len(s)
                   PROVE  iter[1 .. k + 1] \in V
        OBVIOUS
      <3>1. k + 1 \in 1 .. Len(s) /\ (k + 1) - 1 = k /\ s[k + 1] \in W
        BY <1>2
      <3> QED
        BY <1>2, <1>7, <2>2, <3>1 DEF ClosedOn
    <2>3. Nat \subseteq S
      <3> HIDE DEF S
      <3> QED
        BY <2>1, <2>2, SetInduction
    <2> QED
      BY <2>3
  <1> DEFINE r == [k \in 0 .. Len(s) |-> iter[1 .. k]]
  <1>9. r \in [0 .. Len(s) -> V]
    BY <1>2, <1>8
  <1>10. Run(r, base, s)
    <2>1. r[0] = base
      BY <1>2, <1>6
    <2>2. \A k \in 1 .. Len(s) : r[k] = Op(r[k - 1], s[k])
      BY <1>2, <1>7
    <2> QED
      BY <2>1, <2>2 DEF Run
  <1>11. Fold(base, s) = r[Len(s)]
    BY <1>1, <1>2
  <1> HIDE DEF r
  <1> QED
    BY <1>9, <1>10, <1>11 DEF IsRun

LEMMA FoldEmpty ==
    ASSUME Closed, NEW base \in A
    PROVE  Fold(base, <<>>) = base
  <1>1. <<>> \in Seq(B) /\ Len(<<>>) = 0
    OBVIOUS
  <1>2. PICK r \in [0 .. Len(<<>>) -> A] :
           Run(r, base, <<>>) /\ Fold(base, <<>>) = r[Len(<<>>)]
    <2>1. IsRun(A, base, <<>>)
      BY Zenon, <1>1, FoldIsRun DEF Closed
    <2> QED
      BY Zenon, <2>1 DEF IsRun
  <1> QED
    BY <1>1, <1>2 DEF Run

\* What Op keeps, the fold keeps.
LEMMA FoldInto ==
    ASSUME NEW V, NEW W, ClosedOn(V, W), NEW base \in V, NEW s \in Seq(W)
    PROVE  Fold(base, s) \in V
  <1>1. PICK r \in [0 .. Len(s) -> V] : Run(r, base, s) /\ Fold(base, s) = r[Len(s)]
    <2>1. IsRun(V, base, s)
      BY Zenon, FoldIsRun
    <2> QED
      BY Zenon, <2>1 DEF IsRun
  <1>2. Len(s) \in 0 .. Len(s)
    OBVIOUS
  <1> QED
    BY <1>1, <1>2

LEMMA FoldType ==
    ASSUME Closed, NEW base \in A, NEW s \in Seq(B)
    PROVE  Fold(base, s) \in A
  BY Zenon, FoldInto DEF Closed

LEMMA FoldAppend ==
    ASSUME Closed, NEW base \in A, NEW s \in Seq(B), NEW x \in B
    PROVE  Fold(base, Append(s, x)) = Op(Fold(base, s), x)
  <1>1. PICK n \in Nat : n = Len(s)
    OBVIOUS
  <1>2. PICK sx : sx = Append(s, x)
    OBVIOUS
  <1>3. /\ sx \in Seq(B) /\ Len(sx) = n + 1 /\ sx[n + 1] = x
        /\ \A k \in 1 .. n : sx[k] = s[k]
    BY <1>1, <1>2
  <1>4. PICK rs : Run(rs, base, s) /\ Fold(base, s) = rs[Len(s)]
    <2>1. IsRun(A, base, s)
      BY Zenon, FoldIsRun DEF Closed
    <2> QED
      BY Zenon, <2>1 DEF IsRun
  <1>5. PICK r : Run(r, base, sx) /\ Fold(base, sx) = r[Len(sx)]
    <2>1. IsRun(A, base, sx)
      BY Zenon, <1>3, FoldIsRun DEF Closed
    <2> QED
      BY Zenon, <2>1 DEF IsRun
  <1>6. \A k \in 0 .. n : r[k] = rs[k]
    <2> DEFINE S == {k \in Nat : k <= n => r[k] = rs[k]}
    <2>1. 0 \in S
      BY <1>4, <1>5 DEF Run
    <2>2. ASSUME NEW k \in Nat, k \in S
          PROVE  k + 1 \in S
      <3> SUFFICES ASSUME k + 1 <= n
                   PROVE  r[k + 1] = rs[k + 1]
        OBVIOUS
      <3>1. k + 1 \in 1 .. n /\ k + 1 \in 1 .. n + 1 /\ (k + 1) - 1 = k
        OBVIOUS
      <3>2. r[k] = rs[k]
        BY <2>2
      <3>3. r[k + 1] = Op(r[k], sx[k + 1])
        BY <1>3, <1>5, <3>1 DEF Run
      <3>4. rs[k + 1] = Op(rs[k], s[k + 1])
        BY <1>1, <1>4, <3>1 DEF Run
      <3> QED
        BY <1>3, <3>1, <3>2, <3>3, <3>4
    <2>3. Nat \subseteq S
      <3> HIDE DEF S
      <3> QED
        BY <2>1, <2>2, SetInduction
    <2> QED
      BY <2>3
  <1>7. r[n + 1] = Op(r[n], x)
    <2>1. n + 1 \in 1 .. n + 1 /\ (n + 1) - 1 = n
      OBVIOUS
    <2> QED
      BY <1>3, <1>5, <2>1 DEF Run
  <1>8. r[n] = rs[n]
    BY <1>6
  <1> QED
    BY <1>1, <1>2, <1>3, <1>4, <1>5, <1>7, <1>8

-----------------------------------------------------------------------------
(* Induction over sequences, and what follows for folds *)

\* A set with the empty sequence, and every extension of its members, contains
\* all sequences.
LEMMA SeqInduction ==
    ASSUME NEW T, NEW S, <<>> \in S,
           \A s \in Seq(T), x \in T : s \in S => Append(s, x) \in S
    PROVE  Seq(T) \subseteq S
  <1> DEFINE N == {n \in Nat : \A s \in Seq(T) : Len(s) = n => s \in S}
  <1>1. 0 \in N
    <2>1. \A s \in Seq(T) : Len(s) = 0 => s = <<>>
      OBVIOUS
    <2> QED
      BY <2>1
  <1>2. ASSUME NEW n \in Nat, n \in N
        PROVE  n + 1 \in N
    <2> SUFFICES ASSUME NEW s \in Seq(T), Len(s) = n + 1
                 PROVE  s \in S
      OBVIOUS
    <2>1. PICK u, x : u = SubSeq(s, 1, n) /\ x = s[n + 1]
      OBVIOUS
    <2>2. u \in Seq(T) /\ x \in T /\ Len(u) = n
      BY <2>1
    <2>3. s = Append(u, x)
      BY <2>1
    <2>4. u \in S
      BY <1>2, <2>2
    <2> QED
      BY <2>2, <2>3, <2>4
  <1>3. Nat \subseteq N
    <2> HIDE DEF N
    <2> QED
      BY <1>1, <1>2, SetInduction
  <1> QED
    <2> SUFFICES ASSUME NEW s \in Seq(T)
                 PROVE  s \in S
      OBVIOUS
    <2>1. Len(s) \in N
      BY <1>3
    <2> QED
      BY <2>1

\* What is folded after s is folded from the fold of s.
LEMMA FoldConcat ==
    ASSUME Closed, NEW base \in A, NEW s \in Seq(B), NEW t \in Seq(B)
    PROVE  Fold(base, s \o t) = Fold(Fold(base, s), t)
  <1> DEFINE mid == Fold(base, s)
             S == {u \in Seq(B) : Fold(base, s \o u) = Fold(mid, u)}
  <1>1. mid \in A
    BY Zenon, FoldType
  <1>2. <<>> \in S
    <2>1. s \o <<>> = s /\ <<>> \in Seq(B)
      OBVIOUS
    <2>2. Fold(mid, <<>>) = mid
      <3> HIDE DEF mid
      <3> QED
        BY Zenon, <1>1, FoldEmpty
    <2> QED
      BY <2>1, <2>2
  <1>3. ASSUME NEW u \in Seq(B), NEW x \in B, u \in S
        PROVE  Append(u, x) \in S
    <2>1. s \o Append(u, x) = Append(s \o u, x) /\ s \o u \in Seq(B) /\ Append(u, x) \in Seq(B)
      OBVIOUS
    <2>2. Fold(base, Append(s \o u, x)) = Op(Fold(base, s \o u), x)
      BY Zenon, <2>1, FoldAppend
    <2>3. Fold(mid, Append(u, x)) = Op(Fold(mid, u), x)
      <3> HIDE DEF mid
      <3> QED
        BY Zenon, <1>1, FoldAppend
    <2>4. Fold(base, s \o u) = Fold(mid, u)
      BY <1>3
    <2> HIDE DEF mid
    <2> QED
      BY <2>1, <2>2, <2>3, <2>4
  <1>4. Seq(B) \subseteq S
    <2> HIDE DEF S
    <2> QED
      BY Zenon, <1>2, <1>3, SeqInduction
  <1> QED
    BY <1>4

\* Folds from related values are related, if Op keeps the relation.
LEMMA FoldRelates ==
    ASSUME Closed, NEW R, NEW a \in A, NEW b \in A, <<a, b>> \in R,
           \A c \in A, d \in A, x \in B : <<c, d>> \in R => <<Op(c, x), Op(d, x)>> \in R,
           NEW s \in Seq(B)
    PROVE  <<Fold(a, s), Fold(b, s)>> \in R
  <1> DEFINE S == {u \in Seq(B) : <<Fold(a, u), Fold(b, u)>> \in R}
  <1>1. <<>> \in S
    <2>1. <<>> \in Seq(B) /\ Fold(a, <<>>) = a /\ Fold(b, <<>>) = b
      BY FoldEmpty
    <2> QED
      BY <2>1
  <1>2. ASSUME NEW u \in Seq(B), NEW x \in B, u \in S
        PROVE  Append(u, x) \in S
    <2>1. /\ Append(u, x) \in Seq(B)
          /\ Fold(a, Append(u, x)) = Op(Fold(a, u), x)
          /\ Fold(b, Append(u, x)) = Op(Fold(b, u), x)
      BY FoldAppend
    <2>2. Fold(a, u) \in A /\ Fold(b, u) \in A
      BY Zenon, FoldType
    <2>3. <<Op(Fold(a, u), x), Op(Fold(b, u), x)>> \in R
      BY <1>2, <2>2
    <2> QED
      BY <2>1, <2>3
  <1>3. Seq(B) \subseteq S
    <2> HIDE DEF S
    <2> QED
      BY Zenon, <1>1, <1>2, SeqInduction
  <1> QED
    BY <1>3

LEMMA FoldOne ==
    ASSUME Closed, NEW base \in A, NEW x \in B
    PROVE  Fold(base, <<x>>) = Op(base, x)
  <1>1. <<x>> \in Seq(B) /\ Len(<<x>>) = 1 /\ <<x>>[1] = x
    OBVIOUS
  <1>2. PICK r : Run(r, base, <<x>>) /\ Fold(base, <<x>>) = r[Len(<<x>>)]
    <2>1. IsRun(A, base, <<x>>)
      BY Zenon, <1>1, FoldIsRun DEF Closed
    <2> QED
      BY Zenon, <2>1 DEF IsRun
  <1>3. r[1] = Op(r[1 - 1], <<x>>[1]) /\ r[0] = base
    BY <1>1, <1>2 DEF Run
  <1> QED
    BY <1>1, <1>2, <1>3
-----------------------------------------------------------------------------
(* Sequences *)

LEMMA SeqOfMore ==
    ASSUME NEW S, NEW T, S \subseteq T, NEW s \in Seq(S)
    PROVE  s \in Seq(T)
  <1>1. s \in [1 .. Len(s) -> S] /\ Len(s) \in Nat
    OBVIOUS
  <1>2. s \in [1 .. Len(s) -> T]
    BY <1>1
  <1> QED
    BY <1>1, <1>2

LEMMA OneIsOne ==
    /\ \A x, y : <<x>> = <<y>> <=> x = y
    /\ \A x : Len(<<x>>) = 1 /\ (<<x>>)[1] = x
  OBVIOUS

LEMMA FewKnown == \A K : \A a, b \in K : <<a>> \in Seq(K) /\ <<a, b>> \in Seq(K)
  OBVIOUS

LEMMA HeadOfOne ==
    ASSUME NEW n
    PROVE  /\ Head(<<n>>) = n /\ Tail(<<n>>) = <<>> /\ <<n>> # <<>>
           /\ \A x : <<x>> \o <<>> = <<x>>
  <1>1. \A x : <<x>> \in Seq({x}) /\ <<>> \in Seq({x})
    OBVIOUS
  <1> QED
    BY <1>1

\* An absolute path is the path itself behind an empty part.
LEMMA HeadOfAbsolute ==
    ASSUME NEW S, NEW slash, NEW p \in Seq(S)
    PROVE  Head(<<slash>> \o p) = slash /\ Tail(<<slash>> \o p) = p /\ <<slash>> \o p # <<>>
  <1>1. PICK T : T = S \cup {slash}
    OBVIOUS
  <1>2. p \in Seq(T)
    BY <1>1, SeqOfMore
  <1>3. <<slash>> \in Seq(T)
    BY <1>1
  <1>4. PICK q \in Seq(T) : q = p
    BY <1>2
  <1>5. Head(<<slash>> \o q) = slash /\ Tail(<<slash>> \o q) = q /\ <<slash>> \o q # <<>>
    BY <1>3
  <1> QED
    BY <1>4, <1>5

\* Natural numbers are those up to any of them.
LEMMA UpTo ==
    ASSUME NEW n \in Nat, NEW S, 0 \in S, \A k \in 0 .. n - 1 : k \in S => k + 1 \in S
    PROVE  0 .. n \subseteq S
  <1> DEFINE T == {k \in Nat : k <= n => k \in S}
  <1>1. 0 \in T
    OBVIOUS
  <1>2. \A k \in Nat : k \in T => k + 1 \in T
    OBVIOUS
  <1>3. Nat \subseteq T
    <2> HIDE DEF T
    <2> QED
      BY Zenon, <1>1, <1>2, SetInduction
  <1> QED
    BY <1>3

-----------------------------------------------------------------------------
(* Sequences of sequences, flattened (FlattenSeq, written out as well) *)

Flatten(ss) ==
    IF Len(ss) = 0 THEN ss
    ELSE LET flatten[i \in 1 .. Len(ss)] == IF i = 1 THEN ss[i] ELSE flatten[i - 1] \o ss[i]
         IN  flatten[Len(ss)]

Joins(r, ss, k) == r[0] = <<>> /\ \A i \in 1 .. k : r[i] = r[i - 1] \o ss[i]

\* A flattened sequence is the last of the concatenations that begin with the
\* empty sequence.
LEMMA FlattenedIsRun ==
    ASSUME NEW S, NEW n \in Nat, NEW ss \in [1 .. n -> Seq(S)]
    PROVE  \E r \in [0 .. n -> Seq(S)] : Joins(r, ss, n) /\ Flatten(ss) = r[n]
  <1>1. PICK Q : Q = Seq(S)
    OBVIOUS
  <1>2. <<>> \in Q /\ \A s, t \in Q : s \o t \in Q
    BY <1>1
  <1>3. \A s \in Q : <<>> \o s = s
    BY <1>1
  <1>4. ss \in [1 .. n -> Q]
    BY <1>1
  <1>5. Len(ss) = n
    <2>1. ss \in Seq(Q)
      BY <1>4
    <2> QED
      BY <1>4, <2>1
  <1>6. \E r \in [0 .. n -> Q] : Joins(r, ss, n)
    <2> DEFINE T == {k \in 0 .. n : \E r \in [0 .. k -> Q] : Joins(r, ss, k)}
    <2>1. 0 \in T
      <3> DEFINE r == [i \in 0 .. 0 |-> <<>>]
      <3>1. r \in [0 .. 0 -> Q]
        BY <1>2
      <3>2. r[0] = <<>> /\ 1 .. 0 = {}
        OBVIOUS
      <3> HIDE DEF r
      <3>3. Joins(r, ss, 0)
        BY <3>2 DEF Joins
      <3>4. 0 \in 0 .. n
        OBVIOUS
      <3> QED
        BY Zenon, <3>1, <3>3, <3>4
    <2>2. ASSUME NEW k \in 0 .. n - 1, k \in T
          PROVE  k + 1 \in T
      <3>1. PICK r \in [0 .. k -> Q] : Joins(r, ss, k)
        BY <2>2
      <3> DEFINE q == [i \in 0 .. k + 1 |-> IF i <= k THEN r[i] ELSE r[k] \o ss[k + 1]]
      <3>2. r[k] \in Q /\ ss[k + 1] \in Q
        BY <1>4
      <3>3. q \in [0 .. k + 1 -> Q]
        BY <1>2, <3>2
      <3>4. Joins(q, ss, k + 1)
        <4>1. q[0] = <<>>
          BY <3>1 DEF Joins
        <4>2. ASSUME NEW i \in 1 .. k
              PROVE  q[i] = q[i - 1] \o ss[i]
          <5>1. q[i] = r[i] /\ q[i - 1] = r[i - 1]
            OBVIOUS
          <5> HIDE DEF q
          <5> QED
            BY <3>1, <5>1 DEF Joins
        <4>3. q[k + 1] = r[k] \o ss[k + 1]
          OBVIOUS
        <4>4. q[k] = r[k] /\ (k + 1) - 1 = k
          OBVIOUS
        <4>5. \A i \in 1 .. k + 1 : i \in 1 .. k \/ i = k + 1
          OBVIOUS
        <4> HIDE DEF q
        <4>6. ASSUME NEW i \in 1 .. k + 1
              PROVE  q[i] = q[i - 1] \o ss[i]
          <5>1. CASE i = k + 1
            BY <4>3, <4>4, <5>1
          <5> QED
            BY <4>2, <4>5, <5>1
        <4> QED
          BY Zenon, <4>1, <4>6 DEF Joins
      <3>5. k + 1 \in 0 .. n
        OBVIOUS
      <3> HIDE DEF q
      <3> QED
        BY Zenon, <3>3, <3>4, <3>5
    <2>3. 0 .. n \subseteq T
      <3> HIDE DEF T
      <3> QED
        BY <2>1, <2>2, UpTo
    <2>4. n \in T
      <3> HIDE DEF T
      <3> QED
        BY <2>3
    <2> QED
      BY Zenon, <2>4
  <1>7. PICK r \in [0 .. n -> Q] : Joins(r, ss, n)
    BY <1>6
  <1>8. Flatten(ss) = r[n]
    <2>1. CASE n = 0
      <3>1. ss = <<>>
        BY <1>4, <2>1
      <3>2. Flatten(ss) = ss
        BY <1>5, <2>1 DEF Flatten
      <3> QED
        BY <1>7, <2>1, <3>1, <3>2 DEF Joins
    <2>2. CASE n # 0
      <3> DEFINE Step1(f) == [i \in 1 .. Len(ss) |-> IF i = 1 THEN ss[i] ELSE f[i - 1] \o ss[i]]
                 flatten == CHOOSE f : f = Step1(f)
      <3>1. Flatten(ss) = flatten[Len(ss)]
        BY Zenon, <1>5, <2>2 DEF Flatten
      <3>2. \E f : f = Step1(f)
        <4> DEFINE g == [i \in 1 .. n |-> r[i]]
        <4>1. ASSUME NEW i \in 1 .. n
              PROVE  g[i] = IF i = 1 THEN ss[i] ELSE g[i - 1] \o ss[i]
          <5>1. r[i] = r[i - 1] \o ss[i] /\ ss[i] \in Q
            BY <1>4, <1>7 DEF Joins
          <5>2. i = 1 => r[i] = ss[i]
            <6>1. r[0] = <<>>
              BY Zenon, <1>7 DEF Joins
            <6>2. i = 1 => i - 1 = 0
              OBVIOUS
            <6> QED
              BY Zenon, <1>3, <5>1, <6>1, <6>2
          <5>3. i # 1 => g[i - 1] = r[i - 1]
            OBVIOUS
          <5> QED
            BY <5>1, <5>2, <5>3
        <4>2. g = Step1(g)
          <5>1. DOMAIN g = 1 .. n /\ g = [i \in 1 .. n |-> g[i]]
            OBVIOUS
          <5> HIDE DEF g
          <5> QED
            BY <1>5, <4>1, <5>1
        <4> HIDE DEF g
        <4> QED
          BY <4>2
      <3>3. flatten = Step1(flatten)
        BY <3>2
      <3> HIDE DEF flatten
      <3>4. \A i \in 1 .. n : flatten[i] = IF i = 1 THEN ss[i] ELSE flatten[i - 1] \o ss[i]
        BY <1>5, <3>3
      <3> DEFINE T == {k \in 0 .. n : k # 0 => flatten[k] = r[k]}
      <3>5. 0 \in T
        OBVIOUS
      <3>6. ASSUME NEW k \in 0 .. n - 1, k \in T
            PROVE  k + 1 \in T
        <4>1. k + 1 \in 1 .. n /\ (k + 1) - 1 = k
          OBVIOUS
        <4>2. r[k + 1] = r[k] \o ss[k + 1] /\ ss[k + 1] \in Q
          BY <1>4, <1>7, <4>1 DEF Joins
        <4>3. CASE k = 0
          <5>1. flatten[k + 1] = ss[k + 1] /\ r[k + 1] = ss[k + 1]
            BY <1>3, <1>7, <3>4, <4>1, <4>2, <4>3 DEF Joins
          <5> QED
            BY <5>1
        <4>4. CASE k # 0
          <5>1. flatten[k] = r[k]
            BY <3>6, <4>4
          <5>2. flatten[k + 1] = flatten[k] \o ss[k + 1]
            <6>1. k + 1 # 1
              BY <4>4
            <6> QED
              BY Zenon, <3>4, <4>1, <6>1
          <5>3. k + 1 \in 0 .. n /\ flatten[k + 1] = r[k + 1]
            BY <4>2, <5>1, <5>2
          <5> QED
            BY <5>3
        <4> QED
          BY <4>3, <4>4
      <3>7. 0 .. n \subseteq T
        <4> HIDE DEF T
        <4> QED
          BY <3>5, <3>6, UpTo
      <3>8. n \in T
        BY <3>7
      <3> QED
        BY <1>5, <2>2, <3>1, <3>8
    <2> QED
      BY <2>1, <2>2
  <1> QED
    BY <1>1, <1>7, <1>8

LEMMA FlattenedType ==
    ASSUME NEW S, NEW n \in Nat, NEW ss \in [1 .. n -> Seq(S)]
    PROVE  Flatten(ss) \in Seq(S)
  <1>1. PICK r \in [0 .. n -> Seq(S)] : Flatten(ss) = r[n]
    BY Zenon, FlattenedIsRun
  <1> QED
    BY <1>1

LEMMA FlattenAppend ==
    ASSUME NEW S, NEW n \in Nat, NEW ss \in [1 .. n + 1 -> Seq(S)]
    PROVE  Flatten(ss) = Flatten([i \in 1 .. n |-> ss[i]]) \o ss[n + 1]
  <1> DEFINE tt == [i \in 1 .. n |-> ss[i]]
  <1>1. n + 1 \in Nat /\ tt \in [1 .. n -> Seq(S)] /\ \A i \in 1 .. n : tt[i] = ss[i]
    OBVIOUS
  <1> HIDE DEF tt
  <1>2. PICK q \in [0 .. n + 1 -> Seq(S)] : Joins(q, ss, n + 1) /\ Flatten(ss) = q[n + 1]
    BY <1>1, FlattenedIsRun
  <1>3. PICK r \in [0 .. n -> Seq(S)] : Joins(r, tt, n) /\ Flatten(tt) = r[n]
    BY <1>1, FlattenedIsRun
  <1>4. q[0] = <<>> /\ \A i \in 1 .. n + 1 : q[i] = q[i - 1] \o ss[i]
    BY <1>2 DEF Joins
  <1>5. r[0] = <<>> /\ \A i \in 1 .. n : r[i] = r[i - 1] \o ss[i]
    BY <1>1, <1>3 DEF Joins
  <1> DEFINE T == {k \in 0 .. n : q[k] = r[k]}
  <1>6. 0 \in T
    BY <1>4, <1>5
  <1>7. ASSUME NEW k \in 0 .. n - 1, k \in T
        PROVE  k + 1 \in T
    <2>1. k + 1 \in 1 .. n /\ k + 1 \in 1 .. n + 1 /\ (k + 1) - 1 = k /\ k + 1 \in 0 .. n
      OBVIOUS
    <2>2. q[k] = r[k]
      BY <1>7
    <2>3. q[k + 1] = q[k] \o ss[k + 1] /\ r[k + 1] = r[k] \o ss[k + 1]
      BY <1>4, <1>5, <2>1
    <2> QED
      BY <2>1, <2>2, <2>3
  <1>8. 0 .. n \subseteq T
    <2> HIDE DEF T
    <2> QED
      BY <1>6, <1>7, UpTo
  <1>9. q[n] = r[n]
    BY <1>8
  <1>10. q[n + 1] = q[n] \o ss[n + 1]
    <2>1. n + 1 \in 1 .. n + 1 /\ (n + 1) - 1 = n
      OBVIOUS
    <2> QED
      BY <1>4, <2>1
  <1>11. Flatten(ss) = Flatten(tt) \o ss[n + 1]
    BY <1>2, <1>3, <1>9, <1>10
  <1> QED
    BY <1>11 DEF tt

-----------------------------------------------------------------------------
(* Sequences that replace each element by a sequence *)

\* What replaces each element of S by elements of T.
Replacing(S, T) == [S -> Seq(T)]

Flat(h, s) == Flatten([i \in 1 .. Len(s) |-> h[s[i]]])

LEMMA FlatIs ==
    ASSUME NEW S, NEW T, NEW h \in Replacing(S, T)
    PROVE  /\ Flat(h, <<>>) = <<>>
           /\ \A s \in Seq(S) : Flat(h, s) \in Seq(T)
           /\ \A s \in Seq(S), x \in S : Flat(h, Append(s, x)) = Flat(h, s) \o h[x]
  <1>1. \A s \in Seq(S) : Len(s) \in Nat /\ [i \in 1 .. Len(s) |-> h[s[i]]] \in [1 .. Len(s) -> Seq(T)]
    BY DEF Replacing
  <1>2. ASSUME NEW s \in Seq(S)
        PROVE  Flat(h, s) \in Seq(T)
    <2> DEFINE ss == [i \in 1 .. Len(s) |-> h[s[i]]]
    <2>1. Len(s) \in Nat /\ ss \in [1 .. Len(s) -> Seq(T)]
      BY <1>1
    <2> HIDE DEF ss
    <2>2. Flatten(ss) \in Seq(T)
      BY <2>1, FlattenedType
    <2> QED
      BY <2>2 DEF ss, Flat
  <1>3. ASSUME NEW s \in Seq(S), NEW x \in S
        PROVE  Flat(h, Append(s, x)) = Flat(h, s) \o h[x]
    <2> DEFINE t == Append(s, x)
               n == Len(s)
               tt == [i \in 1 .. n + 1 |-> h[t[i]]]
    <2>1. /\ n \in Nat /\ Len(t) = n + 1 /\ t[n + 1] = x
          /\ \A i \in 1 .. n : t[i] = s[i]
      OBVIOUS
    <2>2. t \in Seq(S)
      OBVIOUS
    <2>3. tt \in [1 .. n + 1 -> Seq(T)]
      <3> HIDE DEF n, t
      <3> QED
        BY <2>1, <2>2 DEF Replacing
    <2>4. [i \in 1 .. n |-> tt[i]] = [i \in 1 .. n |-> h[s[i]]]
      <3> HIDE DEF n, t
      <3>1. \A i \in 1 .. n : i \in 1 .. n + 1 /\ tt[i] = h[s[i]]
        BY <2>1
      <3> HIDE DEF tt
      <3> QED
        BY <3>1
    <2>5. tt[n + 1] = h[x]
      <3> HIDE DEF n, t
      <3> QED
        BY <2>1
    <2>6. Flat(h, t) = Flatten(tt)
      <3> HIDE DEF n, t
      <3> QED
        BY <2>1 DEF Flat
    <2>7. Flat(h, s) = Flatten([i \in 1 .. n |-> h[s[i]]])
      BY DEF Flat
    <2> HIDE DEF n, t, tt
    <2>8. Flatten(tt) = Flatten([i \in 1 .. n |-> tt[i]]) \o tt[n + 1]
      BY <2>1, <2>3, FlattenAppend
    <2>9. Flat(h, t) = Flat(h, s) \o h[x]
      BY Zenon, <2>4, <2>5, <2>6, <2>7, <2>8
    <2> QED
      BY <2>9 DEF t
  <1>4. Flat(h, <<>>) = <<>>
    <2> DEFINE ss == [i \in 1 .. Len(<<>>) |-> h[(<<>>)[i]]]
    <2>1. ss \in [1 .. 0 -> Seq(T)]
      OBVIOUS
    <2>2. Flat(h, <<>>) = Flatten(ss)
      BY Zenon DEF Flat
    <2> HIDE DEF ss
    <2>3. PICK r \in [0 .. 0 -> Seq(T)] : Joins(r, ss, 0) /\ Flatten(ss) = r[0]
      BY <2>1, FlattenedIsRun
    <2> QED
      BY <2>2, <2>3 DEF Joins
  <1> QED
    BY <1>2, <1>3, <1>4

LEMMA FlatAppend ==
    ASSUME NEW S, NEW T, NEW h \in Replacing(S, T), NEW s \in Seq(S), NEW x \in S
    PROVE  /\ Flat(h, Append(s, x)) = Flat(h, s) \o h[x]
           /\ Flat(h, s) \in Seq(T) /\ h[x] \in Seq(T)
  <1>1. h[x] \in Seq(T)
    BY DEF Replacing
  <1> QED
    BY <1>1, FlatIs

LEMMA FlatOne ==
    ASSUME NEW S, NEW T, NEW h \in Replacing(S, T), NEW x \in S
    PROVE  Flat(h, <<x>>) = h[x]
  <1>1. <<>> \in Seq(S) /\ Append(<<>>, x) = <<x>>
    OBVIOUS
  <1>2. Flat(h, Append(<<>>, x)) = Flat(h, <<>>) \o h[x] /\ Flat(h, <<>>) = <<>>
    <2>1. \A s \in Seq(S) : Flat(h, Append(s, x)) = Flat(h, s) \o h[x]
      BY FlatAppend
    <2>2. Flat(h, <<>>) = <<>>
      BY FlatIs
    <2> QED
      BY Zenon, <1>1, <2>1, <2>2
  <1>3. h[x] \in Seq(T) /\ \A s \in Seq(T) : <<>> \o s = s
    BY DEF Replacing
  <1> QED
    BY <1>1, <1>2, <1>3

LEMMA FlatConcat ==
    ASSUME NEW S, NEW T, NEW h \in Replacing(S, T), NEW s \in Seq(S), NEW t \in Seq(S)
    PROVE  Flat(h, s \o t) = Flat(h, s) \o Flat(h, t)
  <1> DEFINE V == {u \in Seq(S) : Flat(h, s \o u) = Flat(h, s) \o Flat(h, u)}
  <1>1. <<>> \in V
    <2>1. Flat(h, <<>>) = <<>> /\ Flat(h, s) \in Seq(T)
      BY FlatIs
    <2>2. s \o <<>> = s /\ \A q \in Seq(T) : q \o <<>> = q
      OBVIOUS
    <2> QED
      BY <2>1, <2>2
  <1>2. ASSUME NEW u \in Seq(S), NEW x \in S, u \in V
        PROVE  Append(u, x) \in V
    <2>1. s \o u \in Seq(S) /\ s \o Append(u, x) = Append(s \o u, x) /\ Append(u, x) \in Seq(S)
      OBVIOUS
    <2>2. Flat(h, Append(s \o u, x)) = Flat(h, s \o u) \o h[x]
      <3>1. \A v \in Seq(S) : Flat(h, Append(v, x)) = Flat(h, v) \o h[x]
        BY FlatAppend
      <3> QED
        BY Zenon, <2>1, <3>1
    <2>3. Flat(h, Append(u, x)) = Flat(h, u) \o h[x]
      BY FlatAppend
    <2>4. Flat(h, s) \in Seq(T) /\ Flat(h, u) \in Seq(T) /\ h[x] \in Seq(T)
      BY FlatAppend
    <2>5. \A a, b, c \in Seq(T) : (a \o b) \o c = a \o (b \o c)
      OBVIOUS
    <2>6. Flat(h, s \o u) = Flat(h, s) \o Flat(h, u)
      BY <1>2
    <2>7. (Flat(h, s) \o Flat(h, u)) \o h[x] = Flat(h, s) \o (Flat(h, u) \o h[x])
      BY <2>4, <2>5
    <2>8. Flat(h, s \o Append(u, x)) = Flat(h, s) \o Flat(h, Append(u, x))
      BY Zenon, <2>1, <2>2, <2>3, <2>6, <2>7
    <2> QED
      BY <2>1, <2>8
  <1>3. Seq(S) \subseteq V
    <2> HIDE DEF V
    <2> QED
      BY <1>1, <1>2, SeqInduction
  <1> QED
    BY <1>3

\* Replacing twice is replacing once by what the replacement is replaced by.
LEMMA FlatTwice ==
    ASSUME NEW S, NEW T, NEW U, NEW h \in Replacing(S, T), NEW g \in Replacing(T, U),
           NEW f \in Replacing(S, U), \A x \in S : f[x] = Flat(g, h[x]), NEW s \in Seq(S)
    PROVE  Flat(g, Flat(h, s)) = Flat(f, s)
  <1> DEFINE V == {u \in Seq(S) : Flat(g, Flat(h, u)) = Flat(f, u)}
  <1>1. <<>> \in V
    <2>1. Flat(h, <<>>) = <<>> /\ Flat(g, <<>>) = <<>> /\ Flat(f, <<>>) = <<>>
      BY Zenon, FlatIs
    <2> QED
      BY <2>1
  <1>2. ASSUME NEW u \in Seq(S), NEW x \in S, u \in V
        PROVE  Append(u, x) \in V
    <2>1. Flat(h, Append(u, x)) = Flat(h, u) \o h[x] /\ Flat(h, u) \in Seq(T) /\ h[x] \in Seq(T)
      BY FlatAppend
    <2>2. Flat(g, Flat(h, u) \o h[x]) = Flat(g, Flat(h, u)) \o Flat(g, h[x])
      BY <2>1, FlatConcat
    <2>3. Flat(f, Append(u, x)) = Flat(f, u) \o f[x]
      BY FlatAppend
    <2>4. f[x] = Flat(g, h[x]) /\ Append(u, x) \in Seq(S)
      OBVIOUS
    <2> QED
      BY <1>2, <2>1, <2>2, <2>3, <2>4
  <1>3. Seq(S) \subseteq V
    <2> HIDE DEF V
    <2> QED
      BY <1>1, <1>2, SeqInduction
  <1> QED
    BY <1>3

\* Every element of a replacement is in the whole.
LEMMA FlatHolds ==
    ASSUME NEW S, NEW T, NEW h \in Replacing(S, T), NEW s \in Seq(S)
    PROVE  \A i \in 1 .. Len(s) : \A j \in 1 .. Len(h[s[i]]) :
               \E k \in 1 .. Len(Flat(h, s)) : Flat(h, s)[k] = h[s[i]][j]
  <1> DEFINE Held(u) == \A i \in 1 .. Len(u) : \A j \in 1 .. Len(h[u[i]]) :
                            \E k \in 1 .. Len(Flat(h, u)) : Flat(h, u)[k] = h[u[i]][j]
             V == {u \in Seq(S) : Held(u)}
  <1>1. <<>> \in V
    OBVIOUS
  <1>2. ASSUME NEW u \in Seq(S), NEW x \in S, u \in V
        PROVE  Append(u, x) \in V
    <2> DEFINE t == Append(u, x)
               a == Flat(h, u)
    <2>1. Flat(h, t) = a \o h[x] /\ a \in Seq(T) /\ h[x] \in Seq(T)
      BY FlatAppend
    <2>2. t \in Seq(S) /\ Len(t) = Len(u) + 1 /\ t[Len(u) + 1] = x /\ Len(u) \in Nat
          /\ \A i \in 1 .. Len(u) : t[i] = u[i]
      OBVIOUS
    <2>3. Held(u)
      BY <1>2
    <2> HIDE DEF t, a
    <2>4. ASSUME NEW i \in 1 .. Len(t), NEW j \in 1 .. Len(h[t[i]])
          PROVE  \E k \in 1 .. Len(Flat(h, t)) : Flat(h, t)[k] = h[t[i]][j]
      <3>1. Len(a \o h[x]) = Len(a) + Len(h[x]) /\ Len(a) \in Nat /\ Len(h[x]) \in Nat
        BY <2>1
      <3>2. CASE i \in 1 .. Len(u)
        <4>1. t[i] = u[i]
          BY <2>2, <3>2
        <4>2. PICK k \in 1 .. Len(a) : a[k] = h[u[i]][j]
          BY <2>3, <2>4, <3>2, <4>1 DEF a
        <4>3. (a \o h[x])[k] = a[k] /\ k \in 1 .. Len(a \o h[x])
          BY <2>1, <3>1, <4>2
        <4> QED
          BY <2>1, <4>1, <4>2, <4>3
      <3>3. CASE i = Len(u) + 1
        <4>1. t[i] = x /\ j \in 1 .. Len(h[x])
          BY <2>2, <2>4, <3>3
        <4>2. (a \o h[x])[Len(a) + j] = h[x][j] /\ Len(a) + j \in 1 .. Len(a \o h[x])
          BY <2>1, <3>1, <4>1
        <4> QED
          BY <2>1, <4>1, <4>2
      <3> QED
        BY <2>2, <2>4, <3>2, <3>3
    <2>5. Held(t)
      BY <2>4
    <2> QED
      BY <2>2, <2>5 DEF t
  <1>3. Seq(S) \subseteq V
    <2> HIDE DEF V
    <2> QED
      BY <1>1, <1>2, SeqInduction
  <1> QED
    BY <1>3

\* One for one.
LEMMA FlatSingles ==
    ASSUME NEW S, NEW T, NEW h \in Replacing(S, T), NEW f \in [S -> T], \A x \in S : h[x] = <<f[x]>>,
           NEW s \in Seq(S)
    PROVE  Len(Flat(h, s)) = Len(s) /\ \A i \in 1 .. Len(s) : Flat(h, s)[i] = f[s[i]]
  <1> DEFINE V == {u \in Seq(S) : /\ Len(Flat(h, u)) = Len(u)
                                  /\ \A i \in 1 .. Len(u) : Flat(h, u)[i] = f[u[i]]}
  <1>1. <<>> \in V
    <2>1. Flat(h, <<>>) = <<>>
      BY FlatIs
    <2> QED
      BY <2>1
  <1>2. ASSUME NEW u \in Seq(S), NEW x \in S, u \in V
        PROVE  Append(u, x) \in V
    <2>1. Flat(h, Append(u, x)) = Flat(h, u) \o <<f[x]>> /\ Flat(h, u) \in Seq(T) /\ f[x] \in T
      <3>1. Flat(h, Append(u, x)) = Flat(h, u) \o h[x] /\ Flat(h, u) \in Seq(T)
        BY FlatAppend
      <3> QED
        BY <3>1
    <2>2. PICK a \in Seq(T) : a = Flat(h, u)
      BY <2>1
    <2>3. Len(a) = Len(u) /\ \A i \in 1 .. Len(u) : a[i] = f[u[i]]
      BY <1>2, <2>2
    <2>4. a \o <<f[x]>> = Append(a, f[x])
      BY <2>1
    <2>5. /\ Len(Append(a, f[x])) = Len(Append(u, x))
          /\ \A i \in 1 .. Len(Append(u, x)) : Append(a, f[x])[i] = f[Append(u, x)[i]]
      BY <2>1, <2>3
    <2>6. Append(u, x) \in Seq(S)
      OBVIOUS
    <2>7. Flat(h, Append(u, x)) = Append(a, f[x])
      BY Zenon, <2>1, <2>2, <2>4
    <2> QED
      BY Zenon, <2>5, <2>6, <2>7
  <1>3. Seq(S) \subseteq V
    <2> HIDE DEF V
    <2> QED
      BY <1>1, <1>2, SeqInduction
  <1> QED
    BY <1>3

-----------------------------------------------------------------------------
(* Heads, tails and equal sequences *)

LEMMA AreEqual ==
    ASSUME NEW S, NEW s \in Seq(S), NEW t \in Seq(S), Len(s) = Len(t),
           \A i \in 1 .. Len(s) : s[i] = t[i]
    PROVE  s = t
  <1>1. s = [i \in 1 .. Len(s) |-> s[i]] /\ t = [i \in 1 .. Len(t) |-> t[i]]
    OBVIOUS
  <1> QED
    BY <1>1

LEMMA HeadThenTail ==
    ASSUME NEW S, NEW s \in Seq(S), s # <<>>
    PROVE  Head(s) \in S /\ Tail(s) \in Seq(S) /\ <<Head(s)>> \in Seq(S) /\ s = <<Head(s)>> \o Tail(s)
  <1>1. PICK h \in S, t \in Seq(S) :
            /\ h = Head(s) /\ t = Tail(s) /\ h = s[1] /\ Len(s) \in Nat /\ Len(t) = Len(s) - 1
            /\ \A i \in 1 .. Len(t) : t[i] = s[i + 1]
    <2>1. Len(s) \in Nat \ {0}
      OBVIOUS
    <2>2. /\ Head(s) \in S /\ Tail(s) \in Seq(S) /\ Head(s) = s[1] /\ Len(Tail(s)) = Len(s) - 1
          /\ \A i \in 1 .. Len(Tail(s)) : Tail(s)[i] = s[i + 1]
      BY <2>1
    <2> QED
      BY <2>1, <2>2
  <1>2. /\ <<h>> \in Seq(S) /\ <<h>> \o t \in Seq(S) /\ Len(<<h>> \o t) = Len(t) + 1
        /\ (<<h>> \o t)[1] = h /\ \A i \in 1 .. Len(t) : (<<h>> \o t)[i + 1] = t[i]
    OBVIOUS
  <1>3. ASSUME NEW i \in 1 .. Len(s)
        PROVE  s[i] = (<<h>> \o t)[i]
    <2>1. CASE i = 1
      BY <1>1, <1>2, <2>1
    <2>2. CASE i # 1
      <3>1. PICK j \in 1 .. Len(t) : i = j + 1
        <4>1. i - 1 \in 1 .. Len(t) /\ i = (i - 1) + 1
          BY <1>1, <2>2
        <4> QED
          BY <4>1
      <3> QED
        BY <1>1, <1>2, <3>1
    <2> QED
      BY <2>1, <2>2
  <1>4. s = <<h>> \o t
    BY <1>1, <1>2, <1>3, AreEqual
  <1> QED
    BY Zenon, <1>1, <1>2, <1>4

LEMMA OneThenOther ==
    ASSUME NEW S, NEW a \in S, NEW b \in S
    PROVE  <<a>> \o <<b>> = <<a, b>>
  <1>1. <<a>> \in Seq(S) /\ <<b>> \in Seq(S) /\ <<a, b>> \in Seq(S)
    OBVIOUS
  <1>2. Len(<<a>> \o <<b>>) = 2 /\ (<<a>> \o <<b>>)[1] = a /\ (<<a>> \o <<b>>)[2] = b
    BY <1>1
  <1>3. Len(<<a, b>>) = 2 /\ <<a, b>>[1] = a /\ <<a, b>>[2] = b
    OBVIOUS
  <1>4. <<a>> \o <<b>> \in Seq(S)
    BY <1>1
  <1>5. \A i \in 1 .. 2 : (<<a>> \o <<b>>)[i] = <<a, b>>[i]
    BY <1>2, <1>3
  <1> QED
    BY <1>1, <1>2, <1>3, <1>4, <1>5, AreEqual

LEMMA SameRest ==
    ASSUME NEW S, NEW g \in Seq(S), NEW s \in Seq(S), NEW t \in Seq(S), g \o s = g \o t
    PROVE  s = t
  <1>1. Len(s) = Len(t)
    <2>1. Len(g \o s) = Len(g) + Len(s) /\ Len(g \o t) = Len(g) + Len(t)
      OBVIOUS
    <2>2. Len(g) \in Nat /\ Len(s) \in Nat /\ Len(t) \in Nat
      OBVIOUS
    <2> QED
      BY <2>1, <2>2
  <1>2. ASSUME NEW i \in 1 .. Len(s)
        PROVE  s[i] = t[i]
    <2>1. (g \o s)[Len(g) + i] = s[i] /\ (g \o t)[Len(g) + i] = t[i]
      BY <1>1
    <2> QED
      BY <2>1
  <1> QED
    BY <1>1, <1>2, AreEqual

\* Concatenation is associative.
LEMMA Together ==
    ASSUME NEW S, NEW s \in Seq(S), NEW t \in Seq(S), NEW r \in Seq(S)
    PROVE  (s \o t) \o r = s \o (t \o r)
  <1>1. PICK x, y \in Seq(S) : x = s \o t /\ y = t \o r
    <2>1. s \o t \in Seq(S) /\ t \o r \in Seq(S)
      OBVIOUS
    <2> QED
      BY <2>1
  <1>2. Len(s) \in Nat /\ Len(t) \in Nat /\ Len(r) \in Nat
    OBVIOUS
  <1>3. /\ Len(x) = Len(s) + Len(t) /\ \A i \in 1 .. Len(s) : x[i] = s[i]
        /\ \A i \in 1 .. Len(t) : x[Len(s) + i] = t[i]
    BY <1>1
  <1>4. /\ Len(y) = Len(t) + Len(r) /\ \A i \in 1 .. Len(t) : y[i] = t[i]
        /\ \A i \in 1 .. Len(r) : y[Len(t) + i] = r[i]
    BY <1>1
  <1>5. PICK u, v \in Seq(S) : u = x \o r /\ v = s \o y
    <2>1. x \o r \in Seq(S) /\ s \o y \in Seq(S)
      OBVIOUS
    <2> QED
      BY <2>1
  <1>6. Len(u) = Len(s) + Len(t) + Len(r) /\ Len(v) = Len(s) + Len(t) + Len(r)
    <2>1. Len(u) = Len(x) + Len(r) /\ Len(v) = Len(s) + Len(y)
      BY <1>5
    <2> QED
      BY <1>2, <1>3, <1>4, <2>1
  <1>7. ASSUME NEW i \in 1 .. Len(u)
        PROVE  u[i] = v[i]
    <2>1. CASE i <= Len(s)
      BY <1>2, <1>3, <1>5, <1>6, <2>1
    <2>2. CASE i > Len(s) /\ i <= Len(s) + Len(t)
      <3>1. PICK j \in 1 .. Len(t) : i = Len(s) + j
        <4>1. i - Len(s) \in 1 .. Len(t) /\ i = Len(s) + (i - Len(s))
          BY <1>2, <1>6, <2>2
        <4> QED
          BY <4>1
      <3>2. u[i] = x[i] /\ v[i] = y[j]
        BY <1>2, <1>3, <1>4, <1>5, <2>2, <3>1
      <3> QED
        BY <1>3, <1>4, <3>1, <3>2
    <2>3. CASE i > Len(s) + Len(t)
      <3>1. PICK j \in 1 .. Len(r) : i = Len(s) + Len(t) + j
        <4>1. i - (Len(s) + Len(t)) \in 1 .. Len(r) /\ i = Len(s) + Len(t) + (i - (Len(s) + Len(t)))
          BY <1>2, <1>6, <2>3
        <4> QED
          BY <4>1
      <3>2. u[i] = r[j]
        BY <1>2, <1>3, <1>5, <3>1
      <3>3. v[i] = y[Len(t) + j]
        BY <1>2, <1>4, <1>5, <3>1
      <3> QED
        BY <1>4, <3>2, <3>3
    <2> QED
      BY <1>2, <1>6, <2>1, <2>2, <2>3
  <1> QED
    BY <1>1, <1>5, <1>6, <1>7, AreEqual

LEMMA AppendLater ==
    ASSUME NEW S, NEW s \in Seq(S), NEW t \in Seq(S), NEW x \in S
    PROVE  /\ Append(s \o t, x) = s \o Append(t, x)
           /\ (s \o t) \o <<x>> = s \o Append(t, x)
  <1>1. s \o t \in Seq(S) /\ <<x>> \in Seq(S)
    OBVIOUS
  <1>2. \A u \in Seq(S) : Append(u, x) = u \o <<x>>
    OBVIOUS
  <1>3. (s \o t) \o <<x>> = s \o (t \o <<x>>)
    BY <1>1, Together
  <1> QED
    BY Zenon, <1>1, <1>2, <1>3

\* All but the last element.
LEMMA FrontIs ==
    ASSUME NEW S, NEW s \in Seq(S)
    PROVE  /\ s # <<>> => SubSeq(s, 1, Len(s) - 1) \in Seq(S)
           /\ \A x \in S : /\ Append(s, x) # <<>>
                           /\ SubSeq(Append(s, x), 1, Len(Append(s, x)) - 1) = s
  <1>1. ASSUME NEW x \in S
        PROVE  Append(s, x) # <<>> /\ SubSeq(Append(s, x), 1, Len(Append(s, x)) - 1) = s
    <2>1. PICK t \in Seq(S) : t = Append(s, x)
      <3>1. Append(s, x) \in Seq(S)
        OBVIOUS
      <3> QED
        BY <3>1
    <2>2. Len(t) = Len(s) + 1 /\ t # <<>> /\ \A i \in 1 .. Len(s) : t[i] = s[i]
      BY <2>1
    <2>3. Len(s) \in Nat /\ (Len(s) + 1) - 1 = Len(s)
      OBVIOUS
    <2>4. PICK u \in Seq(S) : u = SubSeq(t, 1, Len(s)) /\ Len(u) = Len(s) /\ \A i \in 1 .. Len(s) : u[i] = t[i]
      BY <2>2, <2>3
    <2>5. u = s
      BY <2>2, <2>4, AreEqual
    <2> QED
      BY <2>1, <2>2, <2>3, <2>4, <2>5
  <1>2. ASSUME s # <<>>
        PROVE  SubSeq(s, 1, Len(s) - 1) \in Seq(S)
    BY <1>2
  <1> QED
    BY <1>1, <1>2

\* A sequence is any of its prefixes, followed by the rest.
LEMMA RestOf ==
    ASSUME NEW S, NEW p \in Seq(S), NEW g \in Seq(S), Len(g) <= Len(p),
           SubSeq(g, 1, Len(g)) = SubSeq(p, 1, Len(g))
    PROVE  LET rest == SubSeq(p, Len(g) + 1, Len(p))
           IN  rest \in Seq(S) /\ Len(rest) = Len(p) - Len(g) /\ g \o rest = p
  <1>1. Len(p) \in Nat /\ Len(g) \in Nat
    OBVIOUS
  <1>2. PICK f : f = SubSeq(p, Len(g) + 1, Len(p))
    OBVIOUS
  <1>3. f \in Seq(S) /\ Len(f) = Len(p) - Len(g) /\ \A i \in 1 .. Len(f) : f[i] = p[Len(g) + i]
    BY <1>1, <1>2
  <1>4. \A i \in 1 .. Len(g) : SubSeq(g, 1, Len(g))[i] = g[i] /\ SubSeq(p, 1, Len(g))[i] = p[i]
    BY <1>1
  <1>5. g \o f \in Seq(S) /\ Len(g \o f) = Len(p)
    BY <1>1, <1>3
  <1>6. \A i \in 1 .. Len(p) : (g \o f)[i] = p[i]
    BY <1>1, <1>3, <1>4
  <1>7. g \o f = p
    BY <1>5, <1>6, AreEqual
  <1> QED
    BY Zenon, <1>2, <1>3, <1>7

\* What elements are with one before them and two after them.
Surrounded(p, s, u, r) ==
    LET both == s \o <<u, r>>
    IN  /\ (<<p>> \o (s \o <<u>>)) \o <<r>> = <<p>> \o both
        /\ <<p>> \o both # <<>> /\ Head(<<p>> \o both) = p /\ Tail(<<p>> \o both) = both
        /\ both # <<>>
        /\ s # <<>> => Head(both) = Head(s) /\ Tail(both) = Tail(s) \o <<u, r>>
        /\ s = <<>> => both = <<u, r>>

LEMMA Around ==
    ASSUME NEW S
    PROVE  \A p, u, r \in S, s \in Seq(S) : Surrounded(p, s, u, r)
  <1> TAKE p, u, r \in S, s \in Seq(S)
  <1>1. PICK e \in Seq(S) : e = <<u, r>> /\ e = <<u>> \o <<r>>
    <2>1. <<u, r>> \in Seq(S)
      OBVIOUS
    <2> QED
      BY Zenon, <2>1, OneThenOther
  <1>2. \A x, y, z \in Seq(S) : (x \o y) \o z = x \o (y \o z)
    BY Together
  <1>3. e # <<>> /\ s \o e \in Seq(S) /\ s \o e # <<>> /\ (s = <<>> => s \o e = e)
    <2>1. e # <<>>
      BY <1>1
    <2> QED
      BY <2>1
  <1>4. (<<p>> \o (s \o <<u>>)) \o <<r>> = <<p>> \o (s \o e)
    <2>1. <<p>> \in Seq(S) /\ <<u>> \in Seq(S) /\ <<r>> \in Seq(S) /\ s \o <<u>> \in Seq(S)
      OBVIOUS
    <2>2. (<<p>> \o (s \o <<u>>)) \o <<r>> = <<p>> \o ((s \o <<u>>) \o <<r>>)
      BY ZenonT(60), <1>2, <2>1
    <2>3. (s \o <<u>>) \o <<r>> = s \o (<<u>> \o <<r>>)
      BY Zenon, <1>2, <2>1
    <2> QED
      BY Zenon, <1>1, <2>2, <2>3
  <1>5. <<p>> \o (s \o e) # <<>> /\ Head(<<p>> \o (s \o e)) = p /\ Tail(<<p>> \o (s \o e)) = s \o e
    BY Zenon, <1>3, HeadOfAbsolute
  <1>6. ASSUME s # <<>>
        PROVE  Head(s \o e) = Head(s) /\ Tail(s \o e) = Tail(s) \o e
    <2>1. PICK h \in S, t \in Seq(S) : h = Head(s) /\ t = Tail(s) /\ s = <<h>> \o t /\ <<h>> \in Seq(S)
      BY <1>6, HeadThenTail
    <2>2. (<<h>> \o t) \o e = <<h>> \o (t \o e)
      BY Zenon, <1>2, <2>1
    <2>3. t \o e \in Seq(S)
      OBVIOUS
    <2>4. Head(<<h>> \o (t \o e)) = h /\ Tail(<<h>> \o (t \o e)) = t \o e
      BY Zenon, <2>3, HeadOfAbsolute
    <2> QED
      BY Zenon, <2>1, <2>2, <2>4
  <1> QED
    BY Zenon, <1>1, <1>3, <1>4, <1>5, <1>6 DEF Surrounded

\* A set of numbers up to one of them has a greatest.
LEMMA GreatestIsIn ==
    ASSUME NEW n \in Nat, NEW T \in SUBSET (1 .. n), T # {}
    PROVE  \E x \in T : \A y \in T : x >= y
  <1> DEFINE S == {k \in 0 .. n : (\E y \in T : y <= k) =>
                                     \E x \in T : x <= k /\ \A y \in T : y <= k => x >= y}
  <1>1. 0 \in S
    OBVIOUS
  <1>2. ASSUME NEW k \in 0 .. n - 1, k \in S
        PROVE  k + 1 \in S
    <2>1. CASE k + 1 \in T
      <3>1. \E x \in T : x <= k + 1 /\ \A y \in T : y <= k + 1 => x >= y
        BY <2>1
      <3> QED
        BY <3>1
    <2>2. CASE k + 1 \notin T
      <3>1. \A y \in T : y <= k + 1 <=> y <= k
        BY <2>2
      <3> QED
        BY <1>2, <3>1
    <2> QED
      BY <2>1, <2>2
  <1>3. 0 .. n \subseteq S
    <2> HIDE DEF S
    <2> QED
      BY <1>1, <1>2, UpTo
  <1>4. n \in S
    <2> HIDE DEF S
    <2> QED
      BY <1>3
  <1>5. \A y \in T : y <= n
    OBVIOUS
  <1>6. \E x \in T : x <= n /\ \A y \in T : y <= n => x >= y
    BY <1>4, <1>5
  <1> QED
    BY <1>5, <1>6

-----------------------------------------------------------------------------
(* What a sequence holds *)

\* The elements of a sequence.
Held(s) == {s[i] : i \in 1 .. Len(s)}

\* A replacement holds what each element is replaced by.
LEMMA FlatHeld ==
    ASSUME NEW S, NEW T, NEW h \in Replacing(S, T), NEW s \in Seq(S), NEW x \in Held(s)
    PROVE  Held(h[x]) \subseteq Held(Flat(h, s)) /\ Flat(h, s) \in Seq(T)
  <1>1. \A i \in 1 .. Len(s) : \A j \in 1 .. Len(h[s[i]]) :
               \E k \in 1 .. Len(Flat(h, s)) : Flat(h, s)[k] = h[s[i]][j]
    BY FlatHolds
  <1>2. PICK i \in 1 .. Len(s) : x = s[i]
    BY DEF Held
  <1>3. ASSUME NEW y \in Held(h[x])
        PROVE  y \in Held(Flat(h, s))
    <2>1. PICK j \in 1 .. Len(h[x]) : y = h[x][j]
      BY DEF Held
    <2>2. PICK k \in 1 .. Len(Flat(h, s)) : Flat(h, s)[k] = y
      BY Zenon, <1>1, <1>2, <2>1
    <2> QED
      BY Zenon, <2>2 DEF Held
  <1>4. Flat(h, s) \in Seq(T)
    BY FlatIs
  <1> QED
    BY <1>3, <1>4

LEMMA HeldIs ==
    ASSUME NEW S
    PROVE  /\ Held(<<>>) = {}
           /\ \A s, t \in Seq(S) : Held(s \o t) = Held(s) \cup Held(t)
           /\ \A s \in Seq(S) : s # <<>> => Held(s) = {Head(s)} \cup Held(Tail(s))
           /\ \A a \in S : Held(<<a>>) = {a}
  <1>1. Held(<<>>) = {}
    BY DEF Held
  <1>2. ASSUME NEW s \in Seq(S), NEW t \in Seq(S)
        PROVE  Held(s \o t) = Held(s) \cup Held(t)
    <2>1. /\ Len(s) \in Nat /\ Len(t) \in Nat /\ Len(s \o t) = Len(s) + Len(t)
          /\ \A i \in 1 .. Len(s) : (s \o t)[i] = s[i]
          /\ \A i \in 1 .. Len(t) : (s \o t)[Len(s) + i] = t[i]
      OBVIOUS
    <2>2. ASSUME NEW i \in 1 .. Len(s) + Len(t), i \notin 1 .. Len(s)
          PROVE  i - Len(s) \in 1 .. Len(t) /\ i = Len(s) + (i - Len(s))
      BY <2>1, <2>2
    <2>3. ASSUME NEW x \in Held(s \o t)
          PROVE  x \in Held(s) \cup Held(t)
      <3>1. PICK i \in 1 .. Len(s) + Len(t) : x = (s \o t)[i]
        BY <2>1 DEF Held
      <3> QED
        BY <2>1, <2>2, <3>1 DEF Held
    <2>4. ASSUME NEW x \in Held(s) \cup Held(t)
          PROVE  x \in Held(s \o t)
      <3>1. CASE x \in Held(s)
        BY <2>1, <3>1 DEF Held
      <3>2. CASE x \in Held(t)
        <4>1. PICK i \in 1 .. Len(t) : x = t[i]
          BY <3>2 DEF Held
        <4>2. (s \o t)[Len(s) + i] = x
          BY Zenon, <2>1, <4>1
        <4>3. Len(s) + i \in 1 .. Len(s \o t)
          BY <2>1
        <4> QED
          BY Zenon, <4>2, <4>3 DEF Held
      <3> QED
        BY <3>1, <3>2
    <2> QED
      BY <2>3, <2>4
  <1>3. ASSUME NEW a \in S
        PROVE  Held(<<a>>) = {a}
    BY DEF Held
  <1>4. ASSUME NEW s \in Seq(S), s # <<>>
        PROVE  Held(s) = {Head(s)} \cup Held(Tail(s))
    <2>1. Head(s) \in S /\ Tail(s) \in Seq(S) /\ <<Head(s)>> \in Seq(S) /\ s = <<Head(s)>> \o Tail(s)
      BY <1>4, HeadThenTail
    <2> QED
      BY Zenon, <1>2, <1>3, <2>1
  <1> QED
    BY Zenon, <1>1, <1>2, <1>3, <1>4

\* What is in a set that is closed under concatenation is so flattened as well.
LEMMA FlattenInto ==
    ASSUME NEW S, NEW T, T \subseteq Seq(S), <<>> \in T, \A s, t \in T : s \o t \in T,
           NEW n \in Nat, NEW ss \in [1 .. n -> T]
    PROVE  Flatten(ss) \in T
  <1>1. ss \in [1 .. n -> Seq(S)]
    OBVIOUS
  <1>2. PICK r \in [0 .. n -> Seq(S)] : Joins(r, ss, n) /\ Flatten(ss) = r[n]
    BY Zenon, <1>1, FlattenedIsRun
  <1> DEFINE R == {k \in 0 .. n : r[k] \in T}
  <1>3. 0 \in R
    BY <1>2 DEF Joins
  <1>4. ASSUME NEW k \in 0 .. n - 1, k \in R
        PROVE  k + 1 \in R
    <2>1. k + 1 \in 1 .. n /\ (k + 1) - 1 = k /\ k + 1 \in 0 .. n
      OBVIOUS
    <2>2. r[k + 1] = r[k] \o ss[k + 1]
      BY <1>2, <2>1 DEF Joins
    <2>3. r[k] \in T /\ ss[k + 1] \in T
      BY <1>4, <2>1
    <2>4. r[k] \o ss[k + 1] \in T
      BY Zenon, <2>3
    <2> QED
      BY <2>1, <2>2, <2>4
  <1> HIDE DEF R
  <1>5. 0 .. n \subseteq R
    BY <1>3, <1>4, UpTo
  <1>6. n \in R
    BY <1>5
  <1> QED
    BY <1>2, <1>6 DEF R
=============================================================================
