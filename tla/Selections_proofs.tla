-------------------------- MODULE Selections_proofs --------------------------
(***************************************************************************)
(* What Selected does when an element is appended to the queue and when    *)
(* its first element is taken, for every queue: the two facts a refinement *)
(* needs that sees only some of the messages.                              *)
(*                                                                         *)
(* Both are by induction on the length.  The induction theorems of the     *)
(* library have an operator as a parameter; here the induction is over a   *)
(* set of numbers, from the fact that < is well-founded.                   *)
(***************************************************************************)
EXTENDS Selections, WellFoundedInduction, SequenceTheorems, TLAPS

\* Every inhabited set of natural numbers has a least element.
LEMMA LeastNat ==
    ASSUME NEW S, S \subseteq Nat, S # {}
    PROVE  \E m \in S : \A n \in S : m <= n
<1> DEFINE R == {ss \in Nat \X Nat : ss[1] < ss[2]}
<1>1. IsWellFoundedOn(R, Nat)
  BY NatLessThanWellFounded, Zenon DEF OpToRel
<1>2. \A n, m \in Nat : n < m => <<n, m>> \in R
  OBVIOUS
<1> HIDE DEF R
<1>3. PICK m \in S : \A n \in S : ~(<<n, m>> \in R)
  BY <1>1, WFMin
<1>4. ASSUME NEW n \in S PROVE m <= n
  <2>1. m \in Nat /\ n \in Nat /\ ~(n < m)
    BY <1>2, <1>3
  <2> QED
    BY <2>1
<1> QED
  BY <1>4

\* A set that holds 0 and is closed under successor holds every natural number.
LEMMA Induct ==
    ASSUME NEW S, 0 \in S, \A n \in Nat : n \in S => n + 1 \in S
    PROVE  \A n \in Nat : n \in S
<1> SUFFICES ASSUME Nat \ S # {} PROVE FALSE
  OBVIOUS
<1>1. PICK m \in Nat \ S : \A n \in Nat \ S : m <= n
  <2> DEFINE T == Nat \ S
  <2>1. T \subseteq Nat /\ T # {}
    OBVIOUS
  <2> HIDE DEF T
  <2>2. \E m \in T : \A n \in T : m <= n
    BY <2>1, LeastNat
  <2> QED
    BY <2>2 DEF T
<1>2. m # 0
  OBVIOUS
<1>3. m - 1 \in Nat /\ ~(m <= m - 1)
  BY <1>2
<1>4. m - 1 \in S
  BY <1>1, <1>3
<1>5. m - 1 + 1 = m
  OBVIOUS
<1> QED
  BY <1>3, <1>4, <1>5

\* f[n] is what is selected of the first n elements of s.
Selects(f, s, M, k) ==
    f = [n \in 0 .. k |-> IF n = 0 THEN <<>> ELSE Sift(f[n - 1], s[n], M)]

\* The recursion has a solution: one for n elements extends to one for n + 1.
LEMMA SelectsExists ==
    ASSUME NEW M, NEW s, NEW k \in Nat
    PROVE  \E f : Selects(f, s, M, k)
<1> DEFINE T == {n \in Nat : \E f : Selects(f, s, M, n)}
<1>1. 0 \in T
  <2>1. Selects([n \in 0 .. 0 |-> <<>>], s, M, 0)
    BY DEF Selects
  <2> QED
    BY <2>1
<1>2. ASSUME NEW n \in Nat, n \in T
      PROVE  n + 1 \in T
  <2>1. PICK f : Selects(f, s, M, n)
    BY <1>2
  <2> DEFINE g == [i \in 0 .. n + 1 |-> IF i = n + 1 THEN Sift(f[n], s[n + 1], M) ELSE f[i]]
  <2>2. ASSUME NEW i \in 0 .. n + 1
        PROVE  g[i] = IF i = 0 THEN <<>> ELSE Sift(g[i - 1], s[i], M)
    <3>1. CASE i = n + 1
      <4>1. g[i] = Sift(f[n], s[n + 1], M) /\ i # 0 /\ g[i - 1] = f[n]
        BY <3>1
      <4> HIDE DEF g
      <4> QED
        BY <3>1, <4>1
    <3>2. CASE i # n + 1
      <4>1. g[i] = f[i] /\ i \in 0 .. n /\ (i # 0 => g[i - 1] = f[i - 1])
        BY <3>2
      <4>2. f[i] = IF i = 0 THEN <<>> ELSE Sift(f[i - 1], s[i], M)
        BY <2>1, <4>1 DEF Selects
      <4> HIDE DEF g
      <4> QED
        BY <4>1, <4>2
    <3> QED
      BY <3>1, <3>2
  <2>3. Selects(g, s, M, n + 1)
    <3>1. g = [i \in 0 .. n + 1 |-> g[i]]
      OBVIOUS
    <3> HIDE DEF g
    <3> QED
      BY <2>2, <3>1 DEF Selects
  <2> HIDE DEF g
  <2>4. \E h : Selects(h, s, M, n + 1)
    BY <2>3
  <2> QED
    BY <2>4
<1> HIDE DEF T
<1>3. k \in T
  BY <1>1, <1>2, Induct
<1> QED
  BY <1>3 DEF T

\* So the function of the definition satisfies its equation.
LEMMA SelectedIs ==
    ASSUME NEW M, NEW S, NEW s \in Seq(S)
    PROVE  \E f : Selects(f, s, M, Len(s)) /\ Selected(s, M) = f[Len(s)]
<1> DEFINE f == CHOOSE f : f = [n \in 0 .. Len(s) |->
                                 IF n = 0 THEN <<>> ELSE Sift(f[n - 1], s[n], M)]
<1>1. Selected(s, M) = f[Len(s)]
  BY DEF Selected
<1>2. Len(s) \in Nat
  OBVIOUS
<1>3. \E g : Selects(g, s, M, Len(s))
  BY <1>2, SelectsExists
<1>4. Selects(f, s, M, Len(s))
  BY <1>3, Zenon DEF Selects
<1> HIDE DEF f
<1> QED
  BY <1>1, <1>4

\* The equations of that function, one element at a time.
\* The equations of that function, one element at a time.
LEMMA SelectsEquations ==
    ASSUME NEW M, NEW s, NEW k \in Nat, NEW f, Selects(f, s, M, k)
    PROVE  /\ f[0] = <<>>
           /\ \A n \in Nat : n + 1 <= k => f[n + 1] = Sift(f[n], s[n + 1], M)
<1>1. \A n \in 0 .. k : f[n] = IF n = 0 THEN <<>> ELSE Sift(f[n - 1], s[n], M)
  BY DEF Selects
<1>2. f[0] = <<>>
  BY <1>1
<1>3. ASSUME NEW n \in Nat, n + 1 <= k
      PROVE  f[n + 1] = Sift(f[n], s[n + 1], M)
  <2>1. n + 1 \in 0 .. k /\ n + 1 # 0 /\ n + 1 - 1 = n
    BY <1>3
  <2>2. f[n + 1] = Sift(f[n + 1 - 1], s[n + 1], M)
    BY <1>1, <2>1
  <2> QED
    BY <2>1, <2>2
<1> QED
  BY <1>2, <1>3

\* What is selected of a prefix is a sequence over M, no longer than the prefix.
LEMMA SelectsType ==
    ASSUME NEW M, NEW s, NEW k \in Nat, NEW f, Selects(f, s, M, k)
    PROVE  \A n \in Nat : n <= k => f[n] \in Seq(M) /\ Len(f[n]) <= n
<1> DEFINE T == {n \in Nat : n <= k => f[n] \in Seq(M) /\ Len(f[n]) <= n}
<1>1. /\ f[0] = <<>>
      /\ \A n \in Nat : n + 1 <= k => f[n + 1] = Sift(f[n], s[n + 1], M)
  BY SelectsEquations
<1>2. 0 \in T
  <2>1. <<>> \in Seq(M) /\ Len(<<>>) = 0
    OBVIOUS
  <2>2. f[0] \in Seq(M) /\ Len(f[0]) <= 0
    BY <1>1, <2>1
  <2> QED
    BY <2>2
<1>3. ASSUME NEW n \in Nat, n \in T
      PROVE  n + 1 \in T
  <2>1. SUFFICES ASSUME n + 1 <= k
                 PROVE  f[n + 1] \in Seq(M) /\ Len(f[n + 1]) <= n + 1
    OBVIOUS
  <2>2. f[n] \in Seq(M) /\ Len(f[n]) <= n /\ Len(f[n]) \in Nat
    BY <1>3, <2>1
  <2>3. f[n + 1] = Sift(f[n], s[n + 1], M)
    BY <1>1, <2>1
  <2> QED
    BY <2>2, <2>3 DEF Sift
<1> HIDE DEF T
<1>4. \A n \in Nat : n \in T
  BY <1>2, <1>3, Induct
<1> QED
  BY <1>4 DEF T

-----------------------------------------------------------------------------
\* Nothing is selected of an empty queue.
LEMMA SelectedEmpty ==
    ASSUME NEW M
    PROVE  Selected(<<>>, M) = <<>>
<1>1. PICK f : Selects(f, <<>>, M, 0) /\ Selected(<<>>, M) = f[0]
  <2>1. <<>> \in Seq({}) /\ Len(<<>>) = 0
    OBVIOUS
  <2> QED
    BY <2>1, SelectedIs
<1>2. f[0] = <<>>
  BY <1>1, SelectsEquations
<1> QED
  BY <1>1, <1>2

\* What is selected is a queue of the reader's own elements, no longer than the whole.
LEMMA SelectedType ==
    ASSUME NEW M, NEW S, NEW s \in Seq(S)
    PROVE  Selected(s, M) \in Seq(M) /\ Len(Selected(s, M)) <= Len(s)
<1>1. PICK f : Selects(f, s, M, Len(s)) /\ Selected(s, M) = f[Len(s)]
  BY SelectedIs
<1>2. Len(s) \in Nat /\ Len(s) <= Len(s)
  OBVIOUS
<1> QED
  BY <1>1, <1>2, SelectsType

\* The first n elements decide what is selected of them.
LEMMA SelectsAgree ==
    ASSUME NEW M, NEW s, NEW t, NEW j \in Nat, NEW k \in Nat, NEW m \in Nat, m <= j, m <= k,
           NEW f, Selects(f, s, M, j), NEW g, Selects(g, t, M, k),
           \A n \in 1 .. m : s[n] = t[n]
    PROVE  f[m] = g[m]
<1> DEFINE T == {n \in Nat : n <= m => f[n] = g[n]}
<1>a. /\ f[0] = <<>>
      /\ \A n \in Nat : n + 1 <= j => f[n + 1] = Sift(f[n], s[n + 1], M)
  <2>1. j \in Nat /\ k \in Nat /\ Selects(f, s, M, j) /\ Selects(g, t, M, k)
    OBVIOUS
  <2> QED
    BY ONLY <2>1, SelectsEquations
<1>b. /\ g[0] = <<>>
      /\ \A n \in Nat : n + 1 <= k => g[n + 1] = Sift(g[n], t[n + 1], M)
  <2>1. j \in Nat /\ k \in Nat /\ Selects(f, s, M, j) /\ Selects(g, t, M, k)
    OBVIOUS
  <2> QED
    BY ONLY <2>1, SelectsEquations
<1>1. 0 \in T
  BY <1>a, <1>b
<1>2. ASSUME NEW n \in Nat, n \in T
      PROVE  n + 1 \in T
  <2>1. SUFFICES ASSUME n + 1 <= m
                 PROVE  f[n + 1] = g[n + 1]
    OBVIOUS
  <2>2. f[n] = g[n]
    BY <1>2, <2>1
  <2>3. n + 1 <= j /\ n + 1 <= k /\ s[n + 1] = t[n + 1]
    BY <2>1
  <2>4. f[n + 1] = Sift(f[n], s[n + 1], M) /\ g[n + 1] = Sift(g[n], t[n + 1], M)
    BY <2>3, <1>a, <1>b
  <2> QED
    BY <2>2, <2>3, <2>4
<1> HIDE DEF T
<1>3. m \in T
  BY <1>1, <1>2, Induct
<1> QED
  BY <1>3 DEF T

\* An element of the set that is appended to the queue is appended to the selection; any
\* other goes unseen.
THEOREM SelectedAppend ==
    ASSUME NEW M, NEW S, NEW s \in Seq(S), NEW x \in S
    PROVE  Selected(Append(s, x), M) = IF x \in M THEN Append(Selected(s, M), x)
                                                  ELSE Selected(s, M)
<1> DEFINE t == Append(s, x)
<1>1. /\ t \in Seq(S)
      /\ Len(t) = Len(s) + 1
      /\ t[Len(s) + 1] = x
      /\ \A n \in 1 .. Len(s) : s[n] = t[n]
      /\ Len(s) \in Nat
  BY AppendProperties
<1> HIDE DEF t
<1>2. PICK f : Selects(f, s, M, Len(s)) /\ Selected(s, M) = f[Len(s)]
  BY SelectedIs
<1>3. PICK g : Selects(g, t, M, Len(t)) /\ Selected(t, M) = g[Len(t)]
  BY <1>1, SelectedIs
<1>4. f[Len(s)] = g[Len(s)]
  <2> DEFINE j == Len(s)
             k == Len(t)
  <2>1. j \in Nat /\ k \in Nat /\ j <= k /\ j <= j
    BY <1>1
  <2>2. Selects(f, s, M, j) /\ Selects(g, t, M, k) /\ \A n \in 1 .. j : s[n] = t[n]
    BY <1>1, <1>2, <1>3
  <2> HIDE DEF j, k
  <2>3. f[j] = g[j]
    BY <2>1, <2>2, SelectsAgree
  <2> QED
    BY <2>3 DEF j
<1>5. g[Len(s) + 1] = Sift(g[Len(s)], x, M)
  <2>1. Len(t) \in Nat /\ Len(s) + 1 <= Len(t)
    BY <1>1
  <2>2. g[Len(s) + 1] = Sift(g[Len(s)], t[Len(s) + 1], M)
    BY <1>1, <1>3, <2>1, SelectsEquations
  <2> QED
    BY <1>1, <2>2
<1>6. Selected(t, M) = Sift(Selected(s, M), x, M)
  BY <1>1, <1>2, <1>3, <1>4, <1>5
<1> QED
  BY <1>6 DEF Sift, t

\* Taking the first element of the queue takes the first of the selection when it is the
\* reader's, and leaves the selection alone when it is not.
THEOREM SelectedTail ==
    ASSUME NEW M, NEW S, NEW s \in Seq(S), s # <<>>
    PROVE  IF Head(s) \in M
           THEN /\ Selected(s, M) # <<>>
                /\ Head(Selected(s, M)) = Head(s)
                /\ Selected(Tail(s), M) = Tail(Selected(s, M))
           ELSE Selected(Tail(s), M) = Selected(s, M)
<1> DEFINE t == Tail(s)
<1>1. /\ t \in Seq(S)
      /\ Len(s) = Len(t) + 1
      /\ Head(s) = s[1]
      /\ \A n \in 1 .. Len(t) : t[n] = s[n + 1]
      /\ Len(t) \in Nat
      /\ Len(s) \in Nat
  BY HeadTailProperties
<1> HIDE DEF t
<1>2. PICK f : Selects(f, s, M, Len(s)) /\ Selected(s, M) = f[Len(s)]
  BY SelectedIs
<1>3. PICK g : Selects(g, t, M, Len(t)) /\ Selected(t, M) = g[Len(t)]
  BY <1>1, SelectedIs
<1> DEFINE first == IF Head(s) \in M THEN <<Head(s)>> ELSE <<>>
<1> DEFINE T == {n \in Nat : n <= Len(t) => f[n + 1] = first \o g[n]}
<1>4. first \in Seq(M)
  OBVIOUS
<1>f. /\ f[0] = <<>>
      /\ \A n \in Nat : n + 1 <= Len(s) => f[n + 1] = Sift(f[n], s[n + 1], M)
  <2>1. Len(s) \in Nat /\ Selects(f, s, M, Len(s))
    BY <1>1, <1>2
  <2> QED
    BY ONLY <2>1, SelectsEquations
<1>g. /\ g[0] = <<>>
      /\ \A n \in Nat : n + 1 <= Len(t) => g[n + 1] = Sift(g[n], t[n + 1], M)
  <2>1. Len(t) \in Nat /\ Selects(g, t, M, Len(t))
    BY <1>1, <1>3
  <2> QED
    BY ONLY <2>1, SelectsEquations
<1>5. 0 \in T
  <2>2. 0 \in Nat /\ 0 + 1 <= Len(s) /\ 0 + 1 = 1
    BY <1>1
  <2>3. f[0 + 1] = Sift(f[0], s[0 + 1], M)
    BY <1>f, <2>2
  <2>4. f[1] = first
    BY <1>1, <1>f, <2>2, <2>3 DEF Sift
  <2>5. first \o <<>> = first
    BY <1>4
  <2> HIDE DEF first
  <2> QED
    BY <1>g, <2>2, <2>4, <2>5
<1> HIDE DEF first
<1>6. ASSUME NEW n \in Nat, n \in T
      PROVE  n + 1 \in T
  <2>1. SUFFICES ASSUME n + 1 <= Len(t)
                 PROVE  f[n + 1 + 1] = first \o g[n + 1]
    OBVIOUS
  <2>2. f[n + 1] = first \o g[n]
    BY <1>1, <1>6, <2>1
  <2>3. n + 1 \in Nat /\ n + 1 + 1 <= Len(s) /\ s[n + 1 + 1] = t[n + 1]
    BY <1>1, <2>1
  <2>4. f[n + 1 + 1] = Sift(f[n + 1], t[n + 1], M)
    BY <1>f, <2>3
  <2>5. g[n + 1] = Sift(g[n], t[n + 1], M)
    BY <1>g, <2>1
  <2>6. g[n] \in Seq(M)
    <3>1. n <= Len(t)
      BY <1>1, <2>1
    <3> QED
      BY <1>1, <1>3, <3>1, SelectsType
  <2>7. ASSUME NEW x \in M
        PROVE  Append(first \o g[n], x) = first \o Append(g[n], x)
    <3>1. first \o g[n] \in Seq(M) /\ <<x>> \in Seq(M)
      BY <1>4, <2>6
    <3>2. Append(first \o g[n], x) = (first \o g[n]) \o <<x>>
      BY <3>1, AppendIsConcat
    <3>3. (first \o g[n]) \o <<x>> = first \o (g[n] \o <<x>>)
      <4> DEFINE u == <<x>>
                 v == g[n]
      <4>1. first \in Seq(M) /\ v \in Seq(M) /\ u \in Seq(M)
        BY <1>4, <2>6, <3>1
      <4> HIDE DEF u, v
      <4>2. (first \o v) \o u = first \o (v \o u)
        BY ONLY <4>1
      <4> QED
        BY <4>2 DEF u, v
    <3>4. g[n] \o <<x>> = Append(g[n], x)
      BY <2>6, AppendIsConcat
    <3> QED
      BY <3>2, <3>3, <3>4
  <2> QED
    BY <2>2, <2>4, <2>5, <2>7 DEF Sift
<1>7. Selected(s, M) = first \o Selected(t, M)
  <2> HIDE DEF T
  <2>1. \A n \in Nat : n \in T
    BY <1>5, <1>6, Induct
  <2>2. Len(t) \in T
    BY <1>1, <2>1
  <2>3. f[Len(t) + 1] = first \o g[Len(t)]
    BY <1>1, <2>2 DEF T
  <2> QED
    BY <1>1, <1>2, <1>3, <2>3
<1>8. Selected(t, M) \in Seq(M)
  BY <1>1, SelectedType
<1>9. CASE Head(s) \in M
  <2> DEFINE q == Selected(t, M)
  <2>1. q \in Seq(M) /\ Selected(s, M) = <<Head(s)>> \o q
    BY <1>7, <1>8, <1>9 DEF first
  <2> HIDE DEF q
  <2>2. /\ <<Head(s)>> \o q # <<>>
        /\ Head(<<Head(s)>> \o q) = Head(s)
        /\ Tail(<<Head(s)>> \o q) = q
    BY <1>9, <2>1
  <2> QED
    BY <1>9, <2>1, <2>2 DEF t, q
<1>10. CASE Head(s) \notin M
  <2>1. <<>> \o Selected(t, M) = Selected(t, M)
    BY <1>8
  <2> QED
    BY <1>7, <1>10, <2>1 DEF first, t
<1> QED
  BY <1>9, <1>10
=============================================================================
