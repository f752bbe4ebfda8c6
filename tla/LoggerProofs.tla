---------------------------- MODULE LoggerProofs ----------------------------
(***************************************************************************)
(* Proofs about the logger: no event is lost, repeated or overtaken        *)
(* between the ring and the sinks, shutdown() returns with everything      *)
(* before it written and flushed, and the disruptor is used as its         *)
(* abstract stream allows, for any producers, sinks, messages, filters,    *)
(* ring size and number of calls.                                          *)
(*                                                                         *)
(* Selected and EventsOf are recursive functions, so what they compute is  *)
(* proved by induction, in the form SetInduction gives it: a set that has  *)
(* zero and with every number its successor has every natural number.      *)
(*                                                                         *)
(* The last section is about the file sink a strand of the logger writes   *)
(* to: its files and its buffer hold the accepted events in order, across  *)
(* flushes and rotations.                                                  *)
(***************************************************************************)
EXTENDS Logger, FiniteSetTheorems, WellFoundedInduction, TLAPS

-----------------------------------------------------------------------------
(* Induction over the natural numbers. *)

LEMMA HeadTailIs ==
    ASSUME NEW S, NEW q \in Seq(S), q # <<>>
    PROVE  /\ Head(q) \in S /\ Tail(q) \in Seq(S) /\ Len(Tail(q)) = Len(q) - 1
           /\ \A i \in 1 .. Len(Tail(q)) : Tail(q)[i] = q[i + 1]
OBVIOUS

LEMMA SetInduction ==
    ASSUME NEW S, 0 \in S, \A n \in Nat : n \in S => n + 1 \in S
    PROVE  Nat \subseteq S
<1> SUFFICES ASSUME NEW m \in Nat, m \notin S PROVE FALSE
  BY Zenon
<1> DEFINE T == {0 .. n : n \in Nat \ S}
           R == StrictSubsetOrdering(Nat)
<1>1. T \subseteq FiniteSubsetsOf(Nat)
  <2> SUFFICES ASSUME NEW n \in Nat PROVE 0 .. n \in FiniteSubsetsOf(Nat)
    BY Zenon
  <2>1. IsFiniteSet(0 .. n)
    BY FS_Interval
  <2> QED
    BY <2>1 DEF FiniteSubsetsOf
<1>2. PICK n \in Nat \ S : \A k \in Nat \ S : <<0 .. k, 0 .. n>> \notin R
  <2>1. IsWellFoundedOn(R, FiniteSubsetsOf(Nat))
    BY FS_StrictSubsetOrderingWellFounded, Zenon
  <2>2. T # {}
    BY Zenon
  <2> HIDE DEF R
  <2>3. PICK U \in T : \A V \in T : <<V, U>> \notin R
    <3> HIDE DEF T
    <3> QED
      BY <1>1, <2>1, <2>2, WFMin, Zenon
  <2> QED
    BY <2>3, Zenon
<1>3. n # 0 /\ n - 1 \in Nat /\ n - 1 \notin S
  <2>1. n # 0
    BY Zenon
  <2>2. n - 1 \in Nat /\ (n - 1) + 1 = n
    BY <2>1
  <2> QED
    BY <2>1, <2>2, Zenon
<1>4. <<0 .. n - 1, 0 .. n>> \in R
  <2>1. 0 .. n - 1 \subseteq 0 .. n /\ n \in 0 .. n /\ n \notin 0 .. n - 1
    OBVIOUS
  <2>2. 0 .. n - 1 \subseteq Nat /\ 0 .. n \subseteq Nat
    OBVIOUS
  <2> QED
    BY <2>1, <2>2, Zenon DEF StrictSubsetOrdering
<1> QED
  BY <1>2, <1>3, <1>4, Zenon

-----------------------------------------------------------------------------
(* What Selected computes. *)

(* What is selected once x has been looked at too. *)
Selecting(chosen, x, S) == IF x \in S THEN Append(chosen, x) ELSE chosen

(* f[i] is the selection from the first i members of ss, for i up to n. *)
IsSelection(f, ss, S, n) ==
    f = [i \in 0 .. n |->
            IF i = 0 THEN << >>
            ELSE IF ss[i] \in S THEN Append(f[i - 1], ss[i]) ELSE f[i - 1]]

LEMMA SelectionExists ==
    ASSUME NEW ss, NEW S
    PROVE  \A n \in Nat : \E f : IsSelection(f, ss, S, n)
<1> DEFINE I == {n \in Nat : \E f : IsSelection(f, ss, S, n)}
<1>1. 0 \in I
  <2>1. IsSelection([i \in 0 .. 0 |-> << >>], ss, S, 0)
    BY DEF IsSelection
  <2> QED
    BY <2>1, Zenon
<1>2. ASSUME NEW n \in Nat, NEW f, IsSelection(f, ss, S, n)
      PROVE  \E g : IsSelection(g, ss, S, n + 1)
  <2> DEFINE g == [i \in 0 .. n + 1 |->
                      IF i \in 0 .. n THEN f[i]
                      ELSE IF ss[i] \in S THEN Append(f[n], ss[i]) ELSE f[n]]
  <2>1. ASSUME NEW i \in 0 .. n + 1
        PROVE  g[i] = IF i = 0 THEN << >>
                      ELSE IF ss[i] \in S THEN Append(g[i - 1], ss[i]) ELSE g[i - 1]
    <3>1. CASE i = 0
      BY <1>2, <3>1 DEF IsSelection
    <3>2. CASE i \in 1 .. n
      <4>1. i - 1 \in 0 .. n /\ i \in 0 .. n /\ i # 0 /\ i - 1 \in 0 .. n + 1
        BY <3>2
      <4>2. g[i] = f[i] /\ g[i - 1] = f[i - 1]
        BY <4>1, Zenon
      <4>3. f[i] = IF ss[i] \in S THEN Append(f[i - 1], ss[i]) ELSE f[i - 1]
        BY <1>2, <4>1, Zenon DEF IsSelection
      <4> QED
        BY <4>1, <4>2, <4>3, Zenon
    <3>3. CASE i = n + 1
      BY <3>3
    <3> QED
      BY <3>1, <3>2, <3>3
  <2>2. IsSelection(g, ss, S, n + 1)
    <3> HIDE DEF g
    <3>1. g = [i \in 0 .. n + 1 |-> g[i]]
      BY Zenon DEF g
    <3> QED
      BY <2>1, <3>1, Zenon DEF IsSelection
  <2> QED
    BY <2>2, Zenon
<1>3. Nat \subseteq I
  <2>1. \A n \in Nat : n \in I => n + 1 \in I
    BY <1>2
  <2> HIDE DEF I
  <2> QED
    BY <1>1, <2>1, SetInduction, Zenon
<1> QED
  BY <1>3, Zenon

LEMMA SelectedAt ==
    ASSUME NEW A, NEW ss \in Seq(A), NEW S
    PROVE  \E f : IsSelection(f, ss, S, Len(ss)) /\ Selected(ss, S) = f[Len(ss)]
<1>1. Len(ss) \in Nat
  OBVIOUS
<1>2. \E f : IsSelection(f, ss, S, Len(ss))
  BY <1>1, SelectionExists, Zenon
<1> QED
  BY <1>2, Zenon DEF Selected, IsSelection

LEMMA SelectionSteps ==
    ASSUME NEW f, NEW ss, NEW S, NEW n \in Nat, IsSelection(f, ss, S, n)
    PROVE  /\ f[0] = << >>
           /\ \A i \in 0 .. n - 1 :
                 f[i + 1] = Selecting(f[i], ss[i + 1], S)
<1>1. f[0] = << >>
  BY DEF IsSelection
<1>2. ASSUME NEW i \in 0 .. n - 1
      PROVE  f[i + 1] = Selecting(f[i], ss[i + 1], S)
  <2>1. i + 1 \in 0 .. n /\ i + 1 # 0 /\ (i + 1) - 1 = i
    OBVIOUS
  <2> QED
    BY <2>1, Zenon DEF IsSelection, Selecting
<1> QED
  BY <1>1, <1>2, Zenon

(* The first n members of ss and tt are the same and selected alike. *)
Agree(ss, S, tt, T, n) ==
    \A i \in 1 .. n : ss[i] = tt[i] /\ (ss[i] \in S <=> tt[i] \in T)

LEMMA SelectionsAgree ==
    ASSUME NEW f, NEW g, NEW ss, NEW tt, NEW S, NEW T, NEW n \in Nat, NEW m \in Nat,
           IsSelection(f, ss, S, n), IsSelection(g, tt, T, m), n <= m,
           Agree(ss, S, tt, T, n)
    PROVE  \A i \in 0 .. n : f[i] = g[i]
<1> DEFINE I == {i \in Nat : i <= n => f[i] = g[i]}
<1>1. 0 \in I
  BY SelectionSteps, Zenon
<1>2. ASSUME NEW i \in Nat, i \in I
      PROVE  i + 1 \in I
  <2> SUFFICES ASSUME i + 1 <= n PROVE f[i + 1] = g[i + 1]
    OBVIOUS
  <2>1. i \in 0 .. n - 1 /\ i \in 0 .. m - 1 /\ i + 1 \in 1 .. n
    OBVIOUS
  <2>2. f[i] = g[i]
    BY <1>2, <2>1
  <2>3. f[i + 1] = Selecting(f[i], ss[i + 1], S)
    BY <2>1, SelectionSteps
  <2>4. g[i + 1] = Selecting(g[i], tt[i + 1], T)
    BY <2>1, SelectionSteps
  <2> QED
    BY <2>1, <2>2, <2>3, <2>4, Zenon DEF Agree, Selecting
<1>3. Nat \subseteq I
  <2> HIDE DEF I
  <2> QED
    BY <1>1, <1>2, SetInduction, Zenon
<1> QED
  BY <1>3

LEMMA SelectedEmpty ==
    ASSUME NEW S
    PROVE  Selected(<< >>, S) = << >>
<1>1. << >> \in Seq({}) /\ Len(<< >>) = 0
  OBVIOUS
<1>2. PICK f : IsSelection(f, << >>, S, 0) /\ Selected(<< >>, S) = f[0]
  BY <1>1, SelectedAt, Zenon
<1> QED
  BY <1>2, SelectionSteps, Zenon

(* Only the members of ss count, and which of them are in the set. *)
LEMMA SelectedSame ==
    ASSUME NEW A, NEW ss \in Seq(A), NEW S, NEW T,
           \A i \in 1 .. Len(ss) : ss[i] \in S <=> ss[i] \in T
    PROVE  Selected(ss, S) = Selected(ss, T)
<1>0. PICK n \in Nat : n = Len(ss)
  OBVIOUS
<1>1. PICK f : IsSelection(f, ss, S, n) /\ Selected(ss, S) = f[n]
  BY <1>0, SelectedAt, Zenon
<1>2. PICK g : IsSelection(g, ss, T, n) /\ Selected(ss, T) = g[n]
  BY <1>0, SelectedAt, Zenon
<1>3. Agree(ss, S, ss, T, n)
  BY <1>0, Zenon DEF Agree
<1>4. n <= n /\ n \in 0 .. n
  OBVIOUS
<1>5. \A i \in 0 .. n : f[i] = g[i]
  BY <1>1, <1>2, <1>3, <1>4, SelectionsAgree, Zenon
<1> QED
  BY <1>1, <1>2, <1>4, <1>5, Zenon

LEMMA SelectedAppend ==
    ASSUME NEW A, NEW ss \in Seq(A), NEW x \in A, NEW S
    PROVE  Selected(Append(ss, x), S) =
               IF x \in S THEN Append(Selected(ss, S), x) ELSE Selected(ss, S)
<1>0. PICK n \in Nat : n = Len(ss)
  OBVIOUS
<1>1. PICK tt \in Seq(A) : tt = Append(ss, x)
  <2>1. Append(ss, x) \in Seq(A)
    OBVIOUS
  <2> QED
    BY <2>1, Zenon
<1>m. PICK m \in Nat : m = n + 1
  OBVIOUS
<1>2. Len(tt) = m /\ tt[m] = x /\ \A i \in 1 .. n : tt[i] = ss[i]
  BY <1>0, <1>m, <1>1
<1>3. PICK f : IsSelection(f, ss, S, n) /\ Selected(ss, S) = f[n]
  BY <1>0, SelectedAt, Zenon
<1>4. PICK g : IsSelection(g, tt, S, m) /\ Selected(tt, S) = g[m]
  BY <1>2, SelectedAt, Zenon
<1>5. n <= m /\ n \in 0 .. n /\ n \in 0 .. m - 1
  BY <1>m
<1>6. Agree(ss, S, tt, S, n)
  BY <1>2, Zenon DEF Agree
<1>7. f[n] = g[n]
  <2>1. \A i \in 0 .. n : f[i] = g[i]
    BY <1>3, <1>4, <1>5, <1>6, SelectionsAgree, Zenon
  <2> QED
    BY <1>5, <2>1, Zenon
<1>8. g[m] = Selecting(g[n], tt[m], S)
  <2>1. \A i \in 0 .. m - 1 : g[i + 1] = Selecting(g[i], tt[i + 1], S)
    BY <1>4, SelectionSteps
  <2> QED
    BY <1>m, <1>5, <2>1, Zenon
<1> QED
  BY <1>1, <1>2, <1>3, <1>4, <1>7, <1>8, Zenon DEF Selecting

LEMMA SelectionType ==
    ASSUME NEW A, NEW ss \in Seq(A), NEW S, NEW f, NEW n \in Nat, n = Len(ss),
           IsSelection(f, ss, S, n)
    PROVE  \A i \in 0 .. n : f[i] \in Seq(A)
<1> DEFINE I == {i \in Nat : i <= n => f[i] \in Seq(A)}
<1>1. 0 \in I
  <2>1. f[0] = << >>
    BY SelectionSteps, Zenon
  <2>2. << >> \in Seq(A)
    OBVIOUS
  <2> QED
    BY <2>1, <2>2, Zenon
<1>2. ASSUME NEW i \in Nat, i \in I
      PROVE  i + 1 \in I
  <2> SUFFICES ASSUME i + 1 <= n PROVE f[i + 1] \in Seq(A)
    OBVIOUS
  <2>1. i \in 0 .. n - 1 /\ i + 1 \in 1 .. Len(ss) /\ i <= n
    OBVIOUS
  <2>2. f[i] \in Seq(A) /\ ss[i + 1] \in A
    BY <1>2, <2>1
  <2>3. f[i + 1] = Selecting(f[i], ss[i + 1], S)
    BY <2>1, SelectionSteps
  <2> QED
    BY <2>2, <2>3 DEF Selecting
<1>3. Nat \subseteq I
  <2> HIDE DEF I
  <2> QED
    BY <1>1, <1>2, SetInduction, Zenon
<1> QED
  BY <1>3

LEMMA SelectedType ==
    ASSUME NEW A, NEW ss \in Seq(A), NEW S
    PROVE  Selected(ss, S) \in Seq(A)
<1>0. PICK n \in Nat : n = Len(ss)
  OBVIOUS
<1>1. PICK f : IsSelection(f, ss, S, n) /\ Selected(ss, S) = f[n]
  BY <1>0, SelectedAt, Zenon
<1>2. \A i \in 0 .. n : f[i] \in Seq(A)
  BY <1>0, <1>1, SelectionType, Zenon
<1> QED
  BY <1>1, <1>2

(* Concatenation.  Facts about it are stated with a name for it, and the    *)
(* name is expanded only where they are proved.                             *)
Cat(ss, tt) == ss \o tt

LEMMA CatType ==
    ASSUME NEW A, NEW ss \in Seq(A), NEW tt \in Seq(A)
    PROVE  Cat(ss, tt) \in Seq(A) /\ Len(Cat(ss, tt)) = Len(ss) + Len(tt)
BY DEF Cat

LEMMA CatEmpty ==
    ASSUME NEW A, NEW ss \in Seq(A)
    PROVE  Cat(ss, << >>) = ss /\ Cat(<< >>, ss) = ss
BY DEF Cat

LEMMA CatAppend ==
    ASSUME NEW A, NEW ss \in Seq(A), NEW tt \in Seq(A), NEW x \in A
    PROVE  Append(Cat(ss, tt), x) = Cat(ss, Append(tt, x))
BY DEF Cat

LEMMA CatAssociative ==
    ASSUME NEW A, NEW ss \in Seq(A), NEW tt \in Seq(A), NEW uu \in Seq(A)
    PROVE  Cat(Cat(ss, tt), uu) = Cat(ss, Cat(tt, uu))
BY DEF Cat

LEMMA SelectedCat ==
    ASSUME NEW A, NEW ss \in Seq(A), NEW tt \in Seq(A), NEW S
    PROVE  Selected(Cat(ss, tt), S) = Cat(Selected(ss, S), Selected(tt, S))
<1>0. PICK n \in Nat, m \in Nat : n = Len(ss) /\ m = Len(tt)
  OBVIOUS
<1>l. PICK l \in Nat : l = n + m
  OBVIOUS
<1>1. PICK uu \in Seq(A) : uu = Cat(ss, tt)
  BY CatType, Zenon
<1>2. /\ Len(uu) = l /\ \A i \in 1 .. n : uu[i] = ss[i]
      /\ \A i \in 1 .. m : uu[n + i] = tt[i]
  <2>1. /\ Len(uu) = Len(ss) + Len(tt) /\ \A i \in 1 .. Len(ss) : uu[i] = ss[i]
        /\ \A i \in 1 .. Len(tt) : uu[Len(ss) + i] = tt[i]
    BY <1>1 DEF Cat
  <2> QED
    BY <1>0, <1>l, <2>1, Zenon
<1>3. PICK f : IsSelection(f, ss, S, n) /\ Selected(ss, S) = f[n]
  BY <1>0, SelectedAt, Zenon
<1>4. PICK g : IsSelection(g, tt, S, m) /\ Selected(tt, S) = g[m]
  BY <1>0, SelectedAt, Zenon
<1>5. PICK h : IsSelection(h, uu, S, l) /\ Selected(uu, S) = h[l]
  BY <1>2, SelectedAt, Zenon
<1>6. h[n] = f[n]
  <2>1. n <= l /\ n \in 0 .. n
    BY <1>l
  <2>2. Agree(ss, S, uu, S, n)
    BY <1>2, Zenon DEF Agree
  <2>3. \A i \in 0 .. n : f[i] = h[i]
    BY <1>3, <1>5, <2>1, <2>2, SelectionsAgree, Zenon
  <2> QED
    BY <2>1, <2>3, Zenon
<1>7. f[n] \in Seq(A) /\ \A i \in 0 .. m : g[i] \in Seq(A)
  <2>1. (\A i \in 0 .. n : f[i] \in Seq(A)) /\ (\A i \in 0 .. m : g[i] \in Seq(A))
    BY <1>0, <1>3, <1>4, SelectionType, Zenon
  <2> QED
    BY <2>1
<1> DEFINE P(i) == h[n + i] = Cat(f[n], g[i])
           I == {i \in Nat : i <= m => P(i)}
<1>8. P(0)
  <2>1. g[0] = << >>
    BY <1>4, SelectionSteps, Zenon
  <2>2. n + 0 = n /\ Cat(f[n], << >>) = f[n]
    BY <1>7, CatEmpty
  <2> QED
    BY <1>6, <2>1, <2>2, Zenon
<1>9. ASSUME NEW i \in Nat, P(i), i + 1 <= m
      PROVE  P(i + 1)
  <2>1. /\ i \in 0 .. m - 1 /\ i + 1 \in 1 .. m /\ i \in 0 .. m
        /\ n + i \in 0 .. l - 1 /\ (n + i) + 1 = n + (i + 1)
    BY <1>9, <1>l
  <2>2. uu[n + (i + 1)] = tt[i + 1] /\ tt[i + 1] \in A
    BY <1>0, <1>2, <2>1
  <2>3. g[i + 1] = Selecting(g[i], tt[i + 1], S)
    BY <1>4, <2>1, SelectionSteps
  <2>4. h[(n + i) + 1] = Selecting(h[n + i], uu[(n + i) + 1], S)
    BY <1>5, <2>1, SelectionSteps
  <2>5. Append(Cat(f[n], g[i]), tt[i + 1]) = Cat(f[n], Append(g[i], tt[i + 1]))
    <3>1. f[n] \in Seq(A) /\ g[i] \in Seq(A)
      BY <1>7, <2>1, Zenon
    <3>2. PICK aa \in Seq(A), bb \in Seq(A), x \in A : aa = f[n] /\ bb = g[i] /\ x = tt[i + 1]
      BY <2>2, <3>1, Zenon
    <3>3. Append(Cat(aa, bb), x) = Cat(aa, Append(bb, x))
      BY CatAppend
    <3> QED
      BY <3>2, <3>3, Zenon
  <2> QED
    BY <1>9, <2>1, <2>2, <2>3, <2>4, <2>5, Zenon DEF Selecting
<1>10. Nat \subseteq I
  <2> HIDE DEF P
  <2>1. 0 \in I
    BY <1>8, Zenon
  <2>2. \A i \in Nat : i \in I => i + 1 \in I
    <3> SUFFICES ASSUME NEW i \in Nat, i <= m => P(i), i + 1 <= m
                 PROVE  P(i + 1)
      OBVIOUS
    <3>1. i <= m
      OBVIOUS
    <3> QED
      BY <1>9, <3>1, Zenon
  <2> HIDE DEF I
  <2> QED
    BY <2>1, <2>2, SetInduction, Zenon
<1>11. P(m)
  <2> HIDE DEF P
  <2> QED
    BY <1>10
<1> QED
  BY <1>1, <1>3, <1>4, <1>5, <1>11, <1>l, Zenon

-----------------------------------------------------------------------------
(* What EventsOf computes. *)

Tasks(A) == [kind : {"batch", "flush", "last_flush"}, events : Seq(A)]

(* f[i] joins the events of the first i tasks, for i up to n. *)
IsJoin(f, tasks, n) ==
    f = [i \in 0 .. n |-> IF i = 0 THEN << >> ELSE Cat(f[i - 1], tasks[i].events)]

LEMMA JoinExists ==
    ASSUME NEW tasks
    PROVE  \A n \in Nat : \E f : IsJoin(f, tasks, n)
<1> DEFINE I == {n \in Nat : \E f : IsJoin(f, tasks, n)}
<1>1. 0 \in I
  <2>1. IsJoin([i \in 0 .. 0 |-> << >>], tasks, 0)
    BY DEF IsJoin
  <2> QED
    BY <2>1, Zenon
<1>2. ASSUME NEW n \in Nat, NEW f, IsJoin(f, tasks, n)
      PROVE  \E g : IsJoin(g, tasks, n + 1)
  <2> DEFINE g == [i \in 0 .. n + 1 |->
                      IF i \in 0 .. n THEN f[i] ELSE Cat(f[n], tasks[i].events)]
  <2>1. ASSUME NEW i \in 0 .. n + 1
        PROVE  g[i] = IF i = 0 THEN << >> ELSE Cat(g[i - 1], tasks[i].events)
    <3>1. CASE i = 0
      BY <1>2, <3>1 DEF IsJoin
    <3>2. CASE i \in 1 .. n
      <4>1. i - 1 \in 0 .. n /\ i \in 0 .. n /\ i # 0 /\ i - 1 \in 0 .. n + 1
        BY <3>2
      <4>2. g[i] = f[i] /\ g[i - 1] = f[i - 1]
        BY <4>1, Zenon
      <4>3. f[i] = Cat(f[i - 1], tasks[i].events)
        BY <1>2, <4>1, Zenon DEF IsJoin
      <4> QED
        BY <4>1, <4>2, <4>3, Zenon
    <3>3. CASE i = n + 1
      BY <3>3
    <3> QED
      BY <3>1, <3>2, <3>3
  <2>2. IsJoin(g, tasks, n + 1)
    <3> HIDE DEF g
    <3>1. g = [i \in 0 .. n + 1 |-> g[i]]
      BY Zenon DEF g
    <3> QED
      BY <2>1, <3>1, Zenon DEF IsJoin
  <2> QED
    BY <2>2, Zenon
<1>3. Nat \subseteq I
  <2>1. \A n \in Nat : n \in I => n + 1 \in I
    BY <1>2
  <2> HIDE DEF I
  <2> QED
    BY <1>1, <2>1, SetInduction, Zenon
<1> QED
  BY <1>3, Zenon

LEMMA EventsAt ==
    ASSUME NEW B, NEW tasks \in Seq(B)
    PROVE  \E f : IsJoin(f, tasks, Len(tasks)) /\ EventsOf(tasks) = f[Len(tasks)]
<1>1. Len(tasks) \in Nat
  OBVIOUS
<1>2. \E f : IsJoin(f, tasks, Len(tasks))
  BY <1>1, JoinExists, Zenon
<1> QED
  BY <1>2, Zenon DEF EventsOf, IsJoin, Cat

LEMMA JoinSteps ==
    ASSUME NEW f, NEW tasks, NEW n \in Nat, IsJoin(f, tasks, n)
    PROVE  /\ f[0] = << >>
           /\ \A i \in 0 .. n - 1 : f[i + 1] = Cat(f[i], tasks[i + 1].events)
<1>1. f[0] = << >>
  BY DEF IsJoin
<1>2. ASSUME NEW i \in 0 .. n - 1
      PROVE  f[i + 1] = Cat(f[i], tasks[i + 1].events)
  <2>1. i + 1 \in 0 .. n /\ i + 1 # 0 /\ (i + 1) - 1 = i
    OBVIOUS
  <2> QED
    BY <2>1, Zenon DEF IsJoin
<1> QED
  BY <1>1, <1>2, Zenon

LEMMA JoinType ==
    ASSUME NEW A, NEW tasks \in Seq(Tasks(A)), NEW f, NEW n \in Nat, n = Len(tasks),
           IsJoin(f, tasks, n)
    PROVE  \A i \in 0 .. n : f[i] \in Seq(A)
<1> DEFINE I == {i \in Nat : i <= n => f[i] \in Seq(A)}
<1>1. 0 \in I
  <2>1. f[0] = << >>
    BY JoinSteps, Zenon
  <2>2. << >> \in Seq(A)
    OBVIOUS
  <2> QED
    BY <2>1, <2>2, Zenon
<1>2. ASSUME NEW i \in Nat, i \in I
      PROVE  i + 1 \in I
  <2> SUFFICES ASSUME i + 1 <= n PROVE f[i + 1] \in Seq(A)
    OBVIOUS
  <2>1. i \in 0 .. n - 1 /\ i + 1 \in 1 .. Len(tasks) /\ i <= n
    OBVIOUS
  <2>2. f[i] \in Seq(A) /\ tasks[i + 1] \in Tasks(A)
    BY <1>2, <2>1
  <2>3. f[i + 1] = Cat(f[i], tasks[i + 1].events) /\ tasks[i + 1].events \in Seq(A)
    <3>1. \A j \in 0 .. n - 1 : f[j + 1] = Cat(f[j], tasks[j + 1].events)
      BY JoinSteps, Zenon
    <3>2. tasks[i + 1].events \in Seq(A)
      BY <2>2 DEF Tasks
    <3> QED
      BY <2>1, <3>1, <3>2, Zenon
  <2> QED
    BY <2>2, <2>3, CatType, Zenon
<1>3. Nat \subseteq I
  <2> HIDE DEF I
  <2> QED
    BY <1>1, <1>2, SetInduction, Zenon
<1> QED
  BY <1>3

LEMMA EventsType ==
    ASSUME NEW A, NEW tasks \in Seq(Tasks(A))
    PROVE  EventsOf(tasks) \in Seq(A)
<1>0. PICK n \in Nat : n = Len(tasks)
  OBVIOUS
<1>1. PICK f : IsJoin(f, tasks, n) /\ EventsOf(tasks) = f[n]
  BY <1>0, EventsAt, Zenon
<1>2. \A i \in 0 .. n : f[i] \in Seq(A)
  BY <1>0, <1>1, JoinType, Zenon
<1> QED
  BY <1>1, <1>2

LEMMA EventsEmpty == EventsOf(<< >>) = << >>
<1>1. << >> \in Seq({}) /\ Len(<< >>) = 0
  OBVIOUS
<1>2. PICK f : IsJoin(f, << >>, 0) /\ EventsOf(<< >>) = f[0]
  BY <1>1, EventsAt, Zenon
<1> QED
  BY <1>2, JoinSteps, Zenon

LEMMA EventsAppend ==
    ASSUME NEW B, NEW tasks \in Seq(B), NEW t \in B
    PROVE  EventsOf(Append(tasks, t)) = Cat(EventsOf(tasks), t.events)
<1>0. PICK n \in Nat : n = Len(tasks)
  OBVIOUS
<1>m. PICK m \in Nat : m = n + 1
  OBVIOUS
<1>1. PICK q \in Seq(B) : q = Append(tasks, t)
  <2>1. Append(tasks, t) \in Seq(B)
    OBVIOUS
  <2> QED
    BY <2>1, Zenon
<1>2. Len(q) = m /\ q[m] = t /\ \A i \in 1 .. n : q[i] = tasks[i]
  BY <1>0, <1>m, <1>1
<1>3. PICK f : IsJoin(f, tasks, n) /\ EventsOf(tasks) = f[n]
  BY <1>0, EventsAt, Zenon
<1>4. PICK g : IsJoin(g, q, m) /\ EventsOf(q) = g[m]
  BY <1>2, EventsAt, Zenon
<1> DEFINE I == {i \in Nat : i <= n => f[i] = g[i]}
<1>5. 0 \in I
  BY <1>3, <1>4, JoinSteps, Zenon
<1>6. ASSUME NEW i \in Nat, i \in I
      PROVE  i + 1 \in I
  <2> SUFFICES ASSUME i + 1 <= n PROVE f[i + 1] = g[i + 1]
    OBVIOUS
  <2>1. i \in 0 .. n - 1 /\ i \in 0 .. m - 1 /\ i + 1 \in 1 .. n
    BY <1>m
  <2>2. f[i] = g[i] /\ q[i + 1] = tasks[i + 1]
    BY <1>2, <1>6, <2>1
  <2>3. f[i + 1] = Cat(f[i], tasks[i + 1].events) /\ g[i + 1] = Cat(g[i], q[i + 1].events)
    <3>1. \A j \in 0 .. n - 1 : f[j + 1] = Cat(f[j], tasks[j + 1].events)
      BY <1>3, <1>4, JoinSteps, Zenon
    <3>2. \A j \in 0 .. m - 1 : g[j + 1] = Cat(g[j], q[j + 1].events)
      BY <1>3, <1>4, JoinSteps, Zenon
    <3> QED
      BY <2>1, <3>1, <3>2, Zenon
  <2> QED
    BY <2>2, <2>3, Zenon
<1>7. Nat \subseteq I
  <2> HIDE DEF I
  <2> QED
    BY <1>5, <1>6, SetInduction, Zenon
<1>8. f[n] = g[n]
  BY <1>7
<1>9. n \in 0 .. m - 1 /\ g[n + 1] = Cat(g[n], q[n + 1].events)
  BY <1>m, <1>4, JoinSteps
<1> QED
  BY <1>1, <1>2, <1>3, <1>4, <1>8, <1>9, <1>m, Zenon

LEMMA EventsTail ==
    ASSUME NEW A, NEW tasks \in Seq(Tasks(A)), tasks # << >>
    PROVE  EventsOf(tasks) = Cat(Head(tasks).events, EventsOf(Tail(tasks)))
<1>0. PICK m \in Nat : m = Len(tasks)
  OBVIOUS
<1>n. PICK n \in Nat : m = n + 1
  BY <1>0
<1>1. PICK q \in Seq(Tasks(A)) : q = Tail(tasks)
  <2>1. Tail(tasks) \in Seq(Tasks(A))
    OBVIOUS
  <2> QED
    BY <2>1, Zenon
<1>2. Len(q) = n /\ \A i \in 1 .. n : q[i] = tasks[i + 1]
  <2>1. Len(q) = Len(tasks) - 1 /\ \A i \in 1 .. Len(q) : q[i] = tasks[i + 1]
    BY <1>1, HeadTailIs, Zenon
  <2>2. m - 1 = n
    BY <1>n
  <2>3. Len(q) = n
    BY <1>0, <2>1, <2>2, Zenon
  <2> QED
    BY <2>1, <2>3, Zenon
<1>e. PICK e \in Seq(A) : e = Head(tasks).events /\ e = tasks[1].events
  <2>1. Head(tasks) \in Tasks(A) /\ Head(tasks) = tasks[1]
    BY HeadTailIs
  <2>2. Head(tasks).events \in Seq(A)
    BY <2>1, Zenon DEF Tasks
  <2> QED
    BY <2>1, <2>2, Zenon
<1>3. PICK f : IsJoin(f, tasks, m) /\ EventsOf(tasks) = f[m]
  BY <1>0, EventsAt, Zenon
<1>4. PICK g : IsJoin(g, q, n) /\ EventsOf(q) = g[n]
  BY <1>2, EventsAt, Zenon
<1>5. \A i \in 0 .. n : g[i] \in Seq(A)
  BY <1>2, <1>4, JoinType, Zenon
<1> DEFINE P(i) == f[i + 1] = Cat(e, g[i])
           I == {i \in Nat : i <= n => P(i)}
<1>6. P(0)
  <2>1. f[0] = << >> /\ g[0] = << >>
    BY <1>3, <1>4, JoinSteps, Zenon
  <2>2. 0 \in 0 .. m - 1 /\ f[0 + 1] = Cat(f[0], tasks[0 + 1].events)
    BY <1>3, <1>n, JoinSteps
  <2>3. Cat(<< >>, e) = e /\ Cat(e, << >>) = e
    BY CatEmpty, Zenon
  <2> QED
    BY <1>e, <2>1, <2>2, <2>3
<1>7. ASSUME NEW i \in Nat, P(i), i + 1 <= n
      PROVE  P(i + 1)
  <2>1. i \in 0 .. n - 1 /\ i + 1 \in 0 .. m - 1 /\ i + 1 \in 1 .. n /\ i \in 0 .. n
    BY <1>7, <1>n
  <2>2. q[i + 1] = tasks[(i + 1) + 1] /\ q[i + 1] \in Tasks(A)
    BY <1>2, <2>1
  <2>3. g[i + 1] = Cat(g[i], q[i + 1].events)
    BY <1>4, <2>1, JoinSteps, Zenon
  <2>4. f[(i + 1) + 1] = Cat(f[i + 1], tasks[(i + 1) + 1].events)
    BY <1>3, <2>1, JoinSteps, Zenon
  <2>5. PICK b \in Seq(A), c \in Seq(A) : b = g[i] /\ c = q[i + 1].events
    BY <1>5, <2>1, <2>2, Zenon DEF Tasks
  <2>6. Cat(Cat(e, b), c) = Cat(e, Cat(b, c))
    BY CatAssociative
  <2> QED
    BY <1>7, <2>2, <2>3, <2>4, <2>5, <2>6, Zenon
<1>8. Nat \subseteq I
  <2> HIDE DEF P
  <2>1. 0 \in I
    BY <1>6, Zenon
  <2>2. \A i \in Nat : i \in I => i + 1 \in I
    <3> SUFFICES ASSUME NEW i \in Nat, i <= n => P(i), i + 1 <= n
                 PROVE  P(i + 1)
      OBVIOUS
    <3>1. i <= n
      OBVIOUS
    <3> QED
      BY <1>7, <3>1, Zenon
  <2> HIDE DEF I
  <2> QED
    BY <2>1, <2>2, SetInduction, Zenon
<1>9. P(n)
  <2> HIDE DEF P
  <2> QED
    BY <1>8
<1> QED
  BY <1>1, <1>e, <1>3, <1>4, <1>9, <1>n, Zenon

(* Tasks without events. *)
LEMMA EventsNone ==
    ASSUME NEW B, NEW tasks \in Seq(B), \A i \in 1 .. Len(tasks) : tasks[i].events = << >>
    PROVE  EventsOf(tasks) = << >>
<1>0. PICK n \in Nat : n = Len(tasks)
  OBVIOUS
<1>1. PICK f : IsJoin(f, tasks, n) /\ EventsOf(tasks) = f[n]
  BY <1>0, EventsAt, Zenon
<1> DEFINE I == {i \in Nat : i <= n => f[i] = << >>}
<1>2. 0 \in I
  BY <1>1, JoinSteps, Zenon
<1>3. ASSUME NEW i \in Nat, i \in I
      PROVE  i + 1 \in I
  <2> SUFFICES ASSUME i + 1 <= n PROVE f[i + 1] = << >>
    OBVIOUS
  <2>1. i \in 0 .. n - 1 /\ i + 1 \in 1 .. Len(tasks)
    BY <1>0
  <2>2. f[i] = << >> /\ tasks[i + 1].events = << >>
    BY <1>3, <2>1
  <2>3. f[i + 1] = Cat(f[i], tasks[i + 1].events)
    BY <1>1, <2>1, JoinSteps, Zenon
  <2>4. Cat(<< >>, << >>) = << >>
    BY DEF Cat
  <2> QED
    BY <2>2, <2>3, <2>4, Zenon
<1>4. Nat \subseteq I
  <2> HIDE DEF I
  <2> QED
    BY <1>2, <1>3, SetInduction, Zenon
<1> QED
  BY <1>1, <1>4

-----------------------------------------------------------------------------
(* The inductive invariant. *)

(* The slots given back are those of the events before next_seq, and a      *)
(* thread that is about to publish holds a place of its own that is not     *)
(* published.                                                               *)
RingInv ==
    /\ gating = next_seq - 1
    /\ next_seq <= Len(claims)
    /\ \A t \in Threads : pc[t] = "publish" => mine[t] \in 0 .. Cursor /\ mine[t] \notin published
    /\ \A t, u \in Threads :
           pc[t] = "publish" /\ pc[u] = "publish" /\ t # u => mine[t] # mine[u]

(* Where the consumer is in the published run it has found.                 *)
ScanInv ==
    /\ cpc = "scan" => next_seq - 1 <= bound
    /\ cpc = "take" => next_seq <= seq /\ seq <= highest
    /\ cpc = "gate" => next_seq < seq /\ seq <= highest + 1
    /\ cpc \in {"take", "gate"} => \A s \in next_seq .. highest : s \in published
    /\ cpc = "post" => sink \in Sinks

(* There is one shutdown event at most, the closer's; until it is taken     *)
(* running_ is set, and after it nothing is taken.                          *)
ShutdownInv ==
    /\ msg[Closer] = Shutdown
    /\ \A p \in Producers : /\ pc[p] \in {"idle", "claim", "publish", "signal"}
                            /\ pc[p] = "claim" => msg[p] \in Messages
    /\ pc[Closer] \notin {"idle", "claim"} => mine[Closer] \in 0 .. Cursor
    /\ \A s \in 0 .. Cursor :
           Event(s) = Shutdown <=> pc[Closer] \notin {"idle", "claim"} /\ s = mine[Closer]
    /\ pc[Closer] \in {"idle", "claim"} => running
    /\ pc[Closer] \in {"drain", "returned"} => cpc = "exit"
    /\ cpc = "exit" => ~running
    /\ ~running => cpc \in {"gate", "post", "check", "exit"} /\ Taken = mine[Closer] + 1
    /\ running => \A s \in 0 .. Taken - 1 : Event(s) # Shutdown

HasLastFlush(tasks) == \E i \in 1 .. Len(tasks) : tasks[i].kind = "last_flush"

OnlyFlushes(tasks) == \A i \in 1 .. Len(tasks) : tasks[i].kind = "flush"

OnlyBatchesHaveEvents(tasks) ==
    \A i \in 1 .. Len(tasks) : tasks[i].kind # "batch" => tasks[i].events = << >>

FlushesAfterLast(tasks) ==
    \A i, j \in 1 .. Len(tasks) :
        i < j /\ tasks[i].kind = "last_flush" => tasks[j].kind = "flush"

Draining == pc[Closer] \in {"drain", "returned"}

(* The strands while shutdown() drains them: the last flush comes after     *)
(* every batch, and behind it a sink has nothing left to write or to flush. *)
DrainInv ==
    /\ \A k \in Sinks : OnlyBatchesHaveEvents(strand[k])
    /\ remaining = Cardinality({k \in Sinks : HasLastFlush(strand[k])})
    /\ ~Draining => \A k \in Sinks : ~HasLastFlush(strand[k])
    /\ pc[Closer] = "returned" => remaining = 0
    /\ Draining => \A k \in Sinks :
           /\ FlushesAfterLast(strand[k])
           /\ ~HasLastFlush(strand[k]) => OnlyFlushes(strand[k]) /\ flushed[k] = Len(written[k])

(* The events of sink k, wherever they are, are the ones it is due. *)
Delivered(k) == written[k] \o Filtered(k, Pending(k) \o Unposted(k)) = Due(k, Taken)

LoggerInv ==
    /\ TypeOK /\ RingInv /\ ScanInv /\ ShutdownInv /\ DrainInv
    /\ \A k \in Sinks : Delivered(k)

-----------------------------------------------------------------------------
(* The end of the published run exists. *)

LEMMA HighestPublishedExists ==
    ASSUME next_seq \in Nat, bound \in Int, next_seq - 1 <= bound
    PROVE  /\ HighestPublished \in next_seq - 1 .. bound
           /\ \A s \in next_seq .. HighestPublished : s \in published
<1> DEFINE End(h) == /\ \A s \in next_seq .. h : s \in published
                     /\ h = bound \/ h + 1 \notin published
           H(d) == (next_seq - 1) + d
           I == {d \in Nat : H(d) <= bound /\ \A s \in next_seq .. H(d) : s \in published}
<1>1. \E h \in next_seq - 1 .. bound : End(h)
  <2> SUFFICES ASSUME \A h \in next_seq - 1 .. bound : ~End(h) PROVE FALSE
    BY Zenon
  <2>1. 0 \in I
    OBVIOUS
  <2>2. ASSUME NEW d \in Nat, d \in I
        PROVE  d + 1 \in I
    <3>1. H(d) \in next_seq - 1 .. bound /\ H(d) + 1 = H(d + 1) /\ H(d) \in Int
      BY <2>2
    <3>2. H(d) # bound /\ H(d) + 1 \in published
      BY <2>2, <3>1, Zenon
    <3>3. H(d + 1) <= bound
      BY <3>1, <3>2
    <3>4. ASSUME NEW s \in next_seq .. H(d + 1)
          PROVE  s \in published
      <4>1. s \in next_seq .. H(d) \/ s = H(d + 1)
        OBVIOUS
      <4> QED
        BY <2>2, <3>1, <3>2, <4>1, Zenon
    <3> QED
      BY <3>3, <3>4
  <2>3. Nat \subseteq I
    <3> HIDE DEF I
    <3> QED
      BY <2>1, <2>2, SetInduction, Zenon
  <2>4. PICK d \in Nat : d = bound - (next_seq - 1) + 1
    OBVIOUS
  <2> QED
    BY <2>3, <2>4
<1>2. HighestPublished = CHOOSE h \in next_seq - 1 .. bound : End(h)
  BY Zenon DEF HighestPublished
<1> HIDE DEF End
<1>3. HighestPublished \in next_seq - 1 .. bound /\ End(HighestPublished)
  BY <1>1, <1>2, Zenon
<1> QED
  BY <1>3, Zenon DEF End

-----------------------------------------------------------------------------
(* Types. *)

LEMMA SeqGrows ==
    ASSUME NEW A, NEW B, A \subseteq B
    PROVE  Seq(A) \subseteq Seq(B)
<1> SUFFICES ASSUME NEW s \in Seq(A) PROVE s \in Seq(B)
  BY Zenon
<1>1. \A i \in 1 .. Len(s) : s[i] \in B
  OBVIOUS
<1>2. s = [i \in 1 .. Len(s) |-> s[i]] /\ Len(s) \in Nat
  OBVIOUS
<1> QED
  BY <1>1, <1>2

LEMMA TasksGrow ==
    ASSUME NEW A, NEW B, A \subseteq B
    PROVE  Seq(Tasks(A)) \subseteq Seq(Tasks(B))
<1>1. Tasks(A) \subseteq Tasks(B)
  <2>1. Seq(A) \subseteq Seq(B)
    BY SeqGrows, Zenon
  <2> QED
    BY <2>1, Zenon DEF Tasks
<1> QED
  BY <1>1, SeqGrows, Zenon

RingType ==
    /\ claims \in Seq(Messages \cup {Shutdown})
    /\ published \subseteq 0 .. Len(claims) - 1
    /\ gating \in Int /\ running \in BOOLEAN /\ strategy \in Strategies

CallerType ==
    /\ pc \in [Threads -> {"idle", "claim", "publish", "signal", "join", "drain", "returned"}]
    /\ msg \in [Threads -> Messages \cup {Shutdown}]
    /\ mine \in [Threads -> -1 .. Len(claims) - 1]
    /\ left \in [Threads -> 0 .. Quota + 2]

ConsumerType ==
    /\ cpc \in {"check", "scan", "take", "gate", "post", "exit",
                "wait", "locked", "falling", "asleep"}
    /\ next_seq \in Nat /\ bound \in -1 .. Len(claims) - 1 /\ seq \in Nat
    /\ highest \in -1 .. Len(claims) - 1
    /\ batch \in Seq(0 .. Len(claims) - 1) /\ sink \in 1 .. Len(SinkConfig) + 1

StrandType ==
    /\ strand \in [Sinks -> Seq(Tasks(0 .. Len(claims) - 1))]
    /\ written \in [Sinks -> Seq(0 .. Len(claims) - 1)]
    /\ flushed \in [Sinks -> Nat]
    /\ remaining \in 0 .. Len(SinkConfig)

LEMMA Types == TypeOK <=> RingType /\ CallerType /\ ConsumerType /\ StrandType
BY Zenon DEF TypeOK, RingType, CallerType, ConsumerType, StrandType, Tasks, Cursor

(* A claim makes the sequence of claims longer by one. *)
LEMMA ClaimGrows ==
    ASSUME TypeOK, NEW t \in Threads, Claim(t)
    PROVE  /\ claims' \in Seq(Messages \cup {Shutdown}) /\ Len(claims') = Len(claims) + 1
           /\ \A s \in 0 .. Cursor : Event(s)' = Event(s)
           /\ Event(Cursor)' = msg[t]
<1>1. claims \in Seq(Messages \cup {Shutdown}) /\ msg[t] \in Messages \cup {Shutdown}
  BY Types, Zenon DEF RingType, CallerType
<1> QED
  BY <1>1 DEF Claim, Cursor, Event

(* The types of the variables after a claim. *)
LEMMA ClaimType ==
    ASSUME TypeOK, NEW t \in Threads, Claim(t)
    PROVE  TypeOK'
<1>0. RingType /\ CallerType /\ ConsumerType /\ StrandType
  BY Types, Zenon
<1>1. claims' \in Seq(Messages \cup {Shutdown}) /\ Len(claims') = Len(claims) + 1
  BY ClaimGrows, Zenon
<1>2. PICK n \in Nat : n = Len(claims)
  BY <1>0 DEF RingType
<1>3. RingType'
  BY <1>0, <1>1, <1>2 DEF Claim, RingType
<1>4. CallerType'
  <2>1. mine' \in [Threads -> -1 .. n] /\ mine[t] \in Int
    BY <1>0, <1>2 DEF Claim, CallerType, Cursor
  <2> QED
    BY <1>0, <1>1, <1>2, <2>1 DEF Claim, CallerType
<1>5. Seq(0 .. n - 1) \subseteq Seq(0 .. n) /\ Seq(Tasks(0 .. n - 1)) \subseteq Seq(Tasks(0 .. n))
  <2>1. 0 .. n - 1 \subseteq 0 .. n
    OBVIOUS
  <2> QED
    BY <2>1, SeqGrows, TasksGrow, Zenon
<1>6. Len(claims') - 1 = n
  BY <1>1, <1>2
<1>7. ConsumerType'
  BY <1>0, <1>2, <1>5, <1>6 DEF Claim, ConsumerType, consumerVars
<1>8. StrandType'
  BY <1>0, <1>2, <1>5, <1>6, Zenon DEF Claim, StrandType, sinkVars
<1> QED
  BY <1>3, <1>4, <1>7, <1>8, Types, PTL

(* What a task of a strand is. *)
LEMMA HeadTask ==
    ASSUME StrandType, NEW k \in Sinks, strand[k] # << >>
    PROVE  /\ strand[k] \in Seq(Tasks(0 .. Len(claims) - 1))
           /\ Len(strand[k]) \in Nat \ {0}
           /\ Head(strand[k]) = strand[k][1]
           /\ Head(strand[k]) \in Tasks(0 .. Len(claims) - 1)
           /\ Tail(strand[k]) \in Seq(Tasks(0 .. Len(claims) - 1))
           /\ Len(Tail(strand[k])) = Len(strand[k]) - 1
           /\ \A i \in 1 .. Len(strand[k]) - 1 : Tail(strand[k])[i] = strand[k][i + 1]
<1>1. PICK q \in Seq(Tasks(0 .. Len(claims) - 1)) : q = strand[k]
  BY Zenon DEF StrandType
<1>2. q # << >>
  BY <1>1, Zenon
<1>3. /\ Len(q) \in Nat \ {0} /\ Head(q) = q[1] /\ Head(q) \in Tasks(0 .. Len(claims) - 1)
      /\ Tail(q) \in Seq(Tasks(0 .. Len(claims) - 1)) /\ Len(Tail(q)) = Len(q) - 1
      /\ \A i \in 1 .. Len(Tail(q)) : Tail(q)[i] = q[i + 1]
  BY <1>2, HeadTailIs
<1> QED
  BY <1>1, <1>3, Zenon

(* A strand that has its last flush is waited for. *)
LEMMA LastFlushCounted ==
    ASSUME LoggerInv, NEW k \in Sinks, HasLastFlush(strand[k])
    PROVE  /\ remaining \in 1 .. Len(SinkConfig)
           /\ remaining - 1 = Cardinality({j \in Sinks : HasLastFlush(strand[j])} \ {k})
<1> DEFINE F == {j \in Sinks : HasLastFlush(strand[j])}
<1>1. IsFiniteSet(F)
  <2>1. IsFiniteSet(Sinks)
    BY SinkConfigAssumption, FS_Interval DEF Sinks
  <2> QED
    BY <2>1, FS_Subset, Zenon
<1>2. k \in F
  BY Zenon
<1>3. remaining = Cardinality(F) /\ remaining \in 0 .. Len(SinkConfig)
  BY Types, Zenon DEF LoggerInv, DrainInv, StrandType
<1> HIDE DEF F
<1>4. Cardinality(F \ {k}) = Cardinality(F) - 1 /\ Cardinality(F \ {k}) \in Nat
  BY <1>1, <1>2, FS_RemoveElement, FS_CardinalityType, Zenon
<1>5. remaining \in 1 .. Len(SinkConfig) /\ remaining - 1 = Cardinality(F \ {k})
  BY <1>3, <1>4, SinkConfigAssumption
<1> QED
  BY <1>5, Zenon DEF F

(* Every step keeps the types. *)
LEMMA TypeInv ==
    ASSUME LoggerInv, [Next]_vars
    PROVE  TypeOK'
<1> USE CloserAssumption, QuotaAssumption, SinkConfigAssumption
<1>0. RingType /\ CallerType /\ ConsumerType /\ StrandType /\ ScanInv /\ RingInv
  BY Types, Zenon DEF LoggerInv
<1>1. ASSUME NEW p \in Producers, StartLog(p) PROVE TypeOK'
  <2>1. RingType' /\ ConsumerType' /\ StrandType'
    BY <1>0, <1>1, Zenon DEF RingType, ConsumerType, StrandType, StartLog, ringVars, consumerVars, sinkVars
  <2>2. CallerType'
    <3>1. p \in Threads /\ left[p] \in 0 .. Quota + 2
      BY <1>0, Zenon DEF Threads, CallerType
    <3>2. left[p] - 1 \in 0 .. Quota + 2
      BY <1>1, <3>1 DEF StartLog
    <3> QED
      BY <1>0, <1>1, <3>1, <3>2, Zenon DEF CallerType, StartLog, ringVars
  <2> QED
    BY <2>1, <2>2, Types, PTL
<1>2. ASSUME NEW p \in Producers, Flush(p) PROVE TypeOK'
  <2>1. RingType' /\ ConsumerType'
    BY <1>0, <1>2, Zenon DEF RingType, ConsumerType, Flush, ringVars, consumerVars
  <2>2. CallerType'
    <3>1. p \in Threads /\ left[p] \in 0 .. Quota + 2
      BY <1>0, Zenon DEF Threads, CallerType
    <3>2. left[p] - 1 \in 0 .. Quota + 2
      BY <1>2, <3>1 DEF Flush
    <3> QED
      BY <1>0, <1>2, <3>1, <3>2, Zenon DEF CallerType, Flush, ringVars
  <2>3. StrandType'
    <3>1. [kind |-> "flush", events |-> << >>] \in Tasks(0 .. Len(claims) - 1)
      BY DEF Tasks
    <3> QED
      BY <1>0, <1>2, <3>1 DEF StrandType, Flush, ringVars
  <2> QED
    BY <2>1, <2>2, <2>3, Types, PTL
<1>3. ASSUME NEW t \in Threads, Claim(t) PROVE TypeOK'
  BY <1>3, ClaimType, Zenon DEF LoggerInv
<1>4. ASSUME NEW t \in Threads, Publish(t) PROVE TypeOK'
  <2>1. RingType'
    <3>1. mine[t] \in 0 .. Len(claims) - 1
      BY <1>0, <1>4, Zenon DEF Publish, RingInv, Cursor
    <3> QED
      BY <1>0, <1>4, <3>1, Zenon DEF RingType, Publish
  <2>2. CallerType' /\ ConsumerType' /\ StrandType'
    BY <1>0, <1>4, Zenon DEF CallerType, ConsumerType, StrandType, Publish, consumerVars, sinkVars
  <2> QED
    BY <2>1, <2>2, Types, PTL
<1>5. ASSUME NEW t \in Threads, Signal(t) PROVE TypeOK'
  <2>1. RingType' /\ CallerType' /\ ConsumerType' /\ StrandType'
    BY <1>0, <1>5, Zenon DEF RingType, CallerType, ConsumerType, StrandType, Signal, ringVars, sinkVars
  <2> QED
    BY <2>1, Types, PTL
<1>6. ASSUME StartShutdown PROVE TypeOK'
  <2>1. RingType' /\ ConsumerType' /\ StrandType'
    BY <1>0, <1>6, Zenon DEF RingType, ConsumerType, StrandType, StartShutdown, ringVars, consumerVars, sinkVars
  <2>2. CallerType'
    <3>1. Closer \in Threads /\ left[Closer] \in 0 .. Quota + 2
      BY <1>0, Zenon DEF Threads, CallerType
    <3>2. left[Closer] - 1 \in 0 .. Quota + 2
      BY <1>6, <3>1 DEF StartShutdown
    <3> QED
      BY <1>0, <1>6, <3>1, <3>2, Zenon DEF CallerType, StartShutdown, ringVars
  <2> QED
    BY <2>1, <2>2, Types, PTL
<1>7. ASSUME Join PROVE TypeOK'
  <2>1. RingType' /\ CallerType' /\ ConsumerType'
    BY <1>0, <1>7, Zenon DEF RingType, CallerType, ConsumerType, Join, ringVars, consumerVars
  <2>2. StrandType'
    <3>1. [kind |-> "last_flush", events |-> << >>] \in Tasks(0 .. Len(claims) - 1)
      BY DEF Tasks
    <3> QED
      BY <1>0, <1>7, <3>1 DEF StrandType, Join, ringVars
  <2> QED
    BY <2>1, <2>2, Types, PTL
<1>8. ASSUME Drained PROVE TypeOK'
  <2>1. RingType' /\ CallerType' /\ ConsumerType' /\ StrandType'
    BY <1>0, <1>8, Zenon DEF RingType, CallerType, ConsumerType, StrandType, Drained, ringVars,
          consumerVars, sinkVars
  <2> QED
    BY <2>1, Types, PTL
<1>9. ASSUME Poll PROVE TypeOK'
  <2>1. RingType' /\ CallerType' /\ StrandType'
    BY <1>0, <1>9, Zenon DEF RingType, CallerType, StrandType, Poll, ringVars, callerVars, sinkVars
  <2>2. ConsumerType'
    <3>1. Len(claims) \in Nat
      BY <1>0 DEF RingType
    <3>2. Cursor \in -1 .. Len(claims) - 1
      BY <3>1 DEF Cursor
    <3> QED
      BY <1>0, <1>9, <3>2, Zenon DEF ConsumerType, Poll, ringVars
  <2> QED
    BY <2>1, <2>2, Types, PTL
<1>10. ASSUME Scan PROVE TypeOK'
  <2>1. RingType' /\ CallerType' /\ StrandType'
    BY <1>0, <1>10, Zenon DEF RingType, CallerType, StrandType, Scan, ringVars, callerVars, sinkVars
  <2>2. HighestPublished \in next_seq - 1 .. bound
    BY <1>0, <1>10, HighestPublishedExists DEF ConsumerType, Scan, ScanInv
  <2>3. HighestPublished \in -1 .. Len(claims) - 1
    <3>1. Len(claims) \in Nat /\ bound <= Len(claims) - 1 /\ next_seq \in Nat /\ bound \in Int
      BY <1>0 DEF RingType, ConsumerType
    <3> QED
      BY <2>2, <3>1
  <2>4. ConsumerType'
    BY <1>0, <1>10, <2>3 DEF ConsumerType, Scan, ringVars
  <2> QED
    BY <2>1, <2>4, Types, PTL
<1>11. ASSUME Take PROVE TypeOK'
  <2>1. RingType' /\ CallerType' /\ StrandType'
    BY <1>0, <1>11, Zenon DEF RingType, CallerType, StrandType, Take, ringVars, callerVars, sinkVars
  <2>2. seq \in 0 .. Len(claims) - 1
    <3>1. Len(claims) \in Nat /\ highest <= Len(claims) - 1 /\ seq \in Nat /\ seq <= highest /\ highest \in Int
      BY <1>0, <1>11 DEF RingType, ConsumerType, ScanInv, Take
    <3> QED
      BY <3>1
  <2>3. batch' \in Seq(0 .. Len(claims) - 1)
    <3>1. batch \in Seq(0 .. Len(claims) - 1)
      BY <1>0, Zenon DEF ConsumerType
    <3>2. Append(batch, seq) \in Seq(0 .. Len(claims) - 1)
      BY <2>2, <3>1
    <3> QED
      BY <1>11, <3>1, <3>2, Zenon DEF Take
  <2>4. ConsumerType'
    BY <1>0, <1>11, <2>3 DEF ConsumerType, Take, ringVars
  <2> QED
    BY <2>1, <2>4, Types, PTL
<1>12. ASSUME UpdateGating PROVE TypeOK'
  <2>1. RingType' /\ CallerType' /\ StrandType'
    BY <1>0, <1>12 DEF RingType, CallerType, ConsumerType, StrandType, UpdateGating, callerVars, sinkVars
  <2>2. ConsumerType'
    BY <1>0, <1>12 DEF ConsumerType, UpdateGating
  <2> QED
    BY <2>1, <2>2, Types, PTL
<1>13. ASSUME Post PROVE TypeOK'
  <2>1. RingType' /\ CallerType'
    BY <1>0, <1>13, Zenon DEF RingType, CallerType, Post, ringVars, callerVars
  <2>2. sink \in 1 .. Len(SinkConfig)
    BY <1>0, <1>13, Zenon DEF ScanInv, Post, Sinks
  <2>3. ConsumerType'
    BY <1>0, <1>13, <2>2 DEF ConsumerType, Post, ringVars
  <2>4. StrandType'
    <3>1. [kind |-> "batch", events |-> batch] \in Tasks(0 .. Len(claims) - 1)
      BY <1>0, Zenon DEF Tasks, ConsumerType
    <3>2. sink \in Sinks /\ strand[sink] \in Seq(Tasks(0 .. Len(claims) - 1))
      BY <1>0, <2>2, Zenon DEF StrandType, Sinks
    <3>3. Append(strand[sink], [kind |-> "batch", events |-> batch]) \in Seq(Tasks(0 .. Len(claims) - 1))
      BY <3>1, <3>2
    <3> QED
      BY <1>0, <1>13, <3>2, <3>3, Zenon DEF StrandType, Post, ringVars
  <2> QED
    BY <2>1, <2>3, <2>4, Types, PTL
<1>14. ASSUME WaitCheck \/ LockedCheck \/ FallAsleep \/ SpuriousWakeup PROVE TypeOK'
  <2>1. RingType' /\ CallerType' /\ ConsumerType' /\ StrandType'
    BY <1>0, <1>14, Zenon DEF RingType, CallerType, ConsumerType, StrandType, WaitCheck, LockedCheck,
          FallAsleep, SpuriousWakeup, waitUnchanged, ringVars, callerVars, sinkVars
  <2> QED
    BY <2>1, Types, PTL
<1>15. ASSUME NEW k \in Sinks, RunStrand(k) PROVE TypeOK'
  <2>1. RingType' /\ CallerType' /\ ConsumerType'
    BY <1>0, <1>15, Zenon DEF RingType, CallerType, ConsumerType, RunStrand, ringVars, callerVars, consumerVars
  <2>2. strand[k] # << >> /\ claims' = claims
    BY <1>15, Zenon DEF RunStrand, ringVars
  <2> DEFINE A == 0 .. Len(claims) - 1
             task == Head(strand[k])
  <2>3. task.events \in Seq(A) /\ Tail(strand[k]) \in Seq(Tasks(A))
    BY <1>0, <2>2, HeadTask, Zenon DEF Tasks
  <2>4. Filtered(k, task.events) \in Seq(A)
    BY <2>3, SelectedType, Zenon DEF Filtered
  <2>5. strand' \in [Sinks -> Seq(Tasks(A))]
    BY <1>0, <1>15, <2>3, Zenon DEF StrandType, RunStrand
  <2>6. written' \in [Sinks -> Seq(A)]
    <3>1. written[k] \o Filtered(k, task.events) \in Seq(A)
      BY <1>0, <2>4 DEF StrandType
    <3> QED
      BY <1>0, <1>15, <3>1, Zenon DEF StrandType, RunStrand
  <2>7. flushed' \in [Sinks -> Nat]
    <3>1. Len(written[k]) \in Nat
      BY <1>0 DEF StrandType
    <3> QED
      BY <1>0, <1>15, <3>1, Zenon DEF StrandType, RunStrand
  <2>8. remaining' \in 0 .. Len(SinkConfig)
    <3>1. CASE task.kind = "last_flush"
      <4>1. HasLastFlush(strand[k])
        BY <1>0, <2>2, <3>1, HeadTask DEF HasLastFlush
      <4>2. remaining \in 1 .. Len(SinkConfig) /\ remaining' = remaining - 1
        BY <1>15, <3>1, <4>1, LastFlushCounted, Zenon DEF RunStrand
      <4> QED
        BY <4>2
    <3>2. CASE task.kind # "last_flush"
      BY <1>0, <1>15, <3>2, Zenon DEF StrandType, RunStrand
    <3> QED
      BY <3>1, <3>2, Zenon
  <2>9. StrandType'
    BY <2>2, <2>5, <2>6, <2>7, <2>8, Zenon DEF StrandType
  <2> QED
    BY <2>1, <2>9, Types, PTL
<1>16. ASSUME UNCHANGED vars PROVE TypeOK'
  <2>1. RingType' /\ CallerType' /\ ConsumerType' /\ StrandType'
    BY <1>0, <1>16, Zenon DEF RingType, CallerType, ConsumerType, StrandType, vars, ringVars, callerVars,
          consumerVars, sinkVars
  <2> QED
    BY <2>1, Types, PTL
<1> QED
  BY <1>1, <1>2, <1>3, <1>4, <1>5, <1>6, <1>7, <1>8, <1>9, <1>10, <1>11, <1>12, <1>13, <1>14,
     <1>15, <1>16, Zenon DEF Next, Caller, Consumer

-----------------------------------------------------------------------------
(* The ring. *)

(* A thread that moves to a place other than the publication. *)
LEMMA RingMoves ==
    ASSUME RingInv, gating' = gating, next_seq' = next_seq, claims' = claims, mine' = mine,
           published' = published,
           \A t \in Threads : pc'[t] = "publish" => pc[t] = "publish"
    PROVE  RingInv'
BY Zenon DEF RingInv, Cursor

LEMMA RingStep ==
    ASSUME LoggerInv, [Next]_vars
    PROVE  RingInv'
<1>0. TypeOK /\ RingType /\ CallerType /\ ConsumerType /\ RingInv /\ ScanInv
  BY Types, Zenon DEF LoggerInv
<1>1. ASSUME NEW p \in Producers, StartLog(p) \/ Flush(p) PROVE RingInv'
  BY <1>0, <1>1, RingMoves, Zenon DEF StartLog, Flush, ringVars, consumerVars, CallerType, Threads
<1>2. ASSUME NEW t \in Threads, Claim(t) PROVE RingInv'
  <2>1. PICK n \in Nat : n = Len(claims) /\ Len(claims') = n + 1
    BY <1>0, <1>2, ClaimGrows DEF RingType
  <2>2. gating' = next_seq' - 1 /\ next_seq' <= Len(claims')
    BY <1>0, <1>2, <2>1 DEF RingInv, Claim, consumerVars, ConsumerType
  <2>3. mine' = [mine EXCEPT ![t] = n] /\ pc' = [pc EXCEPT ![t] = "publish"] /\ published' = published
    BY <1>2, <2>1 DEF Claim, Cursor
  <2>4. n \notin published /\ \A u \in Threads : mine[u] \in -1 .. n - 1
    BY <1>0, <2>1 DEF RingType, CallerType
  <2>5. /\ \A u \in Threads : pc'[u] = "publish" => mine'[u] \in 0 .. n /\ mine'[u] \notin published'
        /\ \A u, v \in Threads :
               pc'[u] = "publish" /\ pc'[v] = "publish" /\ u # v => mine'[u] # mine'[v]
    BY <1>0, <2>1, <2>3, <2>4 DEF RingInv, CallerType, Cursor
  <2> QED
    BY <2>1, <2>2, <2>5 DEF RingInv, Cursor
<1>3. ASSUME NEW t \in Threads, Publish(t) PROVE RingInv'
  <2>1. /\ pc' = [pc EXCEPT ![t] = "signal"] /\ published' = published \cup {mine[t]}
        /\ UNCHANGED <<gating, next_seq, claims, mine>> /\ pc[t] = "publish"
    BY <1>3, Zenon DEF Publish, consumerVars
  <2> QED
    BY <1>0, <2>1, Zenon DEF RingInv, CallerType, Cursor
<1>4. ASSUME NEW t \in Threads, Signal(t) PROVE RingInv'
  BY <1>0, <1>4, RingMoves, Zenon DEF Signal, ringVars, CallerType
<1>5. ASSUME StartShutdown \/ Join \/ Drained PROVE RingInv'
  BY <1>0, <1>5, RingMoves, Zenon DEF StartShutdown, Join, Drained, ringVars, consumerVars, CallerType, Threads
<1>6. ASSUME UpdateGating PROVE RingInv'
  <2>1. /\ gating' = seq - 1 /\ next_seq' = seq /\ UNCHANGED <<claims, mine, pc, published>>
        /\ seq \in Nat /\ seq <= Len(claims)
    <3>1. seq <= highest + 1 /\ highest <= Len(claims) - 1 /\ seq \in Nat /\ highest \in Int /\ Len(claims) \in Nat
      BY <1>0, <1>6 DEF UpdateGating, ScanInv, ConsumerType, RingType
    <3>2. seq <= Len(claims)
      BY <3>1
    <3> QED
      BY <1>6, <3>1, <3>2, Zenon DEF UpdateGating, callerVars
  <2> QED
    BY <1>0, <2>1, Zenon DEF RingInv, Cursor
<1>7. ASSUME Poll \/ Scan \/ Take \/ Post \/ WaitCheck \/ LockedCheck \/ FallAsleep \/ SpuriousWakeup
      PROVE  RingInv'
  <2>1. UNCHANGED <<gating, next_seq, claims, mine, published, pc>>
    BY <1>7, Zenon DEF Poll, Scan, Take, Post, WaitCheck, LockedCheck, FallAsleep, SpuriousWakeup,
          waitUnchanged, ringVars, callerVars
  <2> QED
    BY <1>0, <2>1, RingMoves, Zenon
<1>8. ASSUME (\E k \in Sinks : RunStrand(k)) \/ UNCHANGED vars PROVE RingInv'
  <2>1. UNCHANGED <<gating, next_seq, claims, mine, published, pc>>
    BY <1>8, Zenon DEF RunStrand, vars, ringVars, callerVars, consumerVars
  <2> QED
    BY <1>0, <2>1, RingMoves, Zenon
<1> QED
  BY <1>1, <1>2, <1>3, <1>4, <1>5, <1>6, <1>7, <1>8, Zenon DEF Next, Caller, Consumer

-----------------------------------------------------------------------------
(* The scan of the consumer. *)

LEMMA ScanStep ==
    ASSUME LoggerInv, [Next]_vars
    PROVE  ScanInv'
<1>0. TypeOK /\ RingType /\ CallerType /\ ConsumerType /\ RingInv /\ ScanInv
  BY Types, Zenon DEF LoggerInv
<1>1. ASSUME UNCHANGED <<cpc, next_seq, bound, seq, highest, sink>>, published \subseteq published'
      PROVE  ScanInv'
  BY <1>0, <1>1, Zenon DEF ScanInv
<1>2. ASSUME NEW p \in Producers, StartLog(p) \/ Flush(p) PROVE ScanInv'
  BY <1>1, <1>2, Zenon DEF StartLog, Flush, ringVars, consumerVars
<1>3. ASSUME NEW t \in Threads, Claim(t) \/ Publish(t) PROVE ScanInv'
  BY <1>1, <1>3, Zenon DEF Claim, Publish, consumerVars
<1>4. ASSUME NEW t \in Threads, Signal(t) PROVE ScanInv'
  BY <1>0, <1>4, Zenon DEF Signal, ScanInv, ringVars
<1>5. ASSUME StartShutdown \/ Join \/ Drained PROVE ScanInv'
  BY <1>1, <1>5, Zenon DEF StartShutdown, Join, Drained, ringVars, consumerVars
<1>6. ASSUME Poll PROVE ScanInv'
  <2>1. next_seq - 1 <= Cursor
    BY <1>0 DEF RingInv, RingType, ConsumerType, Cursor
  <2>2. cpc' \in {"scan", "exit"} /\ bound' = Cursor /\ next_seq' = next_seq
    BY <1>6, Zenon DEF Poll
  <2> QED
    BY <2>1, <2>2, Zenon DEF ScanInv
<1>7. ASSUME Scan PROVE ScanInv'
  <2>1. /\ HighestPublished \in next_seq - 1 .. bound
        /\ \A s \in next_seq .. HighestPublished : s \in published
    BY <1>0, <1>7, HighestPublishedExists DEF ConsumerType, Scan, ScanInv
  <2>2. /\ cpc' = (IF HighestPublished < next_seq THEN "wait" ELSE "take")
        /\ seq' = next_seq /\ next_seq' = next_seq /\ highest' = HighestPublished
        /\ published' = published
    BY <1>7, Zenon DEF Scan, ringVars
  <2>3. HighestPublished \in Int /\ next_seq \in Nat
    BY <1>0, <2>1 DEF ConsumerType
  <2> QED
    BY <2>1, <2>2, <2>3 DEF ScanInv
<1>8. ASSUME Take PROVE ScanInv'
  <2>1. /\ cpc' \in {"take", "gate"} /\ (cpc' = "take" => seq < highest)
        /\ seq' = seq + 1 /\ UNCHANGED <<next_seq, highest, published>>
    BY <1>8, Zenon DEF Take, ringVars
  <2>2. seq \in Nat /\ next_seq \in Nat /\ highest \in Int /\ cpc = "take"
    BY <1>0, <1>8 DEF ConsumerType, Take
  <2> QED
    BY <1>0, <2>1, <2>2 DEF ScanInv
<1>9. ASSUME UpdateGating PROVE ScanInv'
  BY <1>9, SinkConfigAssumption DEF UpdateGating, ScanInv, Sinks
<1>10. ASSUME Post PROVE ScanInv'
  BY <1>0, <1>10, SinkConfigAssumption DEF Post, ScanInv, Sinks
<1>11. ASSUME WaitCheck \/ LockedCheck \/ FallAsleep \/ SpuriousWakeup PROVE ScanInv'
  <2>1. cpc' \in {"check", "locked", "falling", "asleep"}
    BY <1>11, Zenon DEF WaitCheck, LockedCheck, FallAsleep, SpuriousWakeup
  <2> QED
    BY <2>1, Zenon DEF ScanInv
<1>12. ASSUME (\E k \in Sinks : RunStrand(k)) \/ UNCHANGED vars PROVE ScanInv'
  BY <1>1, <1>12, Zenon DEF RunStrand, vars, ringVars, consumerVars
<1> QED
  BY <1>2, <1>3, <1>4, <1>5, <1>6, <1>7, <1>8, <1>9, <1>10, <1>11, <1>12, Zenon DEF Next, Caller, Consumer

-----------------------------------------------------------------------------
(* The shutdown event. *)

LEMMA TakenBound ==
    ASSUME LoggerInv
    PROVE  Taken \in Nat /\ Taken <= Len(claims) /\ Len(claims) \in Nat
<1>0. RingType /\ ConsumerType /\ RingInv /\ ScanInv
  BY Types, Zenon DEF LoggerInv
<1>1. Len(claims) \in Nat /\ highest \in Int /\ highest <= Len(claims) - 1 /\ next_seq <= Len(claims)
  BY <1>0 DEF RingType, ConsumerType, RingInv
<1> QED
  BY <1>0, <1>1 DEF Taken, ConsumerType, ScanInv

LEMMA ShutdownStep ==
    ASSUME LoggerInv, [Next]_vars
    PROVE  ShutdownInv'
<1> USE CloserAssumption, ShutdownAssumption
<1>0. TypeOK /\ RingType /\ CallerType /\ ConsumerType /\ ScanInv /\ ShutdownInv
  BY Types, Zenon DEF LoggerInv
<1>t. Taken \in Nat /\ Taken <= Len(claims) /\ Len(claims) \in Nat
  BY TakenBound, Zenon
<1>c. Closer \in Threads /\ \A p \in Producers : p \in Threads /\ p # Closer
  BY Zenon DEF Threads
<1>1. ASSUME NEW p \in Producers, StartLog(p) PROVE ShutdownInv'
  <2>1. /\ pc' = [pc EXCEPT ![p] = "claim"] /\ \E m \in Messages : msg' = [msg EXCEPT ![p] = m]
        /\ UNCHANGED <<claims, mine, running, cpc, seq, next_seq>>
    BY <1>1, Zenon DEF StartLog, ringVars, consumerVars
  <2> QED
    BY <1>0, <1>c, <2>1, Zenon DEF ShutdownInv, CallerType, Cursor, Event, Taken
<1>2. ASSUME NEW t \in Threads, Claim(t) PROVE ShutdownInv'
  <2>1. /\ pc' = [pc EXCEPT ![t] = "publish"] /\ mine' = [mine EXCEPT ![t] = Len(claims)]
        /\ UNCHANGED <<msg, running, cpc, seq, next_seq>> /\ pc[t] = "claim"
    BY <1>0, <1>2 DEF Claim, Cursor, consumerVars, RingType
  <2>2. /\ Len(claims') = Len(claims) + 1 /\ Event(Cursor)' = msg[t]
        /\ \A s \in 0 .. Cursor : Event(s)' = Event(s)
    BY <1>0, <1>2, ClaimGrows, Zenon
  <2>3. Cursor' = Len(claims) /\ Cursor = Len(claims) - 1
    BY <1>t, <2>2 DEF Cursor
  <2>4. Taken' = Taken /\ \A s \in 0 .. Taken - 1 : s \in 0 .. Cursor
    BY <1>t, <2>1, <2>3 DEF Taken
  <2>5. running => \A s \in 0 .. Taken - 1 : Event(s)' # Shutdown
    BY <1>0, <2>2, <2>4, Zenon DEF ShutdownInv
  <2>6. \A s \in 0 .. Len(claims) : s \in 0 .. Cursor \/ s = Cursor'
    BY <1>t, <2>3
  <2>7. \A s \in 0 .. Len(claims) :
            Event(s)' = Shutdown <=> pc'[Closer] \notin {"idle", "claim"} /\ s = mine'[Closer]
    <3>1. CASE t = Closer
      <4>1. pc'[Closer] = "publish" /\ mine'[Closer] = Len(claims) /\ msg[t] = Shutdown
        BY <1>0, <2>1, <3>1, Zenon DEF ShutdownInv, CallerType
      <4>2. \A s \in 0 .. Cursor : Event(s) # Shutdown
        BY <1>0, <2>1, <3>1, Zenon DEF ShutdownInv
      <4>3. \A s \in 0 .. Cursor : s # Len(claims)
        BY <1>t, <2>3
      <4> QED
        BY <2>2, <2>3, <2>6, <4>1, <4>2, <4>3, Zenon
    <3>2. CASE t # Closer
      <4>1. pc'[Closer] = pc[Closer] /\ mine'[Closer] = mine[Closer] /\ msg[t] \in Messages
        BY <1>0, <2>1, <3>2, Zenon DEF ShutdownInv, CallerType, Threads
      <4>2. mine[Closer] # Len(claims)
        BY <1>0, <1>c, <1>t DEF CallerType
      <4> QED
        BY <1>0, <2>2, <2>3, <2>6, <4>1, <4>2, Zenon DEF ShutdownInv
    <3> QED
      BY <3>1, <3>2, Zenon
  <2>8. pc'[Closer] \notin {"idle", "claim"} => mine'[Closer] \in 0 .. Len(claims)
    BY <1>0, <1>c, <1>t, <2>1, <2>3 DEF ShutdownInv, CallerType
  <2>9. pc'[Closer] \in {"idle", "claim"} => pc[Closer] \in {"idle", "claim"}
    BY <1>0, <1>c, <2>1, Zenon DEF CallerType
  <2>10. pc'[Closer] \in {"drain", "returned"} => pc[Closer] \in {"drain", "returned"}
    BY <1>0, <1>c, <2>1, Zenon DEF CallerType
  <2>11. ~running => mine'[Closer] = mine[Closer]
    BY <1>0, <1>c, <2>1, Zenon DEF CallerType, ShutdownInv
  <2>12. \A p \in Producers : /\ pc'[p] \in {"idle", "claim", "publish", "signal"}
                              /\ pc'[p] = "claim" => msg'[p] \in Messages
    BY <1>0, <1>c, <2>1, Zenon DEF CallerType, ShutdownInv
  <2> QED
    BY <1>0, <2>1, <2>3, <2>4, <2>5, <2>7, <2>8, <2>9, <2>10, <2>11, <2>12, Zenon DEF ShutdownInv
<1>3. ASSUME NEW t \in Threads, Publish(t) PROVE ShutdownInv'
  <2>1. /\ pc' = [pc EXCEPT ![t] = "signal"] /\ pc[t] = "publish"
        /\ UNCHANGED <<claims, msg, mine, running, cpc, seq, next_seq>>
    BY <1>3, Zenon DEF Publish, consumerVars
  <2> QED
    BY <1>0, <1>c, <2>1, Zenon DEF ShutdownInv, CallerType, Cursor, Event, Taken
<1>4. ASSUME NEW t \in Threads, Signal(t) PROVE ShutdownInv'
  <2>1. /\ pc' = [pc EXCEPT ![t] = IF t = Closer THEN "join" ELSE "idle"] /\ pc[t] = "signal"
        /\ cpc' = (IF cpc = "asleep" THEN "locked" ELSE cpc)
        /\ UNCHANGED <<claims, msg, mine, running, seq, next_seq>>
    BY <1>4, Zenon DEF Signal, ringVars
  <2>2. Taken' = Taken /\ Cursor' = Cursor /\ \A s : Event(s)' = Event(s)
    BY <2>1, Zenon DEF Taken, Cursor, Event
  <2>3. /\ pc'[Closer] = pc[Closer] \/ (pc[Closer] = "signal" /\ pc'[Closer] = "join")
        /\ \A p \in Producers : pc'[p] = pc[p] \/ pc'[p] = "idle"
    BY <1>0, <1>c, <2>1, Zenon DEF CallerType
  <2>4. cpc' = cpc \/ (cpc = "asleep" /\ cpc' = "locked")
    BY <2>1, Zenon
  <2> QED
    BY <1>0, <2>1, <2>2, <2>3, <2>4, Zenon DEF ShutdownInv
<1>5. ASSUME NEW p \in Producers, Flush(p) PROVE ShutdownInv'
  <2>1. UNCHANGED <<pc, claims, msg, mine, running, cpc, seq, next_seq>>
    BY <1>5, Zenon DEF Flush, ringVars, consumerVars
  <2> QED
    BY <1>0, <2>1, Zenon DEF ShutdownInv, Cursor, Event, Taken
<1>6. ASSUME StartShutdown \/ Join \/ Drained PROVE ShutdownInv'
  <2>1. UNCHANGED <<claims, msg, mine, cpc, seq, next_seq>>
    BY <1>6, Zenon DEF StartShutdown, Join, Drained, ringVars, consumerVars
  <2>2. Taken' = Taken /\ Cursor' = Cursor /\ \A s : Event(s)' = Event(s)
    BY <2>1, Zenon DEF Taken, Cursor, Event
  <2>3. \A p \in Producers : pc'[p] = pc[p]
    BY <1>0, <1>c, <1>6, Zenon DEF CallerType, StartShutdown, Join, Drained
  <2>4. running' = running
    BY <1>0, <1>6, Zenon DEF StartShutdown, Join, Drained, ShutdownInv, RingType
  <2>5. \/ pc[Closer] \in {"idle", "returned"} /\ pc'[Closer] = IF running THEN "claim" ELSE "returned"
        \/ pc[Closer] = "join" /\ cpc = "exit" /\ pc'[Closer] = "drain"
        \/ pc[Closer] = "drain" /\ pc'[Closer] = "returned"
    BY <1>0, <1>c, <1>6, Zenon DEF CallerType, StartShutdown, Join, Drained
  <2> QED
    BY <1>0, <2>1, <2>2, <2>3, <2>4, <2>5, Zenon DEF ShutdownInv
<1>7. ASSUME UNCHANGED <<claims, msg, mine, pc, running>>, Taken' = Taken, cpc # "exit",
             cpc' = "exit" => ~running,
             ~running => cpc' \in {"gate", "post", "check", "exit"}
      PROVE  ShutdownInv'
  <2>1. Cursor' = Cursor /\ \A s : Event(s)' = Event(s)
    BY <1>7, Zenon DEF Cursor, Event
  <2> QED
    BY <1>0, <1>7, <2>1, Zenon DEF ShutdownInv
<1>8. ASSUME Poll \/ Scan \/ UpdateGating \/ Post \/ WaitCheck \/ LockedCheck \/ FallAsleep
             \/ SpuriousWakeup
      PROVE  ShutdownInv'
  <2>1. UNCHANGED <<claims, msg, mine, pc, running>>
    BY <1>8, Zenon DEF Poll, Scan, UpdateGating, Post, WaitCheck, LockedCheck, FallAsleep, SpuriousWakeup,
          waitUnchanged, ringVars, callerVars
  <2>2. Taken' = Taken
    BY <1>8, Zenon DEF Taken, Poll, Scan, UpdateGating, Post, WaitCheck, LockedCheck, FallAsleep,
          SpuriousWakeup, waitUnchanged
  <2>3. cpc # "exit" /\ (cpc' = "exit" => ~running)
    BY <1>8, Zenon DEF Poll, Scan, UpdateGating, Post, WaitCheck, LockedCheck, FallAsleep, SpuriousWakeup
  <2>4. ~running => cpc' \in {"gate", "post", "check", "exit"}
    BY <1>0, <1>8, Zenon DEF ShutdownInv, Poll, Scan, UpdateGating, Post, WaitCheck, LockedCheck,
          FallAsleep, SpuriousWakeup
  <2> QED
    BY <1>7, <2>1, <2>2, <2>3, <2>4, Zenon
<1>9. ASSUME Take PROVE ShutdownInv'
  <2>1. UNCHANGED <<claims, msg, mine, pc>> /\ cpc = "take" /\ seq' = seq + 1
    BY <1>9, Zenon DEF Take, ringVars, callerVars
  <2>2. Cursor' = Cursor /\ \A s : Event(s)' = Event(s)
    BY <2>1, Zenon DEF Cursor, Event
  <2>3. running /\ Taken = seq /\ seq \in 0 .. Cursor
    <3>1. running /\ Taken = seq
      BY <1>0, <2>1, Zenon DEF ShutdownInv, Taken
    <3>2. seq <= highest /\ highest <= Len(claims) - 1 /\ seq \in Nat /\ highest \in Int
      BY <1>0, <1>t, <2>1 DEF ScanInv, ConsumerType
    <3> QED
      BY <1>t, <3>1, <3>2 DEF Cursor
  <2>4. cpc' \in {"take", "gate"} /\ Taken' = seq + 1
    BY <1>9, Zenon DEF Take, Taken
  <2>5. CASE Event(seq) = Shutdown
    <3>1. ~running' /\ cpc' = "gate"
      BY <1>9, <2>5, Zenon DEF Take
    <3>2. pc[Closer] \notin {"idle", "claim"} /\ seq = mine[Closer]
      BY <1>0, <2>3, <2>5, Zenon DEF ShutdownInv
    <3> QED
      BY <1>0, <2>1, <2>2, <2>3, <2>4, <3>1, <3>2, Zenon DEF ShutdownInv
  <2>6. CASE Event(seq) # Shutdown
    <3>1. running' = running
      BY <1>9, <2>6, Zenon DEF Take
    <3>2. \A s \in 0 .. (seq + 1) - 1 : s \in 0 .. seq - 1 \/ s = seq
      BY <2>3 DEF Cursor
    <3>3. \A s \in 0 .. (seq + 1) - 1 : Event(s) # Shutdown
      BY <1>0, <2>3, <2>6, <3>2, Zenon DEF ShutdownInv
    <3> QED
      BY <1>0, <2>1, <2>2, <2>3, <2>4, <3>1, <3>3, Zenon DEF ShutdownInv
  <2> QED
    BY <2>5, <2>6, Zenon
<1>10. ASSUME (\E k \in Sinks : RunStrand(k)) \/ UNCHANGED vars PROVE ShutdownInv'
  <2>1. UNCHANGED <<pc, claims, msg, mine, running, cpc, seq, next_seq>>
    BY <1>10, Zenon DEF RunStrand, vars, ringVars, callerVars, consumerVars
  <2> QED
    BY <1>0, <2>1, Zenon DEF ShutdownInv, Cursor, Event, Taken
<1> QED
  BY <1>1, <1>2, <1>3, <1>4, <1>5, <1>6, <1>8, <1>9, <1>10, Zenon DEF Next, Caller, Consumer

-----------------------------------------------------------------------------
(* The strands. *)

LEMMA AppendedTask ==
    ASSUME NEW B, NEW q \in Seq(B), NEW x \in B, NEW r, r = Append(q, x)
    PROVE  /\ HasLastFlush(r) <=> HasLastFlush(q) \/ x.kind = "last_flush"
           /\ OnlyFlushes(r) <=> OnlyFlushes(q) /\ x.kind = "flush"
           /\ OnlyBatchesHaveEvents(q) /\ (x.kind # "batch" => x.events = << >>)
                  => OnlyBatchesHaveEvents(r)
           /\ FlushesAfterLast(q) /\ x.kind = "flush" => FlushesAfterLast(r)
           /\ ~HasLastFlush(q) => FlushesAfterLast(r)
<1>1. PICK n \in Nat : n = Len(q)
  OBVIOUS
<1>2. Len(r) = n + 1 /\ r[n + 1] = x /\ \A i \in 1 .. n : r[i] = q[i]
  BY <1>1
<1>3. \A i \in 1 .. n + 1 : i \in 1 .. n \/ i = n + 1
  OBVIOUS
<1>4. n + 1 \in 1 .. n + 1 /\ \A i \in 1 .. n : i \in 1 .. n + 1
  OBVIOUS
<1>5. /\ HasLastFlush(r) <=> HasLastFlush(q) \/ x.kind = "last_flush"
      /\ OnlyFlushes(r) <=> OnlyFlushes(q) /\ x.kind = "flush"
      /\ OnlyBatchesHaveEvents(q) /\ (x.kind # "batch" => x.events = << >>) => OnlyBatchesHaveEvents(r)
  BY <1>1, <1>2, <1>3, <1>4, Zenon DEF HasLastFlush, OnlyFlushes, OnlyBatchesHaveEvents
<1>6. FlushesAfterLast(q) /\ x.kind = "flush" => FlushesAfterLast(r)
  BY <1>1, <1>2, <1>3 DEF FlushesAfterLast
<1>7. ~HasLastFlush(q) => FlushesAfterLast(r)
  BY <1>1, <1>2, <1>3 DEF FlushesAfterLast, HasLastFlush
<1> QED
  BY <1>5, <1>6, <1>7, Zenon

LEMMA RemovedTask ==
    ASSUME NEW B, NEW q \in Seq(B), q # << >>
    PROVE  /\ OnlyBatchesHaveEvents(q) => OnlyBatchesHaveEvents(Tail(q))
           /\ FlushesAfterLast(q) => FlushesAfterLast(Tail(q))
           /\ OnlyFlushes(q) => OnlyFlushes(Tail(q)) /\ Head(q).kind = "flush"
           /\ Head(q).kind # "last_flush" => (HasLastFlush(Tail(q)) <=> HasLastFlush(q))
           /\ Head(q).kind = "last_flush" => HasLastFlush(q)
           /\ FlushesAfterLast(q) /\ Head(q).kind = "last_flush" =>
                  OnlyFlushes(Tail(q)) /\ ~HasLastFlush(Tail(q))
<1>1. PICK n \in Nat : Len(q) = n + 1
  OBVIOUS
<1>2. PICK r \in Seq(B) : r = Tail(q)
  BY HeadTailIs, Zenon
<1>3. Len(r) = n /\ Head(q) = q[1] /\ \A i \in 1 .. n : r[i] = q[i + 1]
  <2>1. Len(r) = Len(q) - 1 /\ Head(q) = q[1] /\ \A i \in 1 .. Len(r) : r[i] = q[i + 1]
    BY <1>2, HeadTailIs
  <2>2. (n + 1) - 1 = n
    OBVIOUS
  <2> QED
    BY <1>1, <2>1, <2>2, Zenon
<1>4. 1 \in 1 .. n + 1 /\ \A i \in 1 .. n : i + 1 \in 1 .. n + 1 /\ 1 < i + 1
  OBVIOUS
<1>5. \A i \in 1 .. n + 1 : i = 1 \/ \E j \in 1 .. n : i = j + 1
  <2> SUFFICES ASSUME NEW i \in 1 .. n + 1, i # 1 PROVE i - 1 \in 1 .. n /\ i = (i - 1) + 1
    BY Zenon
  <2> QED
    OBVIOUS
<1>6. /\ OnlyBatchesHaveEvents(q) => OnlyBatchesHaveEvents(r)
      /\ OnlyFlushes(q) => OnlyFlushes(r) /\ Head(q).kind = "flush"
      /\ Head(q).kind = "last_flush" => HasLastFlush(q)
  BY <1>1, <1>3, <1>4, Zenon DEF OnlyBatchesHaveEvents, OnlyFlushes, HasLastFlush
<1>7. FlushesAfterLast(q) => FlushesAfterLast(r)
  BY <1>1, <1>3, <1>4 DEF FlushesAfterLast
<1>8. Head(q).kind # "last_flush" => (HasLastFlush(r) <=> HasLastFlush(q))
  <2>1. ASSUME HasLastFlush(r) PROVE HasLastFlush(q)
    BY <1>1, <1>3, <1>4, <2>1, Zenon DEF HasLastFlush
  <2>2. ASSUME Head(q).kind # "last_flush", HasLastFlush(q) PROVE HasLastFlush(r)
    <3>1. PICK i \in 1 .. n + 1 : q[i].kind = "last_flush"
      BY <1>1, <2>2, Zenon DEF HasLastFlush
    <3>2. PICK j \in 1 .. n : i = j + 1
      BY <1>3, <1>5, <2>2, <3>1, Zenon
    <3> QED
      BY <1>3, <3>1, <3>2, Zenon DEF HasLastFlush
  <2> QED
    BY <2>1, <2>2, Zenon
<1>9. FlushesAfterLast(q) /\ Head(q).kind = "last_flush" => OnlyFlushes(r)
  BY <1>1, <1>3, <1>4 DEF FlushesAfterLast, OnlyFlushes
<1>10. OnlyFlushes(r) => ~HasLastFlush(r)
  BY Zenon DEF OnlyFlushes, HasLastFlush
<1> QED
  BY <1>2, <1>6, <1>7, <1>8, <1>9, <1>10, Zenon

(* Steps that leave the strands and the sinks alone. *)
LEMMA DrainQuiet ==
    ASSUME DrainInv, UNCHANGED <<strand, remaining, flushed, written>>,
           Draining' <=> Draining, pc'[Closer] = "returned" => remaining = 0
    PROVE  DrainInv'
BY Zenon DEF DrainInv

LEMMA DrainStep ==
    ASSUME LoggerInv, [Next]_vars
    PROVE  DrainInv'
<1> USE CloserAssumption, SinkConfigAssumption
<1>0. CallerType /\ StrandType /\ ShutdownInv /\ ScanInv /\ DrainInv
  BY Types, Zenon DEF LoggerInv
<1>c. Closer \in Threads /\ \A p \in Producers : p \in Threads /\ p # Closer
  BY Zenon DEF Threads
<1>q. \A k \in Sinks : strand[k] \in Seq(Tasks(0 .. Len(claims) - 1))
  BY <1>0, Zenon DEF StrandType
<1>1. ASSUME NEW p \in Producers, StartLog(p) PROVE DrainInv'
  <2>1. UNCHANGED <<strand, remaining, flushed, written>> /\ pc'[Closer] = pc[Closer]
    BY <1>0, <1>c, <1>1, Zenon DEF StartLog, CallerType, sinkVars
  <2> QED
    BY <1>0, <2>1, Zenon DEF DrainInv, Draining
<1>2. ASSUME NEW t \in Threads, Claim(t) \/ Publish(t) \/ Signal(t) PROVE DrainInv'
  <2>1. UNCHANGED <<strand, remaining, flushed, written>>
    BY <1>2, Zenon DEF Claim, Publish, Signal, sinkVars
  <2>2. \/ pc'[Closer] = pc[Closer]
        \/ pc[Closer] \in {"claim", "publish", "signal"} /\ pc'[Closer] \in {"publish", "signal", "join"}
    BY <1>0, <1>c, <1>2, Zenon DEF Claim, Publish, Signal, CallerType
  <2> QED
    BY <1>0, <2>1, <2>2, Zenon DEF DrainInv, Draining
<1>3. ASSUME NEW p \in Producers, Flush(p) PROVE DrainInv'
  <2> DEFINE x == [kind |-> "flush", events |-> << >>]
  <2>1. UNCHANGED <<remaining, flushed, written, pc>>
    BY <1>3, Zenon DEF Flush
  <2>2. ASSUME NEW k \in Sinks
        PROVE  /\ HasLastFlush(strand'[k]) <=> HasLastFlush(strand[k])
               /\ OnlyFlushes(strand'[k]) <=> OnlyFlushes(strand[k])
               /\ OnlyBatchesHaveEvents(strand[k]) => OnlyBatchesHaveEvents(strand'[k])
               /\ FlushesAfterLast(strand[k]) => FlushesAfterLast(strand'[k])
    <3>1. PICK q \in Seq(Tasks(0 .. Len(claims) - 1)) : q = strand[k]
      BY <1>q, Zenon
    <3>2. x \in Tasks(0 .. Len(claims) - 1) /\ x.kind = "flush" /\ x.events = << >>
      BY DEF Tasks
    <3>3. strand'[k] = Append(q, x)
      BY <1>3, <3>1, Zenon DEF Flush
    <3> HIDE DEF x
    <3>4. PICK r : r = Append(q, x)
      BY Zenon
    <3>5. /\ HasLastFlush(r) <=> HasLastFlush(q)
          /\ OnlyFlushes(r) <=> OnlyFlushes(q)
          /\ OnlyBatchesHaveEvents(q) => OnlyBatchesHaveEvents(r)
          /\ FlushesAfterLast(q) => FlushesAfterLast(r)
      <4>1. x.kind # "last_flush" /\ x.kind # "batch"
        BY <3>2, Zenon
      <4> QED
        BY <3>2, <3>4, <4>1, AppendedTask, Zenon
    <3>6. strand'[k] = r
      BY <3>3, <3>4, Zenon
    <3> QED
      BY <3>1, <3>5, <3>6, Zenon
  <2>3. {k \in Sinks : HasLastFlush(strand[k])}' = {k \in Sinks : HasLastFlush(strand[k])}
    BY <2>2, Zenon
  <2> QED
    BY <1>0, <2>1, <2>2, <2>3, Zenon DEF DrainInv, Draining
<1>4. ASSUME StartShutdown PROVE DrainInv'
  <2>1. UNCHANGED <<strand, remaining, flushed, written>>
    BY <1>4, Zenon DEF StartShutdown, sinkVars
  <2>2. \/ pc[Closer] = "idle" /\ pc'[Closer] = "claim"
        \/ pc[Closer] = "returned" /\ pc'[Closer] = "returned"
    BY <1>0, <1>c, <1>4, Zenon DEF StartShutdown, CallerType, ShutdownInv
  <2> QED
    BY <1>0, <2>1, <2>2, Zenon DEF DrainInv, Draining
<1>5. ASSUME Join PROVE DrainInv'
  <2> DEFINE x == [kind |-> "last_flush", events |-> << >>]
  <2>1. UNCHANGED <<flushed, written>> /\ remaining' = Len(SinkConfig) /\ pc'[Closer] = "drain" /\ ~Draining
    BY <1>0, <1>c, <1>5, Zenon DEF Join, CallerType, Draining
  <2>2. ASSUME NEW k \in Sinks
        PROVE  /\ HasLastFlush(strand'[k]) /\ FlushesAfterLast(strand'[k])
               /\ OnlyBatchesHaveEvents(strand'[k])
    <3>1. PICK q \in Seq(Tasks(0 .. Len(claims) - 1)) : q = strand[k]
      BY <1>q, Zenon
    <3>2. x \in Tasks(0 .. Len(claims) - 1) /\ x.kind = "last_flush" /\ x.events = << >>
      BY DEF Tasks
    <3>3. strand'[k] = Append(q, x)
      BY <1>5, <3>1, Zenon DEF Join
    <3>4. ~HasLastFlush(q) /\ OnlyBatchesHaveEvents(q)
      BY <1>0, <2>1, <3>1, Zenon DEF DrainInv
    <3> HIDE DEF x
    <3> QED
      BY <3>1, <3>2, <3>3, <3>4, AppendedTask, Zenon
  <2>3. {k \in Sinks : HasLastFlush(strand[k])}' = Sinks
    BY <2>2, Zenon
  <2>4. Cardinality(Sinks) = Len(SinkConfig)
    <3>1. PICK n \in Nat : n = Len(SinkConfig)
      BY SinkConfigAssumption, Zenon
    <3>2. Cardinality(1 .. n) = n
      BY FS_Interval
    <3> QED
      BY <3>1, <3>2, Zenon DEF Sinks
  <2>5. Draining' /\ pc'[Closer] # "returned"
    BY <2>1, Zenon DEF Draining
  <2> QED
    BY <2>1, <2>2, <2>3, <2>4, <2>5, Zenon DEF DrainInv
<1>6. ASSUME Drained PROVE DrainInv'
  <2>1. UNCHANGED <<strand, remaining, flushed, written>> /\ remaining = 0
    BY <1>6, Zenon DEF Drained, sinkVars
  <2>2. pc[Closer] = "drain" /\ pc'[Closer] = "returned"
    BY <1>0, <1>c, <1>6, Zenon DEF Drained, CallerType
  <2> QED
    BY <1>0, <2>1, <2>2, DrainQuiet, Zenon DEF Draining
<1>7. ASSUME Poll \/ Scan \/ Take \/ UpdateGating \/ WaitCheck \/ LockedCheck \/ FallAsleep
             \/ SpuriousWakeup \/ UNCHANGED vars
      PROVE  DrainInv'
  <2>1. UNCHANGED <<strand, remaining, flushed, written, pc>>
    BY <1>7, Zenon DEF Poll, Scan, Take, UpdateGating, WaitCheck, LockedCheck, FallAsleep, SpuriousWakeup,
          waitUnchanged, callerVars, sinkVars, vars
  <2> QED
    BY <1>0, <2>1, Zenon DEF DrainInv, Draining
<1>8. ASSUME Post PROVE DrainInv'
  <2> DEFINE x == [kind |-> "batch", events |-> batch]
  <2>1. /\ UNCHANGED <<remaining, flushed, written, pc>> /\ sink \in Sinks /\ ~Draining
        /\ strand' = [strand EXCEPT ![sink] = Append(strand[sink], x)]
    BY <1>0, <1>8, Zenon DEF Post, callerVars, ScanInv, ShutdownInv, Draining
  <2>2. ASSUME NEW k \in Sinks
        PROVE  ~HasLastFlush(strand'[k]) /\ OnlyBatchesHaveEvents(strand'[k])
    <3>1. PICK q \in Seq(Tasks(0 .. Len(claims) - 1)) : q = strand[k]
      BY <1>q, Zenon
    <3>2. x \in Tasks(0 .. Len(claims) - 1) /\ x.kind = "batch"
      <4>1. batch \in Seq(0 .. Len(claims) - 1)
        BY Types, Zenon DEF LoggerInv, ConsumerType
      <4> QED
        BY <4>1, Zenon DEF Tasks
    <3> HIDE DEF x
    <3>3. strand'[k] = Append(q, x) \/ strand'[k] = q
      BY <1>0, <2>1, <3>1, Zenon DEF StrandType
    <3>4. ~HasLastFlush(q) /\ OnlyBatchesHaveEvents(q)
      BY <1>0, <2>1, <3>1, Zenon DEF DrainInv
    <3> QED
      BY <3>1, <3>2, <3>3, <3>4, AppendedTask, Zenon
  <2>3. {k \in Sinks : HasLastFlush(strand[k])}' = {k \in Sinks : HasLastFlush(strand[k])}
    BY <1>0, <2>1, <2>2, Zenon DEF DrainInv
  <2>4. ~Draining' /\ pc'[Closer] # "returned"
    BY <2>1, Zenon DEF Draining
  <2> QED
    BY <1>0, <2>1, <2>2, <2>3, <2>4, Zenon DEF DrainInv
<1>9. ASSUME NEW k \in Sinks, RunStrand(k) PROVE DrainInv'
  <2>1. PICK q \in Seq(Tasks(0 .. Len(claims) - 1)) : q = strand[k] /\ q # << >>
    BY <1>q, <1>9, Zenon DEF RunStrand
  <2>2. /\ pc' = pc /\ strand' = [strand EXCEPT ![k] = Tail(q)]
        /\ written' = [written EXCEPT ![k] = @ \o Filtered(k, Head(q).events)]
        /\ flushed' = [flushed EXCEPT ![k] = IF Head(q).kind = "batch" THEN @ ELSE Len(written[k])]
        /\ remaining' = IF Head(q).kind = "last_flush" THEN remaining - 1 ELSE remaining
    BY <1>9, <2>1, Zenon DEF RunStrand, callerVars
  <2>3. /\ strand'[k] = Tail(q) /\ \A j \in Sinks : j # k => /\ strand'[j] = strand[j]
                                                             /\ written'[j] = written[j]
                                                             /\ flushed'[j] = flushed[j]
    BY <1>0, <2>2, Zenon DEF StrandType
  <2>4. \A j \in Sinks : OnlyBatchesHaveEvents(strand'[j])
    BY <1>0, <2>1, <2>3, RemovedTask DEF DrainInv
  <2>5. ~Draining => Head(q).kind # "last_flush"
    BY <1>0, <2>1, RemovedTask, Zenon DEF DrainInv
  <2>6. ~Draining => \A j \in Sinks : ~HasLastFlush(strand'[j])
    BY <1>0, <2>1, <2>3, <2>5, RemovedTask DEF DrainInv
  <2>7. remaining' = Cardinality({j \in Sinks : HasLastFlush(strand'[j])})
    <3>1. CASE Head(q).kind = "last_flush"
      <4>1. HasLastFlush(strand[k])
        BY <2>1, <3>1, RemovedTask, Zenon
      <4>2. remaining' = Cardinality({j \in Sinks : HasLastFlush(strand[j])} \ {k})
        BY <2>2, <3>1, <4>1, LastFlushCounted, Zenon
      <4>3. ~HasLastFlush(strand'[k])
        BY <1>0, <2>1, <2>3, <2>5, <3>1, RemovedTask, ZenonT(40) DEF DrainInv
      <4>4. {j \in Sinks : HasLastFlush(strand'[j])} = {j \in Sinks : HasLastFlush(strand[j])} \ {k}
        BY <2>3, <4>1, <4>3, Zenon
      <4> QED
        BY <4>2, <4>4, Zenon
    <3>2. CASE Head(q).kind # "last_flush"
      <4>1. HasLastFlush(strand'[k]) <=> HasLastFlush(strand[k])
        BY <2>1, <2>3, <3>2, RemovedTask
      <4>2. {j \in Sinks : HasLastFlush(strand'[j])} = {j \in Sinks : HasLastFlush(strand[j])}
        BY <2>3, <4>1, Zenon
      <4> QED
        BY <1>0, <2>2, <3>2, <4>2, Zenon DEF DrainInv
    <3> QED
      BY <3>1, <3>2, Zenon
  <2>8. pc'[Closer] = "returned" => remaining' = 0
    <3> SUFFICES ASSUME pc[Closer] = "returned" PROVE remaining' = 0
      BY <2>2, Zenon
    <3>1. remaining = 0
      BY <1>0, Zenon DEF DrainInv
    <3>2. Head(q).kind # "last_flush"
      <4> SUFFICES ASSUME HasLastFlush(strand[k]) PROVE FALSE
        BY <2>1, RemovedTask, Zenon
      <4> QED
        BY <3>1, LastFlushCounted
    <3> QED
      BY <2>2, <3>1, <3>2, Zenon
  <2>9. ASSUME Draining
        PROVE  \A j \in Sinks :
                   /\ FlushesAfterLast(strand'[j])
                   /\ ~HasLastFlush(strand'[j]) =>
                          OnlyFlushes(strand'[j]) /\ flushed'[j] = Len(written'[j])
    <3>1. FlushesAfterLast(q) /\ (~HasLastFlush(q) => OnlyFlushes(q))
      BY <1>0, <2>1, <2>9, Zenon DEF DrainInv
    <3>2. FlushesAfterLast(strand'[k])
      BY <2>1, <2>3, <3>1, RemovedTask, Zenon
    <3>3. ASSUME ~HasLastFlush(strand'[k])
          PROVE  OnlyFlushes(strand'[k]) /\ flushed'[k] = Len(written'[k])
      <4>1. Head(q).kind \in {"flush", "last_flush"} /\ OnlyFlushes(Tail(q))
        BY <2>1, <2>3, <3>1, <3>3, RemovedTask, Zenon
      <4>2. Head(q).events = << >>
        BY <1>0, <2>1, <4>1, HeadTask DEF DrainInv, OnlyBatchesHaveEvents
      <4>3. written'[k] = written[k]
        <5>1. Filtered(k, << >>) = << >>
          BY SelectedEmpty, Zenon DEF Filtered
        <5>2. written[k] \in Seq(0 .. Len(claims) - 1) /\ written[k] \o << >> = written[k]
          BY <1>0 DEF StrandType
        <5> QED
          BY <1>0, <2>2, <4>2, <5>1, <5>2, Zenon DEF StrandType
      <4>4. flushed'[k] = Len(written[k])
        BY <1>0, <2>2, <4>1, Zenon DEF StrandType
      <4> QED
        BY <2>3, <4>1, <4>3, <4>4, Zenon
    <3>4. \A j \in Sinks : j # k =>
              /\ FlushesAfterLast(strand'[j])
              /\ ~HasLastFlush(strand'[j]) =>
                     OnlyFlushes(strand'[j]) /\ flushed'[j] = Len(written'[j])
      BY <1>0, <2>3, <2>9, Zenon DEF DrainInv
    <3> QED
      BY <3>2, <3>3, <3>4, Zenon
  <2>10. Draining' <=> Draining
    BY <2>2, Zenon DEF Draining
  <2> QED
    BY <2>4, <2>6, <2>7, <2>8, <2>9, <2>10, Zenon DEF DrainInv
<1> QED
  BY <1>1, <1>2, <1>3, <1>4, <1>5, <1>6, <1>7, <1>8, <1>9, Zenon DEF Next, Caller, Consumer

-----------------------------------------------------------------------------
(* What is due, and what the filter of a sink keeps. *)

LEMMA DueNext ==
    ASSUME NEW k, NEW n \in Nat
    PROVE  Due(k, n + 1) = IF Event(n) # Shutdown /\ ShouldLog(k, Event(n))
                           THEN Append(Due(k, n), n) ELSE Due(k, n)
<1> DEFINE Wanted(s) == Event(s) # Shutdown /\ ShouldLog(k, Event(s))
           Upto(m) == [i \in 1 .. m |-> i - 1]
           S(m) == {s \in 0 .. m - 1 : Wanted(s)}
<1>1. Due(k, n) = Selected(Upto(n), S(n)) /\ Due(k, n + 1) = Selected(Upto(n + 1), S(n + 1))
  BY Zenon DEF Due
<1>2. Upto(n) \in Seq(0 .. n) /\ Len(Upto(n)) = n /\ n \in 0 .. n
  OBVIOUS
<1>3. Upto(n + 1) = Append(Upto(n), n)
  OBVIOUS
<1> HIDE DEF Wanted
<1>4. \A i \in 1 .. n : Upto(n)[i] \in S(n) <=> Upto(n)[i] \in S(n + 1)
  OBVIOUS
<1>5. n \in S(n + 1) <=> Wanted(n)
  OBVIOUS
<1> HIDE DEF Upto, S
<1>6. Selected(Upto(n), S(n)) = Selected(Upto(n), S(n + 1))
  BY <1>2, <1>4, SelectedSame, Zenon
<1>7. Selected(Append(Upto(n), n), S(n + 1)) =
          IF n \in S(n + 1) THEN Append(Selected(Upto(n), S(n + 1)), n) ELSE Selected(Upto(n), S(n + 1))
  BY <1>2, SelectedAppend, Zenon
<1> QED
  BY <1>1, <1>3, <1>5, <1>6, <1>7, Zenon DEF Wanted

(* The events sink k lets through. *)
Loggable(k) == {s \in 0 .. Len(claims) - 1 : ShouldLog(k, Event(s))}

LEMMA FilteredSelected ==
    ASSUME NEW k, NEW ss \in Seq(0 .. Len(claims) - 1)
    PROVE  Filtered(k, ss) = Selected(ss, Loggable(k))
<1> DEFINE S == {s \in Range(ss) : ShouldLog(k, Event(s))}
<1>1. \A i \in 1 .. Len(ss) : ss[i] \in S <=> ss[i] \in Loggable(k)
  BY DEF Range, Loggable
<1> HIDE DEF S
<1>2. Selected(ss, S) = Selected(ss, Loggable(k))
  BY <1>1, SelectedSame, Zenon
<1> QED
  BY <1>2, Zenon DEF S, Filtered

LEMMA FilteredCat ==
    ASSUME NEW k, NEW ss \in Seq(0 .. Len(claims) - 1), NEW tt \in Seq(0 .. Len(claims) - 1)
    PROVE  Filtered(k, Cat(ss, tt)) = Cat(Filtered(k, ss), Filtered(k, tt))
<1>1. Cat(ss, tt) \in Seq(0 .. Len(claims) - 1)
  BY CatType, Zenon
<1>2. Selected(Cat(ss, tt), Loggable(k)) = Cat(Selected(ss, Loggable(k)), Selected(tt, Loggable(k)))
  BY SelectedCat
<1> QED
  BY <1>1, <1>2, FilteredSelected, Zenon

LEMMA FilteredAppend ==
    ASSUME NEW k, NEW ss \in Seq(0 .. Len(claims) - 1), NEW s \in 0 .. Len(claims) - 1
    PROVE  Filtered(k, Append(ss, s)) = IF ShouldLog(k, Event(s)) THEN Append(Filtered(k, ss), s)
                                        ELSE Filtered(k, ss)
<1>1. Append(ss, s) \in Seq(0 .. Len(claims) - 1)
  OBVIOUS
<1>2. Selected(Append(ss, s), Loggable(k)) =
          IF s \in Loggable(k) THEN Append(Selected(ss, Loggable(k)), s) ELSE Selected(ss, Loggable(k))
  BY SelectedAppend
<1>3. s \in Loggable(k) <=> ShouldLog(k, Event(s))
  BY Zenon DEF Loggable
<1> QED
  BY <1>1, <1>2, <1>3, FilteredSelected, Zenon

LEMMA FilteredType ==
    ASSUME NEW k, NEW ss \in Seq(0 .. Len(claims) - 1)
    PROVE  Filtered(k, ss) \in Seq(0 .. Len(claims) - 1)
BY SelectedType, Zenon DEF Filtered

(* What is behind the events of sink k. *)
LEMMA DeliveredTypes ==
    ASSUME LoggerInv, NEW k \in Sinks
    PROVE  /\ written[k] \in Seq(0 .. Len(claims) - 1)
           /\ strand[k] \in Seq(Tasks(0 .. Len(claims) - 1))
           /\ Pending(k) \in Seq(0 .. Len(claims) - 1)
           /\ batch \in Seq(0 .. Len(claims) - 1)
           /\ Unposted(k) \in Seq(0 .. Len(claims) - 1)
<1>1. /\ written[k] \in Seq(0 .. Len(claims) - 1)
      /\ strand[k] \in Seq(Tasks(0 .. Len(claims) - 1))
      /\ batch \in Seq(0 .. Len(claims) - 1)
  BY Types, Zenon DEF LoggerInv, StrandType, ConsumerType
<1>2. Pending(k) \in Seq(0 .. Len(claims) - 1)
  BY <1>1, EventsType, Zenon DEF Pending
<1>3. << >> \in Seq(0 .. Len(claims) - 1)
  OBVIOUS
<1>4. Unposted(k) \in Seq(0 .. Len(claims) - 1)
  BY <1>1, <1>3, Zenon DEF Unposted
<1> QED
  BY <1>1, <1>2, <1>4, Zenon

(* Delivered, with names for the concatenations. *)
LEMMA DeliveredIs ==
    ASSUME NEW k
    PROVE  Delivered(k) <=> Cat(written[k], Filtered(k, Cat(Pending(k), Unposted(k)))) = Due(k, Taken)
BY Zenon DEF Delivered, Cat

(* Steps that move no event of sink k. *)
LEMMA DeliveredQuiet ==
    ASSUME NEW k, Delivered(k), claims' = claims, written'[k] = written[k],
           Pending(k)' = Pending(k), Unposted(k)' = Unposted(k), Taken' = Taken
    PROVE  Delivered(k)'
BY Zenon DEF Delivered, Filtered, Due, Event

(* A claim comes after every event that was taken. *)
LEMMA DeliveredClaim ==
    ASSUME LoggerInv, NEW t \in Threads, Claim(t), NEW k \in Sinks
    PROVE  Delivered(k)'
<1>1. written' = written /\ strand' = strand /\ Pending(k)' = Pending(k)
  BY Zenon DEF Claim, sinkVars, Pending
<1>2. Unposted(k)' = Unposted(k) /\ Taken' = Taken
  BY Zenon DEF Claim, consumerVars, Unposted, Taken
<1>3. Taken \in Nat /\ Taken <= Len(claims) /\ Len(claims) \in Nat
  BY TakenBound, Zenon
<1>4. \A s \in 0 .. Len(claims) - 1 : Event(s)' = Event(s)
  BY ClaimGrows, Zenon DEF LoggerInv, Cursor
<1>5. Due(k, Taken)' = Due(k, Taken)
  <2>1. \A s \in 0 .. Taken - 1 : Event(s)' = Event(s)
    BY <1>3, <1>4
  <2>2. {s \in 0 .. Taken - 1 : Event(s) # Shutdown /\ ShouldLog(k, Event(s))}'
          = {s \in 0 .. Taken - 1 : Event(s) # Shutdown /\ ShouldLog(k, Event(s))}
    BY <1>2, <2>1, Zenon DEF ShouldLog, Accepts
  <2> QED
    BY <1>2, <2>2, Zenon DEF Due
<1>6. PICK ss \in Seq(0 .. Len(claims) - 1) : ss = Cat(Pending(k), Unposted(k))
  BY DeliveredTypes, CatType, Zenon
<1>7. Filtered(k, ss)' = Filtered(k, ss)
  <2>1. \A s \in Range(ss) : Event(s)' = Event(s)
    BY <1>4 DEF Range
  <2>2. {s \in Range(ss) : ShouldLog(k, Event(s))}' = {s \in Range(ss) : ShouldLog(k, Event(s))}
    BY <2>1, Zenon DEF ShouldLog, Accepts
  <2> QED
    BY <2>2, Zenon DEF Filtered
<1>8. Delivered(k)
  BY Zenon DEF LoggerInv
<1>9. ss = (Pending(k) \o Unposted(k))' /\ ss = Pending(k) \o Unposted(k)
  BY <1>1, <1>2, <1>6, Zenon DEF Cat
<1> QED
  BY <1>1, <1>2, <1>5, <1>7, <1>8, <1>9, Zenon DEF Delivered

(* The consumer takes one event. *)
LEMMA DeliveredTake ==
    ASSUME LoggerInv, Take, NEW k \in Sinks
    PROVE  Delivered(k)'
<1> DEFINE A == 0 .. Len(claims) - 1
<1>0. ConsumerType /\ ScanInv /\ RingType
  BY Types, Zenon DEF LoggerInv
<1>1. claims' = claims /\ written' = written /\ strand' = strand /\ Pending(k)' = Pending(k)
  BY Zenon DEF Take, ringVars, sinkVars, Pending
<1>2. cpc = "take" /\ cpc' \in {"take", "gate"} /\ seq' = seq + 1 /\ seq \in Nat
  BY <1>0, Zenon DEF Take, ConsumerType
<1>3. Taken = seq /\ Taken' = seq + 1 /\ Unposted(k) = batch /\ Unposted(k)' = batch'
  BY <1>2, Zenon DEF Taken, Unposted
<1>4. seq \in A
  <2>1. Len(claims) \in Nat /\ highest <= Len(claims) - 1 /\ seq <= highest /\ highest \in Int
    BY <1>0, <1>2 DEF RingType, ConsumerType, ScanInv
  <2> QED
    BY <1>2, <2>1
<1>5. PICK w \in Seq(A), p \in Seq(A), b \in Seq(A) : w = written[k] /\ p = Pending(k) /\ b = batch
  BY DeliveredTypes, Zenon
<1>6. Cat(w, Filtered(k, Cat(p, b))) = Due(k, seq)
  BY <1>3, <1>5, DeliveredIs, Zenon DEF LoggerInv
<1>7. Due(k, seq + 1) = IF Event(seq) # Shutdown /\ ShouldLog(k, Event(seq))
                         THEN Append(Due(k, seq), seq) ELSE Due(k, seq)
  BY <1>2, DueNext, Zenon
<1>8. Cat(w, Filtered(k, Cat(p, batch'))) = Due(k, seq + 1)
  <2>1. CASE Event(seq) = Shutdown
    <3>1. batch' = b
      BY <1>5, <2>1, Zenon DEF Take
    <3> QED
      BY <1>6, <1>7, <2>1, <3>1, Zenon
  <2>2. CASE Event(seq) # Shutdown
    <3>1. batch' = Append(b, seq)
      BY <1>5, <2>2, Zenon DEF Take
    <3>2. PICK c \in Seq(A) : c = Cat(p, b)
      BY CatType, Zenon
    <3>3. Cat(p, Append(b, seq)) = Append(c, seq)
      <4>1. Append(Cat(p, b), seq) = Cat(p, Append(b, seq))
        <5> HIDE DEF A
        <5> QED
          BY <1>4, CatAppend
      <4> QED
        BY <3>2, <4>1, Zenon
    <3>4. Filtered(k, Append(c, seq)) = IF ShouldLog(k, Event(seq)) THEN Append(Filtered(k, c), seq)
                                        ELSE Filtered(k, c)
      BY <1>4, FilteredAppend, Zenon
    <3>5. PICK f \in Seq(A) : f = Filtered(k, c)
      BY FilteredType, Zenon
    <3>6. Append(Cat(w, f), seq) = Cat(w, Append(f, seq))
      <4> HIDE DEF A
      <4> QED
        BY <1>4, CatAppend
    <3> QED
      BY <1>6, <1>7, <2>2, <3>1, <3>2, <3>3, <3>4, <3>5, <3>6, Zenon
  <2> QED
    BY <2>1, <2>2, Zenon
<1>9. Cat(written[k], Filtered(k, Cat(Pending(k), Unposted(k))))' = Due(k, Taken)'
  <2>1. Cat(written[k], Filtered(k, Cat(Pending(k), Unposted(k))))' = Cat(w, Filtered(k, Cat(p, batch')))
    BY <1>1, <1>3, <1>5, Zenon DEF Filtered, Event, Cat
  <2>2. Due(k, Taken)' = Due(k, seq + 1)
    BY <1>1, <1>3, Zenon DEF Due, Event
  <2> QED
    BY <1>8, <2>1, <2>2, Zenon
<1> QED
  BY <1>9, Zenon DEF Delivered, Cat

(* The batch is posted to one strand. *)
LEMMA DeliveredPost ==
    ASSUME LoggerInv, Post, NEW k \in Sinks
    PROVE  Delivered(k)'
<1> DEFINE A == 0 .. Len(claims) - 1
           x == [kind |-> "batch", events |-> batch]
<1>0. ConsumerType /\ ScanInv /\ StrandType /\ Delivered(k)
  BY Types, Zenon DEF LoggerInv
<1>1. /\ cpc = "post" /\ sink' = sink + 1 /\ cpc' = (IF sink < Len(SinkConfig) THEN "post" ELSE "check")
      /\ strand' = [strand EXCEPT ![sink] = Append(strand[sink], x)]
      /\ UNCHANGED <<claims, written, batch, seq, next_seq>> /\ sink \in Sinks
  BY <1>0, Zenon DEF Post, ringVars, ScanInv
<1>2. Taken' = Taken
  BY <1>1, Zenon DEF Taken
<1>3. CASE k = sink
  <2>1. PICK q \in Seq(Tasks(A)) : q = strand[k]
    BY <1>0, Zenon DEF StrandType
  <2>2. x \in Tasks(A) /\ x.events = batch
    BY <1>0, Zenon DEF ConsumerType, Tasks
  <2>3. strand'[k] = Append(q, x)
    BY <1>0, <1>1, <1>3, <2>1, Zenon DEF StrandType
  <2> HIDE DEF x
  <2>4. Pending(k)' = Cat(Pending(k), batch)
    BY <2>1, <2>2, <2>3, EventsAppend, Zenon DEF Pending
  <2>5. Unposted(k) = batch /\ Unposted(k)' = << >>
    BY <1>1, <1>3, SinkConfigAssumption DEF Unposted, Sinks
  <2>6. PICK p \in Seq(A) : p = Cat(Pending(k), batch)
    BY DeliveredTypes, CatType, Zenon
  <2>7. Cat(p, << >>) = p
    BY CatEmpty, Zenon
  <2>8. Cat(Pending(k), Unposted(k))' = Cat(Pending(k), Unposted(k))
    <3>1. Cat(Pending(k), Unposted(k))' = Cat(Pending(k)', Unposted(k)')
      BY Zenon DEF Cat
    <3> QED
      BY <2>4, <2>5, <2>6, <2>7, <3>1, Zenon
  <2> QED
    BY <1>0, <1>1, <1>2, <2>8, Zenon DEF Delivered, Filtered, Due, Event, Cat
<1>4. CASE k # sink
  <2>1. strand'[k] = strand[k]
    BY <1>0, <1>1, <1>4, Zenon DEF StrandType
  <2>2. Pending(k)' = Pending(k)
    BY <2>1, Zenon DEF Pending
  <2>3. k \in Int /\ sink \in Int /\ k <= Len(SinkConfig)
    BY <1>1, SinkConfigAssumption DEF Sinks
  <2>4. Unposted(k)' = Unposted(k)
    BY <1>1, <1>4, <2>3, SinkConfigAssumption DEF Unposted
  <2> QED
    BY <1>0, <1>1, <1>2, <2>2, <2>4, DeliveredQuiet, Zenon
<1> QED
  BY <1>3, <1>4, Zenon

(* A strand runs its oldest task. *)
LEMMA DeliveredRun ==
    ASSUME LoggerInv, NEW j \in Sinks, RunStrand(j), NEW k \in Sinks
    PROVE  Delivered(k)'
<1> DEFINE A == 0 .. Len(claims) - 1
<1>0. StrandType /\ Delivered(k)
  BY Types, Zenon DEF LoggerInv
<1>1. /\ strand[j] # << >> /\ strand' = [strand EXCEPT ![j] = Tail(strand[j])]
      /\ written' = [written EXCEPT ![j] = @ \o Filtered(j, Head(strand[j]).events)]
      /\ UNCHANGED <<claims, cpc, sink, batch, seq, next_seq>>
  BY Zenon DEF RunStrand, ringVars, consumerVars
<1>2. Taken' = Taken /\ Unposted(k)' = Unposted(k)
  BY <1>1, Zenon DEF Taken, Unposted
<1>3. CASE k # j
  <2>1. strand'[k] = strand[k] /\ written'[k] = written[k]
    BY <1>0, <1>1, <1>3, Zenon DEF StrandType
  <2>2. Pending(k)' = Pending(k)
    BY <2>1, Zenon DEF Pending
  <2> QED
    BY <1>0, <1>1, <1>2, <2>1, <2>2, DeliveredQuiet, Zenon
<1>4. CASE k = j
  <2>1. PICK q \in Seq(Tasks(A)) : q = strand[k] /\ q # << >>
    BY <1>0, <1>1, <1>4, Zenon DEF StrandType
  <2>2. PICK e \in Seq(A), r \in Seq(Tasks(A)) : e = Head(q).events /\ r = Tail(q)
    BY <1>0, <1>1, <1>4, <2>1, HeadTask, Zenon DEF Tasks
  <2>3. PICK p \in Seq(A) : p = EventsOf(r)
    BY EventsType, Zenon
  <2>4. Pending(k) = Cat(e, p)
    BY <2>1, <2>2, <2>3, EventsTail, Zenon DEF Pending
  <2>5. Pending(k)' = p
    BY <1>0, <1>1, <1>4, <2>1, <2>2, <2>3, Zenon DEF Pending, StrandType
  <2>6. PICK w \in Seq(A), u \in Seq(A) : w = written[k] /\ u = Unposted(k)
    BY DeliveredTypes, Zenon
  <2>7. PICK c \in Seq(A) : c = Cat(p, u)
    BY CatType, Zenon
  <2>8. Cat(Cat(e, p), u) = Cat(e, c)
    BY <2>7, CatAssociative
  <2>9. Filtered(k, Cat(e, c)) = Cat(Filtered(k, e), Filtered(k, c))
    BY FilteredCat, Zenon
  <2>10. PICK f \in Seq(A), g \in Seq(A) : f = Filtered(k, e) /\ g = Filtered(k, c)
    BY FilteredType, Zenon
  <2>11. Cat(Cat(w, f), g) = Cat(w, Cat(f, g))
    BY CatAssociative
  <2>12. Cat(w, Cat(f, g)) = Due(k, Taken)
    BY <1>0, <2>4, <2>6, <2>8, <2>9, <2>10, DeliveredIs, Zenon
  <2>13. written'[k] = Cat(w, f)
    BY <1>0, <1>1, <1>4, <2>1, <2>2, <2>6, <2>10, Zenon DEF StrandType, Cat
  <2>14. Cat(Pending(k), Unposted(k))' = c
    BY <1>2, <2>5, <2>6, <2>7, Zenon DEF Cat
  <2>15. Filtered(k, Cat(Pending(k), Unposted(k)))' = g /\ Due(k, Taken)' = Due(k, Taken)
    BY <1>1, <1>2, <2>10, <2>14, Zenon DEF Filtered, Due, Event
  <2>16. Cat(written[k], Filtered(k, Cat(Pending(k), Unposted(k))))' = Due(k, Taken)'
    <3>1. Cat(written[k], Filtered(k, Cat(Pending(k), Unposted(k))))' = Cat(Cat(w, f), g)
      BY <2>13, <2>15, Zenon DEF Cat
    <3> QED
      BY <2>11, <2>12, <2>15, <3>1, Zenon
  <2> QED
    BY <2>16, Zenon DEF Delivered, Cat
<1> QED
  BY <1>3, <1>4, Zenon

LEMMA DeliveredStep ==
    ASSUME LoggerInv, [Next]_vars, NEW k \in Sinks
    PROVE  Delivered(k)'
<1>0. StrandType /\ Delivered(k) /\ ShutdownInv
  BY Types, Zenon DEF LoggerInv
<1>q. strand[k] \in Seq(Tasks(0 .. Len(claims) - 1)) /\ Pending(k) \in Seq(0 .. Len(claims) - 1)
  BY DeliveredTypes, Zenon
(* A task without events at the end of every strand. *)
<1>1. ASSUME NEW x \in Tasks(0 .. Len(claims) - 1), x.events = << >>, claims' = claims,
             strand'[k] = Append(strand[k], x), written' = written,
             UNCHANGED <<cpc, sink, batch, seq, next_seq>>
      PROVE  Delivered(k)'
  <2>1. PICK q \in Seq(Tasks(0 .. Len(claims) - 1)) : q = strand[k]
    BY <1>q, Zenon
  <2>2. EventsOf(Append(q, x)) = Cat(EventsOf(q), x.events)
    BY EventsAppend, Zenon
  <2>3. Cat(EventsOf(q), << >>) = EventsOf(q)
    BY <1>q, <2>1, CatEmpty, Zenon DEF Pending
  <2>4. Pending(k)' = Pending(k)
    BY <1>1, <2>1, <2>2, <2>3, Zenon DEF Pending
  <2>5. Unposted(k)' = Unposted(k) /\ Taken' = Taken
    BY <1>1, Zenon DEF Unposted, Taken
  <2> QED
    BY <1>0, <1>1, <2>4, <2>5, DeliveredQuiet, Zenon
<1>2. ASSUME UNCHANGED <<claims, strand, written>>, Unposted(k)' = Unposted(k), Taken' = Taken
      PROVE  Delivered(k)'
  <2>1. Pending(k)' = Pending(k)
    BY <1>2, Zenon DEF Pending
  <2> QED
    BY <1>0, <1>2, <2>1, DeliveredQuiet, Zenon
<1>3. ASSUME NEW p \in Producers, StartLog(p) PROVE Delivered(k)'
  BY <1>2, <1>3, Zenon DEF StartLog, ringVars, consumerVars, sinkVars, Unposted, Taken
<1>4. ASSUME NEW p \in Producers, Flush(p) PROVE Delivered(k)'
  <2> DEFINE x == [kind |-> "flush", events |-> << >>]
  <2>1. x \in Tasks(0 .. Len(claims) - 1) /\ x.events = << >>
    BY DEF Tasks
  <2>2. strand'[k] = Append(strand[k], x) /\ UNCHANGED <<claims, written, cpc, sink, batch, seq, next_seq>>
    BY <1>4, Zenon DEF Flush, ringVars, consumerVars
  <2> HIDE DEF x
  <2> QED
    BY <1>1, <2>1, <2>2, Zenon
<1>5. ASSUME Join PROVE Delivered(k)'
  <2> DEFINE x == [kind |-> "last_flush", events |-> << >>]
  <2>1. x \in Tasks(0 .. Len(claims) - 1) /\ x.events = << >>
    BY DEF Tasks
  <2>2. strand'[k] = Append(strand[k], x) /\ UNCHANGED <<claims, written, cpc, sink, batch, seq, next_seq>>
    BY <1>5, Zenon DEF Join, ringVars, consumerVars
  <2> HIDE DEF x
  <2> QED
    BY <1>1, <2>1, <2>2, Zenon
<1>6. ASSUME NEW t \in Threads, Publish(t) \/ Signal(t) PROVE Delivered(k)'
  BY <1>2, <1>6, Zenon DEF Publish, Signal, ringVars, consumerVars, sinkVars, Unposted, Taken
<1>7. ASSUME NEW t \in Threads, Claim(t) PROVE Delivered(k)'
  BY <1>7, DeliveredClaim, Zenon
<1>8. ASSUME StartShutdown \/ Drained \/ UNCHANGED vars PROVE Delivered(k)'
  BY <1>2, <1>8, Zenon DEF StartShutdown, Drained, vars, ringVars, consumerVars, sinkVars, Unposted, Taken
<1>9. ASSUME Poll \/ WaitCheck \/ LockedCheck \/ FallAsleep \/ SpuriousWakeup PROVE Delivered(k)'
  <2>1. /\ UNCHANGED <<claims, strand, written, sink, batch, seq, next_seq>>
        /\ cpc \notin {"take", "gate", "post"} /\ cpc' \notin {"take", "gate", "post"}
    BY <1>9, Zenon DEF Poll, WaitCheck, LockedCheck, FallAsleep, SpuriousWakeup, waitUnchanged, ringVars,
          sinkVars
  <2> QED
    BY <1>2, <2>1, Zenon DEF Unposted, Taken
<1>10. ASSUME Scan PROVE Delivered(k)'
  <2>1. /\ UNCHANGED <<claims, strand, written>> /\ seq' = next_seq /\ next_seq' = next_seq
        /\ cpc = "scan" /\ cpc' \in {"take", "wait"} /\ batch' = << >>
    BY <1>10, Zenon DEF Scan, ringVars, sinkVars
  <2> QED
    BY <1>2, <2>1, Zenon DEF Unposted, Taken
<1>11. ASSUME Take PROVE Delivered(k)'
  BY <1>11, DeliveredTake, Zenon
<1>12. ASSUME UpdateGating PROVE Delivered(k)'
  <2>1. /\ UNCHANGED <<claims, strand, written, batch>> /\ next_seq' = seq /\ seq' = seq /\ sink' = 1
        /\ cpc = "gate" /\ cpc' = (IF batch = << >> THEN "check" ELSE "post") /\ 1 <= k
    <3>1. Sinks # {} /\ 1 <= k
      BY SinkConfigAssumption DEF Sinks
    <3> QED
      BY <1>12, <3>1, Zenon DEF UpdateGating, sinkVars
  <2> QED
    BY <1>2, <2>1, Zenon DEF Unposted, Taken
<1>13. ASSUME Post PROVE Delivered(k)'
  BY <1>13, DeliveredPost, Zenon
<1>14. ASSUME NEW j \in Sinks, RunStrand(j) PROVE Delivered(k)'
  BY <1>14, DeliveredRun, Zenon
<1> QED
  BY <1>3, <1>4, <1>5, <1>6, <1>7, <1>8, <1>9, <1>10, <1>11, <1>12, <1>13, <1>14, Zenon
     DEF Next, Caller, Consumer

-----------------------------------------------------------------------------
(* The invariant holds. *)

LEMMA InitLoggerInv == Init => LoggerInv
<1> SUFFICES ASSUME Init PROVE LoggerInv
  BY Zenon
<1> USE CloserAssumption, QuotaAssumption, SinkConfigAssumption, BufferSizeAssumption DEF Init
<1>0. << >> \in Seq(Messages \cup {Shutdown}) /\ Len(<< >>) = 0 /\ Len(claims) = 0
  OBVIOUS
<1>1. TypeOK
  <2>1. RingType
    BY <1>0 DEF RingType
  <2>2. CallerType
    BY <1>0 DEF CallerType
  <2>3. ConsumerType
    BY <1>0 DEF ConsumerType
  <2>4. StrandType
    BY <1>0 DEF StrandType
  <2> QED
    BY <2>1, <2>2, <2>3, <2>4, Types, Zenon
<1>2. RingInv /\ ScanInv
  BY <1>0 DEF RingInv, ScanInv, Threads
<1>3. ShutdownInv
  BY <1>0 DEF ShutdownInv, Threads, Cursor, Taken
<1>4. DrainInv
  <2>1. \A k \in Sinks : strand[k] = << >>
    BY Zenon
  <2>2. \A k \in Sinks : ~HasLastFlush(strand[k]) /\ OnlyBatchesHaveEvents(strand[k])
    BY <1>0, <2>1 DEF HasLastFlush, OnlyBatchesHaveEvents
  <2>3. {k \in Sinks : HasLastFlush(strand[k])} = {}
    BY <2>2, Zenon
  <2>4. Cardinality({}) = 0
    BY FS_EmptySet, Zenon
  <2>5. ~Draining /\ pc[Closer] # "returned"
    BY Zenon DEF Draining, Threads
  <2> QED
    BY <2>2, <2>3, <2>4, <2>5, Zenon DEF DrainInv
<1>5. ASSUME NEW k \in Sinks PROVE Delivered(k)
  <2>1. Pending(k) = << >> /\ Unposted(k) = << >> /\ Taken = 0 /\ written[k] = << >>
    BY EventsEmpty, Zenon DEF Pending, Unposted, Taken
  <2>2. Filtered(k, << >>) = << >>
    BY SelectedEmpty, Zenon DEF Filtered
  <2>3. Due(k, 0) = << >>
    <3>1. [i \in 1 .. 0 |-> i - 1] = << >>
      OBVIOUS
    <3> QED
      BY <3>1, SelectedEmpty, Zenon DEF Due
  <2>4. << >> \o << >> = << >>
    OBVIOUS
  <2> QED
    BY <2>1, <2>2, <2>3, <2>4, Zenon DEF Delivered
<1> QED
  BY <1>1, <1>2, <1>3, <1>4, <1>5, Zenon DEF LoggerInv

LEMMA NextLoggerInv == LoggerInv /\ [Next]_vars => LoggerInv'
<1> SUFFICES ASSUME LoggerInv, [Next]_vars PROVE LoggerInv'
  BY Zenon
<1>1. TypeOK' /\ RingInv' /\ ScanInv' /\ ShutdownInv' /\ DrainInv'
  BY TypeInv, RingStep, ScanStep, ShutdownStep, DrainStep, Zenon
<1>2. \A k \in Sinks : Delivered(k)'
  BY DeliveredStep, Zenon
<1> QED
  BY <1>1, <1>2, Zenon DEF LoggerInv

LEMMA LoggerInvariant == Spec => []LoggerInv
BY InitLoggerInv, NextLoggerInv, PTL DEF Spec

(* Between the ring and the sinks no event is lost, repeated or overtaken,  *)
(* whatever the interleaving of the producers, consumer_loop, the strands   *)
(* and shutdown().                                                          *)
THEOREM LoggerLosesNothing == Spec => []NothingLost
<1>1. LoggerInv => NothingLost
  BY Zenon DEF LoggerInv, NothingLost, Delivered
<1> QED
  BY <1>1, LoggerInvariant, PTL

(* When shutdown() has returned, every sink has written and flushed exactly *)
(* the events it wants of those claimed before the shutdown event.          *)
THEOREM LoggerShutsDownGracefully == Spec => []GracefulShutdown
<1>1. LoggerInv => GracefulShutdown
  <2> SUFFICES ASSUME LoggerInv, pc[Closer] = "returned", NEW k \in Sinks
               PROVE  written[k] = Due(k, mine[Closer]) /\ flushed[k] = Len(written[k])
    BY Zenon DEF GracefulShutdown
  <2>0. ShutdownInv /\ DrainInv /\ Delivered(k) /\ StrandType /\ RingType
    BY Types, Zenon DEF LoggerInv
  <2>1. ~HasLastFlush(strand[k])
    <3> SUFFICES ASSUME HasLastFlush(strand[k]) PROVE FALSE
      BY Zenon
    <3>1. remaining = 0 /\ remaining \in 1 .. Len(SinkConfig)
      BY <2>0, LastFlushCounted, Zenon DEF DrainInv
    <3> QED
      BY <3>1
  <2>2. OnlyFlushes(strand[k]) /\ OnlyBatchesHaveEvents(strand[k]) /\ flushed[k] = Len(written[k])
    BY <2>0, <2>1, Zenon DEF DrainInv, Draining
  <2>3. Pending(k) = << >>
    <3>1. \A i \in 1 .. Len(strand[k]) : strand[k][i].events = << >>
      BY <2>2, Zenon DEF OnlyFlushes, OnlyBatchesHaveEvents
    <3> QED
      BY <2>0, <3>1, EventsNone, Zenon DEF Pending, StrandType
  <2>4. cpc = "exit" /\ ~running /\ Taken = mine[Closer] + 1
    BY <2>0, Zenon DEF ShutdownInv
  <2>5. Unposted(k) = << >>
    BY <2>4, Zenon DEF Unposted
  <2>6. written[k] = Due(k, Taken)
    <3>1. Filtered(k, << >> \o << >>) = << >>
      <4>1. << >> \o << >> = << >>
        OBVIOUS
      <4> QED
        BY <4>1, SelectedEmpty, Zenon DEF Filtered
    <3>2. written[k] \o << >> = written[k]
      BY <2>0 DEF StrandType
    <3> QED
      BY <2>0, <2>3, <2>5, <3>1, <3>2, Zenon DEF Delivered
  <2>7. mine[Closer] \in 0 .. Cursor /\ Event(mine[Closer]) = Shutdown
    BY <2>0, Zenon DEF ShutdownInv
  <2>8. PICK n \in Nat : n = mine[Closer]
    BY <2>7
  <2>9. Due(k, n + 1) = Due(k, n)
    BY <2>7, <2>8, DueNext, Zenon
  <2> QED
    BY <2>2, <2>4, <2>6, <2>8, <2>9, Zenon
<1> QED
  BY <1>1, LoggerInvariant, PTL

-----------------------------------------------------------------------------
(* The logger uses the disruptor as the stream of EventStream. *)

(* Claim, Publish, Take and UpdateGating are the four steps of the stream,  *)
(* and every other step of the logger leaves it alone: what log(),          *)
(* consumer_loop and shutdown() do with the disruptor is what its           *)
(* specification allows.                                                    *)
THEOREM LoggerUsesStream == Spec => UsesStream
<1>1. Init => Stream!StreamInit
  <2> SUFFICES ASSUME Init PROVE Stream!StreamInit
    BY Zenon
  <2>1. Len(claims) = 0 /\ Taken = 0 /\ gating + 1 = 0 /\ published = {}
    BY DEF Init, Taken
  <2>2. [i \in 1 .. 0 |-> i - 1] = << >>
    OBVIOUS
  <2> QED
    BY <2>1, <2>2, Zenon DEF Stream!StreamInit
<1>2. LoggerInv /\ [Next]_vars => [Stream!StreamNext]_(Stream!streamVars)
  <2> SUFFICES ASSUME LoggerInv, [Next]_vars
               PROVE  Stream!StreamNext \/ UNCHANGED Stream!streamVars
    BY Zenon
  <2>0. TypeOK /\ RingType /\ ConsumerType /\ RingInv /\ ScanInv
    BY Types, Zenon DEF LoggerInv
  <2>t. Taken \in Nat /\ Taken <= Len(claims) /\ Len(claims) \in Nat
    BY TakenBound, Zenon
  <2>1. ASSUME UNCHANGED <<claims, published, gating>>, Taken' = Taken
        PROVE  UNCHANGED Stream!streamVars
    BY <2>1, Zenon DEF Stream!streamVars
  <2>2. ASSUME NEW t \in Threads, Claim(t) PROVE Stream!Reserve
    <3>1. Len(claims') = Len(claims) + 1
      BY <2>0, <2>2, ClaimGrows, Zenon
    <3>2. 1 \in 1 .. BufferSize /\ Len(claims) + 1 - (gating + 1) <= BufferSize
      <4>1. gating \in Int /\ (Len(claims) - 1) - gating < BufferSize
        BY <2>0, <2>2, Zenon DEF RingType, Claim, Cursor
      <4> QED
        BY <2>t, <4>1, BufferSizeAssumption
    <3>3. UNCHANGED <<published, gating>> /\ Taken' = Taken
      BY <2>2, Zenon DEF Claim, consumerVars, Taken
    <3> QED
      BY <3>1, <3>2, <3>3, Zenon DEF Stream!Reserve
  <2>3. ASSUME NEW t \in Threads, Publish(t) PROVE Stream!Fill
    <3>1. mine[t] \in 0 .. Len(claims) - 1 /\ mine[t] \notin published
      BY <2>0, <2>3, Zenon DEF Publish, RingInv, Cursor
    <3>2. published' = published \cup {mine[t]} /\ UNCHANGED <<claims, gating>> /\ Taken' = Taken
      BY <2>3, Zenon DEF Publish, consumerVars, Taken
    <3> QED
      BY <3>1, <3>2, Zenon DEF Stream!Fill
  <2>4. ASSUME Take PROVE Stream!Take
    <3>1. Taken = seq /\ Taken' = seq + 1 /\ UNCHANGED <<claims, published, gating>>
      BY <2>4, Zenon DEF Take, Taken, ringVars
    <3>2. seq \in published
      BY <2>0, <2>4 DEF Take, ScanInv, ConsumerType
    <3>3. PICK n \in Nat : n = seq
      BY <2>0, Zenon DEF ConsumerType
    <3>4. /\ Len([i \in 1 .. n |-> i - 1]) = n
          /\ [i \in 1 .. n + 1 |-> i - 1] = Append([i \in 1 .. n |-> i - 1], n)
      OBVIOUS
    <3> QED
      BY <3>1, <3>2, <3>3, <3>4, Zenon DEF Stream!Take
  <2>5. ASSUME UpdateGating PROVE Stream!Recycle
    <3>1. gating' = seq - 1 /\ UNCHANGED <<claims, published>> /\ Taken' = Taken /\ Taken = seq
      BY <2>5, Zenon DEF UpdateGating, Taken
    <3>2. seq \in Nat /\ next_seq \in Nat /\ gating = next_seq - 1 /\ next_seq < seq
      BY <2>0, <2>5, Zenon DEF UpdateGating, ScanInv, RingInv, ConsumerType
    <3>3. seq \in (gating + 1) + 1 .. seq /\ gating' + 1 = seq
      BY <3>1, <3>2
    <3>4. Len([i \in 1 .. seq |-> i - 1]) = seq
      BY <3>2
    <3> QED
      BY <3>1, <3>3, <3>4, Zenon DEF Stream!Recycle
  <2>6. ASSUME NEW p \in Producers, StartLog(p) \/ Flush(p) PROVE UNCHANGED Stream!streamVars
    BY <2>1, <2>6, Zenon DEF StartLog, Flush, ringVars, consumerVars, Taken
  <2>7. ASSUME NEW t \in Threads, Signal(t) PROVE UNCHANGED Stream!streamVars
    BY <2>1, <2>7, Zenon DEF Signal, ringVars, Taken
  <2>8. ASSUME StartShutdown \/ Join \/ Drained \/ UNCHANGED vars PROVE UNCHANGED Stream!streamVars
    BY <2>1, <2>8, Zenon DEF StartShutdown, Join, Drained, vars, ringVars, consumerVars, Taken
  <2>9. ASSUME Poll \/ Scan \/ Post \/ WaitCheck \/ LockedCheck \/ FallAsleep \/ SpuriousWakeup
        PROVE  UNCHANGED Stream!streamVars
    <3>1. UNCHANGED <<claims, published, gating>>
      BY <2>9, Zenon DEF Poll, Scan, Post, WaitCheck, LockedCheck, FallAsleep, SpuriousWakeup,
            waitUnchanged, ringVars
    <3>2. Taken' = Taken
      BY <2>9, Zenon DEF Taken, Poll, Scan, Post, WaitCheck, LockedCheck, FallAsleep, SpuriousWakeup,
            waitUnchanged
    <3> QED
      BY <2>1, <3>1, <3>2, Zenon
  <2>10. ASSUME NEW k \in Sinks, RunStrand(k) PROVE UNCHANGED Stream!streamVars
    BY <2>1, <2>10, Zenon DEF RunStrand, ringVars, consumerVars, Taken
  <2> QED
    BY <2>2, <2>3, <2>4, <2>5, <2>6, <2>7, <2>8, <2>9, <2>10, Zenon
       DEF Next, Caller, Consumer, Stream!StreamNext
<1> QED
  BY <1>1, <1>2, LoggerInvariant, PTL DEF Spec, UsesStream, Stream!StreamSpec

-----------------------------------------------------------------------------
(* The file a sink writes.  A logger runs a sink's tasks on one strand, so  *)
(* there is one writer.                                                     *)

CONSTANTS Writers, Events, Configs, add_time_to_filename, LastSecond, NoEvent

VARIABLES config, doing, ev, todo, format_buffer, stream, position, disk, name, clock,
          processed, closed

File == INSTANCE FileSink WITH pc <- doing

OneWriter == \A v, w \in Writers : v = w

Entries == Events \cup {NoEvent}

FileType ==
    /\ doing = [w \in Writers |-> doing[w]]
    /\ ev \in [Writers -> Entries]
    /\ todo \subseteq Events
    /\ format_buffer \in Entries
    /\ stream \in Seq(Entries)
    /\ processed \in Seq(Entries)
    /\ disk \in [0 .. LastSecond -> Seq(Entries)]
    /\ name \in 0 .. LastSecond
    /\ clock \in 0 .. LastSecond
    /\ name <= clock

(* Files with later names are not written yet; so what is appended to the  *)
(* current file is appended to all that was written.                       *)
EmptyAfter(d, m) == \A s \in 0 .. LastSecond : m < s => d[s] = << >>

(* All that was written, but for the event a writer has formatted. *)
FileInv ==
    /\ FileType
    /\ EmptyAfter(disk, name)
    /\ (\A w \in Writers : doing[w] # "write") => Cat(File!OnDisk, stream) = processed
    /\ \A w \in Writers :
          doing[w] = "write" => Append(Cat(File!OnDisk, stream), format_buffer) = processed
    /\ closed => stream = << >> /\ \A w \in Writers : doing[w] = "idle"

(* The files in d, oldest first. *)
Joined(d) ==
    LET upTo[n \in 0 .. LastSecond + 1] ==
            IF n = 0 THEN << >> ELSE Cat(upTo[n - 1], d[n - 1])
    IN  upTo[LastSecond + 1]

IsJoined(f, d) ==
    f = [n \in 0 .. LastSecond + 1 |-> IF n = 0 THEN << >> ELSE Cat(f[n - 1], d[n - 1])]

LEMMA JoinedAt ==
    ASSUME LastSecond \in Nat, NEW d
    PROVE  \E f : IsJoined(f, d) /\ Joined(d) = f[LastSecond + 1]
<1>1. PICK m \in Nat : m = LastSecond + 1
  OBVIOUS
<1>2. PICK tasks : tasks = [i \in 1 .. m |-> [events |-> d[i - 1]]]
  BY Zenon
<1>3. PICK f : IsJoin(f, tasks, m)
  BY JoinExists, Zenon
<1>4. ASSUME NEW i \in 0 .. m, i # 0
      PROVE  tasks[i].events = d[i - 1]
  <2>1. i \in 1 .. m
    BY <1>4
  <2>2. PICK e : e = d[i - 1]
    BY Zenon
  <2>3. tasks[i] = [events |-> e]
    BY <1>2, <2>1, <2>2, Zenon
  <2> QED
    BY <2>2, <2>3
<1>5. f = [i \in 0 .. m |-> IF i = 0 THEN << >> ELSE Cat(f[i - 1], tasks[i].events)]
  BY <1>3, Zenon DEF IsJoin
<1>6. f = [i \in 0 .. m |-> IF i = 0 THEN << >> ELSE Cat(f[i - 1], d[i - 1])]
  <2>1. \A i \in 0 .. m : f[i] = IF i = 0 THEN << >> ELSE Cat(f[i - 1], d[i - 1])
    BY <1>4, <1>5, Zenon
  <2>2. f = [i \in 0 .. m |-> f[i]]
    BY <1>5, Zenon
  <2> QED
    BY <2>1, <2>2, Zenon
<1>7. IsJoined(f, d)
  BY <1>1, <1>6, Zenon DEF IsJoined
<1> QED
  BY <1>7, Zenon DEF Joined, IsJoined

LEMMA OnDiskJoined == File!OnDisk = Joined(disk)
BY Zenon DEF File!OnDisk, Joined, Cat

LEMMA JoinedSteps ==
    ASSUME LastSecond \in Nat, NEW f, NEW d, IsJoined(f, d)
    PROVE  /\ f[0] = << >>
           /\ \A n \in 0 .. LastSecond : f[n + 1] = Cat(f[n], d[n])
<1>1. f[0] = << >>
  BY DEF IsJoined
<1>2. ASSUME NEW n \in 0 .. LastSecond
      PROVE  f[n + 1] = Cat(f[n], d[n])
  <2>1. n + 1 \in 0 .. LastSecond + 1 /\ n + 1 # 0 /\ (n + 1) - 1 = n
    OBVIOUS
  <2> QED
    BY <2>1, Zenon DEF IsJoined
<1> QED
  BY <1>1, <1>2, Zenon

LEMMA JoinedPrefix ==
    ASSUME LastSecond \in Nat, NEW f, NEW d \in [0 .. LastSecond -> Seq(Entries)], IsJoined(f, d)
    PROVE  \A n \in 0 .. LastSecond + 1 : f[n] \in Seq(Entries)
<1> DEFINE I == {n \in Nat : n <= LastSecond + 1 => f[n] \in Seq(Entries)}
<1>1. 0 \in I
  <2>1. f[0] = << >>
    BY JoinedSteps, Zenon
  <2>2. << >> \in Seq(Entries) /\ 0 \in Nat
    OBVIOUS
  <2> QED
    BY <2>1, <2>2, Zenon
<1>2. ASSUME NEW n \in Nat, n \in I
      PROVE  n + 1 \in I
  <2> SUFFICES ASSUME n + 1 <= LastSecond + 1 PROVE f[n + 1] \in Seq(Entries)
    OBVIOUS
  <2>1. n \in 0 .. LastSecond /\ n <= LastSecond + 1
    OBVIOUS
  <2>2. f[n] \in Seq(Entries) /\ d[n] \in Seq(Entries)
    BY <1>2, <2>1, Zenon
  <2>3. f[n + 1] = Cat(f[n], d[n])
    BY <2>1, JoinedSteps, Zenon
  <2> QED
    BY <2>2, <2>3, CatType, Zenon
<1>3. Nat \subseteq I
  <2> HIDE DEF I
  <2> QED
    BY <1>1, <1>2, SetInduction, Zenon
<1> QED
  BY <1>3

LEMMA JoinedType ==
    ASSUME LastSecond \in Nat, NEW d \in [0 .. LastSecond -> Seq(Entries)]
    PROVE  Joined(d) \in Seq(Entries)
<1>1. PICK f : IsJoined(f, d) /\ Joined(d) = f[LastSecond + 1]
  BY JoinedAt, Zenon
<1>2. LastSecond + 1 \in 0 .. LastSecond + 1
  OBVIOUS
<1> QED
  BY <1>1, <1>2, JoinedPrefix, Zenon

LEMMA JoinedEmpty ==
    ASSUME LastSecond \in Nat, NEW d, d = [s \in 0 .. LastSecond |-> << >>]
    PROVE  Joined(d) = << >>
<1>1. PICK f : IsJoined(f, d) /\ Joined(d) = f[LastSecond + 1]
  BY JoinedAt, Zenon
<1> DEFINE I == {n \in Nat : n <= LastSecond + 1 => f[n] = << >>}
<1>2. 0 \in I
  <2>1. f[0] = << >> /\ 0 \in Nat
    BY <1>1, JoinedSteps
  <2> QED
    BY <2>1, Zenon
<1>3. ASSUME NEW n \in Nat, n \in I
      PROVE  n + 1 \in I
  <2> SUFFICES ASSUME n + 1 <= LastSecond + 1 PROVE f[n + 1] = << >>
    OBVIOUS
  <2>1. n \in 0 .. LastSecond /\ n <= LastSecond + 1
    OBVIOUS
  <2>2. f[n] = << >> /\ d[n] = << >>
    BY <1>3, <2>1, Zenon
  <2>3. f[n + 1] = Cat(f[n], d[n])
    BY <1>1, <2>1, JoinedSteps, Zenon
  <2> QED
    BY <2>2, <2>3 DEF Cat
<1>4. Nat \subseteq I
  <2> HIDE DEF I
  <2> QED
    BY <1>2, <1>3, SetInduction, Zenon
<1>5. LastSecond + 1 \in Nat /\ LastSecond + 1 <= LastSecond + 1
  OBVIOUS
<1> QED
  BY <1>1, <1>4, <1>5, Zenon

(* What is appended to the last file that has anything in it is appended   *)
(* to all of them.                                                         *)
LEMMA JoinedGrows ==
    ASSUME LastSecond \in Nat, NEW d \in [0 .. LastSecond -> Seq(Entries)], NEW m \in 0 .. LastSecond,
           EmptyAfter(d, m), NEW c \in Seq(Entries), NEW e, e = [d EXCEPT ![m] = Cat(d[m], c)]
    PROVE  /\ e \in [0 .. LastSecond -> Seq(Entries)]
           /\ EmptyAfter(e, m)
           /\ Joined(e) = Cat(Joined(d), c)
<1>1. Cat(d[m], c) \in Seq(Entries)
  BY CatType, Zenon
<1>2. /\ e \in [0 .. LastSecond -> Seq(Entries)]
      /\ e[m] = Cat(d[m], c)
      /\ \A s \in 0 .. LastSecond : s # m => e[s] = d[s]
  BY <1>1, Zenon
<1>3. ASSUME NEW s \in 0 .. LastSecond, m < s
      PROVE  e[s] = << >>
  <2>1. s # m
    BY <1>3
  <2> QED
    BY <1>2, <1>3, <2>1, Zenon DEF EmptyAfter
<1>4. PICK f : IsJoined(f, d) /\ Joined(d) = f[LastSecond + 1]
  BY JoinedAt, Zenon
<1>5. PICK g : IsJoined(g, e) /\ Joined(e) = g[LastSecond + 1]
  BY JoinedAt, Zenon
<1> DEFINE Same(n) == /\ n <= m => g[n] = f[n]
                      /\ m < n => g[n] = Cat(f[n], c)
           I == {n \in Nat : n <= LastSecond + 1 => Same(n)}
<1>6. 0 \in I
  <2>1. f[0] = << >> /\ g[0] = << >>
    BY <1>4, <1>5, JoinedSteps, Zenon
  <2> QED
    BY <2>1
<1>7. ASSUME NEW n \in Nat, n \in I
      PROVE  n + 1 \in I
  <2> SUFFICES ASSUME n + 1 <= LastSecond + 1 PROVE Same(n + 1)
    OBVIOUS
  <2>1. n \in 0 .. LastSecond /\ n <= LastSecond + 1 /\ n \in 0 .. LastSecond + 1
    OBVIOUS
  <2>2. f[n + 1] = Cat(f[n], d[n]) /\ g[n + 1] = Cat(g[n], e[n])
    <3>1. f[n + 1] = Cat(f[n], d[n])
      BY <1>4, <2>1, JoinedSteps, Zenon
    <3>2. g[n + 1] = Cat(g[n], e[n])
      BY <1>5, <2>1, JoinedSteps, Zenon
    <3> QED
      BY <3>1, <3>2, Zenon
  <2>3. f[n] \in Seq(Entries) /\ d[n] \in Seq(Entries)
    BY <1>4, <2>1, JoinedPrefix, Zenon
  <2>4. CASE n < m
    <3>1. n <= m /\ n # m /\ ~(m < n + 1)
      BY <2>4
    <3>2. g[n] = f[n] /\ e[n] = d[n]
      BY <1>2, <1>7, <2>1, <3>1, Zenon
    <3> QED
      BY <2>2, <3>1, <3>2, Zenon
  <2>5. CASE n = m
    <3>1. n <= m /\ ~(n + 1 <= m)
      BY <2>5
    <3>2. g[n] = f[n] /\ e[n] = Cat(d[n], c)
      BY <1>2, <1>7, <2>1, <2>5, <3>1, Zenon
    <3>3. Cat(f[n], Cat(d[n], c)) = Cat(Cat(f[n], d[n]), c)
      BY <2>3, CatAssociative
    <3> QED
      BY <2>2, <3>1, <3>2, <3>3, Zenon
  <2>6. CASE m < n
    <3>1. ~(n + 1 <= m)
      BY <2>6
    <3>2. g[n] = Cat(f[n], c) /\ e[n] = << >> /\ d[n] = << >>
      BY <1>3, <1>7, <2>1, <2>6, Zenon DEF EmptyAfter
    <3>3. PICK a \in Seq(Entries) : a = f[n]
      BY <2>3, Zenon
    <3>4. Cat(a, c) \in Seq(Entries)
      BY CatType, Zenon
    <3>5. Cat(a, << >>) = a /\ Cat(Cat(a, c), << >>) = Cat(a, c)
      BY <3>4, CatEmpty, Zenon
    <3> QED
      BY <2>2, <3>1, <3>2, <3>3, <3>5, Zenon
  <2> QED
    BY <2>4, <2>5, <2>6
<1>8. Nat \subseteq I
  <2> HIDE DEF I
  <2> QED
    BY <1>6, <1>7, SetInduction, Zenon
<1>9. LastSecond + 1 \in Nat /\ LastSecond + 1 <= LastSecond + 1 /\ m < LastSecond + 1
  OBVIOUS
<1>10. g[LastSecond + 1] = Cat(f[LastSecond + 1], c)
  BY <1>8, <1>9, Zenon
<1> QED
  BY <1>2, <1>3, <1>4, <1>5, <1>10, Zenon DEF EmptyAfter

LEMMA FileInit ==
    ASSUME LastSecond \in Nat, File!Init
    PROVE  FileInv
<1>1. /\ doing = [w \in Writers |-> "idle"]
      /\ ev = [w \in Writers |-> NoEvent]
      /\ todo = Events /\ format_buffer = NoEvent /\ stream = << >> /\ processed = << >>
      /\ name = 0 /\ clock = 0 /\ ~closed
  BY Zenon DEF File!Init
<1>2. disk = [s \in 0 .. LastSecond |-> << >>]
  BY Zenon DEF File!Init, File!Seconds
<1>3. 0 \in 0 .. LastSecond /\ 0 <= 0 /\ << >> \in Seq(Entries)
  OBVIOUS
<1>4. FileType
  <2>1. /\ doing = [w \in Writers |-> doing[w]]
        /\ ev \in [Writers -> Entries]
        /\ format_buffer \in Entries
        /\ disk \in [0 .. LastSecond -> Seq(Entries)]
    BY <1>1, <1>2, <1>3, Zenon DEF Entries
  <2> QED
    BY <1>1, <1>3, <2>1, Zenon DEF FileType
<1>5. EmptyAfter(disk, name)
  BY <1>2, Zenon DEF EmptyAfter
<1>6. File!OnDisk = << >>
  BY <1>2, JoinedEmpty, OnDiskJoined, Zenon
<1>7. Cat(File!OnDisk, stream) = processed
  BY <1>1, <1>3, <1>6, CatEmpty, Zenon
<1>8. \A w \in Writers : doing[w] = "idle"
  BY <1>1, Zenon
<1>9. \A w \in Writers : doing[w] # "write"
  BY <1>8
<1> QED
  BY <1>1, <1>4, <1>5, <1>7, <1>9, Zenon DEF FileInv

(* Flushed() moves what is buffered to the end of all that is on disk. *)
LEMMA FlushMoves ==
    ASSUME LastSecond \in Nat, FileInv, NEW c \in Seq(Entries),
           disk' = [disk EXCEPT ![name] = @ \o c]
    PROVE  /\ disk' \in [0 .. LastSecond -> Seq(Entries)]
           /\ EmptyAfter(disk', name)
           /\ File!OnDisk' = Cat(File!OnDisk, c)
           /\ File!OnDisk \in Seq(Entries)
<1>1. PICK d, e, m : d = disk /\ e = disk' /\ m = name
  BY Zenon
<1>2. /\ d \in [0 .. LastSecond -> Seq(Entries)] /\ m \in 0 .. LastSecond
      /\ EmptyAfter(d, m) /\ e = [d EXCEPT ![m] = Cat(d[m], c)]
  BY <1>1, Zenon DEF FileInv, FileType, Cat
<1>3. /\ e \in [0 .. LastSecond -> Seq(Entries)]
      /\ EmptyAfter(e, m)
      /\ Joined(e) = Cat(Joined(d), c)
  BY <1>2, JoinedGrows, ZenonT(40)
<1>4. Joined(d) \in Seq(Entries)
  BY <1>2, JoinedType, Zenon
<1>5. File!OnDisk = Joined(d) /\ File!OnDisk' = Joined(e)
  <2>1. (File!OnDisk = Joined(disk))'
    BY OnDiskJoined, PTL
  <2>2. File!OnDisk' = Joined(disk')
    BY <2>1, Zenon DEF Joined
  <2> QED
    BY <1>1, <2>2, OnDiskJoined, Zenon
<1> QED
  BY <1>1, <1>3, <1>4, <1>5, Zenon

(* Where w is, every writer is. *)
LEMMA OnlyWriter ==
    ASSUME OneWriter, FileInv, NEW w \in Writers, NEW x, doing' = [doing EXCEPT ![w] = x]
    PROVE  (\A v \in Writers : doing'[v] = x) /\ doing' = [v \in Writers |-> doing'[v]]
<1>1. doing = [v \in Writers |-> doing[v]]
  BY Zenon DEF FileInv, FileType
<1>2. doing' = [v \in Writers |-> x]
  BY <1>1, Zenon DEF OneWriter
<1> QED
  BY <1>2, Zenon

(* A writer that is not between its formatting and its writing. *)
LEMMA AllWritten ==
    ASSUME OneWriter, FileInv, NEW w \in Writers, doing[w] # "write"
    PROVE  Cat(File!OnDisk, stream) = processed
BY Zenon DEF FileInv, OneWriter

LEMMA NoneWriting ==
    ASSUME FileInv, \A w \in Writers : doing[w] = "idle"
    PROVE  Cat(File!OnDisk, stream) = processed
<1>1. \A w \in Writers : doing[w] # "write"
  OBVIOUS
<1> QED
  BY <1>1, Zenon DEF FileInv

LEMMA OnDiskSame ==
    ASSUME disk' = disk
    PROVE  File!OnDisk' = File!OnDisk
BY Zenon DEF File!OnDisk

LEMMA StartProcessStep ==
    ASSUME OneWriter, FileInv, NEW w \in Writers, File!StartProcess(w)
    PROVE  FileInv'
<1>1. /\ doing[w] = "idle" /\ ~closed
      /\ UNCHANGED <<config, format_buffer, stream, position, disk, name, clock, processed, closed>>
  BY Zenon DEF File!StartProcess
<1>2. PICK e \in todo : /\ todo' = todo \ {e}
                        /\ ev' = [ev EXCEPT ![w] = e]
                        /\ doing' = [doing EXCEPT ![w] = IF e \in config.accepted THEN "format" ELSE "idle"]
  BY Zenon DEF File!StartProcess
<1>3. PICK x \in {"format", "idle"} : doing' = [doing EXCEPT ![w] = x]
  BY <1>2, Zenon
<1>4. (\A v \in Writers : doing'[v] = x) /\ doing' = [v \in Writers |-> doing'[v]]
  BY <1>3, OnlyWriter, Zenon
<1>5. \A v \in Writers : doing'[v] # "write"
  BY <1>4
<1>6. FileType'
  <2>1. ev' \in [Writers -> Entries] /\ todo' \subseteq Events
    BY <1>2, Zenon DEF FileInv, FileType, Entries
  <2> QED
    BY <1>1, <1>4, <2>1, Zenon DEF FileInv, FileType
<1>7. doing[w] # "write"
  BY <1>1
<1>8. Cat(File!OnDisk, stream) = processed
  BY <1>7, AllWritten, Zenon
<1>9. File!OnDisk' = File!OnDisk
  BY <1>1, OnDiskSame, Zenon
<1> QED
  BY <1>1, <1>5, <1>6, <1>8, <1>9, Zenon DEF FileInv

LEMMA FormatStep ==
    ASSUME OneWriter, FileInv, NEW w \in Writers, File!Format(w)
    PROVE  FileInv'
<1>1. /\ doing[w] = "format"
      /\ format_buffer' = ev[w] /\ processed' = Append(processed, ev[w])
      /\ doing' = [doing EXCEPT ![w] = "write"]
      /\ UNCHANGED <<config, ev, todo, stream, position, disk, name, clock, closed>>
  BY Zenon DEF File!Format
<1>2. (\A v \in Writers : doing'[v] = "write") /\ doing' = [v \in Writers |-> doing'[v]]
  BY <1>1, OnlyWriter, Zenon
<1>3. ev[w] \in Entries /\ processed \in Seq(Entries)
  BY Zenon DEF FileInv, FileType
<1>4. processed' \in Seq(Entries)
  BY <1>1, <1>3
<1>5. FileType'
  BY <1>1, <1>2, <1>3, <1>4, Zenon DEF FileInv, FileType
<1>6. doing[w] # "write" /\ doing[w] # "idle"
  BY <1>1
<1>7. ~closed
  BY <1>6, Zenon DEF FileInv
<1>8. Cat(File!OnDisk, stream) = processed
  BY <1>6, AllWritten, Zenon
<1>9. File!OnDisk' = File!OnDisk
  BY <1>1, OnDiskSame, Zenon
<1>10. Append(Cat(File!OnDisk', stream'), format_buffer') = processed'
  BY <1>1, <1>8, <1>9, Zenon
<1> QED
  BY <1>1, <1>2, <1>5, <1>7, <1>10, Zenon DEF FileInv

LEMMA WriteStep ==
    ASSUME LastSecond \in Nat, OneWriter, FileInv, NEW w \in Writers, File!Write(w)
    PROVE  FileInv'
<1>1. /\ doing[w] = "write"
      /\ doing' = [doing EXCEPT ![w] = "check"]
      /\ UNCHANGED <<config, ev, todo, format_buffer, name, clock, processed, closed>>
  BY Zenon DEF File!Write
<1>2. PICK c : c = Append(stream, format_buffer)
  BY Zenon
<1>3. stream \in Seq(Entries) /\ format_buffer \in Entries /\ processed \in Seq(Entries)
  BY Zenon DEF FileInv, FileType
<1>4. c \in Seq(Entries) /\ << >> \in Seq(Entries)
  BY <1>2, <1>3
<1>5. \/ disk' = [disk EXCEPT ![name] = @ \o c] /\ stream' = << >>
      \/ disk' = disk /\ stream' = c
  BY <1>2, Zenon DEF File!Write, File!Flushed
<1>6. (\A v \in Writers : doing'[v] = "check") /\ doing' = [v \in Writers |-> doing'[v]]
  BY <1>1, OnlyWriter, Zenon
<1>7. \A v \in Writers : doing'[v] # "write"
  BY <1>6
<1>8. doing[w] # "idle"
  BY <1>1
<1>9. ~closed
  BY <1>8, Zenon DEF FileInv
<1>10. File!OnDisk \in Seq(Entries)
  BY JoinedType, OnDiskJoined, Zenon DEF FileInv, FileType
<1>11. Cat(File!OnDisk, c) = processed
  <2>1. Append(Cat(File!OnDisk, stream), format_buffer) = processed
    BY <1>1, Zenon DEF FileInv
  <2>2. Append(Cat(File!OnDisk, stream), format_buffer) = Cat(File!OnDisk, Append(stream, format_buffer))
    BY <1>3, <1>10, CatAppend
  <2> QED
    BY <1>2, <2>1, <2>2, Zenon
<1>12. /\ disk' \in [0 .. LastSecond -> Seq(Entries)] /\ EmptyAfter(disk', name)
       /\ Cat(File!OnDisk', stream') = processed
  <2>1. CASE disk' = [disk EXCEPT ![name] = @ \o c] /\ stream' = << >>
    <3>1. /\ disk' \in [0 .. LastSecond -> Seq(Entries)] /\ EmptyAfter(disk', name)
          /\ File!OnDisk' = Cat(File!OnDisk, c)
      BY <1>4, <2>1, FlushMoves, Zenon
    <3>2. Cat(processed, << >>) = processed
      BY <1>3, CatEmpty, Zenon
    <3> QED
      BY <1>11, <2>1, <3>1, <3>2, Zenon
  <2>2. CASE disk' = disk /\ stream' = c
    <3>1. File!OnDisk' = File!OnDisk
      BY <2>2, OnDiskSame, Zenon
    <3> QED
      BY <1>11, <2>2, <3>1, Zenon DEF FileInv, FileType
  <2> QED
    BY <1>5, <2>1, <2>2, Zenon
<1>13. FileType'
  BY <1>1, <1>4, <1>5, <1>6, <1>12, Zenon DEF FileInv, FileType
<1> QED
  BY <1>1, <1>7, <1>9, <1>12, <1>13, Zenon DEF FileInv

LEMMA CheckRotateStep ==
    ASSUME OneWriter, FileInv, NEW w \in Writers, File!CheckRotate(w)
    PROVE  FileInv'
<1>1. /\ doing[w] = "check"
      /\ UNCHANGED <<config, ev, todo, format_buffer, stream, position, disk, name, clock, processed, closed>>
  BY Zenon DEF File!CheckRotate
<1>2. PICK x \in {"rotate", "idle"} : doing' = [doing EXCEPT ![w] = x]
  BY Zenon DEF File!CheckRotate
<1>3. (\A v \in Writers : doing'[v] = x) /\ doing' = [v \in Writers |-> doing'[v]]
  BY <1>2, OnlyWriter, Zenon
<1>4. \A v \in Writers : doing'[v] # "write"
  BY <1>3
<1>5. FileType'
  BY <1>1, <1>3, Zenon DEF FileInv, FileType
<1>6. doing[w] # "write" /\ doing[w] # "idle"
  BY <1>1
<1>7. ~closed
  BY <1>6, Zenon DEF FileInv
<1>8. Cat(File!OnDisk, stream) = processed
  BY <1>6, AllWritten, Zenon
<1>9. File!OnDisk' = File!OnDisk
  BY <1>1, OnDiskSame, Zenon
<1> QED
  BY <1>1, <1>4, <1>5, <1>7, <1>8, <1>9, Zenon DEF FileInv

(* All that was buffered goes to the end of the file: nothing is added to   *)
(* what was written.                                                        *)
LEMMA StreamFlushed ==
    ASSUME LastSecond \in Nat, FileInv, Cat(File!OnDisk, stream) = processed,
           disk' = [disk EXCEPT ![name] = @ \o stream], stream' = << >>, processed' = processed
    PROVE  /\ disk' \in [0 .. LastSecond -> Seq(Entries)] /\ EmptyAfter(disk', name)
           /\ stream' \in Seq(Entries)
           /\ Cat(File!OnDisk', stream') = processed'
<1>1. stream \in Seq(Entries) /\ processed \in Seq(Entries)
  BY Zenon DEF FileInv, FileType
<1>2. /\ disk' \in [0 .. LastSecond -> Seq(Entries)] /\ EmptyAfter(disk', name)
      /\ File!OnDisk' = Cat(File!OnDisk, stream)
  BY <1>1, FlushMoves, Zenon
<1>3. Cat(processed, << >>) = processed
  BY <1>1, CatEmpty, Zenon
<1>4. << >> \in Seq(Entries)
  OBVIOUS
<1> QED
  BY <1>2, <1>3, <1>4, Zenon

LEMMA RotateStep ==
    ASSUME LastSecond \in Nat, OneWriter, FileInv, NEW w \in Writers, File!Rotate(w)
    PROVE  FileInv'
<1>1. /\ doing[w] = "rotate"
      /\ disk' = [disk EXCEPT ![name] = @ \o stream] /\ stream' = << >>
      /\ name' \in {clock, name}
      /\ doing' = [doing EXCEPT ![w] = "idle"]
      /\ UNCHANGED <<config, ev, todo, format_buffer, clock, processed, closed>>
  BY Zenon DEF File!Rotate
<1>2. (\A v \in Writers : doing'[v] = "idle") /\ doing' = [v \in Writers |-> doing'[v]]
  BY <1>1, OnlyWriter, Zenon
<1>3. \A v \in Writers : doing'[v] # "write"
  BY <1>2
<1>4. doing[w] # "write" /\ doing[w] # "idle"
  BY <1>1
<1>5. ~closed
  BY <1>4, Zenon DEF FileInv
<1>6. Cat(File!OnDisk, stream) = processed
  BY <1>4, AllWritten, Zenon
<1>7. /\ disk' \in [0 .. LastSecond -> Seq(Entries)] /\ EmptyAfter(disk', name)
      /\ stream' \in Seq(Entries)
      /\ Cat(File!OnDisk', stream') = processed'
  BY <1>1, <1>6, StreamFlushed, Zenon
<1>8. name' \in 0 .. LastSecond /\ name' <= clock' /\ name <= name' /\ name \in 0 .. LastSecond
  BY <1>1 DEF FileInv, FileType
<1>9. EmptyAfter(disk', name')
  <2> SUFFICES ASSUME NEW s \in 0 .. LastSecond, name' < s
               PROVE  disk'[s] = << >>
    BY Zenon DEF EmptyAfter
  <2>1. name < s
    BY <1>8
  <2> QED
    BY <1>7, <2>1, Zenon DEF EmptyAfter
<1>10. FileType'
  BY <1>1, <1>2, <1>7, <1>8, Zenon DEF FileInv, FileType
<1> QED
  BY <1>1, <1>3, <1>5, <1>7, <1>9, <1>10, Zenon DEF FileInv

LEMMA FlushStep ==
    ASSUME LastSecond \in Nat, OneWriter, FileInv, NEW w \in Writers, File!Flush(w)
    PROVE  FileInv'
<1>1. /\ doing[w] = "idle" /\ ~closed
      /\ disk' = [disk EXCEPT ![name] = @ \o stream] /\ stream' = << >>
      /\ UNCHANGED <<config, doing, ev, todo, format_buffer, name, clock, processed, closed>>
  BY Zenon DEF File!Flush, File!Flushed
<1>2. doing[w] # "write"
  BY <1>1
<1>3. Cat(File!OnDisk, stream) = processed
  BY <1>2, AllWritten, Zenon
<1>4. /\ disk' \in [0 .. LastSecond -> Seq(Entries)] /\ EmptyAfter(disk', name)
      /\ stream' \in Seq(Entries)
      /\ Cat(File!OnDisk', stream') = processed'
  BY <1>1, <1>3, StreamFlushed, Zenon
<1>5. FileType'
  BY <1>1, <1>4, Zenon DEF FileInv, FileType
<1>6. \A v \in Writers : doing'[v] # "write"
  BY <1>1, <1>2, Zenon DEF OneWriter
<1> QED
  BY <1>1, <1>4, <1>5, <1>6, Zenon DEF FileInv

LEMMA DestroyStep ==
    ASSUME LastSecond \in Nat, FileInv, File!Destroy
    PROVE  FileInv'
<1>1. /\ \A w \in Writers : doing[w] = "idle"
      /\ disk' = [disk EXCEPT ![name] = @ \o stream] /\ stream' = << >>
      /\ UNCHANGED <<config, doing, ev, todo, format_buffer, name, clock, processed>>
  BY Zenon DEF File!Destroy, File!Flushed
<1>2. Cat(File!OnDisk, stream) = processed
  BY <1>1, NoneWriting, Zenon
<1>3. /\ disk' \in [0 .. LastSecond -> Seq(Entries)] /\ EmptyAfter(disk', name)
      /\ stream' \in Seq(Entries)
      /\ Cat(File!OnDisk', stream') = processed'
  BY <1>1, <1>2, StreamFlushed, Zenon
<1>4. FileType'
  BY <1>1, <1>3, Zenon DEF FileInv, FileType
<1>5. \A w \in Writers : doing'[w] # "write" /\ doing'[w] = "idle"
  BY <1>1
<1> QED
  BY <1>1, <1>3, <1>4, <1>5, Zenon DEF FileInv

LEMMA TickStep ==
    ASSUME LastSecond \in Nat, FileInv, File!Tick
    PROVE  FileInv'
<1>1. /\ clock < LastSecond /\ clock' = clock + 1
      /\ UNCHANGED <<config, doing, ev, todo, format_buffer, stream, position, disk, name, processed, closed>>
  BY Zenon DEF File!Tick
<1>2. clock' \in 0 .. LastSecond /\ name' <= clock'
  BY <1>1 DEF FileInv, FileType
<1>3. FileType'
  BY <1>1, <1>2, Zenon DEF FileInv, FileType
<1>4. File!OnDisk' = File!OnDisk
  BY <1>1, OnDiskSame, Zenon
<1> QED
  BY <1>1, <1>3, <1>4, Zenon DEF FileInv

LEMMA FileNext ==
    ASSUME LastSecond \in Nat, OneWriter
    PROVE  FileInv /\ [File!Next]_File!vars => FileInv'
<1> SUFFICES ASSUME FileInv, [File!Next]_File!vars
             PROVE  FileInv'
  OBVIOUS
<1>1. CASE File!SetConfig \/ UNCHANGED File!vars
  <2>1. UNCHANGED <<doing, ev, todo, format_buffer, stream, disk, name, clock, processed, closed>>
    BY <1>1, Zenon DEF File!SetConfig, File!vars
  <2>2. File!OnDisk' = File!OnDisk
    BY <2>1, OnDiskSame, Zenon
  <2>3. FileType'
    BY <2>1, Zenon DEF FileInv, FileType
  <2> QED
    BY <2>1, <2>2, <2>3, Zenon DEF FileInv
<1> QED
  BY <1>1, TickStep, DestroyStep, StartProcessStep, FormatStep, WriteStep, CheckRotateStep,
     RotateStep, FlushStep, Zenon DEF File!Next

LEMMA FileInvariant ==
    ASSUME LastSecond \in Nat, OneWriter
    PROVE  File!Spec => []FileInv
<1>1. File!Init => FileInv
  BY FileInit, Zenon
<1>2. FileInv /\ [File!Next]_File!vars => FileInv'
  BY FileNext, Zenon
<1> QED
  BY <1>1, <1>2, PTL DEF File!Spec

(* Across buffering, flushing and rotation, also twice within a second,     *)
(* the files in the order of their names and what is still buffered are     *)
(* the accepted events in the order they were processed, for any events,    *)
(* configurations and clock, if one strand uses the sink                    *)
(* (FileSink::process, flush, rotate_log).                                  *)
THEOREM FileSinkKeepsOrder ==
    ASSUME LastSecond \in Nat, OneWriter
    PROVE  File!Spec => []File!EventsInOrder
<1>1. FileInv => File!EventsInOrder
  BY Zenon DEF FileInv, File!EventsInOrder, File!Contents, Cat
<1> QED
  BY <1>1, FileInvariant, PTL
=============================================================================
