------------------------ MODULE TradeGroupingProofs ------------------------
(***************************************************************************)
(* Proofs about the grouping of executions into trades (TradeGrouping):    *)
(* whatever is grouped, the closed trades and the open position use every  *)
(* execution once and in full, and a closed trade exits what it entered.   *)
(* And grouping in parts: as long as no execution turns a position over,   *)
(* the executions that no closed trade has used, grouped on their own,     *)
(* make the trades that are missing.                                       *)
(*                                                                         *)
(* Sums, the lots an exit eats and the grouping itself are functions       *)
(* defined by recursion on a number.  Each has a lemma that says it        *)
(* exists, one for nothing and one for one element more; what is proved of *)
(* all of them is proved by such steps, with a set for what is claimed     *)
(* (UpTo, BySequence).                                                     *)
(***************************************************************************)
EXTENDS TradeGrouping, FiniteSetTheorems, WellFoundedInduction, TLAPS

-----------------------------------------------------------------------------
(* Induction and recursion, with sets in the place of operators *)

LEMMA Least ==
    ASSUME NEW T \in SUBSET Nat, T # {}
    PROVE  \E x \in T : \A y \in T : x <= y
<1> DEFINE R == OpToRel(<, Nat)
<1>1. IsWellFoundedOn(R, Nat)  BY NatLessThanWellFounded
<1>2. \A x, y \in Nat : <<y, x>> \in R <=> y < x  BY DEF OpToRel
<1> HIDE DEF R
<1>3. \E x \in T : \A y \in T : ~ (<<y, x>> \in R)  BY <1>1, WFMin
<1>4. PICK x \in T : \A y \in T : ~ (<<y, x>> \in R)  BY <1>3
<1>5. ASSUME NEW y \in T PROVE x <= y
    <2>1. x \in Nat /\ y \in Nat /\ <<y, x>> \notin R  BY <1>4
    <2>2. ~ (y < x)  BY <1>2, <2>1
    <2> QED  BY <2>1, <2>2
<1> QED  BY <1>5

LEMMA UpTo ==
    ASSUME NEW N \in Nat, NEW T, 0 \in T, \A n \in 1..N : n - 1 \in T => n \in T
    PROVE  \A n \in 0..N : n \in T
<1> SUFFICES ASSUME NEW n \in 0..N, n \notin T PROVE FALSE  OBVIOUS
<1> DEFINE Out == (0..N) \ T
<1>0. Out \in SUBSET Nat /\ n \in Out  OBVIOUS
<1> HIDE DEF Out
<1>1. PICK m \in Out : \A y \in Out : m <= y  BY <1>0, Least
<1> USE DEF Out
<1>2. m # 0 /\ m \in 1..N  OBVIOUS
<1>3. m - 1 \in 0..N /\ m - 1 \notin Out  BY <1>1, <1>2
<1> QED  BY <1>1, <1>2, <1>3

\* A function defined by recursion on a number exists.
Recurs(h, N, D, base, step) ==
    /\ h \in [0..N -> D] /\ h[0] = base
    /\ \A k \in 1..N : h[k] = step[k][h[k - 1]]

LEMMA RecursionExists ==
    ASSUME NEW N \in Nat, NEW D, NEW base \in D, NEW step \in [1..N -> [D -> D]]
    PROVE  \E h : Recurs(h, N, D, base, step)
<1> DEFINE T == {n \in 0..N : \E h \in [0..n -> D] :
                                  /\ h[0] = base
                                  /\ \A k \in 1..n : h[k] = step[k][h[k - 1]]}
<1>1. 0 \in T
    <2> DEFINE z == [k \in 0..0 |-> base]
    <2>1. z \in [0..0 -> D] /\ z[0] = base  OBVIOUS
    <2>2. \A k \in 1..0 : z[k] = step[k][z[k - 1]]  OBVIOUS
    <2> HIDE DEF z
    <2>3. \E h \in [0..0 -> D] : h[0] = base /\ \A k \in 1..0 : h[k] = step[k][h[k - 1]]
        BY <2>1, <2>2
    <2> QED  BY <2>3
<1>2. ASSUME NEW n \in 1..N, n - 1 \in T PROVE n \in T
    <2>1. PICK h \in [0..(n - 1) -> D] :
                   /\ h[0] = base
                   /\ \A k \in 1..(n - 1) : h[k] = step[k][h[k - 1]]
        BY <1>2
    <2> DEFINE g == [k \in 0..n |-> IF k = n THEN step[n][h[n - 1]] ELSE h[k]]
    <2>2. h[n - 1] \in D /\ step[n][h[n - 1]] \in D  OBVIOUS
    <2>3. g \in [0..n -> D]
        <3>1. \A k \in 0..n : k # n => k \in 0..(n - 1)  OBVIOUS
        <3> QED  BY <2>2, <3>1
    <2>4. g[0] = base /\ g[n] = step[n][g[n - 1]]
        <3>1. 0 \in 0..n /\ 0 # n /\ g[0] = h[0]  OBVIOUS
        <3>2. n - 1 \in 0..n /\ n - 1 # n /\ n \in 0..n  OBVIOUS
        <3>3. g[n - 1] = h[n - 1] /\ g[n] = step[n][h[n - 1]]  BY <3>2
        <3> QED  BY <2>1, <3>1, <3>3
    <2>5. ASSUME NEW k \in 1..n PROVE g[k] = step[k][g[k - 1]]
        <3>1. CASE k = n  BY <2>4, <3>1
        <3>2. CASE k # n  BY <2>1, <3>2
        <3> QED  BY <3>1, <3>2
    <2> HIDE DEF g
    <2> QED  BY <2>3, <2>4, <2>5
<1> HIDE DEF T
<1>3. \A n \in 1..N : n - 1 \in T => n \in T  BY <1>2
<1>4. \A n \in 0..N : n \in T  BY <1>1, <1>3, UpTo
<1>5. N \in T  BY <1>4
<1> QED  BY <1>5 DEF T, Recurs

-----------------------------------------------------------------------------
(* Sums *)

\* Partial sums.
IsSum(f, s) == f = [n \in 0..Len(s) |-> IF n = 0 THEN 0 ELSE f[n - 1] + s[n]]

LEMMA SumExists ==
    ASSUME NEW s \in Seq(Int)
    PROVE  \E f \in [0..Len(s) -> Int] : IsSum(f, s) /\ SumSeq(s) = f[Len(s)]
<1> DEFINE N == Len(s)
           step == [n \in 1..N |-> [x \in Int |-> x + s[n]]]
           f == CHOOSE g : IsSum(g, s)
<1>1. N \in Nat /\ \A n \in 1..N : s[n] \in Int  OBVIOUS
<1>2. step \in [1..N -> [Int -> Int]]  BY <1>1
<1>3. \A n \in 1..N, x \in Int : step[n][x] = x + s[n]  OBVIOUS
<1> HIDE DEF step
<1>4. \E h \in [0..N -> Int] : h[0] = 0 /\ \A k \in 1..N : h[k] = step[k][h[k - 1]]
    <2> DEFINE D == Int
               zero == 0
    <2>1. N \in Nat /\ zero \in D /\ step \in [1..N -> [D -> D]]  BY <1>1, <1>2
    <2> HIDE DEF N, D, zero
    <2>2. \E h : Recurs(h, N, D, zero, step)  BY <2>1, RecursionExists
    <2> QED  BY <2>2 DEF D, zero, Recurs
<1>5. PICK h \in [0..N -> Int] : h[0] = 0 /\ \A k \in 1..N : h[k] = h[k - 1] + s[k]
    <2>1. \A h \in [0..N -> Int], k \in 1..N : h[k - 1] \in Int  OBVIOUS
    <2> QED  BY <1>3, <1>4, <2>1
<1>6. IsSum(h, s)
    <2>1. \A n \in 0..N : h[n] = IF n = 0 THEN 0 ELSE h[n - 1] + s[n]  BY <1>5
    <2> QED  BY <2>1 DEF IsSum
<1>7. IsSum(f, s)  BY <1>6
<1>8. SumSeq(s) = f[N]  BY DEF SumSeq, IsSum
<1> HIDE DEF f, N
<1>9. DOMAIN f = 0..N /\ f[0] = 0 /\ \A n \in 1..N : f[n] = f[n - 1] + s[n]
    BY <1>1, <1>7 DEF IsSum, N
<1>10. \A n \in 0..N : f[n] \in Int
    <2> DEFINE T == {n \in 0..N : f[n] \in Int}
    <2>1. 0 \in T  BY <1>1, <1>9
    <2>2. ASSUME NEW n \in 1..N, n - 1 \in T PROVE n \in T
        <3>1. n \in 0..N /\ f[n - 1] \in Int /\ f[n] = f[n - 1] + s[n] /\ s[n] \in Int
            BY <1>1, <1>9, <2>2
        <3> QED  BY <3>1
    <2> HIDE DEF T
    <2>3. \A n \in 0..N : n \in T  BY <1>1, <2>1, <2>2, UpTo
    <2> QED  BY <2>3 DEF T
<1>11. f \in [0..N -> Int]  BY <1>7, <1>9, <1>10 DEF IsSum, N
<1> QED  BY <1>7, <1>8, <1>11 DEF N

LEMMA SumIsInt == ASSUME NEW s \in Seq(Int) PROVE SumSeq(s) \in Int
BY SumExists

LEMMA SumOfNone == SumSeq(<<>>) = 0
<1>0. <<>> \in Seq(Int) /\ Len(<<>>) = 0  OBVIOUS
<1>1. PICK f : IsSum(f, <<>>) /\ SumSeq(<<>>) = f[0]  BY <1>0, SumExists
<1> QED  BY <1>1 DEF IsSum

LEMMA SumOfMore ==
    ASSUME NEW s \in Seq(Int), NEW x \in Int
    PROVE  SumSeq(Append(s, x)) = SumSeq(s) + x
<1> DEFINE t == Append(s, x)
           N == Len(s)
<1>1. t \in Seq(Int) /\ Len(t) = N + 1 /\ t[N + 1] = x /\ N \in Nat  OBVIOUS
<1>2. \A n \in 1..N : t[n] = s[n]  OBVIOUS
<1>3. PICK f : IsSum(f, s) /\ SumSeq(s) = f[N]  BY SumExists
<1> HIDE DEF t
<1>4. PICK g : IsSum(g, t) /\ SumSeq(t) = g[N + 1]  BY <1>1, SumExists
<1>5. f[0] = 0 /\ \A n \in 1..N : f[n] = f[n - 1] + s[n]
    <2>1. \A n \in 0..N : f[n] = IF n = 0 THEN 0 ELSE f[n - 1] + s[n]  BY <1>3 DEF IsSum
    <2>2. N \in Nat  OBVIOUS
    <2> HIDE DEF N
    <2> QED  BY <2>1, <2>2
<1>6. g[0] = 0 /\ \A n \in 1..(N + 1) : g[n] = g[n - 1] + t[n]  BY <1>1, <1>4 DEF IsSum
<1>7. \A n \in 0..N : f[n] = g[n]
    <2> DEFINE T == {n \in 0..N : f[n] = g[n]}
    <2>1. 0 \in T  BY <1>1, <1>5, <1>6
    <2>2. \A n \in 1..N : n - 1 \in T => n \in T  BY <1>1, <1>2, <1>5, <1>6
    <2> HIDE DEF T
    <2>3. \A n \in 0..N : n \in T  BY <1>1, <2>1, <2>2, UpTo
    <2> QED  BY <2>3 DEF T
<1>8. g[N + 1] = g[N] + x /\ g[N] = f[N]  BY <1>1, <1>6, <1>7
<1> QED  BY <1>3, <1>4, <1>8 DEF t

-----------------------------------------------------------------------------
(* Sequences, one element at a time *)

\* What holds of the empty sequence and is kept by Append holds of every one.
LEMMA BySequence ==
    ASSUME NEW S, NEW T, <<>> \in T,
           \A s \in Seq(S), x \in S : s \in T => Append(s, x) \in T
    PROVE  \A s \in Seq(S) : s \in T
<1> SUFFICES ASSUME NEW s \in Seq(S) PROVE s \in T  OBVIOUS
<1> DEFINE N == Len(s)
           Upper(n) == [i \in 1..n |-> s[i]]
           U == {n \in 0..N : Upper(n) \in T}
<1>1. N \in Nat /\ \A i \in 1..N : s[i] \in S  OBVIOUS
<1>2. 0 \in U
    <2>1. Upper(0) = <<>>  OBVIOUS
    <2> QED  BY <1>1, <2>1
<1>3. ASSUME NEW n \in 1..N, n - 1 \in U PROVE n \in U
    <2>1. Upper(n - 1) \in Seq(S) /\ Len(Upper(n - 1)) = n - 1  OBVIOUS
    <2>2. Upper(n) \in Seq(S) /\ Len(Upper(n)) = n  OBVIOUS
    <2>3. Upper(n) = Append(Upper(n - 1), s[n])
        <3> DEFINE a == Append(Upper(n - 1), s[n])
        <3>1. a \in Seq(S) /\ Len(a) = n  BY <2>1
        <3>2. \A i \in 1..n : a[i] = Upper(n)[i]
            <4>1. a[n] = s[n] /\ \A i \in 1..(n - 1) : a[i] = Upper(n - 1)[i]  BY <2>1
            <4> QED  BY <4>1
        <3> QED  BY <2>2, <3>1, <3>2
    <2>4. Upper(n - 1) \in T /\ s[n] \in S  BY <1>1, <1>3
    <2> HIDE DEF Upper
    <2>5. Upper(n) \in T  BY <2>1, <2>3, <2>4
    <2> QED  BY <2>5
<1> HIDE DEF U
<1>4. \A n \in 1..N : n - 1 \in U => n \in U  BY <1>3
<1>5. \A n \in 0..N : n \in U  BY <1>1, <1>2, <1>4, UpTo
<1>6. Upper(N) \in T  BY <1>1, <1>5 DEF U
<1>7. Upper(N) = s  OBVIOUS
<1> QED  BY <1>6, <1>7

LEMMA SumOfBoth ==
    ASSUME NEW s \in Seq(Int), NEW t \in Seq(Int)
    PROVE  SumSeq(s \o t) = SumSeq(s) + SumSeq(t)
<1> DEFINE T == {u \in Seq(Int) : SumSeq(s \o u) = SumSeq(s) + SumSeq(u)}
<1>1. <<>> \in T
    <2>1. s \o <<>> = s  OBVIOUS
    <2>2. SumSeq(s) \in Int  BY SumIsInt
    <2> QED  BY <2>1, <2>2, SumOfNone
<1>2. ASSUME NEW u \in Seq(Int), NEW x \in Int, u \in T PROVE Append(u, x) \in T
    <2>1. s \o Append(u, x) = Append(s \o u, x)  OBVIOUS
    <2>2. s \o u \in Seq(Int) /\ Append(u, x) \in Seq(Int)  OBVIOUS
    <2>3. SumSeq(Append(s \o u, x)) = SumSeq(s \o u) + x  BY <2>2, SumOfMore
    <2>4. SumSeq(Append(u, x)) = SumSeq(u) + x  BY SumOfMore
    <2>5. SumSeq(s) \in Int /\ SumSeq(u) \in Int  BY SumIsInt
    <2>6. SumSeq(s \o u) = SumSeq(s) + SumSeq(u)  BY <1>2
    <2>7. SumSeq(s \o Append(u, x)) = SumSeq(s) + SumSeq(Append(u, x))
        <3>1. SumSeq(s \o Append(u, x)) = (SumSeq(s) + SumSeq(u)) + x  BY <2>1, <2>3, <2>6
        <3> HIDE DEF T
        <3> QED  BY <3>1, <2>4, <2>5
    <2> QED  BY <2>2, <2>7
<1> HIDE DEF T
<1>3. t \in T  BY <1>1, <1>2, BySequence
<1> QED  BY <1>3 DEF T

\* Sums of elements of two sequences of the same length.
LEMMA SumsCompare ==
    ASSUME NEW s \in Seq(Int), NEW t \in Seq(Int), Len(s) = Len(t),
           \A i \in 1..Len(s) : s[i] <= t[i]
    PROVE  SumSeq(s) <= SumSeq(t)
<1> DEFINE N == Len(s)
<1>1. PICK f \in [0..N -> Int] : IsSum(f, s) /\ SumSeq(s) = f[N]  BY SumExists
<1>2. PICK g \in [0..N -> Int] : IsSum(g, t) /\ SumSeq(t) = g[N]  BY SumExists
<1>3. N \in Nat /\ \A n \in 1..N : s[n] \in Int /\ t[n] \in Int /\ s[n] <= t[n]  OBVIOUS
<1>4. f[0] = 0 /\ \A n \in 1..N : f[n] = f[n - 1] + s[n]
    <2>1. \A n \in 0..N : f[n] = IF n = 0 THEN 0 ELSE f[n - 1] + s[n]  BY <1>1 DEF IsSum
    <2> HIDE DEF N
    <2> QED  BY <1>3, <2>1
<1>5. g[0] = 0 /\ \A n \in 1..N : g[n] = g[n - 1] + t[n]
    <2>1. \A n \in 0..N : g[n] = IF n = 0 THEN 0 ELSE g[n - 1] + t[n]  BY <1>2 DEF IsSum
    <2> HIDE DEF N
    <2> QED  BY <1>3, <2>1
<1> HIDE DEF N
<1> DEFINE T == {n \in 0..N : f[n] <= g[n]}
<1>6. 0 \in T  BY <1>3, <1>4, <1>5
<1>7. ASSUME NEW n \in 1..N, n - 1 \in T PROVE n \in T
    <2>1. n - 1 \in 0..N /\ n \in 0..N  BY <1>3
    <2>2. /\ f[n - 1] \in Int /\ g[n - 1] \in Int /\ f[n - 1] <= g[n - 1]
          /\ f[n] = f[n - 1] + s[n] /\ g[n] = g[n - 1] + t[n]
          /\ s[n] \in Int /\ t[n] \in Int /\ s[n] <= t[n]
        BY <1>3, <1>4, <1>5, <1>7, <2>1
    <2>3. f[n] <= g[n]  BY <2>2
    <2> QED  BY <2>1, <2>3
<1> HIDE DEF T
<1>8. \A n \in 1..N : n - 1 \in T => n \in T  BY <1>7
<1>9. \A n \in 0..N : n \in T  BY <1>3, <1>6, <1>8, UpTo
<1>10. N \in T  BY <1>3, <1>9
<1> QED  BY <1>1, <1>2, <1>10 DEF T

-----------------------------------------------------------------------------
(* Sums over sequences of what a function gives for their elements *)

SumOver(F, s) == SumSeq([i \in DOMAIN s |-> F[s[i]]])

LEMMA MapOfMore ==
    ASSUME NEW S, NEW F \in [S -> Int], NEW s \in Seq(S), NEW x \in S
    PROVE  /\ [i \in DOMAIN s |-> F[s[i]]] \in Seq(Int)
           /\ [i \in DOMAIN Append(s, x) |-> F[Append(s, x)[i]]]
                = Append([i \in DOMAIN s |-> F[s[i]]], F[x])
<1> DEFINE N == Len(s)
           m == [i \in DOMAIN s |-> F[s[i]]]
           t == Append(s, x)
           a == [i \in DOMAIN t |-> F[t[i]]]
<1>1. N \in Nat /\ DOMAIN s = 1..N /\ \A i \in 1..N : s[i] \in S  OBVIOUS
<1>2. m \in Seq(Int) /\ Len(m) = N /\ \A i \in 1..N : m[i] = F[s[i]]  BY <1>1
<1>3. /\ t \in Seq(S) /\ Len(t) = N + 1 /\ DOMAIN t = 1..(N + 1) /\ t[N + 1] = x
      /\ \A i \in 1..N : t[i] = s[i]
    OBVIOUS
<1>4. a \in Seq(Int) /\ Len(a) = N + 1 /\ \A i \in 1..(N + 1) : a[i] = F[t[i]]
    <2>1. \A i \in 1..(N + 1) : t[i] \in S  BY <1>1, <1>3
    <2> HIDE DEF t, N
    <2> QED  BY <1>1, <1>3, <2>1
<1>5. /\ Append(m, F[x]) \in Seq(Int) /\ Len(Append(m, F[x])) = N + 1
      /\ \A i \in 1..N : Append(m, F[x])[i] = m[i]
      /\ Append(m, F[x])[N + 1] = F[x]
    <2> HIDE DEF m, N
    <2> QED  BY <1>1, <1>2
<1>6. \A i \in 1..(N + 1) : a[i] = Append(m, F[x])[i]
    <2> HIDE DEF m, N, a, t
    <2> QED  BY <1>1, <1>2, <1>3, <1>4, <1>5
<1>7. a = Append(m, F[x])
    <2> HIDE DEF m, N, a
    <2> QED  BY <1>1, <1>4, <1>5, <1>6
<1> QED  BY <1>2, <1>7

LEMMA Totals ==
    ASSUME NEW S, NEW F \in [S -> Int]
    PROVE  /\ SumOver(F, <<>>) = 0
           /\ \A s \in Seq(S) : SumOver(F, s) \in Int
           /\ \A s \in Seq(S), x \in S : SumOver(F, Append(s, x)) = SumOver(F, s) + F[x]
<1>1. SumOver(F, <<>>) = 0
    <2>1. [i \in DOMAIN <<>> |-> F[<<>>[i]]] = <<>>  OBVIOUS
    <2> QED  BY <2>1, SumOfNone DEF SumOver
<1>2. ASSUME NEW s \in Seq(S) PROVE SumOver(F, s) \in Int
    <2>1. [i \in DOMAIN s |-> F[s[i]]] \in Seq(Int)
        <3>1. Len(s) \in Nat /\ DOMAIN s = 1..Len(s) /\ \A i \in 1..Len(s) : s[i] \in S  OBVIOUS
        <3> QED  BY <3>1
    <2> QED  BY <2>1, SumIsInt DEF SumOver
<1>3. ASSUME NEW s \in Seq(S), NEW x \in S
      PROVE  SumOver(F, Append(s, x)) = SumOver(F, s) + F[x]
    <2> DEFINE m == [i \in DOMAIN s |-> F[s[i]]]
    <2>1. m \in Seq(Int)  BY MapOfMore
    <2>2. [i \in DOMAIN Append(s, x) |-> F[Append(s, x)[i]]] = Append(m, F[x])  BY MapOfMore
    <2>3. F[x] \in Int  OBVIOUS
    <2> HIDE DEF m
    <2>4. SumSeq(Append(m, F[x])) = SumSeq(m) + F[x]  BY <2>1, <2>3, SumOfMore
    <2> QED  BY <2>2, <2>4 DEF SumOver, m
<1> QED  BY <1>1, <1>2, <1>3

-----------------------------------------------------------------------------
(* Legs: what they come to *)

Legs(X)   == [ex : X, qty : Nat \ {0}]
Sides     == {"long", "short"}

LEMMA QuantityOfLegs ==
    ASSUME NEW X
    PROVE  /\ Quantity(<<>>) = 0
           /\ \A ls \in Seq(Legs(X)) : Quantity(ls) \in Nat /\ (ls # <<>> => Quantity(ls) > 0)
           /\ \A ls \in Seq(Legs(X)), leg \in Legs(X) :
                  Quantity(Append(ls, leg)) = Quantity(ls) + leg.qty
<1> DEFINE F == [l \in Legs(X) |-> l.qty]
<1>1. F \in [Legs(X) -> Int] /\ \A l \in Legs(X) : F[l] = l.qty /\ l.qty \in Nat \ {0}
    BY DEF Legs
<1>2. \A ls \in Seq(Legs(X)) : Quantity(ls) = SumOver(F, ls)
    <2> SUFFICES ASSUME NEW ls \in Seq(Legs(X)) PROVE Quantity(ls) = SumOver(F, ls)  OBVIOUS
    <2>1. \A i \in DOMAIN ls : F[ls[i]] = ls[i].qty  OBVIOUS
    <2>2. [i \in DOMAIN ls |-> ls[i].qty] = [i \in DOMAIN ls |-> F[ls[i]]]  BY <2>1
    <2> QED  BY <2>2 DEF Quantity, SumOver
<1> HIDE DEF F
<1>3. Quantity(<<>>) = 0
    <2>1. <<>> \in Seq(Legs(X))  OBVIOUS
    <2>2. SumOver(F, <<>>) = 0  BY <1>1, Totals
    <2> QED  BY <1>2, <2>1, <2>2
<1>4. \A ls \in Seq(Legs(X)) : Quantity(ls) \in Int  BY <1>1, <1>2, Totals
<1>5. ASSUME NEW ls \in Seq(Legs(X)), NEW leg \in Legs(X)
      PROVE  Quantity(Append(ls, leg)) = Quantity(ls) + leg.qty
    <2>1. Append(ls, leg) \in Seq(Legs(X))  OBVIOUS
    <2>2. SumOver(F, Append(ls, leg)) = SumOver(F, ls) + F[leg]  BY <1>1, Totals
    <2> QED  BY <1>1, <1>2, <2>1, <2>2
<1> DEFINE T == {ls \in Seq(Legs(X)) : Quantity(ls) \in Nat /\ (ls # <<>> => Quantity(ls) > 0)}
<1>6. <<>> \in T  BY <1>3
<1>7. ASSUME NEW ls \in Seq(Legs(X)), NEW leg \in Legs(X), ls \in T PROVE Append(ls, leg) \in T
    <2>1. Quantity(Append(ls, leg)) = Quantity(ls) + leg.qty  BY <1>5
    <2>2. leg.qty \in Nat \ {0} /\ Quantity(ls) \in Nat  BY <1>1, <1>7
    <2>3. Append(ls, leg) \in Seq(Legs(X))  OBVIOUS
    <2> QED  BY <2>1, <2>2, <2>3
<1> HIDE DEF T
<1>8. \A ls \in Seq(Legs(X)) : ls \in T  BY <1>6, <1>7, BySequence
<1> QED  BY <1>3, <1>5, <1>8 DEF T

LEMMA ValueOfLegs ==
    ASSUME NEW X \in SUBSET Executions
    PROVE  /\ Value(<<>>) = 0
           /\ \A ls \in Seq(Legs(X)) : Value(ls) \in Int
           /\ \A ls \in Seq(Legs(X)), leg \in Legs(X) :
                  Value(Append(ls, leg)) = Value(ls) + leg.qty * leg.ex.price
<1> DEFINE F == [l \in Legs(X) |-> l.qty * l.ex.price]
<1>1. F \in [Legs(X) -> Int] /\ \A l \in Legs(X) : F[l] = l.qty * l.ex.price
    <2>1. \A l \in Legs(X) : l.qty \in Int /\ l.ex.price \in Int  BY DEF Legs, Executions
    <2>2. \A l \in Legs(X) : l.qty * l.ex.price \in Int  BY <2>1
    <2> QED  BY <2>2
<1>2. \A ls \in Seq(Legs(X)) : Value(ls) = SumOver(F, ls)
    <2> SUFFICES ASSUME NEW ls \in Seq(Legs(X)) PROVE Value(ls) = SumOver(F, ls)  OBVIOUS
    <2>1. \A i \in DOMAIN ls : F[ls[i]] = ls[i].qty * ls[i].ex.price  OBVIOUS
    <2>2. [i \in DOMAIN ls |-> ls[i].qty * ls[i].ex.price] = [i \in DOMAIN ls |-> F[ls[i]]]
        BY <2>1
    <2> QED  BY <2>2 DEF Value, SumOver
<1> HIDE DEF F
<1>3. Value(<<>>) = 0
    <2>1. <<>> \in Seq(Legs(X))  OBVIOUS
    <2>2. SumOver(F, <<>>) = 0  BY <1>1, Totals
    <2> QED  BY <1>2, <2>1, <2>2
<1>4. \A ls \in Seq(Legs(X)) : Value(ls) \in Int  BY <1>1, <1>2, Totals
<1>5. ASSUME NEW ls \in Seq(Legs(X)), NEW leg \in Legs(X)
      PROVE  Value(Append(ls, leg)) = Value(ls) + leg.qty * leg.ex.price
    <2>1. Append(ls, leg) \in Seq(Legs(X))  OBVIOUS
    <2>2. SumOver(F, Append(ls, leg)) = SumOver(F, ls) + F[leg]  BY <1>1, Totals
    <2> QED  BY <1>1, <1>2, <2>1, <2>2
<1> QED  BY <1>3, <1>4, <1>5

LEMMA LegsOfExecution ==
    ASSUME NEW X, NEW ex
    PROVE  /\ OfExecution(<<>>, ex) = 0
           /\ \A ls \in Seq(Legs(X)) : OfExecution(ls, ex) \in Int
           /\ \A ls \in Seq(Legs(X)), leg \in Legs(X) :
                  OfExecution(Append(ls, leg), ex)
                    = OfExecution(ls, ex) + (IF leg.ex = ex THEN leg.qty ELSE 0)
<1> DEFINE F == [l \in Legs(X) |-> IF l.ex = ex THEN l.qty ELSE 0]
<1>1. F \in [Legs(X) -> Int] /\ \A l \in Legs(X) : F[l] = IF l.ex = ex THEN l.qty ELSE 0
    <2>1. \A l \in Legs(X) : l.qty \in Int  BY DEF Legs
    <2> QED  BY <2>1
<1>2. \A ls \in Seq(Legs(X)) : OfExecution(ls, ex) = SumOver(F, ls)
    <2> SUFFICES ASSUME NEW ls \in Seq(Legs(X)) PROVE OfExecution(ls, ex) = SumOver(F, ls)  OBVIOUS
    <2>1. \A i \in DOMAIN ls : F[ls[i]] = IF ls[i].ex = ex THEN ls[i].qty ELSE 0  OBVIOUS
    <2>2. [i \in DOMAIN ls |-> IF ls[i].ex = ex THEN ls[i].qty ELSE 0]
            = [i \in DOMAIN ls |-> F[ls[i]]]
        BY <2>1
    <2> QED  BY <2>2 DEF OfExecution, SumOver
<1> HIDE DEF F
<1>3. OfExecution(<<>>, ex) = 0
    <2>1. <<>> \in Seq(Legs(X))  OBVIOUS
    <2>2. SumOver(F, <<>>) = 0  BY <1>1, Totals
    <2> QED  BY <1>2, <2>1, <2>2
<1>4. \A ls \in Seq(Legs(X)) : OfExecution(ls, ex) \in Int  BY <1>1, <1>2, Totals
<1>5. ASSUME NEW ls \in Seq(Legs(X)), NEW leg \in Legs(X)
      PROVE  OfExecution(Append(ls, leg), ex)
               = OfExecution(ls, ex) + (IF leg.ex = ex THEN leg.qty ELSE 0)
    <2>1. Append(ls, leg) \in Seq(Legs(X))  OBVIOUS
    <2>2. SumOver(F, Append(ls, leg)) = SumOver(F, ls) + F[leg]  BY <1>1, Totals
    <2> QED  BY <1>1, <1>2, <2>1, <2>2
<1> QED  BY <1>3, <1>4, <1>5

-----------------------------------------------------------------------------
(* What an exit eats *)

Meals(X) == [left : Nat, lots : Seq(Legs(X)), pnl : Int]

LEMMA LotEaten ==
    ASSUME NEW X \in SUBSET Executions, NEW m \in Meals(X), NEW lot \in Legs(X),
           NEW ex \in X, NEW side \in Sides
    PROVE  EatLot(m, lot, ex, side) \in Meals(X)
<1> DEFINE q == Lesser(m.left, lot.qty)
           rest == [lot EXCEPT !.qty = @ - q]
<1>1. m.left \in Nat /\ lot.qty \in Nat \ {0} /\ lot.ex \in X
      /\ m.lots \in Seq(Legs(X)) /\ m.pnl \in Int
    BY DEF Meals, Legs
<1>2. q \in Nat /\ m.left - q \in Nat /\ lot.qty - q \in Nat  BY <1>1 DEF Lesser
<1>3. rest = [ex |-> lot.ex, qty |-> lot.qty - q]  BY DEF Legs
<1>4. lot.qty > q => rest \in Legs(X)  BY <1>1, <1>2, <1>3 DEF Legs
<1>5. ex.price \in Int /\ lot.ex.price \in Int /\ Sign(side) \in Int
    BY <1>1 DEF Executions, Sign
<1>6. q * (ex.price - lot.ex.price) * Sign(side) \in Int
    <2> DEFINE d == ex.price - lot.ex.price
    <2>1. d \in Int  BY <1>5
    <2> HIDE DEF d, q
    <2>2. q * d \in Int  BY <1>2, <2>1
    <2>3. (q * d) * Sign(side) \in Int  BY <1>5, <2>2
    <2> QED  BY <2>3 DEF d
<1> HIDE DEF q, rest
<1>7. (IF lot.qty > q THEN Append(m.lots, rest) ELSE m.lots) \in Seq(Legs(X))
    BY <1>1, <1>4
<1>8. EatLot(m, lot, ex, side)
        = [left |-> m.left - q,
           lots |-> IF lot.qty > q THEN Append(m.lots, rest) ELSE m.lots,
           pnl  |-> m.pnl + q * (ex.price - lot.ex.price) * Sign(side)]
    BY DEF EatLot, q, rest
<1>9. m.pnl + q * (ex.price - lot.ex.price) * Sign(side) \in Int  BY <1>1, <1>6
<1> QED  BY <1>2, <1>7, <1>8, <1>9 DEF Meals

IsMeal(f, lots, ex, side) ==
    f = [n \in 0..Len(lots) |-> IF n = 0 THEN [left |-> ex.qty, lots |-> <<>>, pnl |-> 0]
                                ELSE EatLot(f[n - 1], lots[n], ex, side)]

EatsUp(f, X, lots, ex, side) ==
    /\ f \in [0..Len(lots) -> Meals(X)]
    /\ f[0] = [left |-> ex.qty, lots |-> <<>>, pnl |-> 0]
    /\ \A n \in 1..Len(lots) : f[n] = EatLot(f[n - 1], lots[n], ex, side)
    /\ Eat(lots, ex, side) = f[Len(lots)]

LEMMA MealExists ==
    ASSUME NEW X \in SUBSET Executions, NEW lots \in Seq(Legs(X)),
           NEW ex \in X, NEW side \in Sides
    PROVE  \E f : EatsUp(f, X, lots, ex, side)
<1> DEFINE N == Len(lots)
           D == Meals(X)
           base == [left |-> ex.qty, lots |-> <<>>, pnl |-> 0]
           step == [n \in 1..N |-> [m \in D |-> EatLot(m, lots[n], ex, side)]]
           f == CHOOSE g : IsMeal(g, lots, ex, side)
<1>1. N \in Nat /\ \A n \in 1..N : lots[n] \in Legs(X)  OBVIOUS
<1>2. base \in D
    <2>1. ex.qty \in Nat /\ <<>> \in Seq(Legs(X))  BY DEF Executions
    <2> QED  BY <2>1 DEF Meals
<1>3. \A n \in 1..N, m \in D : EatLot(m, lots[n], ex, side) \in D  BY <1>1, LotEaten
<1>4. step \in [1..N -> [D -> D]]  BY <1>3
<1>5. \A n \in 1..N, m \in D : step[n][m] = EatLot(m, lots[n], ex, side)  OBVIOUS
<1> HIDE DEF step, D, base, N
<1>6. PICK h : Recurs(h, N, D, base, step)  BY <1>1, <1>2, <1>4, RecursionExists
<1>7. /\ h \in [0..N -> D] /\ h[0] = base
      /\ \A n \in 1..N : h[n] = EatLot(h[n - 1], lots[n], ex, side)
    <2>1. h \in [0..N -> D] /\ h[0] = base /\ \A n \in 1..N : h[n] = step[n][h[n - 1]]
        BY <1>6 DEF Recurs
    <2>2. \A n \in 1..N : h[n - 1] \in D  BY <1>1, <2>1
    <2> QED  BY <1>5, <2>1, <2>2
<1>8. IsMeal(h, lots, ex, side)
    <2>1. \A n \in 0..N : h[n] = IF n = 0 THEN base ELSE EatLot(h[n - 1], lots[n], ex, side)
        BY <1>1, <1>7
    <2> QED  BY <1>7, <2>1 DEF IsMeal, N, base
<1>9. IsMeal(f, lots, ex, side)  BY <1>8
<1>10. Eat(lots, ex, side) = f[N]  BY DEF Eat, IsMeal, N
<1> HIDE DEF f
<1>11. /\ f = [n \in 0..N |-> f[n]] /\ f[0] = base
       /\ \A n \in 1..N : f[n] = EatLot(f[n - 1], lots[n], ex, side)
    <2>1. f = [n \in 0..N |-> IF n = 0 THEN base ELSE EatLot(f[n - 1], lots[n], ex, side)]
        BY <1>9 DEF IsMeal, N, base
    <2>2. DOMAIN f = 0..N  BY <2>1
    <2>3. \A n \in 0..N : f[n] = IF n = 0 THEN base ELSE EatLot(f[n - 1], lots[n], ex, side)
        BY <2>1, Zenon
    <2> QED  BY <1>1, <2>1, <2>2, <2>3
<1> DEFINE T == {n \in 0..N : f[n] \in D}
<1>12. 0 \in T  BY <1>1, <1>2, <1>11
<1>13. ASSUME NEW n \in 1..N, n - 1 \in T PROVE n \in T
    <2>1. n \in 0..N /\ f[n - 1] \in D  BY <1>1, <1>13
    <2>2. f[n] \in D  BY <1>3, <1>11, <2>1
    <2> QED  BY <2>1, <2>2
<1> HIDE DEF T
<1>14. \A n \in 1..N : n - 1 \in T => n \in T  BY <1>13
<1>15. \A n \in 0..N : n \in T  BY <1>1, <1>12, <1>14, UpTo
<1>16. f \in [0..N -> D]  BY <1>11, <1>15 DEF T
<1> QED  BY <1>10, <1>11, <1>16 DEF N, D, base, EatsUp

LEMMA EatNothing ==
    ASSUME NEW X \in SUBSET Executions, NEW ex \in X, NEW side \in Sides
    PROVE  Eat(<<>>, ex, side) = [left |-> ex.qty, lots |-> <<>>, pnl |-> 0]
<1> DEFINE none == <<>>
<1>1. none \in Seq(Legs(X)) /\ Len(none) = 0  OBVIOUS
<1> HIDE DEF none
<1>2. PICK f : EatsUp(f, X, none, ex, side)  BY <1>1, MealExists
<1> QED  BY <1>1, <1>2 DEF EatsUp, none

LEMMA EatMore ==
    ASSUME NEW X \in SUBSET Executions, NEW lots \in Seq(Legs(X)), NEW lot \in Legs(X),
           NEW ex \in X, NEW side \in Sides
    PROVE  /\ Eat(lots, ex, side) \in Meals(X)
           /\ Eat(Append(lots, lot), ex, side) = EatLot(Eat(lots, ex, side), lot, ex, side)
<1> DEFINE N == Len(lots)
           t == Append(lots, lot)
           base == [left |-> ex.qty, lots |-> <<>>, pnl |-> 0]
<1>1. t \in Seq(Legs(X)) /\ Len(t) = N + 1 /\ t[N + 1] = lot /\ N \in Nat  OBVIOUS
<1>2. \A n \in 1..N : t[n] = lots[n]  OBVIOUS
<1> HIDE DEF t
<1>a. PICK f : EatsUp(f, X, lots, ex, side)  BY MealExists
<1>b. PICK g : EatsUp(g, X, t, ex, side)  BY <1>1, MealExists
<1>3. /\ f \in [0..N -> Meals(X)] /\ f[0] = base
      /\ \A n \in 1..N : f[n] = EatLot(f[n - 1], lots[n], ex, side)
      /\ Eat(lots, ex, side) = f[N]
    BY <1>a DEF EatsUp
<1>4. /\ g \in [0..(N + 1) -> Meals(X)] /\ g[0] = base
      /\ \A n \in 1..(N + 1) : g[n] = EatLot(g[n - 1], t[n], ex, side)
      /\ Eat(t, ex, side) = g[N + 1]
    BY <1>b, <1>1 DEF EatsUp
<1> HIDE DEF N, base
<1> DEFINE T == {n \in 0..N : f[n] = g[n]}
<1>5. 0 \in T  BY <1>1, <1>3, <1>4
<1>6. ASSUME NEW n \in 1..N, n - 1 \in T PROVE n \in T
    <2>1. n \in 0..N /\ n \in 1..(N + 1) /\ f[n - 1] = g[n - 1]  BY <1>1, <1>6
    <2>2. f[n] = g[n]  BY <1>2, <1>3, <1>4, <2>1
    <2> QED  BY <2>1, <2>2
<1> HIDE DEF T
<1>7. \A n \in 1..N : n - 1 \in T => n \in T  BY <1>6
<1>8. \A n \in 0..N : n \in T  BY <1>1, <1>5, <1>7, UpTo
<1>9. f[N] = g[N]  BY <1>1, <1>8 DEF T
<1>10. N \in 0..N /\ N + 1 \in 1..(N + 1) /\ (N + 1) - 1 = N  BY <1>1
<1>11. Eat(t, ex, side) = EatLot(f[N], lot, ex, side)  BY <1>1, <1>4, <1>9, <1>10
<1>12. Eat(lots, ex, side) \in Meals(X)  BY <1>3, <1>10
<1> QED  BY <1>3, <1>11, <1>12 DEF t

\* What is eaten of the exit is eaten of the lots, and what it realizes is
\* what it sold for less what the lots were bought for, or the other way round.
Fed(m, lots, ex, side) ==
    /\ m.left <= ex.qty /\ (m.left > 0 => m.lots = <<>>)
    /\ Quantity(m.lots) + (ex.qty - m.left) = Quantity(lots)
    /\ m.pnl = Sign(side) * (((ex.qty - m.left) * ex.price - Value(lots)) + Value(m.lots))

LEMMA Realized ==
    ASSUME NEW e \in Int, NEW q \in Int, NEW r \in Int, NEW p \in Int, NEW lp \in Int,
           NEW v \in Int, NEW w \in Int, NEW s \in {1, -1}
    PROVE  s * ((e * p - v) + w) + q * (p - lp) * s
             = s * (((e + q) * p - (v + (r + q) * lp)) + (w + r * lp))
<1>1. (e + q) * p = e * p + q * p /\ (r + q) * lp = r * lp + q * lp  OBVIOUS
<1>2. q * (p - lp) = q * p - q * lp  OBVIOUS
<1>3. e * p \in Int /\ q * p \in Int /\ q * lp \in Int /\ r * lp \in Int
      /\ (r + q) * lp \in Int /\ (e + q) * p \in Int /\ q * (p - lp) \in Int
    OBVIOUS
<1>4. CASE s = 1  BY <1>1, <1>2, <1>3, <1>4
<1>5. CASE s = -1  BY <1>1, <1>2, <1>3, <1>5
<1> QED  BY <1>4, <1>5

LEMMA LotFeeds ==
    ASSUME NEW X \in SUBSET Executions, NEW lots \in Seq(Legs(X)), NEW lot \in Legs(X),
           NEW ex \in X, NEW side \in Sides, NEW m \in Meals(X), Fed(m, lots, ex, side)
    PROVE  Fed(EatLot(m, lot, ex, side), Append(lots, lot), ex, side)
<1> DEFINE q == Lesser(m.left, lot.qty)
           r == lot.qty - q
           rest == [lot EXCEPT !.qty = @ - q]
           n == EatLot(m, lot, ex, side)
<1>1. m.left \in Nat /\ lot.qty \in Nat \ {0} /\ lot.ex \in X
      /\ m.lots \in Seq(Legs(X)) /\ m.pnl \in Int
    BY DEF Meals, Legs
<1>2. q \in Nat /\ m.left - q \in Nat /\ r \in Nat /\ q <= m.left
      /\ (m.left - q > 0 => r = 0) /\ lot.qty = r + q
    BY <1>1 DEF Lesser
<1>3. rest = [ex |-> lot.ex, qty |-> r]  BY DEF Legs
<1>4. ex.price \in Int /\ lot.ex.price \in Int /\ ex.qty \in Nat  BY <1>1 DEF Executions
<1>5. Sign(side) \in {1, -1}  BY DEF Sign
<1>6. n = [left |-> m.left - q,
           lots |-> IF lot.qty > q THEN Append(m.lots, rest) ELSE m.lots,
           pnl  |-> m.pnl + q * (ex.price - lot.ex.price) * Sign(side)]
    BY DEF EatLot
<1> HIDE DEF q, rest, n
<1>7. /\ n.left = m.left - q
      /\ n.lots = IF lot.qty > q THEN Append(m.lots, rest) ELSE m.lots
    BY <1>6
<1> DEFINE sold == ex.qty - m.left
<1>8. /\ Quantity(m.lots) \in Int /\ Quantity(lots) \in Int
      /\ Value(m.lots) \in Int /\ Value(lots) \in Int
      /\ Quantity(m.lots) + sold = Quantity(lots) /\ sold \in Int
      /\ m.pnl = Sign(side) * ((sold * ex.price - Value(lots)) + Value(m.lots))
    <2>1. Quantity(m.lots) \in Int /\ Quantity(lots) \in Int  BY <1>1, QuantityOfLegs
    <2>2. Value(m.lots) \in Int /\ Value(lots) \in Int  BY <1>1, ValueOfLegs
    <2>3. sold \in Int  BY <1>1, <1>4
    <2>4. Quantity(m.lots) + sold = Quantity(lots)  BY DEF Fed
    <2>5. m.pnl = Sign(side) * ((sold * ex.price - Value(lots)) + Value(m.lots))  BY DEF Fed
    <2> QED  BY <2>1, <2>2, <2>3, <2>4, <2>5
<1>9. /\ Quantity(Append(lots, lot)) = Quantity(lots) + lot.qty
      /\ Value(Append(lots, lot)) = Value(lots) + lot.qty * lot.ex.price
    BY QuantityOfLegs, ValueOfLegs
<1>10. /\ Quantity(n.lots) = Quantity(m.lots) + r
       /\ Value(n.lots) = Value(m.lots) + r * lot.ex.price
    <2>1. CASE lot.qty > q
        <3>1. rest \in Legs(X) /\ rest.qty = r /\ rest.ex = lot.ex
            BY <1>1, <1>2, <1>3, <2>1 DEF Legs
        <3>2. n.lots = Append(m.lots, rest)  BY <1>7, <2>1
        <3>3. Quantity(n.lots) = Quantity(m.lots) + r  BY <1>1, <3>1, <3>2, QuantityOfLegs
        <3>4. Value(n.lots) = Value(m.lots) + r * lot.ex.price  BY <1>1, <3>1, <3>2, ValueOfLegs
        <3> QED  BY <3>3, <3>4
    <2>2. CASE ~ (lot.qty > q)
        <3>1. r = 0 /\ n.lots = m.lots  BY <1>1, <1>2, <1>7, <2>2
        <3>2. r * lot.ex.price = 0  BY <1>4, <3>1
        <3> QED  BY <1>8, <3>1, <3>2
    <2> QED  BY <2>1, <2>2
<1>11. n.left <= ex.qty /\ (n.left > 0 => n.lots = <<>>)
    <2>1. m.left <= ex.qty /\ (m.left > 0 => m.lots = <<>>)  BY DEF Fed
    <2>2. n.left <= ex.qty  BY <1>1, <1>2, <1>4, <1>7, <2>1
    <2>3. ASSUME n.left > 0 PROVE n.lots = <<>>
        <3>1. m.left > 0 /\ r = 0  BY <1>1, <1>2, <1>7, <2>3
        <3>2. ~ (lot.qty > q)  BY <1>1, <1>2, <3>1
        <3> QED  BY <1>7, <2>1, <3>1, <3>2
    <2> QED  BY <2>2, <2>3
<1>12. ex.qty - n.left = sold + q  BY <1>1, <1>2, <1>4, <1>7
<1> HIDE DEF sold, r
<1>13. Quantity(n.lots) + (ex.qty - n.left) = Quantity(Append(lots, lot))
    BY <1>2, <1>8, <1>9, <1>10, <1>12
<1>14. n.pnl = Sign(side) * ((sold * ex.price - Value(lots)) + Value(m.lots))
                 + q * (ex.price - lot.ex.price) * Sign(side)
    BY <1>6, <1>8
<1>15. n.pnl = Sign(side) * (((sold + q) * ex.price - (Value(lots) + (r + q) * lot.ex.price))
                               + (Value(m.lots) + r * lot.ex.price))
    <2> DEFINE e == sold
               p == ex.price
               lp == lot.ex.price
               v == Value(lots)
               w == Value(m.lots)
               s == Sign(side)
    <2>1. e \in Int /\ q \in Int /\ r \in Int /\ p \in Int /\ lp \in Int /\ v \in Int
          /\ w \in Int /\ s \in {1, -1}
        BY <1>2, <1>4, <1>5, <1>8
    <2> HIDE DEF e, p, lp, v, w, s
    <2>2. s * ((e * p - v) + w) + q * (p - lp) * s
            = s * (((e + q) * p - (v + (r + q) * lp)) + (w + r * lp))
        BY <2>1, Realized
    <2> QED  BY <1>14, <2>2 DEF e, p, lp, v, w, s
<1>16. n.pnl = Sign(side) * (((ex.qty - n.left) * ex.price - Value(Append(lots, lot)))
                               + Value(n.lots))
    BY <1>2, <1>9, <1>10, <1>12, <1>15
<1> QED  BY <1>11, <1>13, <1>16 DEF Fed, n

LEMMA ExitsFeed ==
    ASSUME NEW X \in SUBSET Executions, NEW lots \in Seq(Legs(X)),
           NEW ex \in X, NEW side \in Sides
    PROVE  Eat(lots, ex, side) \in Meals(X) /\ Fed(Eat(lots, ex, side), lots, ex, side)
<1> DEFINE T == {ls \in Seq(Legs(X)) : Fed(Eat(ls, ex, side), ls, ex, side)}
<1>1. <<>> \in T
    <2> DEFINE m == Eat(<<>>, ex, side)
    <2>1. m = [left |-> ex.qty, lots |-> <<>>, pnl |-> 0]  BY EatNothing
    <2> HIDE DEF m
    <2>2. m.left = ex.qty /\ m.lots = <<>> /\ m.pnl = 0 /\ ex.qty \in Nat /\ ex.price \in Nat
        BY <2>1 DEF Executions
    <2>3. Quantity(<<>>) = 0 /\ Value(<<>>) = 0  BY QuantityOfLegs, ValueOfLegs
    <2>4. (ex.qty - m.left) * ex.price = 0 /\ Sign(side) \in Int  BY <2>2 DEF Sign
    <2>5. Sign(side) * ((0 - 0) + 0) = 0  BY <2>4
    <2>6. Fed(m, <<>>, ex, side)  BY <2>2, <2>3, <2>4, <2>5 DEF Fed
    <2> QED  BY <2>6 DEF m
<1>2. ASSUME NEW ls \in Seq(Legs(X)), NEW lot \in Legs(X), ls \in T PROVE Append(ls, lot) \in T
    <2>1. /\ Eat(ls, ex, side) \in Meals(X)
          /\ Eat(Append(ls, lot), ex, side) = EatLot(Eat(ls, ex, side), lot, ex, side)
        BY EatMore
    <2>2. Fed(Eat(ls, ex, side), ls, ex, side)  BY <1>2
    <2>3. Fed(EatLot(Eat(ls, ex, side), lot, ex, side), Append(ls, lot), ex, side)
        BY <2>1, <2>2, LotFeeds
    <2>4. Append(ls, lot) \in Seq(Legs(X))  OBVIOUS
    <2> QED  BY <2>1, <2>3, <2>4
<1> HIDE DEF T
<1>3. lots \in T  BY <1>1, <1>2, BySequence
<1>4. Eat(lots, ex, side) \in Meals(X)
    <2>1. ASSUME NEW lot \in Legs(X) PROVE Eat(lots, ex, side) \in Meals(X)  BY EatMore
    <2>2. Leg(ex, ex.qty) \in Legs(X)  BY DEF Leg, Legs, Executions
    <2> QED  BY <2>1, <2>2
<1> QED  BY <1>3, <1>4 DEF T

-----------------------------------------------------------------------------
(* Trades and what they use of an execution *)

TradesOf(X) == [side : Sides, entries : Seq(Legs(X)), exits : Seq(Legs(X)), pnl : Int]
Groups(X)   == [open : TradesOf(X), lots : Seq(Legs(X)), closed : Seq(TradesOf(X))]

LEMMA NewTrade ==
    ASSUME NEW X, NEW side \in Sides
    PROVE  /\ Trade(side) \in TradesOf(X)
           /\ \A x : UsedIn(Trade(side), x) = 0
<1>1. <<>> \in Seq(Legs(X))  OBVIOUS
<1>2. \A x : OfExecution(<<>>, x) = 0  BY LegsOfExecution
<1> QED  BY <1>1, <1>2 DEF Trade, TradesOf, UsedIn

LEMMA UseIsInt ==
    ASSUME NEW X, NEW t \in TradesOf(X), NEW x
    PROVE  UsedIn(t, x) \in Int
<1>1. t.entries \in Seq(Legs(X)) /\ t.exits \in Seq(Legs(X))  BY DEF TradesOf
<1>2. OfExecution(t.entries, x) \in Int /\ OfExecution(t.exits, x) \in Int
    BY <1>1, LegsOfExecution
<1> QED  BY <1>2 DEF UsedIn

LEMMA TradeEntered ==
    ASSUME NEW X, NEW t \in TradesOf(X), NEW ex \in X, NEW q \in Nat \ {0}
    PROVE  LET n == Entered(t, ex, q)
           IN  /\ n \in TradesOf(X) /\ Leg(ex, q) \in Legs(X)
               /\ n.side = t.side /\ n.exits = t.exits /\ n.pnl = t.pnl
               /\ n.entries = Append(t.entries, Leg(ex, q))
               /\ \A x : UsedIn(n, x) = UsedIn(t, x) + (IF x = ex THEN q ELSE 0)
<1> DEFINE n == Entered(t, ex, q)
<1>1. t.entries \in Seq(Legs(X)) /\ t.exits \in Seq(Legs(X)) /\ t.side \in Sides /\ t.pnl \in Int
    BY DEF TradesOf
<1>2. Leg(ex, q) \in Legs(X) /\ Leg(ex, q).ex = ex /\ Leg(ex, q).qty = q  BY DEF Leg, Legs
<1>3. n = [side |-> t.side, entries |-> Append(t.entries, Leg(ex, q)), exits |-> t.exits,
           pnl |-> t.pnl]
    <2>1. t = [side |-> t.side, entries |-> t.entries, exits |-> t.exits, pnl |-> t.pnl]
        BY DEF TradesOf
    <2> DEFINE legs == Append(t.entries, Leg(ex, q))
    <2>2. n = [t EXCEPT !.entries = legs]  BY DEF Entered
    <2> HIDE DEF n, legs
    <2>3. n = [side |-> t.side, entries |-> legs, exits |-> t.exits, pnl |-> t.pnl]
        BY <2>1, <2>2
    <2> QED  BY <2>3 DEF legs
<1>4. Append(t.entries, Leg(ex, q)) \in Seq(Legs(X))  BY <1>1, <1>2
<1> HIDE DEF n
<1>5. n \in TradesOf(X)  BY <1>1, <1>3, <1>4 DEF TradesOf
<1>6. ASSUME NEW x PROVE UsedIn(n, x) = UsedIn(t, x) + (IF x = ex THEN q ELSE 0)
    <2>1. OfExecution(Append(t.entries, Leg(ex, q)), x)
            = OfExecution(t.entries, x) + (IF ex = x THEN q ELSE 0)
        <3> DEFINE leg == Leg(ex, q)
        <3>1. leg \in Legs(X) /\ leg.ex = ex /\ leg.qty = q  BY <1>2
        <3> HIDE DEF leg
        <3>2. OfExecution(Append(t.entries, leg), x)
                = OfExecution(t.entries, x) + (IF leg.ex = x THEN leg.qty ELSE 0)
            BY <1>1, <3>1, LegsOfExecution
        <3> QED  BY <3>1, <3>2 DEF leg
    <2>2. OfExecution(t.entries, x) \in Int /\ OfExecution(t.exits, x) \in Int
        BY <1>1, LegsOfExecution
    <2>3. n.entries = Append(t.entries, Leg(ex, q)) /\ n.exits = t.exits  BY <1>3
    <2> QED  BY <2>1, <2>2, <2>3 DEF UsedIn
<1>7. /\ n.side = t.side /\ n.exits = t.exits /\ n.pnl = t.pnl
      /\ n.entries = Append(t.entries, Leg(ex, q))
    BY <1>3
<1>8. \A x : UsedIn(n, x) = UsedIn(t, x) + (IF x = ex THEN q ELSE 0)  BY <1>6
<1> QED  BY <1>2, <1>5, <1>7, <1>8 DEF n

LEMMA TradeExited ==
    ASSUME NEW X, NEW t \in TradesOf(X), NEW ex \in X, NEW m \in Meals(X),
           ex.qty - m.left \in Nat \ {0}
    PROVE  LET n == Exited(t, ex, m)
               q == ex.qty - m.left
           IN  /\ n \in TradesOf(X) /\ Leg(ex, q) \in Legs(X)
               /\ n.side = t.side /\ n.entries = t.entries /\ n.pnl = t.pnl + m.pnl
               /\ n.exits = Append(t.exits, Leg(ex, q))
               /\ \A x : UsedIn(n, x) = UsedIn(t, x) + (IF x = ex THEN q ELSE 0)
<1> DEFINE n == Exited(t, ex, m)
           q == ex.qty - m.left
<1>1. t.entries \in Seq(Legs(X)) /\ t.exits \in Seq(Legs(X)) /\ t.side \in Sides /\ t.pnl \in Int
    BY DEF TradesOf
<1>2. Leg(ex, q) \in Legs(X) /\ Leg(ex, q).ex = ex /\ Leg(ex, q).qty = q  BY DEF Leg, Legs
<1>3. n = [side |-> t.side, entries |-> t.entries, exits |-> Append(t.exits, Leg(ex, q)),
           pnl |-> t.pnl + m.pnl]
    BY DEF Exited
<1>4. Append(t.exits, Leg(ex, q)) \in Seq(Legs(X)) /\ t.pnl + m.pnl \in Int
    BY <1>1, <1>2 DEF Meals
<1>0. q \in Nat \ {0}  OBVIOUS
<1> HIDE DEF n, q
<1>5. n \in TradesOf(X)  BY <1>1, <1>3, <1>4 DEF TradesOf
<1>6. ASSUME NEW x PROVE UsedIn(n, x) = UsedIn(t, x) + (IF x = ex THEN q ELSE 0)
    <2>1. OfExecution(Append(t.exits, Leg(ex, q)), x)
            = OfExecution(t.exits, x) + (IF ex = x THEN q ELSE 0)
        <3> DEFINE leg == Leg(ex, q)
        <3>1. leg \in Legs(X) /\ leg.ex = ex /\ leg.qty = q  BY <1>2
        <3> HIDE DEF leg
        <3>2. OfExecution(Append(t.exits, leg), x)
                = OfExecution(t.exits, x) + (IF leg.ex = x THEN leg.qty ELSE 0)
            BY <1>1, <3>1, LegsOfExecution
        <3> QED  BY <3>1, <3>2 DEF leg
    <2>2. OfExecution(t.entries, x) \in Int /\ OfExecution(t.exits, x) \in Int
        BY <1>1, LegsOfExecution
    <2>3. n.exits = Append(t.exits, Leg(ex, q)) /\ n.entries = t.entries  BY <1>3
    <2> QED  BY <1>0, <2>1, <2>2, <2>3 DEF UsedIn
<1>7. /\ n.side = t.side /\ n.entries = t.entries /\ n.pnl = t.pnl + m.pnl
      /\ n.exits = Append(t.exits, Leg(ex, q))
    BY <1>3
<1>8. \A x : UsedIn(n, x) = UsedIn(t, x) + (IF x = ex THEN q ELSE 0)  BY <1>6
<1> QED  BY <1>2, <1>5, <1>7, <1>8 DEF n, q

LEMMA UseOfTrades ==
    ASSUME NEW X, NEW x
    PROVE  /\ UsedOf(<<>>, x) = 0
           /\ \A ts \in Seq(TradesOf(X)) : UsedOf(ts, x) \in Int
           /\ \A ts \in Seq(TradesOf(X)), t \in TradesOf(X) :
                  UsedOf(Append(ts, t), x) = UsedOf(ts, x) + UsedIn(t, x)
<1> DEFINE F == [t \in TradesOf(X) |-> UsedIn(t, x)]
<1>1. F \in [TradesOf(X) -> Int] /\ \A t \in TradesOf(X) : F[t] = UsedIn(t, x)
    BY UseIsInt
<1>2. \A ts \in Seq(TradesOf(X)) : UsedOf(ts, x) = SumOver(F, ts)
    <2> SUFFICES ASSUME NEW ts \in Seq(TradesOf(X)) PROVE UsedOf(ts, x) = SumOver(F, ts)
        OBVIOUS
    <2>1. \A i \in DOMAIN ts : F[ts[i]] = UsedIn(ts[i], x)  OBVIOUS
    <2>2. [i \in DOMAIN ts |-> UsedIn(ts[i], x)] = [i \in DOMAIN ts |-> F[ts[i]]]  BY <2>1
    <2> QED  BY <2>2 DEF UsedOf, SumOver
<1> HIDE DEF F
<1>3. UsedOf(<<>>, x) = 0
    <2>1. <<>> \in Seq(TradesOf(X))  OBVIOUS
    <2>2. SumOver(F, <<>>) = 0  BY <1>1, Totals
    <2> QED  BY <1>2, <2>1, <2>2
<1>4. \A ts \in Seq(TradesOf(X)) : UsedOf(ts, x) \in Int  BY <1>1, <1>2, Totals
<1>5. ASSUME NEW ts \in Seq(TradesOf(X)), NEW t \in TradesOf(X)
      PROVE  UsedOf(Append(ts, t), x) = UsedOf(ts, x) + UsedIn(t, x)
    <2>1. Append(ts, t) \in Seq(TradesOf(X))  OBVIOUS
    <2>2. SumOver(F, Append(ts, t)) = SumOver(F, ts) + F[t]  BY <1>1, Totals
    <2> QED  BY <1>1, <1>2, <2>1, <2>2
<1> QED  BY <1>3, <1>4, <1>5

-----------------------------------------------------------------------------
(* A position: what was entered, exited and is still open *)

Positioned(t, lots) ==
    /\ Quantity(t.entries) = Quantity(t.exits) + Quantity(lots)
    /\ t.pnl = Sign(t.side) * ((Value(t.exits) - Value(t.entries)) + Value(lots))
    /\ \A j \in DOMAIN t.entries : SideOf(t.entries[j].ex) = t.side
    /\ \A j \in DOMAIN t.exits : SideOf(t.exits[j].ex) # t.side

LEMMA NoPosition ==
    ASSUME NEW X \in SUBSET Executions, NEW side \in Sides
    PROVE  Positioned(Trade(side), <<>>)
<1>1. Quantity(<<>>) = 0  BY QuantityOfLegs
<1>2. Value(<<>>) = 0  BY ValueOfLegs
<1>3. Sign(side) \in Int /\ Sign(side) * ((0 - 0) + 0) = 0  BY DEF Sign
<1> QED  BY <1>1, <1>2, <1>3 DEF Positioned, Trade

LEMMA PositionEntered ==
    ASSUME NEW X \in SUBSET Executions, NEW t \in TradesOf(X), NEW lots \in Seq(Legs(X)),
           Positioned(t, lots), NEW ex \in X, NEW q \in Nat \ {0}, SideOf(ex) = t.side
    PROVE  Positioned(Entered(t, ex, q), Append(lots, Leg(ex, q)))
<1> DEFINE n == Entered(t, ex, q)
           leg == Leg(ex, q)
<1>1. /\ n \in TradesOf(X) /\ leg \in Legs(X) /\ n.side = t.side /\ n.exits = t.exits
      /\ n.pnl = t.pnl /\ n.entries = Append(t.entries, leg)
    <2>1. n \in TradesOf(X) /\ leg \in Legs(X)  BY TradeEntered
    <2>2. n.side = t.side /\ n.exits = t.exits /\ n.pnl = t.pnl  BY TradeEntered
    <2>3. n.entries = Append(t.entries, leg)  BY TradeEntered
    <2> QED  BY <2>1, <2>2, <2>3
<1>2. leg.ex = ex /\ leg.qty = q  BY DEF Leg
<1>3. t.entries \in Seq(Legs(X)) /\ t.exits \in Seq(Legs(X)) /\ t.side \in Sides
    BY DEF TradesOf
<1> HIDE DEF n, leg
<1>4. /\ Quantity(n.entries) = Quantity(t.entries) + q
      /\ Quantity(Append(lots, leg)) = Quantity(lots) + q
      /\ Quantity(t.exits) \in Int /\ Quantity(lots) \in Int /\ Quantity(t.entries) \in Int
    BY <1>1, <1>2, <1>3, QuantityOfLegs
<1>5. ex.price \in Int  BY DEF Executions
<1> DEFINE z == q * ex.price
<1>6. /\ Value(n.entries) = Value(t.entries) + z
      /\ Value(Append(lots, leg)) = Value(lots) + z
      /\ Value(t.exits) \in Int /\ Value(lots) \in Int /\ Value(t.entries) \in Int
    BY <1>1, <1>2, <1>3, ValueOfLegs
<1>7. z \in Int  BY <1>5
<1> HIDE DEF z
<1>8. Quantity(n.entries) = Quantity(n.exits) + Quantity(Append(lots, leg))
    BY <1>1, <1>4 DEF Positioned
<1>9. (Value(t.exits) - Value(n.entries)) + Value(Append(lots, leg))
        = (Value(t.exits) - Value(t.entries)) + Value(lots)
    BY <1>6, <1>7
<1>10. n.pnl = Sign(n.side) * ((Value(n.exits) - Value(n.entries)) + Value(Append(lots, leg)))
    BY <1>1, <1>9 DEF Positioned
<1>11. \A j \in DOMAIN n.entries : SideOf(n.entries[j].ex) = n.side
    <2> SUFFICES ASSUME NEW j \in 1..(Len(t.entries) + 1)
                 PROVE  SideOf(Append(t.entries, leg)[j].ex) = t.side
        BY <1>1, <1>3
    <2>1. CASE j = Len(t.entries) + 1  BY <1>2, <1>3, <2>1
    <2>2. CASE j # Len(t.entries) + 1
        <3>1. j \in DOMAIN t.entries /\ Append(t.entries, leg)[j] = t.entries[j]
            BY <1>3, <2>2
        <3> QED  BY <3>1 DEF Positioned
    <2> QED  BY <2>1, <2>2
<1>12. \A j \in DOMAIN n.exits : SideOf(n.exits[j].ex) # n.side  BY <1>1 DEF Positioned
<1>13. Positioned(n, Append(lots, leg))  BY <1>8, <1>10, <1>11, <1>12 DEF Positioned
<1> QED  BY <1>13 DEF n, leg

LEMMA PositionExited ==
    ASSUME NEW X \in SUBSET Executions, NEW t \in TradesOf(X), NEW lots \in Seq(Legs(X)),
           Positioned(t, lots), NEW ex \in X, SideOf(ex) # t.side,
           NEW m \in Meals(X), Fed(m, lots, ex, t.side), ex.qty - m.left \in Nat \ {0}
    PROVE  Positioned(Exited(t, ex, m), m.lots)
<1> DEFINE n == Exited(t, ex, m)
           q == ex.qty - m.left
           leg == Leg(ex, q)
<1>1. /\ n \in TradesOf(X) /\ leg \in Legs(X) /\ n.side = t.side /\ n.entries = t.entries
      /\ n.pnl = t.pnl + m.pnl /\ n.exits = Append(t.exits, leg)
    BY TradeExited
<1>2. leg.ex = ex /\ leg.qty = q /\ q \in Nat  BY DEF Leg
<1>3. /\ t.entries \in Seq(Legs(X)) /\ t.exits \in Seq(Legs(X)) /\ t.side \in Sides
      /\ m.lots \in Seq(Legs(X))
    BY DEF TradesOf, Meals
<1>4. ex.price \in Int /\ Sign(t.side) \in {1, -1}  BY DEF Executions, Sign
<1>5. /\ Quantity(m.lots) + q = Quantity(lots)
      /\ m.pnl = Sign(t.side) * ((q * ex.price - Value(lots)) + Value(m.lots))
    BY DEF Fed
<1> HIDE DEF n, leg, q
<1>6. /\ Quantity(n.exits) = Quantity(t.exits) + q
      /\ Quantity(t.exits) \in Int /\ Quantity(lots) \in Int /\ Quantity(t.entries) \in Int
      /\ Quantity(m.lots) \in Int
    <2>1. Quantity(Append(t.exits, leg)) = Quantity(t.exits) + leg.qty
        BY <1>1, <1>3, QuantityOfLegs
    <2>2. /\ Quantity(t.exits) \in Nat /\ Quantity(lots) \in Nat /\ Quantity(t.entries) \in Nat
          /\ Quantity(m.lots) \in Nat
        BY <1>3, QuantityOfLegs
    <2> QED  BY <1>1, <1>2, <2>1, <2>2
<1> DEFINE z == q * ex.price
<1>7. Value(n.exits) = Value(t.exits) + z  BY <1>1, <1>2, <1>3, ValueOfLegs
<1>8. Value(t.exits) \in Int /\ Value(lots) \in Int /\ Value(t.entries) \in Int
      /\ Value(m.lots) \in Int
    BY <1>3, ValueOfLegs
<1>9. z \in Int  BY <1>2, <1>4
<1>a. m.pnl = Sign(t.side) * ((z - Value(lots)) + Value(m.lots))  BY <1>5
<1> HIDE DEF z
<1>10. Quantity(n.entries) = Quantity(n.exits) + Quantity(m.lots)
    BY <1>1, <1>2, <1>5, <1>6 DEF Positioned
<1>11. n.pnl = Sign(n.side) * ((Value(n.exits) - Value(n.entries)) + Value(m.lots))
    <2>1. t.pnl = Sign(t.side) * ((Value(t.exits) - Value(t.entries)) + Value(lots))
        BY DEF Positioned
    <2>2. CASE Sign(t.side) = 1  BY <1>1, <1>7, <1>8, <1>9, <1>a, <2>1, <2>2
    <2>3. CASE Sign(t.side) = -1  BY <1>1, <1>7, <1>8, <1>9, <1>a, <2>1, <2>3
    <2> QED  BY <1>4, <2>2, <2>3
<1>12. \A j \in DOMAIN n.exits : SideOf(n.exits[j].ex) # n.side
    <2> SUFFICES ASSUME NEW j \in 1..(Len(t.exits) + 1)
                 PROVE  SideOf(Append(t.exits, leg)[j].ex) # t.side
        BY <1>1, <1>3
    <2>1. CASE j = Len(t.exits) + 1  BY <1>2, <1>3, <2>1
    <2>2. CASE j # Len(t.exits) + 1
        <3>1. j \in DOMAIN t.exits /\ Append(t.exits, leg)[j] = t.exits[j]
            BY <1>3, <2>2
        <3> QED  BY <3>1 DEF Positioned
    <2> QED  BY <2>1, <2>2
<1>13. \A j \in DOMAIN n.entries : SideOf(n.entries[j].ex) = n.side  BY <1>1 DEF Positioned
<1>14. Positioned(n, m.lots)  BY <1>10, <1>11, <1>12, <1>13 DEF Positioned
<1> QED  BY <1>14 DEF n

LEMMA PositionClosed ==
    ASSUME NEW X \in SUBSET Executions, NEW t \in TradesOf(X), Positioned(t, <<>>),
           t.exits # <<>>
    PROVE  Balanced(t)
<1>1. t.entries \in Seq(Legs(X)) /\ t.exits \in Seq(Legs(X))  BY DEF TradesOf
<1>2. Quantity(t.exits) \in Nat /\ Quantity(t.exits) > 0 /\ Quantity(<<>>) = 0
      /\ Value(t.exits) \in Int /\ Value(t.entries) \in Int /\ Value(<<>>) = 0
    BY <1>1, QuantityOfLegs, ValueOfLegs
<1>3. Quantity(t.entries) = Quantity(t.exits)  BY <1>2 DEF Positioned
<1>4. (Value(t.exits) - Value(t.entries)) + Value(<<>>) = Value(t.exits) - Value(t.entries)
    BY <1>2
<1> QED  BY <1>2, <1>3, <1>4 DEF Positioned, Balanced

-----------------------------------------------------------------------------
(* One execution more *)

Conserved(g) ==
    /\ \A i \in DOMAIN g.closed : Balanced(g.closed[i])
    /\ g.lots # <<>> => Positioned(g.open, g.lots)

\* What the closed trades and the open position use of an execution.
UsedBy(g, x) == UsedOf(g.closed, x) + (IF g.lots = <<>> THEN 0 ELSE UsedIn(g.open, x))

LEMMA SidesAreTwo == \A ex : SideOf(ex) \in Sides
BY DEF SideOf, Sides

LEMMA PositionOpened ==
    ASSUME NEW X \in SUBSET Executions, NEW g \in Groups(X), Conserved(g), NEW ex \in X
    PROVE  /\ Opened(g, ex) \in TradesOf(X) /\ Positioned(Opened(g, ex), g.lots)
           /\ g.lots = <<>> => SideOf(ex) = Opened(g, ex).side
           /\ \A x : UsedBy(g, x) = UsedOf(g.closed, x) + UsedIn(Opened(g, ex), x)
<1>1. CASE g.lots = <<>>
    <2>1. Opened(g, ex) = Trade(SideOf(ex))  BY <1>1 DEF Opened
    <2>2. Opened(g, ex) \in TradesOf(X) /\ \A x : UsedIn(Opened(g, ex), x) = 0
        BY <2>1, SidesAreTwo, NewTrade
    <2>3. Positioned(Opened(g, ex), g.lots)  BY <1>1, <2>1, SidesAreTwo, NoPosition
    <2>4. Opened(g, ex).side = SideOf(ex)  BY <2>1 DEF Trade
    <2>5. \A x : UsedBy(g, x) = UsedOf(g.closed, x) + UsedIn(Opened(g, ex), x)
        BY <1>1, <2>2 DEF UsedBy
    <2> QED  BY <2>2, <2>3, <2>4, <2>5
<1>2. CASE g.lots # <<>>
    <2>1. Opened(g, ex) = g.open  BY <1>2 DEF Opened
    <2>2. \A x : UsedBy(g, x) = UsedOf(g.closed, x) + UsedIn(Opened(g, ex), x)
        BY <1>2, <2>1 DEF UsedBy
    <2>3. g.open \in TradesOf(X)  BY DEF Groups
    <2> QED  BY <1>2, <2>1, <2>2, <2>3 DEF Conserved
<1> QED  BY <1>1, <1>2

LEMMA OneMoreClosed ==
    ASSUME NEW X, NEW g \in Groups(X), Conserved(g), NEW t \in TradesOf(X), Balanced(t)
    PROVE  /\ Append(g.closed, t) \in Seq(TradesOf(X))
           /\ \A i \in DOMAIN Append(g.closed, t) : Balanced(Append(g.closed, t)[i])
<1>1. g.closed \in Seq(TradesOf(X))  BY DEF Groups
<1>2. \A i \in DOMAIN g.closed : Balanced(g.closed[i])  BY DEF Conserved
<1> DEFINE N == Len(g.closed)
           s == Append(g.closed, t)
<1>3. /\ s \in Seq(TradesOf(X)) /\ DOMAIN s = 1..(N + 1) /\ s[N + 1] = t /\ N \in Nat
      /\ \A i \in 1..N : s[i] = g.closed[i] /\ i \in DOMAIN g.closed
    BY <1>1
<1> HIDE DEF s, N
<1>4. \A i \in 1..(N + 1) : i = N + 1 \/ i \in 1..N  BY <1>3
<1>5. \A i \in DOMAIN s : Balanced(s[i])  BY <1>2, <1>3, <1>4
<1> QED  BY <1>3, <1>5 DEF s

LEMMA TakeEnters ==
    ASSUME NEW X \in SUBSET Executions, NEW g \in Groups(X), Conserved(g), NEW ex \in X,
           SideOf(ex) = Opened(g, ex).side
    PROVE  /\ Take(g, ex) \in Groups(X) /\ Conserved(Take(g, ex))
           /\ \A x : UsedBy(Take(g, ex), x) = UsedBy(g, x) + (IF x = ex THEN ex.qty ELSE 0)
<1> DEFINE t == Opened(g, ex)
           q == ex.qty
           n == Entered(t, ex, q)
           leg == Leg(ex, q)
           h == Take(g, ex)
<1>1. t \in TradesOf(X) /\ Positioned(t, g.lots) /\ SideOf(ex) = t.side
      /\ \A x : UsedBy(g, x) = UsedOf(g.closed, x) + UsedIn(t, x)
    BY PositionOpened
<1>2. q \in Nat \ {0}  BY DEF Executions
<1>3. h = [g EXCEPT !.open = n, !.lots = Append(@, leg)]  BY DEF Take
<1>4. g.lots \in Seq(Legs(X)) /\ g.closed \in Seq(TradesOf(X))  BY DEF Groups
<1> HIDE DEF t, q
<1>5. n \in TradesOf(X) /\ leg \in Legs(X)
      /\ \A x : UsedIn(n, x) = UsedIn(t, x) + (IF x = ex THEN q ELSE 0)
    BY <1>1, <1>2, TradeEntered
<1>6. Positioned(n, Append(g.lots, leg))  BY <1>1, <1>2, <1>4, PositionEntered
<1> HIDE DEF n, leg, h
<1>7. h.open = n /\ h.lots = Append(g.lots, leg) /\ h.closed = g.closed
      /\ h = [open |-> n, lots |-> Append(g.lots, leg), closed |-> g.closed]
    BY <1>3 DEF Groups
<1>8. Append(g.lots, leg) \in Seq(Legs(X)) /\ Append(g.lots, leg) # <<>>  BY <1>4, <1>5
<1>9. h \in Groups(X)  BY <1>4, <1>5, <1>7, <1>8 DEF Groups
<1>10. Conserved(h)  BY <1>6, <1>7 DEF Conserved
<1>11. ASSUME NEW x PROVE UsedBy(h, x) = UsedBy(g, x) + (IF x = ex THEN q ELSE 0)
    <2>1. UsedBy(h, x) = UsedOf(g.closed, x) + UsedIn(n, x)  BY <1>7, <1>8 DEF UsedBy
    <2>2. UsedOf(g.closed, x) \in Int /\ UsedIn(t, x) \in Int
        BY <1>1, <1>4, UseOfTrades, UseIsInt
    <2>3. UsedIn(n, x) = UsedIn(t, x) + (IF x = ex THEN q ELSE 0)  BY <1>5
    <2>4. UsedBy(g, x) = UsedOf(g.closed, x) + UsedIn(t, x)  BY <1>1
    <2> QED  BY <1>2, <2>1, <2>2, <2>3, <2>4
<1> QED  BY <1>9, <1>10, <1>11 DEF h, q

LEMMA TakeExits ==
    ASSUME NEW X \in SUBSET Executions, NEW g \in Groups(X), Conserved(g), NEW ex \in X,
           SideOf(ex) # Opened(g, ex).side
    PROVE  /\ Take(g, ex) \in Groups(X) /\ Conserved(Take(g, ex))
           /\ \A x : UsedBy(Take(g, ex), x) = UsedBy(g, x) + (IF x = ex THEN ex.qty ELSE 0)
<1> DEFINE t == Opened(g, ex)
           m == Eat(g.lots, ex, t.side)
           q == ex.qty - m.left
           n == Exited(t, ex, m)
           h == Take(g, ex)
<1>1. t \in TradesOf(X) /\ Positioned(t, g.lots) /\ SideOf(ex) # t.side /\ g.lots # <<>>
      /\ \A x : UsedBy(g, x) = UsedOf(g.closed, x) + UsedIn(t, x)
    BY PositionOpened
<1>2. ex.qty \in Nat \ {0}  BY DEF Executions
<1>3. g.lots \in Seq(Legs(X)) /\ g.closed \in Seq(TradesOf(X)) /\ t.side \in Sides
    BY <1>1 DEF Groups, TradesOf
<1>4. /\ m.left > 0 => h = [open   |-> Entered(Trade(SideOf(ex)), ex, m.left),
                            lots   |-> <<Leg(ex, m.left)>>,
                            closed |-> Append(g.closed, n)]
      /\ m.left = 0 => h = [open   |-> n,
                            lots   |-> m.lots,
                            closed |-> IF m.lots = <<>> THEN Append(g.closed, n) ELSE g.closed]
    BY <1>1 DEF Take
<1> HIDE DEF t
<1>5. m \in Meals(X) /\ Fed(m, g.lots, ex, t.side)  BY <1>3, ExitsFeed
<1> HIDE DEF m, n, h
<1>6. m.left \in Nat /\ m.lots \in Seq(Legs(X))  BY <1>5 DEF Meals
<1>7. q \in Nat \ {0}
    <2>1. Quantity(g.lots) > 0 /\ Quantity(g.lots) \in Nat  BY <1>1, <1>3, QuantityOfLegs
    <2>2. m.left <= ex.qty /\ (m.left > 0 => m.lots = <<>>)
          /\ Quantity(m.lots) + (ex.qty - m.left) = Quantity(g.lots)
        BY <1>5 DEF Fed
    <2>3. Quantity(<<>>) = 0  BY QuantityOfLegs
    <2>4. ASSUME m.left = ex.qty PROVE FALSE
        <3>1. m.lots = <<>>  BY <1>2, <2>2, <2>4
        <3>2. Quantity(g.lots) = 0  BY <1>2, <2>2, <2>3, <2>4, <3>1
        <3> QED  BY <2>1, <3>2
    <2> QED  BY <1>2, <1>6, <2>2, <2>4
<1>8. /\ n \in TradesOf(X) /\ n.exits = Append(t.exits, Leg(ex, q))
      /\ \A x : UsedIn(n, x) = UsedIn(t, x) + (IF x = ex THEN q ELSE 0)
    BY <1>1, <1>5, <1>7, TradeExited DEF n
<1>9. Positioned(n, m.lots)  BY <1>1, <1>3, <1>5, <1>7, PositionExited DEF n
<1>10. n.exits # <<>>
    <2>1. t.exits \in Seq(Legs(X))  BY <1>1 DEF TradesOf
    <2> QED  BY <1>8, <2>1
<1>11. m.lots = <<>> => Balanced(n)  BY <1>8, <1>9, <1>10, PositionClosed
<1>12. ASSUME NEW x
       PROVE  /\ UsedOf(g.closed, x) \in Int /\ UsedIn(t, x) \in Int /\ UsedIn(n, x) \in Int
              /\ UsedOf(Append(g.closed, n), x) = UsedOf(g.closed, x) + UsedIn(n, x)
              /\ UsedIn(n, x) = UsedIn(t, x) + (IF x = ex THEN q ELSE 0)
              /\ UsedBy(g, x) = UsedOf(g.closed, x) + UsedIn(t, x)
    BY <1>1, <1>3, <1>8, UseOfTrades, UseIsInt
<1>13. CASE m.left > 0
    <2> DEFINE b == Trade(SideOf(ex))
               r == m.left
               o == Entered(b, ex, r)
               leg == Leg(ex, r)
    <2>1. m.lots = <<>>  BY <1>5, <1>13 DEF Fed
    <2>2. r \in Nat \ {0} /\ b \in TradesOf(X) /\ b.side = SideOf(ex) /\ Positioned(b, <<>>)
          /\ \A x : UsedIn(b, x) = 0
        <3>1. SideOf(ex) \in Sides  BY SidesAreTwo
        <3>2. b \in TradesOf(X) /\ \A x : UsedIn(b, x) = 0  BY <3>1, NewTrade
        <3>3. Positioned(b, <<>>)  BY <3>1, NoPosition
        <3>4. b.side = SideOf(ex)  BY DEF Trade
        <3>5. r \in Nat \ {0}  BY <1>6, <1>13
        <3> QED  BY <3>2, <3>3, <3>4, <3>5
    <2>3. /\ h.open = o /\ h.lots = <<leg>> /\ h.closed = Append(g.closed, n)
          /\ h = [open |-> o, lots |-> <<leg>>, closed |-> Append(g.closed, n)]
        BY <1>4, <1>13
    <2> HIDE DEF b
    <2>4. o \in TradesOf(X) /\ leg \in Legs(X)
          /\ \A x : UsedIn(o, x) = UsedIn(b, x) + (IF x = ex THEN r ELSE 0)
        BY <2>2, TradeEntered
    <2>5. Positioned(o, <<leg>>)
        <3>1. <<>> \in Seq(Legs(X)) /\ Append(<<>>, leg) = <<leg>>  OBVIOUS
        <3>2. Positioned(o, Append(<<>>, leg))  BY <2>2, <3>1, PositionEntered
        <3> QED  BY <3>1, <3>2
    <2> HIDE DEF o, leg
    <2>6. Append(g.closed, n) \in Seq(TradesOf(X))
          /\ \A i \in DOMAIN Append(g.closed, n) : Balanced(Append(g.closed, n)[i])
        BY <1>8, <1>11, <2>1, OneMoreClosed
    <2>7. h \in Groups(X)  BY <2>3, <2>4, <2>6 DEF Groups
    <2>8. Conserved(h)  BY <2>3, <2>5, <2>6 DEF Conserved
    <2>9. ASSUME NEW x PROVE UsedBy(h, x) = UsedBy(g, x) + (IF x = ex THEN ex.qty ELSE 0)
        <3>1. <<leg>> # <<>>  OBVIOUS
        <3>2. UsedBy(h, x) = UsedOf(Append(g.closed, n), x) + UsedIn(o, x)
            BY <2>3, <3>1 DEF UsedBy
        <3>3. UsedIn(o, x) = IF x = ex THEN r ELSE 0  BY <2>2, <2>4
        <3>4. q + r = ex.qty  BY <1>2, <1>6
        <3> HIDE DEF q, r
        <3>5. r \in Nat /\ q \in Nat  BY <1>7, <2>2
        <3> QED  BY <1>12, <3>2, <3>3, <3>4, <3>5
    <2> QED  BY <2>7, <2>8, <2>9 DEF h
<1>14. CASE m.left = 0
    <2> DEFINE c == IF m.lots = <<>> THEN Append(g.closed, n) ELSE g.closed
    <2>1. h.open = n /\ h.lots = m.lots /\ h.closed = c
          /\ h = [open |-> n, lots |-> m.lots, closed |-> c]
        BY <1>4, <1>14
    <2>2. c \in Seq(TradesOf(X)) /\ \A i \in DOMAIN c : Balanced(c[i])
        <3>1. CASE m.lots = <<>>
            <4>1. Append(g.closed, n) \in Seq(TradesOf(X))
                  /\ \A i \in DOMAIN Append(g.closed, n) : Balanced(Append(g.closed, n)[i])
                BY <1>8, <1>11, <3>1, OneMoreClosed
            <4> QED  BY <3>1, <4>1
        <3>2. CASE m.lots # <<>>
            BY <1>3, <3>2 DEF Conserved
        <3> QED  BY <3>1, <3>2
    <2>3. q = ex.qty  BY <1>2, <1>14
    <2>4. ASSUME NEW x PROVE UsedBy(h, x) = UsedBy(g, x) + (IF x = ex THEN ex.qty ELSE 0)
        <3>1. CASE m.lots = <<>>
            <4>1. UsedBy(h, x) = UsedOf(Append(g.closed, n), x) + 0  BY <2>1, <3>1 DEF UsedBy
            <4> HIDE DEF q
            <4> QED  BY <1>7, <1>12, <2>3, <4>1
        <3>2. CASE m.lots # <<>>
            <4>1. UsedBy(h, x) = UsedOf(g.closed, x) + UsedIn(n, x)  BY <2>1, <3>2 DEF UsedBy
            <4> HIDE DEF q
            <4> QED  BY <1>7, <1>12, <2>3, <4>1
        <3> QED  BY <3>1, <3>2
    <2> HIDE DEF c
    <2>5. h \in Groups(X)  BY <1>6, <1>8, <2>1, <2>2 DEF Groups
    <2>6. Conserved(h)  BY <1>9, <2>1, <2>2 DEF Conserved
    <2> QED  BY <2>4, <2>5, <2>6 DEF h
<1> QED  BY <1>6, <1>13, <1>14

-----------------------------------------------------------------------------
(* A whole symbol *)

Kept(X) == {g \in Groups(X) : Conserved(g)}
TakeOf(g, ex, symbol) == IF ex.symbol = symbol THEN Take(g, ex) ELSE g

LEMMA TakeKeeps ==
    ASSUME NEW X \in SUBSET Executions, NEW g \in Kept(X), NEW ex \in X
    PROVE  /\ Take(g, ex) \in Kept(X)
           /\ \A x : UsedBy(Take(g, ex), x) = UsedBy(g, x) + (IF x = ex THEN ex.qty ELSE 0)
<1>1. g \in Groups(X) /\ Conserved(g)  BY DEF Kept
<1>2. CASE SideOf(ex) = Opened(g, ex).side  BY <1>1, <1>2, TakeEnters DEF Kept
<1>3. CASE SideOf(ex) # Opened(g, ex).side  BY <1>1, <1>3, TakeExits DEF Kept
<1> QED  BY <1>2, <1>3

LEMMA NothingKept ==
    ASSUME NEW X \in SUBSET Executions
    PROVE  NoGroup \in Kept(X) /\ \A x : UsedBy(NoGroup, x) = 0
<1>1. Trade("long") \in TradesOf(X)  BY NewTrade DEF Sides
<1>2. <<>> \in Seq(Legs(X)) /\ <<>> \in Seq(TradesOf(X)) /\ DOMAIN <<>> = {}  OBVIOUS
<1>3. NoGroup.open = Trade("long") /\ NoGroup.lots = <<>> /\ NoGroup.closed = <<>>
      /\ NoGroup = [open |-> Trade("long"), lots |-> <<>>, closed |-> <<>>]
    BY DEF NoGroup
<1>4. NoGroup \in Groups(X)  BY <1>1, <1>2, <1>3 DEF Groups
<1>5. Conserved(NoGroup)  BY <1>2, <1>3 DEF Conserved
<1>6. \A x : UsedOf(<<>>, x) = 0  BY UseOfTrades
<1>7. \A x : UsedBy(NoGroup, x) = 0  BY <1>3, <1>6 DEF UsedBy
<1> QED  BY <1>4, <1>5, <1>7 DEF Kept

IsGrouping(f, execs, symbol) ==
    f = [n \in 0..Len(execs) |->
            IF n = 0 THEN NoGroup
            ELSE IF execs[n].symbol = symbol THEN Take(f[n - 1], execs[n]) ELSE f[n - 1]]

GroupsBy(f, X, execs, symbol) ==
    /\ f \in [0..Len(execs) -> Kept(X)]
    /\ f[0] = NoGroup
    /\ \A n \in 1..Len(execs) : f[n] = TakeOf(f[n - 1], execs[n], symbol)
    /\ Grouped(execs, symbol) = f[Len(execs)]

LEMMA GroupingExists ==
    ASSUME NEW X \in SUBSET Executions, NEW execs \in Seq(X), NEW symbol
    PROVE  \E f : GroupsBy(f, X, execs, symbol)
<1> DEFINE N == Len(execs)
           D == Kept(X)
           base == NoGroup
           step == [n \in 1..N |-> [g \in D |-> TakeOf(g, execs[n], symbol)]]
           f == CHOOSE g : IsGrouping(g, execs, symbol)
<1>1. N \in Nat /\ \A n \in 1..N : execs[n] \in X  OBVIOUS
<1>2. base \in D  BY NothingKept
<1>3. \A n \in 1..N, g \in D : TakeOf(g, execs[n], symbol) \in D
    BY <1>1, TakeKeeps DEF TakeOf
<1>4. step \in [1..N -> [D -> D]]  BY <1>3
<1>5. \A n \in 1..N, g \in D : step[n][g] = TakeOf(g, execs[n], symbol)  OBVIOUS
<1> HIDE DEF step, D, base, N
<1>6. PICK h : Recurs(h, N, D, base, step)  BY <1>1, <1>2, <1>4, RecursionExists
<1>7. /\ h \in [0..N -> D] /\ h[0] = base
      /\ \A n \in 1..N : h[n] = TakeOf(h[n - 1], execs[n], symbol)
    <2>1. h \in [0..N -> D] /\ h[0] = base /\ \A n \in 1..N : h[n] = step[n][h[n - 1]]
        BY <1>6 DEF Recurs
    <2>2. \A n \in 1..N : h[n - 1] \in D  BY <1>1, <2>1
    <2> QED  BY <1>5, <2>1, <2>2
<1>8. IsGrouping(h, execs, symbol)
    <2>1. \A n \in 0..N : h[n] = IF n = 0 THEN base ELSE TakeOf(h[n - 1], execs[n], symbol)
        BY <1>1, <1>7
    <2> QED  BY <1>7, <2>1 DEF IsGrouping, TakeOf, N, base
<1>9. IsGrouping(f, execs, symbol)  BY <1>8
<1>10. Grouped(execs, symbol) = f[N]  BY DEF Grouped, IsGrouping, N
<1> HIDE DEF f
<1>11. /\ f = [n \in 0..N |-> f[n]] /\ f[0] = base
       /\ \A n \in 1..N : f[n] = TakeOf(f[n - 1], execs[n], symbol)
    <2>1. f = [n \in 0..N |-> IF n = 0 THEN base ELSE TakeOf(f[n - 1], execs[n], symbol)]
        BY <1>9 DEF IsGrouping, TakeOf, N, base
    <2>2. DOMAIN f = 0..N  BY <2>1
    <2>3. \A n \in 0..N : f[n] = IF n = 0 THEN base ELSE TakeOf(f[n - 1], execs[n], symbol)
        BY <2>1, Zenon
    <2> QED  BY <1>1, <2>1, <2>2, <2>3
<1> DEFINE T == {n \in 0..N : f[n] \in D}
<1>12. 0 \in T  BY <1>1, <1>2, <1>11
<1>13. ASSUME NEW n \in 1..N, n - 1 \in T PROVE n \in T
    <2>1. n \in 0..N /\ f[n - 1] \in D  BY <1>1, <1>13
    <2>2. f[n] \in D  BY <1>3, <1>11, <2>1
    <2> QED  BY <2>1, <2>2
<1> HIDE DEF T
<1>14. \A n \in 1..N : n - 1 \in T => n \in T  BY <1>13
<1>15. \A n \in 0..N : n \in T  BY <1>1, <1>12, <1>14, UpTo
<1>16. f \in [0..N -> D]  BY <1>11, <1>15 DEF T
<1> QED  BY <1>10, <1>11, <1>16 DEF N, D, base, GroupsBy

LEMMA NoneGrouped ==
    ASSUME NEW X \in SUBSET Executions, NEW symbol
    PROVE  Grouped(<<>>, symbol) = NoGroup
<1> DEFINE none == <<>>
<1>1. none \in Seq(X) /\ Len(none) = 0  OBVIOUS
<1> HIDE DEF none
<1>2. PICK f : GroupsBy(f, X, none, symbol)  BY <1>1, GroupingExists
<1> QED  BY <1>1, <1>2 DEF GroupsBy, none

LEMMA MoreGrouped ==
    ASSUME NEW X \in SUBSET Executions, NEW execs \in Seq(X), NEW ex \in X, NEW symbol
    PROVE  /\ Grouped(execs, symbol) \in Kept(X)
           /\ Grouped(Append(execs, ex), symbol) = TakeOf(Grouped(execs, symbol), ex, symbol)
<1> DEFINE N == Len(execs)
           t == Append(execs, ex)
<1>1. t \in Seq(X) /\ Len(t) = N + 1 /\ t[N + 1] = ex /\ N \in Nat  OBVIOUS
<1>2. \A n \in 1..N : t[n] = execs[n]  OBVIOUS
<1> HIDE DEF t
<1>3. PICK f : GroupsBy(f, X, execs, symbol)  BY GroupingExists
<1>4. PICK g : GroupsBy(g, X, t, symbol)  BY <1>1, GroupingExists
<1>5. /\ f \in [0..N -> Kept(X)] /\ f[0] = NoGroup
      /\ \A n \in 1..N : f[n] = TakeOf(f[n - 1], execs[n], symbol)
      /\ Grouped(execs, symbol) = f[N]
    BY <1>3 DEF GroupsBy
<1>6. /\ g \in [0..(N + 1) -> Kept(X)] /\ g[0] = NoGroup
      /\ \A n \in 1..(N + 1) : g[n] = TakeOf(g[n - 1], t[n], symbol)
      /\ Grouped(t, symbol) = g[N + 1]
    BY <1>1, <1>4 DEF GroupsBy
<1> HIDE DEF N
<1> DEFINE T == {n \in 0..N : f[n] = g[n]}
<1>7. 0 \in T  BY <1>1, <1>5, <1>6
<1>8. ASSUME NEW n \in 1..N, n - 1 \in T PROVE n \in T
    <2>1. n \in 0..N /\ n \in 1..(N + 1) /\ f[n - 1] = g[n - 1]  BY <1>1, <1>8
    <2>2. f[n] = g[n]  BY <1>2, <1>5, <1>6, <2>1
    <2> QED  BY <2>1, <2>2
<1> HIDE DEF T
<1>9. \A n \in 1..N : n - 1 \in T => n \in T  BY <1>8
<1>10. \A n \in 0..N : n \in T  BY <1>1, <1>7, <1>9, UpTo
<1>11. f[N] = g[N]  BY <1>1, <1>10 DEF T
<1>12. N \in 0..N /\ N + 1 \in 1..(N + 1) /\ (N + 1) - 1 = N  BY <1>1
<1>13. Grouped(t, symbol) = TakeOf(f[N], ex, symbol)  BY <1>1, <1>6, <1>11, <1>12
<1>14. Grouped(execs, symbol) \in Kept(X)  BY <1>5, <1>12
<1> QED  BY <1>5, <1>13, <1>14 DEF t

-----------------------------------------------------------------------------
(* What grouping conserves *)

Distinct(s) == \A i, j \in DOMAIN s : s[i] = s[j] => i = j

\* All of an execution of the symbol is used, and nothing else.
UsesAll(execs, symbol) ==
    \A x : UsedBy(Grouped(execs, symbol), x)
             = IF x \in ToSet(execs) /\ x.symbol = symbol THEN x.qty ELSE 0

LEMMA GroupingUses ==
    ASSUME NEW X \in SUBSET Executions, NEW execs \in Seq(X), Distinct(execs), NEW symbol
    PROVE  UsesAll(execs, symbol)
<1> DEFINE T == {s \in Seq(X) : Distinct(s) => UsesAll(s, symbol)}
<1>1. <<>> \in T
    <2>1. ToSet(<<>>) = {} /\ <<>> \in Seq(X)  BY DEF ToSet
    <2>2. Grouped(<<>>, symbol) = NoGroup  BY NoneGrouped
    <2>3. UsesAll(<<>>, symbol)  BY <2>1, <2>2, NothingKept DEF UsesAll
    <2> QED  BY <2>1, <2>3
<1>2. ASSUME NEW s \in Seq(X), NEW ex \in X, s \in T PROVE Append(s, ex) \in T
    <2> DEFINE t == Append(s, ex)
               N == Len(s)
    <2>1. /\ t \in Seq(X) /\ DOMAIN t = 1..(N + 1) /\ DOMAIN s = 1..N /\ N \in Nat
          /\ t[N + 1] = ex /\ \A i \in 1..N : t[i] = s[i]
        OBVIOUS
    <2> HIDE DEF t, N
    <2>2. ToSet(t) = ToSet(s) \cup {ex}
        <3>1. ASSUME NEW i \in DOMAIN t PROVE t[i] \in ToSet(s) \cup {ex}
            <4>1. i = N + 1 \/ i \in 1..N  BY <2>1
            <4> QED  BY <2>1, <4>1 DEF ToSet
        <3>2. ASSUME NEW i \in DOMAIN s PROVE s[i] \in ToSet(t)
            <4>1. i \in DOMAIN t /\ t[i] = s[i]  BY <2>1
            <4> QED  BY <4>1 DEF ToSet
        <3>3. ex \in ToSet(t)
            <4>1. N + 1 \in DOMAIN t  BY <2>1
            <4> QED  BY <2>1, <4>1 DEF ToSet
        <3> QED  BY <3>1, <3>2, <3>3 DEF ToSet
    <2>3. SUFFICES ASSUME Distinct(t) PROVE UsesAll(t, symbol)  BY <2>1 DEF t
    <2>4. Distinct(s) /\ ex \notin ToSet(s)
        <3>1. \A i \in DOMAIN s : i \in DOMAIN t /\ t[i] = s[i] /\ i # N + 1  BY <2>1
        <3>2. N + 1 \in DOMAIN t  BY <2>1
        <3>3. Distinct(s)  BY <2>3, <3>1 DEF Distinct
        <3>4. ASSUME NEW i \in DOMAIN s, s[i] = ex PROVE FALSE
            BY <2>1, <2>3, <3>1, <3>2, <3>4 DEF Distinct
        <3> QED  BY <3>3, <3>4 DEF ToSet
    <2>5. UsesAll(s, symbol)  BY <1>2, <2>4
    <2> DEFINE g == Grouped(s, symbol)
    <2>6. g \in Kept(X) /\ Grouped(t, symbol) = TakeOf(g, ex, symbol)  BY MoreGrouped DEF t
    <2>7. \A x : UsedBy(g, x) = IF x \in ToSet(s) /\ x.symbol = symbol THEN x.qty ELSE 0
        BY <2>5 DEF UsesAll
    <2> HIDE DEF g
    <2>8. CASE ex.symbol = symbol
        <3>1. Grouped(t, symbol) = Take(g, ex)  BY <2>6, <2>8 DEF TakeOf
        <3>2. \A x : UsedBy(Take(g, ex), x) = UsedBy(g, x) + (IF x = ex THEN ex.qty ELSE 0)
            BY <2>6, TakeKeeps
        <3>3. ASSUME NEW x
              PROVE  UsedBy(Take(g, ex), x)
                       = IF x \in ToSet(t) /\ x.symbol = symbol THEN x.qty ELSE 0
            <4>1. CASE x = ex
                <5>1. UsedBy(g, x) = 0 /\ ex.qty \in Nat  BY <2>4, <2>7, <4>1 DEF Executions
                <5> QED  BY <2>2, <2>8, <3>2, <4>1, <5>1
            <4>2. CASE x # ex
                <5>1. UsedBy(Take(g, ex), x) = UsedBy(g, x) + 0  BY <3>2, <4>2
                <5>2. UsedBy(g, x) \in Int
                    <6>1. CASE x \in ToSet(s)
                        <7>1. x \in Executions  BY <6>1 DEF ToSet
                        <7> QED  BY <2>7, <7>1 DEF Executions
                    <6>2. CASE x \notin ToSet(s)  BY <2>7, <6>2
                    <6> QED  BY <6>1, <6>2
                <5>3. UsedBy(Take(g, ex), x) = UsedBy(g, x)  BY <5>1, <5>2
                <5> QED  BY <2>2, <2>7, <4>2, <5>3
            <4> QED  BY <4>1, <4>2
        <3> QED  BY <3>1, <3>3 DEF UsesAll
    <2>9. CASE ex.symbol # symbol
        <3>1. Grouped(t, symbol) = g  BY <2>6, <2>9 DEF TakeOf
        <3> QED  BY <2>2, <2>7, <2>9, <3>1 DEF UsesAll
    <2> QED  BY <2>8, <2>9
<1> HIDE DEF T
<1>3. execs \in T  BY <1>1, <1>2, BySequence
<1> QED  BY <1>3 DEF T

\* Whatever executions group_into_trades is given, in whatever order, a closed
\* trade exits what it entered and has the profit that comes to, and each
\* execution is used up by closed trades and the one position still open.
THEOREM GroupingIsExact ==
    ASSUME NEW X \in SUBSET Executions, NEW execs \in Seq(X), Distinct(execs)
    PROVE  GroupingConserves(execs)
<1> SUFFICES ASSUME NEW symbol \in Symbols(execs)
             PROVE  LET g == Grouped(execs, symbol)
                    IN  /\ \A i \in DOMAIN g.closed : Balanced(g.closed[i])
                        /\ g.lots # <<>> =>
                               Quantity(g.open.entries) = Quantity(g.open.exits) + Quantity(g.lots)
                        /\ \A i \in DOMAIN execs :
                               execs[i].symbol = symbol =>
                                   UsedOf(g.closed, execs[i])
                                     + (IF g.lots = <<>> THEN 0 ELSE UsedIn(g.open, execs[i]))
                                     = execs[i].qty
    BY DEF GroupingConserves
<1> DEFINE g == Grouped(execs, symbol)
<1>1. g \in Kept(X)
    <2>1. PICK i \in DOMAIN execs : symbol = execs[i].symbol  BY DEF Symbols
    <2>2. execs[i] \in X  BY <2>1
    <2> QED  BY <2>2, MoreGrouped
<1>2. UsesAll(execs, symbol)  BY GroupingUses
<1>3. \A i \in DOMAIN execs : execs[i].symbol = symbol => UsedBy(g, execs[i]) = execs[i].qty
    BY <1>2 DEF UsesAll, ToSet
<1> HIDE DEF g
<1>4. \A i \in DOMAIN g.closed : Balanced(g.closed[i])  BY <1>1 DEF Kept, Conserved
<1>5. g.lots # <<>> => Quantity(g.open.entries) = Quantity(g.open.exits) + Quantity(g.lots)
    BY <1>1 DEF Kept, Conserved, Positioned
<1>6. \A i \in DOMAIN execs :
          execs[i].symbol = symbol =>
              UsedOf(g.closed, execs[i])
                + (IF g.lots = <<>> THEN 0 ELSE UsedIn(g.open, execs[i])) = execs[i].qty
    BY <1>3 DEF UsedBy
<1> QED  BY <1>4, <1>5, <1>6 DEF g

-----------------------------------------------------------------------------
(* All symbols *)

\* What is used is never negative, and nothing that is not there is used.
LEMMA UseIsNat ==
    ASSUME NEW X, NEW x
    PROVE  /\ \A t \in TradesOf(X) : UsedIn(t, x) \in Nat
           /\ \A ts \in Seq(TradesOf(X)) : UsedOf(ts, x) \in Nat
<1> DEFINE T == {ls \in Seq(Legs(X)) : OfExecution(ls, x) \in Nat}
<1>1. <<>> \in T
    <2>1. <<>> \in Seq(Legs(X)) /\ OfExecution(<<>>, x) = 0  BY LegsOfExecution
    <2> QED  BY <2>1
<1>2. ASSUME NEW ls \in Seq(Legs(X)), NEW leg \in Legs(X), ls \in T PROVE Append(ls, leg) \in T
    <2>1. OfExecution(Append(ls, leg), x)
            = OfExecution(ls, x) + (IF leg.ex = x THEN leg.qty ELSE 0)
        BY LegsOfExecution
    <2>2. leg.qty \in Nat /\ OfExecution(ls, x) \in Nat  BY <1>2 DEF Legs
    <2>3. Append(ls, leg) \in Seq(Legs(X))  OBVIOUS
    <2> QED  BY <2>1, <2>2, <2>3
<1> HIDE DEF T
<1>3. \A ls \in Seq(Legs(X)) : ls \in T  BY <1>1, <1>2, BySequence
<1>4. ASSUME NEW t \in TradesOf(X) PROVE UsedIn(t, x) \in Nat
    <2>1. t.entries \in T /\ t.exits \in T  BY <1>3 DEF TradesOf
    <2> QED  BY <2>1 DEF T, UsedIn
<1> DEFINE U == {ts \in Seq(TradesOf(X)) : UsedOf(ts, x) \in Nat}
<1>5. <<>> \in U
    <2>1. <<>> \in Seq(TradesOf(X)) /\ UsedOf(<<>>, x) = 0  BY UseOfTrades
    <2> QED  BY <2>1
<1>6. ASSUME NEW ts \in Seq(TradesOf(X)), NEW t \in TradesOf(X), ts \in U
      PROVE  Append(ts, t) \in U
    <2>1. UsedOf(Append(ts, t), x) = UsedOf(ts, x) + UsedIn(t, x)  BY UseOfTrades
    <2>2. UsedIn(t, x) \in Nat /\ UsedOf(ts, x) \in Nat  BY <1>4, <1>6
    <2>3. Append(ts, t) \in Seq(TradesOf(X))  OBVIOUS
    <2> QED  BY <2>1, <2>2, <2>3
<1> HIDE DEF U
<1>7. \A ts \in Seq(TradesOf(X)) : ts \in U  BY <1>5, <1>6, BySequence
<1> QED  BY <1>4, <1>7 DEF U

LEMMA NotThere ==
    ASSUME NEW X, NEW x, x \notin X
    PROVE  /\ \A t \in TradesOf(X) : UsedIn(t, x) = 0
           /\ \A ts \in Seq(TradesOf(X)) : UsedOf(ts, x) = 0
<1> DEFINE T == {ls \in Seq(Legs(X)) : OfExecution(ls, x) = 0}
<1>1. <<>> \in T
    <2>1. <<>> \in Seq(Legs(X)) /\ OfExecution(<<>>, x) = 0  BY LegsOfExecution
    <2> QED  BY <2>1
<1>2. ASSUME NEW ls \in Seq(Legs(X)), NEW leg \in Legs(X), ls \in T PROVE Append(ls, leg) \in T
    <2>1. OfExecution(Append(ls, leg), x)
            = OfExecution(ls, x) + (IF leg.ex = x THEN leg.qty ELSE 0)
        BY LegsOfExecution
    <2>2. leg.ex # x /\ OfExecution(ls, x) = 0  BY <1>2 DEF Legs
    <2>3. Append(ls, leg) \in Seq(Legs(X))  OBVIOUS
    <2> QED  BY <2>1, <2>2, <2>3
<1> HIDE DEF T
<1>3. \A ls \in Seq(Legs(X)) : ls \in T  BY <1>1, <1>2, BySequence
<1>4. ASSUME NEW t \in TradesOf(X) PROVE UsedIn(t, x) = 0
    <2>1. t.entries \in T /\ t.exits \in T  BY <1>3 DEF TradesOf
    <2> QED  BY <2>1 DEF T, UsedIn
<1> DEFINE U == {ts \in Seq(TradesOf(X)) : UsedOf(ts, x) = 0}
<1>5. <<>> \in U
    <2>1. <<>> \in Seq(TradesOf(X)) /\ UsedOf(<<>>, x) = 0  BY UseOfTrades
    <2> QED  BY <2>1
<1>6. ASSUME NEW ts \in Seq(TradesOf(X)), NEW t \in TradesOf(X), ts \in U
      PROVE  Append(ts, t) \in U
    <2>1. UsedOf(Append(ts, t), x) = UsedOf(ts, x) + UsedIn(t, x)  BY UseOfTrades
    <2>2. UsedIn(t, x) = 0 /\ UsedOf(ts, x) = 0  BY <1>4, <1>6
    <2>3. Append(ts, t) \in Seq(TradesOf(X))  OBVIOUS
    <2> QED  BY <2>1, <2>2, <2>3
<1> HIDE DEF U
<1>7. \A ts \in Seq(TradesOf(X)) : ts \in U  BY <1>5, <1>6, BySequence
<1> QED  BY <1>4, <1>7 DEF U

LEMMA UseOfBoth ==
    ASSUME NEW X, NEW x, NEW a \in Seq(TradesOf(X)), NEW b \in Seq(TradesOf(X))
    PROVE  UsedOf(a \o b, x) = UsedOf(a, x) + UsedOf(b, x)
<1> DEFINE S == TradesOf(X)
           T == {u \in Seq(S) : UsedOf(a \o u, x) = UsedOf(a, x) + UsedOf(u, x)}
<1>1. \A u \in Seq(S) : UsedOf(u, x) \in Int  BY UseOfTrades
<1>2. \A u \in Seq(S), t \in S : UsedOf(Append(u, t), x) = UsedOf(u, x) + UsedIn(t, x)
    BY UseOfTrades
<1>3. \A t \in S : UsedIn(t, x) \in Int  BY UseIsInt
<1>4. UsedOf(<<>>, x) = 0  BY UseOfTrades
<1> HIDE DEF S
<1>5. a \in Seq(S) /\ b \in Seq(S)  BY DEF S
<1>6. <<>> \in T
    <2>1. a \o <<>> = a /\ <<>> \in Seq(S)  BY <1>5
    <2>2. UsedOf(a, x) \in Int  BY <1>1, <1>5
    <2> QED  BY <1>4, <2>1, <2>2
<1>7. ASSUME NEW u \in Seq(S), NEW t \in S, u \in T PROVE Append(u, t) \in T
    <2>1. a \o Append(u, t) = Append(a \o u, t) /\ a \o u \in Seq(S) /\ Append(u, t) \in Seq(S)
        BY <1>5
    <2>2. UsedOf(Append(a \o u, t), x) = UsedOf(a \o u, x) + UsedIn(t, x)  BY <1>2, <2>1
    <2>3. UsedOf(Append(u, t), x) = UsedOf(u, x) + UsedIn(t, x)  BY <1>2
    <2>4. UsedOf(a \o u, x) = UsedOf(a, x) + UsedOf(u, x)  BY <1>7
    <2>5. UsedOf(a, x) \in Int /\ UsedOf(u, x) \in Int /\ UsedIn(t, x) \in Int
        BY <1>1, <1>3, <1>5
    <2>6. UsedOf(a \o Append(u, t), x) = UsedOf(a, x) + UsedOf(Append(u, t), x)
        <3> HIDE DEF T
        <3> QED  BY <2>1, <2>2, <2>3, <2>4, <2>5
    <2> QED  BY <2>1, <2>6
<1> HIDE DEF T
<1>8. b \in T  BY <1>5, <1>6, <1>7, BySequence
<1> QED  BY <1>8 DEF T

\* FlattenSeq, from the empty sequence on.
Flattens(f, S, ss) ==
    /\ f \in [0..Len(ss) -> Seq(S)] /\ f[0] = <<>>
    /\ \A k \in 1..Len(ss) : f[k] = f[k - 1] \o ss[k]
    /\ FlattenSeq(ss) = f[Len(ss)]

IsFlat(f, ss) == f = [i \in 1..Len(ss) |-> IF i = 1 THEN ss[i] ELSE f[i - 1] \o ss[i]]

LEMMA FlatteningExists ==
    ASSUME NEW S, NEW ss \in Seq(Seq(S))
    PROVE  \E f : Flattens(f, S, ss)
<1> DEFINE N == Len(ss)
           D == Seq(S)
           base == <<>>
           step == [k \in 1..N |-> [s \in D |-> s \o ss[k]]]
<1>1. N \in Nat /\ (\A k \in 1..N : ss[k] \in D) /\ base \in D
      /\ \A s \in D : <<>> \o s = s
    OBVIOUS
<1>2. \A s, t \in D : s \o t \in D  OBVIOUS
<1>3. step \in [1..N -> [D -> D]]
    <2> HIDE DEF D
    <2> QED  BY <1>1, <1>2
<1>4. \A k \in 1..N, s \in D : step[k][s] = s \o ss[k]  OBVIOUS
<1> HIDE DEF step, D, base, N
<1>5. PICK h : Recurs(h, N, D, base, step)  BY <1>1, <1>3, RecursionExists
<1>6. h \in [0..N -> D] /\ h[0] = base /\ \A k \in 1..N : h[k] = h[k - 1] \o ss[k]
    <2>1. h \in [0..N -> D] /\ h[0] = base /\ \A n \in 1..N : h[n] = step[n][h[n - 1]]
        BY <1>5 DEF Recurs
    <2>2. \A n \in 1..N : h[n - 1] \in D  BY <1>1, <2>1
    <2> QED  BY <1>4, <2>1, <2>2
<1>7. CASE N = 0
    <2>1. FlattenSeq(ss) = ss /\ ss = <<>>
        <3>1. Len(ss) = 0  BY <1>7 DEF N
        <3>2. FlattenSeq(ss) = ss  BY <3>1 DEF FlattenSeq
        <3>3. ss = <<>>  BY <3>1
        <3> QED  BY <3>2, <3>3
    <2>2. FlattenSeq(ss) = h[N]  BY <1>6, <1>7, <2>1 DEF base
    <2> QED  BY <1>6, <2>2 DEF Flattens, N, D, base
<1>8. CASE N # 0
    <2> DEFINE g == [i \in 1..N |-> h[i]]
               f == CHOOSE e : IsFlat(e, ss)
    <2>1. IsFlat(g, ss)
        <3>1. h[1] = ss[1]
            <4>1. 1 \in 1..N /\ 1 - 1 = 0  BY <1>1, <1>8
            <4>2. h[1] = <<>> \o ss[1] /\ ss[1] \in D  BY <1>1, <1>6, <4>1 DEF base
            <4> QED  BY <1>1, <4>2
        <3>2. \A i \in 1..N : g[i] = IF i = 1 THEN ss[i] ELSE g[i - 1] \o ss[i]
            <4> SUFFICES ASSUME NEW i \in 1..N
                         PROVE  g[i] = IF i = 1 THEN ss[i] ELSE g[i - 1] \o ss[i]
                OBVIOUS
            <4>1. CASE i = 1  BY <3>1, <4>1
            <4>2. CASE i # 1
                <5>1. i - 1 \in 1..N  BY <1>1, <4>2
                <5> QED  BY <1>6, <4>2, <5>1
            <4> QED  BY <4>1, <4>2
        <3>3. g = [i \in 1..N |-> g[i]]  OBVIOUS
        <3> HIDE DEF g
        <3> QED  BY <3>2, <3>3 DEF IsFlat, N
    <2>2. IsFlat(f, ss)  BY <2>1
    <2>3. FlattenSeq(ss) = f[N]  BY <1>8 DEF FlattenSeq, IsFlat, N
    <2> HIDE DEF f, g
    <2>4. \A i \in 1..N : f[i] = IF i = 1 THEN ss[i] ELSE f[i - 1] \o ss[i]
        <3>1. f = [i \in 1..N |-> IF i = 1 THEN ss[i] ELSE f[i - 1] \o ss[i]]
            BY <2>2 DEF IsFlat, N
        <3> QED  BY <3>1, Zenon
    <2> DEFINE T == {n \in 0..N : n = 0 \/ f[n] = h[n]}
    <2>5. 0 \in T  BY <1>1
    <2>6. ASSUME NEW n \in 1..N, n - 1 \in T PROVE n \in T
        <3>1. n \in 0..N  BY <1>1
        <3>2. CASE n = 1
            <4>0. 1 \in 1..N /\ 1 - 1 = 0  BY <3>2
            <4>1. h[1] = h[0] \o ss[1]  BY <1>6, <4>0
            <4>2. h[0] = <<>> /\ ss[1] \in D  BY <1>1, <1>6, <4>0 DEF base
            <4>3. h[1] = ss[1]
                <5>1. h[1] = <<>> \o ss[1]  BY <4>1, <4>2
                <5> QED  BY <4>2, <5>1 DEF D
            <4> QED  BY <2>4, <3>1, <3>2, <4>3
        <3>3. CASE n # 1
            <4>1. f[n - 1] = h[n - 1]  BY <2>6, <3>3
            <4>2. f[n] = h[n]  BY <1>6, <2>4, <3>3, <4>1
            <4> QED  BY <3>1, <4>2
        <3> QED  BY <3>2, <3>3
    <2> HIDE DEF T
    <2>7. \A n \in 1..N : n - 1 \in T => n \in T  BY <2>6
    <2>8. \A n \in 0..N : n \in T  BY <1>1, <2>5, <2>7, UpTo
    <2>9. f[N] = h[N]  BY <1>1, <1>8, <2>8 DEF T
    <2>10. FlattenSeq(ss) = h[N]  BY <2>3, <2>9
    <2> QED  BY <1>6, <2>10 DEF Flattens, N, D, base
<1> QED  BY <1>7, <1>8

\* SetToSeq lists the elements of a finite set, each once.
LEMMA ListedOnce ==
    ASSUME NEW S, IsFiniteSet(S)
    PROVE  /\ SetToSeq(S) \in Seq(S) /\ DOMAIN SetToSeq(S) = 1..Len(SetToSeq(S))
           /\ \A i, j \in DOMAIN SetToSeq(S) : SetToSeq(S)[i] = SetToSeq(S)[j] => i = j
<1> DEFINE n == Cardinality(S)
<1>0. n \in Nat  BY FS_CardinalityType
<1>1. \E f \in [1..n -> S] : IsInjective(f)
    <2>1. ExistsBijection(1..n, S)  BY FS_CardinalityType
    <2>2. PICK f : f \in Bijection(1..n, S)  BY <2>1 DEF ExistsBijection
    <2>3. f \in [1..n -> S] /\ IsInjective(f)
        BY <2>2 DEF Bijection, Injection, Surjection, IsInjective
    <2> QED  BY <2>3
<1> DEFINE s == SetToSeq(S)
<1>2. s \in [1..n -> S] /\ IsInjective(s)  BY <1>1 DEF SetToSeq
<1> HIDE DEF s, n
<1>3. s \in Seq(S) /\ Len(s) = n /\ DOMAIN s = 1..n  BY <1>0, <1>2
<1>4. \A i, j \in DOMAIN s : s[i] = s[j] => i = j  BY <1>2 DEF IsInjective
<1> QED  BY <1>3, <1>4 DEF s

LEMMA GroupedKept ==
    ASSUME NEW X \in SUBSET Executions, NEW execs \in Seq(X), NEW symbol
    PROVE  Grouped(execs, symbol) \in Kept(X)
<1>1. CASE execs = <<>>
    <2>1. Grouped(<<>>, symbol) \in Kept(X)  BY NoneGrouped, NothingKept
    <2> QED  BY <1>1, <2>1
<1>2. CASE execs # <<>>
    <2>1. execs[1] \in X  BY <1>2
    <2> QED  BY <2>1, MoreGrouped
<1> QED  BY <1>1, <1>2

LEMMA AllGrouped ==
    ASSUME NEW X \in SUBSET Executions, NEW execs \in Seq(X), Distinct(execs)
    PROVE  /\ GroupIntoTrades(execs) \in Seq(TradesOf(X))
           /\ \A x \in X : UsedOf(GroupIntoTrades(execs), x) <= x.qty
<1> DEFINE symbols == SetToSeq(Symbols(execs))
           ss == [k \in DOMAIN symbols |-> Grouped(execs, symbols[k]).closed]
           N == Len(symbols)
<1>1. IsFiniteSet(Symbols(execs))
    <2> DEFINE F == [i \in DOMAIN execs |-> execs[i].symbol]
    <2>1. Len(execs) \in Nat /\ DOMAIN execs = 1..Len(execs)  OBVIOUS
    <2>2. IsFiniteSet(DOMAIN execs)  BY <2>1, FS_Interval
    <2>3. F \in Surjection(DOMAIN execs, Symbols(execs))  BY DEF Surjection, Symbols
    <2> QED  BY <2>2, <2>3, FS_Surjection
<1>2. /\ symbols \in Seq(Symbols(execs)) /\ DOMAIN symbols = 1..N /\ N \in Nat
      /\ \A i, j \in DOMAIN symbols : symbols[i] = symbols[j] => i = j
    BY <1>1, ListedOnce
<1>3. GroupIntoTrades(execs) = FlattenSeq(ss)  BY DEF GroupIntoTrades
<1> HIDE DEF symbols
<1>4. \A symbol : Grouped(execs, symbol) \in Kept(X)  BY GroupedKept
<1>5. \A symbol : Grouped(execs, symbol).closed \in Seq(TradesOf(X))
    BY <1>4 DEF Kept, Groups
<1>6. ss \in Seq(Seq(TradesOf(X))) /\ Len(ss) = N /\ DOMAIN ss = 1..N
      /\ \A k \in 1..N : ss[k] = Grouped(execs, symbols[k]).closed
    <2> HIDE DEF N
    <2> QED  BY <1>2, <1>5
<1> HIDE DEF ss, N
<1>7. PICK f : Flattens(f, TradesOf(X), ss)  BY <1>6, FlatteningExists
<1>8. /\ f \in [0..N -> Seq(TradesOf(X))] /\ f[0] = <<>>
      /\ \A k \in 1..N : f[k] = f[k - 1] \o ss[k]
      /\ FlattenSeq(ss) = f[N]
    BY <1>6, <1>7 DEF Flattens
<1>9. GroupIntoTrades(execs) \in Seq(TradesOf(X))  BY <1>2, <1>3, <1>8
<1>10. ASSUME NEW x \in X PROVE UsedOf(f[N], x) <= x.qty
    <2> DEFINE Done(k) == \E j \in 1..k : symbols[j] = x.symbol
               T == {k \in 0..N : UsedOf(f[k], x) <= IF Done(k) THEN x.qty ELSE 0}
    <2>1. x.qty \in Nat  BY DEF Executions
    <2>2. 0 \in T
        <3>1. UsedOf(f[0], x) = 0  BY <1>8, UseOfTrades
        <3>2. ~ Done(0)  OBVIOUS
        <3> QED  BY <1>2, <3>1, <3>2
    <2>3. ASSUME NEW k \in 1..N, k - 1 \in T PROVE k \in T
        <3> DEFINE g == Grouped(execs, symbols[k])
        <3>0. k \in 0..N /\ k - 1 \in 0..N  BY <1>2
        <3>1. /\ k \in 0..N /\ f[k - 1] \in Seq(TradesOf(X)) /\ ss[k] \in Seq(TradesOf(X))
              /\ f[k] = f[k - 1] \o ss[k] /\ ss[k] = g.closed
            <4>1. f[k - 1] \in Seq(TradesOf(X))  BY <1>8, <3>0
            <4>2. f[k] = f[k - 1] \o ss[k]  BY <1>8
            <4>3. ss[k] = g.closed  BY <1>6
            <4>4. ss[k] \in Seq(TradesOf(X))  BY <1>5, <4>3
            <4> QED  BY <3>0, <4>1, <4>2, <4>3, <4>4
        <3>2. UsedOf(f[k], x) = UsedOf(f[k - 1], x) + UsedOf(ss[k], x)  BY <3>1, UseOfBoth
        <3>3. UsedOf(f[k - 1], x) \in Nat /\ UsedOf(ss[k], x) \in Nat  BY <3>1, UseIsNat
        <3>4. UsedOf(f[k - 1], x) <= IF Done(k - 1) THEN x.qty ELSE 0  BY <2>3
        <3>5. UsedOf(ss[k], x) <= IF symbols[k] = x.symbol THEN x.qty ELSE 0
            <4>1. UsedBy(g, x) = IF x \in ToSet(execs) /\ x.symbol = symbols[k] THEN x.qty ELSE 0
                BY GroupingUses DEF UsesAll
            <4>2. g.open \in TradesOf(X)  BY <1>4 DEF Kept, Groups
            <4>3. UsedIn(g.open, x) \in Nat  BY <4>2, UseIsNat
            <4> HIDE DEF g
            <4>4. UsedOf(ss[k], x) <= UsedBy(g, x)  BY <3>1, <3>3, <4>3 DEF UsedBy
            <4>5. CASE symbols[k] = x.symbol /\ x \in ToSet(execs)  BY <4>1, <4>4, <4>5
            <4>6. CASE symbols[k] # x.symbol \/ x \notin ToSet(execs)
                <5>1. UsedOf(ss[k], x) <= 0  BY <4>1, <4>4, <4>6
                <5> QED  BY <2>1, <3>3, <5>1
            <4> QED  BY <4>5, <4>6
        <3>6. CASE symbols[k] = x.symbol
            <4>1. ~ Done(k - 1)
                <5>1. \A j \in 1..(k - 1) : j \in DOMAIN symbols /\ j # k /\ k \in DOMAIN symbols
                    BY <1>2
                <5> QED  BY <1>2, <3>6, <5>1
            <4>2. Done(k)  BY <3>6
            <4> HIDE DEF Done
            <4>3. UsedOf(f[k], x) <= x.qty  BY <2>1, <3>2, <3>3, <3>4, <3>5, <3>6, <4>1
            <4> QED  BY <3>1, <4>2, <4>3
        <3>7. CASE symbols[k] # x.symbol
            <4>1. Done(k) <=> Done(k - 1)
                <5>1. \A j \in 1..k : j = k \/ j \in 1..(k - 1)  BY <1>2
                <5>2. 1..(k - 1) \subseteq 1..k  BY <1>2
                <5> QED  BY <3>7, <5>1, <5>2
            <4> HIDE DEF Done
            <4>2. UsedOf(f[k], x) = UsedOf(f[k - 1], x)  BY <3>2, <3>3, <3>5, <3>7
            <4> QED  BY <3>1, <3>4, <4>1, <4>2
        <3> QED  BY <3>6, <3>7
    <2> HIDE DEF T
    <2>4. \A k \in 1..N : k - 1 \in T => k \in T  BY <2>3
    <2>5. \A k \in 0..N : k \in T  BY <1>2, <2>2, <2>4, UpTo
    <2>6. UsedOf(f[N], x) <= IF Done(N) THEN x.qty ELSE 0  BY <1>2, <2>5 DEF T
    <2>7. UsedOf(f[N], x) \in Nat
        <3>1. f[N] \in Seq(TradesOf(X))  BY <1>2, <1>8
        <3> QED  BY <3>1, UseIsNat
    <2> HIDE DEF Done
    <2> QED  BY <2>1, <2>6, <2>7
<1> QED  BY <1>3, <1>8, <1>9, <1>10

LEMMA MoreTrades ==
    ASSUME NEW X, NEW Y, X \subseteq Y
    PROVE  TradesOf(X) \subseteq TradesOf(Y) /\ Seq(TradesOf(X)) \subseteq Seq(TradesOf(Y))
<1>1. Legs(X) \subseteq Legs(Y)  BY DEF Legs
<1>2. Seq(Legs(X)) \subseteq Seq(Legs(Y))  BY <1>1
<1>3. TradesOf(X) \subseteq TradesOf(Y)  BY <1>2 DEF TradesOf
<1> QED  BY <1>3

LEMMA UseOfHead ==
    ASSUME NEW X, NEW x, NEW ts \in Seq(TradesOf(X)), ts # <<>>
    PROVE  /\ Head(ts) \in TradesOf(X) /\ Tail(ts) \in Seq(TradesOf(X))
           /\ UsedOf(ts, x) = UsedIn(Head(ts), x) + UsedOf(Tail(ts), x)
<1> DEFINE S == TradesOf(X)
<1>0. ts \in Seq(S)  OBVIOUS
<1>1. Head(ts) \in S /\ Tail(ts) \in Seq(S) /\ <<Head(ts)>> \in Seq(S) /\ <<>> \in Seq(S)
    <2> HIDE DEF S
    <2> QED  BY <1>0
<1>2. ts = <<Head(ts)>> \o Tail(ts) /\ <<Head(ts)>> = Append(<<>>, Head(ts))
    <2> HIDE DEF S
    <2> QED  BY <1>0, <1>1
<1>3. UsedOf(ts, x) = UsedOf(<<Head(ts)>>, x) + UsedOf(Tail(ts), x)
    BY <1>1, <1>2, UseOfBoth
<1>4. UsedOf(<<Head(ts)>>, x) = UsedOf(<<>>, x) + UsedIn(Head(ts), x)
    BY <1>1, <1>2, UseOfTrades
<1>5. UsedOf(<<>>, x) = 0  BY UseOfTrades
<1>6. UsedIn(Head(ts), x) \in Int  BY <1>1, UseIsInt
<1> QED  BY <1>1, <1>3, <1>4, <1>5, <1>6

\* Trades that are gone use nothing.
LEMMA FewerUse ==
    ASSUME NEW X, NEW x, NEW s \in Seq(TradesOf(X)), NEW t \in Seq(TradesOf(X)),
           Len(s) = Len(t), \A i \in 1..Len(t) : s[i] \in {t[i], Trade("long")}
    PROVE  UsedOf(s, x) <= UsedOf(t, x)
<1> DEFINE a == [i \in DOMAIN s |-> UsedIn(s[i], x)]
           b == [i \in DOMAIN t |-> UsedIn(t[i], x)]
<1>1. \A i \in 1..Len(s) : UsedIn(s[i], x) \in Nat
    <2>1. \A i \in 1..Len(s) : s[i] \in TradesOf(X)  OBVIOUS
    <2> QED  BY <2>1, UseIsNat
<1>2. \A i \in 1..Len(t) : UsedIn(t[i], x) \in Nat
    <2>1. \A i \in 1..Len(t) : t[i] \in TradesOf(X)  OBVIOUS
    <2> QED  BY <2>1, UseIsNat
<1>3. a \in Seq(Int) /\ Len(a) = Len(s)  BY <1>1
<1>4. b \in Seq(Int) /\ Len(b) = Len(t)  BY <1>2
<1>5. UsedIn(Trade("long"), x) = 0  BY NewTrade DEF Sides
<1>6. \A i \in 1..Len(a) : a[i] <= b[i]
    <2> SUFFICES ASSUME NEW i \in 1..Len(s) PROVE UsedIn(s[i], x) <= UsedIn(t[i], x)
        BY <1>3, <1>4
    <2>1. UsedIn(s[i], x) \in Nat /\ UsedIn(t[i], x) \in Nat  BY <1>1, <1>2
    <2> QED  BY <1>5, <2>1
<1> HIDE DEF a, b
<1>7. SumSeq(a) <= SumSeq(b)  BY <1>3, <1>4, <1>6, SumsCompare
<1> QED  BY <1>7 DEF UsedOf, a, b

-----------------------------------------------------------------------------
(* Sorting *)

\* InOrder lists what there is, each once, by its number.
LEMMA Ordered ==
    ASSUME NEW at, IsFiniteSet(DOMAIN at), \A x \in DOMAIN at : at[x] \in Int,
           \A x, y \in DOMAIN at : at[x] = at[y] => x = y
    PROVE  /\ InOrder(at) \in Seq(DOMAIN at) /\ Distinct(InOrder(at))
           /\ Len(InOrder(at)) = Cardinality(DOMAIN at)
           /\ ToSet(InOrder(at)) = DOMAIN at
           /\ \A i, j \in DOMAIN InOrder(at) : i < j => at[InOrder(at)[i]] < at[InOrder(at)[j]]
<1> DEFINE D == DOMAIN at
           N == Cardinality(D)
           below(x) == {y \in D : at[y] <= at[x]}
           rank == [x \in D |-> Cardinality(below(x))]
           s == InOrder(at)
<1>0. N \in Nat /\ IsFiniteSet(1..N) /\ Cardinality(1..N) = N
    BY FS_CardinalityType, FS_Interval
<1>1. \A x \in D : IsFiniteSet(below(x)) /\ x \in below(x) /\ rank[x] \in 1..N
    <2> SUFFICES ASSUME NEW x \in D
                 PROVE  IsFiniteSet(below(x)) /\ x \in below(x) /\ rank[x] \in 1..N
        OBVIOUS
    <2>1. below(x) \in SUBSET D /\ x \in below(x)  OBVIOUS
    <2>2. IsFiniteSet(below(x)) /\ Cardinality(below(x)) <= N  BY <2>1, FS_Subset
    <2>3. Cardinality(below(x)) \in Nat /\ Cardinality(below(x)) # 0
        BY <2>1, <2>2, FS_CardinalityType, FS_EmptySet
    <2>4. rank[x] = Cardinality(below(x))  OBVIOUS
    <2> HIDE DEF below, rank, N
    <2> QED  BY <1>0, <2>1, <2>2, <2>3, <2>4
<1>1a. \A x \in D : rank[x] \in Int
    <2> SUFFICES ASSUME NEW x \in D PROVE rank[x] \in Int  OBVIOUS
    <2>1. rank[x] \in 1..N  BY <1>1
    <2>2. 1..N \subseteq Int  BY <1>0
    <2> QED  BY <2>1, <2>2, Zenon
<1>2. ASSUME NEW x \in D, NEW y \in D, at[x] < at[y] PROVE rank[x] < rank[y]
    <2>0. at[x] \in Int /\ at[y] \in Int /\ \A z \in D : at[z] \in Int /\ (at[z] <= at[x] => at[z] <= at[y])
        BY <1>2
    <2>1. below(x) \in SUBSET below(y) /\ y \in below(y) /\ y \notin below(x)
        BY <1>2, <2>0
    <2>2. Cardinality(below(x)) <= Cardinality(below(y)) /\ Cardinality(below(x)) # Cardinality(below(y))
        BY <1>1, <2>1, FS_Subset
    <2>3. rank[x] = Cardinality(below(x)) /\ rank[y] = Cardinality(below(y))  OBVIOUS
    <2>4. rank[x] \in Int /\ rank[y] \in Int  BY <1>1a
    <2> HIDE DEF below, rank, N
    <2> QED  BY <2>2, <2>3, <2>4
<1>3. rank \in Injection(D, 1..N)
    <2>1. rank \in [D -> 1..N]  BY <1>1
    <2>2. ASSUME NEW x \in D, NEW y \in D, x # y PROVE rank[x] # rank[y]
        <3>1. at[x] < at[y] \/ at[y] < at[x]  BY <2>2
        <3>2. rank[x] \in Int /\ rank[y] \in Int  BY <1>1a
        <3> HIDE DEF rank, D
        <3> QED  BY <1>2, <3>1, <3>2
    <2> HIDE DEF rank, N, D
    <2> QED  BY <2>1, <2>2 DEF Injection, IsInjective
<1>4. rank \in Surjection(D, 1..N)  BY <1>0, <1>3, FS_Injection
<1>5. s = [i \in 1..N |-> CHOOSE x \in D : Cardinality(below(x)) = i]
    BY DEF InOrder
<1>5a. \A x \in D : rank[x] = Cardinality(below(x))  OBVIOUS
<1> HIDE DEF rank, s, N, below
<1>6. \A i \in 1..N : s[i] \in D /\ rank[s[i]] = i
    <2> SUFFICES ASSUME NEW i \in 1..N PROVE s[i] \in D /\ rank[s[i]] = i  OBVIOUS
    <2>1. \E x \in D : rank[x] = i  BY <1>4 DEF Surjection
    <2>2. s[i] = CHOOSE x \in D : Cardinality(below(x)) = i  BY <1>5
    <2>3. \E x \in D : Cardinality(below(x)) = i  BY <1>5a, <2>1
    <2>4. s[i] \in D /\ Cardinality(below(s[i])) = i  BY <2>2, <2>3
    <2> QED  BY <1>5a, <2>4
<1>7. \A x \in D : rank[x] \in 1..N /\ s[rank[x]] = x
    <2> SUFFICES ASSUME NEW x \in D PROVE rank[x] \in 1..N /\ s[rank[x]] = x  OBVIOUS
    <2>1. rank[x] \in 1..N  BY <1>1
    <2>2. s[rank[x]] \in D /\ rank[s[rank[x]]] = rank[x]  BY <1>6, <2>1
    <2> HIDE DEF D
    <2> QED  BY <1>3, <2>1, <2>2 DEF Injection, IsInjective
<1>8. s \in Seq(D) /\ Len(s) = N /\ DOMAIN s = 1..N
    <2>1. s = [i \in 1..N |-> s[i]]  BY <1>5
    <2> HIDE DEF D
    <2> QED  BY <1>0, <1>6, <2>1
<1>9. Distinct(s)  BY <1>6, <1>8 DEF Distinct
<1>10. ToSet(s) = D
    <2> HIDE DEF D
    <2> QED  BY <1>6, <1>7, <1>8 DEF ToSet
<1>11. ASSUME NEW i \in DOMAIN s, NEW j \in DOMAIN s, i < j PROVE at[s[i]] < at[s[j]]
    <2>1. s[i] \in D /\ s[j] \in D /\ rank[s[i]] = i /\ rank[s[j]] = j  BY <1>6, <1>8
    <2>2. i \in Int /\ j \in Int  BY <1>0, <1>8
    <2>3. ~ (at[s[j]] < at[s[i]])
        <3>1. at[s[j]] < at[s[i]] => rank[s[j]] < rank[s[i]]  BY <1>2, <2>1
        <3> QED  BY <1>11, <2>1, <2>2, <3>1
    <2>4. at[s[i]] # at[s[j]]  BY <1>11, <2>1, <2>2
    <2>5. at[s[i]] \in Int /\ at[s[j]] \in Int  BY <2>1
    <2> QED  BY <2>3, <2>4, <2>5
<1> QED  BY <1>8, <1>9, <1>10, <1>11 DEF s, N

-----------------------------------------------------------------------------
(* There is one way to sort *)

\* s lists D in the order of at.
Sorts(s, D, at) ==
    /\ s \in Seq(D) /\ ToSet(s) = D
    /\ \A i, j \in DOMAIN s : i < j => at[s[i]] < at[s[j]]

LEMMA NotBefore ==
    ASSUME NEW D, NEW at, \A x \in D : at[x] \in Int,
           NEW s, NEW t, Sorts(s, D, at), Sorts(t, D, at),
           NEW m \in DOMAIN s, m \in DOMAIN t, \A k \in 1..(m - 1) : s[k] = t[k]
    PROVE  ~ (at[s[m]] < at[t[m]])
<1> SUFFICES ASSUME at[s[m]] < at[t[m]] PROVE FALSE  OBVIOUS
<1>1. s \in Seq(D) /\ t \in Seq(D) /\ m \in 1..Len(s) /\ m \in 1..Len(t)  BY DEF Sorts
<1>2. s[m] \in D /\ t[m] \in D  BY <1>1
<1>3. PICK k \in DOMAIN t : t[k] = s[m]
    <2>1. s[m] \in ToSet(t)  BY <1>2 DEF Sorts
    <2> QED  BY <2>1 DEF ToSet
<1>4. k \in 1..Len(t)  BY <1>1
<1>5. at[s[m]] \in Int /\ at[t[m]] \in Int  BY <1>2
<1>6. CASE k < m
    <2>1. k \in 1..(m - 1) /\ k \in DOMAIN s  BY <1>1, <1>4, <1>6
    <2>2. s[k] = s[m]  BY <1>3, <2>1
    <2>3. at[s[k]] < at[s[m]]  BY <1>6, <2>1 DEF Sorts
    <2> QED  BY <1>5, <2>2, <2>3
<1>7. CASE k = m  BY <1>3, <1>5, <1>7
<1>8. CASE k > m
    <2>1. m < k  BY <1>1, <1>4, <1>8
    <2>2. at[t[m]] < at[t[k]]  BY <2>1 DEF Sorts
    <2> QED  BY <1>3, <1>5, <2>2
<1> QED  BY <1>1, <1>4, <1>6, <1>7, <1>8

LEMMA SortedOnce ==
    ASSUME NEW D, NEW at, \A x \in D : at[x] \in Int,
           \A x, y \in D : at[x] = at[y] => x = y,
           NEW s, NEW t, Sorts(s, D, at), Sorts(t, D, at), Len(s) = Len(t)
    PROVE  s = t
<1>1. s \in Seq(D) /\ t \in Seq(D) /\ DOMAIN s = 1..Len(s) /\ DOMAIN t = 1..Len(s)
      /\ Len(s) \in Nat
    BY DEF Sorts
<1> SUFFICES ASSUME NEW i \in 1..Len(s), s[i] # t[i] PROVE FALSE  BY <1>1
<1> DEFINE Bad == {k \in 1..Len(s) : s[k] # t[k]}
<1>2. Bad \in SUBSET Nat /\ Bad # {}  OBVIOUS
<1> HIDE DEF Bad
<1>3. PICK m \in Bad : \A k \in Bad : m <= k  BY <1>2, Least
<1>4. m \in 1..Len(s) /\ s[m] # t[m] /\ m \in Nat  BY <1>2 DEF Bad
<1>5. \A k \in 1..(m - 1) : s[k] = t[k]
    <2> SUFFICES ASSUME NEW k \in 1..(m - 1), s[k] # t[k] PROVE FALSE  OBVIOUS
    <2>1. k \in 1..Len(s) /\ ~ (m <= k)  BY <1>1, <1>4
    <2> QED  BY <1>3, <2>1 DEF Bad
<1>6. m \in DOMAIN s /\ m \in DOMAIN t /\ s[m] \in D /\ t[m] \in D  BY <1>1, <1>4
<1>7. ~ (at[s[m]] < at[t[m]])  BY <1>5, <1>6, NotBefore
<1>8. ~ (at[t[m]] < at[s[m]])  BY <1>5, <1>6, NotBefore
<1>9. at[s[m]] \in Int /\ at[t[m]] \in Int  BY <1>6
<1>10. at[s[m]] = at[t[m]]  BY <1>7, <1>8, <1>9
<1> QED  BY <1>4, <1>6, <1>10

\* What at numbers differently.
Numbers(at) ==
    /\ IsFiniteSet(DOMAIN at) /\ \A x \in DOMAIN at : at[x] \in Int
    /\ \A x, y \in DOMAIN at : at[x] = at[y] => x = y

LEMMA InOrderSorts ==
    ASSUME NEW at, Numbers(at)
    PROVE  Sorts(InOrder(at), DOMAIN at, at) /\ Len(InOrder(at)) = Cardinality(DOMAIN at)
BY Ordered DEF Numbers, Sorts

\* Only the order of the numbers matters.
LEMMA SameOrder ==
    ASSUME NEW at, NEW bt, Numbers(at), Numbers(bt), DOMAIN at = DOMAIN bt,
           \A x, y \in DOMAIN at : at[x] < at[y] => bt[x] < bt[y]
    PROVE  InOrder(at) = InOrder(bt)
<1> DEFINE s == InOrder(at)
           t == InOrder(bt)
           D == DOMAIN bt
<1>1. Sorts(s, D, at) /\ Sorts(t, D, bt) /\ Len(s) = Len(t)  BY InOrderSorts
<1>2. Sorts(s, D, bt)
    <2> HIDE DEF s
    <2>1. s \in Seq(D)  BY <1>1 DEF Sorts
    <2>2. \A i \in DOMAIN s : s[i] \in D  BY <2>1
    <2> QED  BY <1>1, <2>2 DEF Sorts
<1> HIDE DEF s, t
<1>3. s = t  BY <1>1, <1>2, SortedOnce DEF Numbers
<1> QED  BY <1>3 DEF s, t

\* The greatest comes last.
LEMMA OneMoreInOrder ==
    ASSUME NEW at, NEW bt, NEW x, Numbers(at), Numbers(bt), x \notin DOMAIN at,
           DOMAIN bt = DOMAIN at \cup {x},
           \A y \in DOMAIN at : bt[y] = at[y] /\ at[y] < bt[x]
    PROVE  InOrder(bt) = Append(InOrder(at), x)
<1> DEFINE s == InOrder(at)
           t == InOrder(bt)
           C == DOMAIN at
           D == DOMAIN bt
           u == Append(s, x)
<1>1. Sorts(s, C, at) /\ Sorts(t, D, bt) /\ Len(s) = Cardinality(C) /\ Len(t) = Cardinality(D)
    BY InOrderSorts
<1>2. Cardinality(D) = Cardinality(C) + 1  BY FS_AddElement DEF Numbers
<1> HIDE DEF s, t
<1>3. s \in Seq(C) /\ Len(s) \in Nat /\ ToSet(s) = C  BY <1>1 DEF Sorts
<1>4. s \in Seq(D) /\ x \in D  BY <1>3
<1> HIDE DEF C, D
<1>5. /\ u \in Seq(D) /\ Len(u) = Len(s) + 1 /\ DOMAIN u = 1..(Len(s) + 1)
      /\ u[Len(s) + 1] = x /\ \A i \in 1..Len(s) : u[i] = s[i]
    BY <1>3, <1>4
<1> HIDE DEF u
<1>6. \A i \in 1..Len(s) : s[i] \in C  BY <1>3
<1>7. ToSet(u) = D
    <2>1. \A i \in DOMAIN u : u[i] \in D  BY <1>5
    <2>2. ASSUME NEW y \in D PROVE \E i \in DOMAIN u : u[i] = y
        <3>1. CASE y = x
            <4>1. Len(s) + 1 \in DOMAIN u  BY <1>3, <1>5
            <4> QED  BY <1>5, <3>1, <4>1
        <3>2. CASE y # x
            <4>1. y \in ToSet(s)  BY <1>3, <3>2 DEF C, D
            <4>2. PICK i \in 1..Len(s) : s[i] = y  BY <1>3, <4>1 DEF ToSet
            <4>3. i \in DOMAIN u  BY <1>3, <1>5
            <4> QED  BY <1>5, <4>2, <4>3
        <3> QED  BY <3>1, <3>2
    <2> QED  BY <2>1, <2>2 DEF ToSet
<1>8. ASSUME NEW i \in DOMAIN u, NEW j \in DOMAIN u, i < j PROVE bt[u[i]] < bt[u[j]]
    <2>1. i \in 1..Len(s) /\ u[i] = s[i] /\ s[i] \in C  BY <1>3, <1>5, <1>6, <1>8
    <2>2. CASE j = Len(s) + 1  BY <1>5, <2>1, <2>2 DEF C
    <2>3. CASE j # Len(s) + 1
        <3>1. j \in 1..Len(s)  BY <1>3, <1>5, <2>3
        <3>2. u[j] = s[j] /\ s[j] \in C  BY <1>5, <1>6, <3>1
        <3>3. at[s[i]] < at[s[j]]  BY <1>1, <1>3, <1>8, <2>1, <3>1 DEF Sorts
        <3> QED  BY <2>1, <3>2, <3>3 DEF C
    <2> QED  BY <2>2, <2>3
<1>9. Sorts(u, D, bt)  BY <1>5, <1>7, <1>8 DEF Sorts
<1>10. Len(u) = Len(t)  BY <1>1, <1>2, <1>5
<1>11. u = t  BY <1>1, <1>9, <1>10, SortedOnce DEF Numbers, D
<1> QED  BY <1>11 DEF u, s, t

-----------------------------------------------------------------------------
(* One execution after the other *)

\* The first n executions of a log, and those at the places U, in its order.
Prefix(log, n) == [i \in 1..n |-> log[i]]
Picked(log, U) == LET s == InOrder([i \in U |-> i]) IN [k \in DOMAIN s |-> log[s[k]]]

\* What is grouped of a symbol after the first n executions.
After(log, n, symbol) == Grouped(Prefix(log, n), symbol)

LEMMA PrefixTyped ==
    ASSUME NEW X, NEW log \in Seq(X), NEW n \in 0..Len(log)
    PROVE  /\ Prefix(log, n) \in Seq(X) /\ Len(Prefix(log, n)) = n
           /\ DOMAIN Prefix(log, n) = 1..n
           /\ n = 0 => Prefix(log, n) = <<>>
           /\ n = Len(log) => Prefix(log, n) = log
<1>1. /\ Prefix(log, n) \in Seq(X) /\ Len(Prefix(log, n)) = n
      /\ DOMAIN Prefix(log, n) = 1..n
    BY DEF Prefix
<1>2. n = 0 => Prefix(log, n) = <<>>  BY <1>1
<1>3. n = Len(log) => Prefix(log, n) = log
    <2> SUFFICES ASSUME n = Len(log) PROVE Prefix(log, n) = log  OBVIOUS
    <2>1. log = [i \in 1..n |-> log[i]]  OBVIOUS
    <2> QED  BY <2>1 DEF Prefix
<1> QED  BY <1>1, <1>2, <1>3

LEMMA PrefixNext ==
    ASSUME NEW X, NEW log \in Seq(X), NEW n \in 1..Len(log)
    PROVE  log[n] \in X /\ Prefix(log, n) = Append(Prefix(log, n - 1), log[n])
<1>1. n \in 0..Len(log) /\ n - 1 \in 0..Len(log) /\ (n - 1) + 1 = n /\ log[n] \in X
    OBVIOUS
<1>2. Prefix(log, n - 1) \in Seq(X) /\ Len(Prefix(log, n - 1)) = n - 1
    BY <1>1, PrefixTyped
<1>3. \A i \in 1..(n - 1) : Prefix(log, n - 1)[i] = log[i]  BY DEF Prefix
<1>4. Append(Prefix(log, n - 1), log[n])
        = [i \in 1..n |-> IF i = n THEN log[n] ELSE Prefix(log, n - 1)[i]]
    BY <1>1, <1>2
<1>5. \A i \in 1..n : i = n \/ i \in 1..(n - 1)  OBVIOUS
<1> QED  BY <1>1, <1>3, <1>4, <1>5 DEF Prefix

LEMMA AfterNone ==
    ASSUME NEW log, NEW symbol
    PROVE  After(log, 0, symbol) = NoGroup
<1>1. Prefix(log, 0) = <<>>  BY DEF Prefix
<1> QED  BY <1>1, NoneGrouped DEF After

LEMMA AfterNext ==
    ASSUME NEW X \in SUBSET Executions, NEW log \in Seq(X), NEW symbol,
           NEW n \in 1..Len(log)
    PROVE  /\ log[n] \in X /\ After(log, n - 1, symbol) \in Kept(X)
           /\ After(log, n, symbol) = TakeOf(After(log, n - 1, symbol), log[n], symbol)
<1>1. n - 1 \in 0..Len(log)  OBVIOUS
<1>2. Prefix(log, n - 1) \in Seq(X)  BY <1>1, PrefixTyped
<1>3. log[n] \in X /\ Prefix(log, n) = Append(Prefix(log, n - 1), log[n])
    BY PrefixNext
<1>4. /\ Grouped(Prefix(log, n - 1), symbol) \in Kept(X)
      /\ Grouped(Append(Prefix(log, n - 1), log[n]), symbol)
            = TakeOf(Grouped(Prefix(log, n - 1), symbol), log[n], symbol)
    BY <1>2, <1>3, MoreGrouped
<1> QED  BY <1>3, <1>4 DEF After

LEMMA AfterKept ==
    ASSUME NEW X \in SUBSET Executions, NEW log \in Seq(X), NEW symbol,
           NEW n \in 0..Len(log)
    PROVE  After(log, n, symbol) \in Kept(X)
<1>1. CASE n = 0  BY <1>1, AfterNone, NothingKept
<1>2. CASE n # 0
    <2>1. n \in 1..Len(log)  BY <1>2
    <2>2. /\ log[n] \in X /\ After(log, n - 1, symbol) \in Kept(X)
          /\ After(log, n, symbol) = TakeOf(After(log, n - 1, symbol), log[n], symbol)
        BY <2>1, AfterNext
    <2>3. Take(After(log, n - 1, symbol), log[n]) \in Kept(X)  BY <2>2, TakeKeeps
    <2> QED  BY <2>2, <2>3 DEF TakeOf
<1> QED  BY <1>1, <1>2

LEMMA PlacesNumber ==
    ASSUME NEW N \in Nat, NEW U \in SUBSET (1..N)
    PROVE  Numbers([i \in U |-> i])
<1>1. IsFiniteSet(1..N)  BY FS_Interval
<1>2. IsFiniteSet(U)  BY <1>1, FS_Subset
<1> QED  BY <1>2 DEF Numbers

LEMMA Picks ==
    ASSUME NEW X, NEW log \in Seq(X)
    PROVE  /\ Picked(log, {}) = <<>>
           /\ \A U \in SUBSET (1..Len(log)) : Picked(log, U) \in Seq({log[i] : i \in U})
           /\ \A U \in SUBSET (1..Len(log)), n \in 1..Len(log) :
                  (\A i \in U : i < n) =>
                      Picked(log, U \cup {n}) = Append(Picked(log, U), log[n])
<1>0. Len(log) \in Nat  OBVIOUS
<1>1. ASSUME NEW U \in SUBSET (1..Len(log))
      PROVE  /\ Picked(log, U) \in Seq({log[i] : i \in U})
             /\ InOrder([i \in U |-> i]) \in Seq(U)
             /\ Len(InOrder([i \in U |-> i])) = Cardinality(U)
    <2> DEFINE at == [i \in U |-> i]
               s  == InOrder(at)
    <2>1. DOMAIN at = U  OBVIOUS
    <2>2. Numbers(at)  BY <1>0, PlacesNumber
    <2> HIDE DEF at
    <2>3. s \in Seq(U) /\ Len(s) = Cardinality(U)  BY <2>1, <2>2, InOrderSorts DEF Sorts
    <2>4. Picked(log, U) = [k \in DOMAIN s |-> log[s[k]]]  BY DEF Picked, at
    <2> HIDE DEF s
    <2>5. Picked(log, U) \in Seq({log[i] : i \in U})  BY <2>3, <2>4
    <2> QED  BY <2>3, <2>5 DEF s, at
<1>2. Picked(log, {}) = <<>>
    <2> DEFINE s == InOrder([i \in {} |-> i])
    <2>1. s \in Seq({})  BY <1>1
    <2>2. Picked(log, {}) = [k \in DOMAIN s |-> log[s[k]]]  BY DEF Picked
    <2> HIDE DEF s
    <2>3. s = <<>>  BY <2>1
    <2> QED  BY <2>2, <2>3
<1>3. ASSUME NEW U \in SUBSET (1..Len(log)), NEW n \in 1..Len(log), \A i \in U : i < n
      PROVE  Picked(log, U \cup {n}) = Append(Picked(log, U), log[n])
    <2> DEFINE at == [i \in U |-> i]
               bt == [i \in U \cup {n} |-> i]
               s  == InOrder(at)
               t  == InOrder(bt)
    <2>1. Numbers(at) /\ Numbers(bt)  BY <1>0, PlacesNumber
    <2>2. /\ DOMAIN at = U /\ DOMAIN bt = U \cup {n} /\ n \notin U
          /\ \A y \in U : bt[y] = at[y] /\ at[y] < bt[n]
        BY <1>3
    <2>3. s \in Seq(U)  BY <1>1
    <2>4. Picked(log, U) = [k \in DOMAIN s |-> log[s[k]]]
          /\ Picked(log, U \cup {n}) = [k \in DOMAIN t |-> log[t[k]]]
        BY DEF Picked
    <2> HIDE DEF at, bt
    <2>5. t = Append(s, n)  BY <2>1, <2>2, OneMoreInOrder
    <2> HIDE DEF s, t
    <2>6. /\ DOMAIN t = 1..(Len(s) + 1) /\ Len(s) \in Nat /\ DOMAIN s = 1..Len(s)
          /\ t[Len(s) + 1] = n /\ \A k \in 1..Len(s) : t[k] = s[k]
        BY <2>3, <2>5
    <2>7. Picked(log, U) \in Seq({log[i] : i \in U}) /\ Len(Picked(log, U)) = Len(s)
        <3>1. Picked(log, U) \in Seq({log[i] : i \in U})  BY <1>1
        <3>2. DOMAIN Picked(log, U) = 1..Len(s)  BY <2>4, <2>6
        <3> QED  BY <2>6, <3>1, <3>2
    <2>7a. log[n] \in X /\ {log[i] : i \in U} \subseteq X  OBVIOUS
    <2>8. Append(Picked(log, U), log[n])
            = [k \in 1..(Len(s) + 1) |-> IF k = Len(s) + 1 THEN log[n] ELSE Picked(log, U)[k]]
        BY <2>6, <2>7, <2>7a
    <2>9. \A k \in 1..(Len(s) + 1) :
             log[t[k]] = IF k = Len(s) + 1 THEN log[n] ELSE Picked(log, U)[k]
        <3> SUFFICES ASSUME NEW k \in 1..(Len(s) + 1)
                     PROVE  log[t[k]] = IF k = Len(s) + 1 THEN log[n] ELSE Picked(log, U)[k]
            OBVIOUS
        <3>1. CASE k = Len(s) + 1  BY <2>6, <3>1
        <3>2. CASE k # Len(s) + 1
            <4>1. k \in 1..Len(s)  BY <2>6, <3>2
            <4> QED  BY <2>4, <2>6, <3>2, <4>1
        <3> QED  BY <3>1, <3>2
    <2>10. Picked(log, U \cup {n}) = [k \in 1..(Len(s) + 1) |-> log[t[k]]]  BY <2>4, <2>6
    <2> QED  BY <2>8, <2>9, <2>10
<1> QED  BY <1>1, <1>2, <1>3

-----------------------------------------------------------------------------
(* Grouping from where a position was closed *)

\* g is h after the trades C.
Continues(g, C, h) ==
    /\ g.lots = h.lots /\ (g.lots # <<>> => g.open = h.open)
    /\ g.closed = C \o h.closed

LEMMA TakeContinues ==
    ASSUME NEW X \in SUBSET Executions, NEW g \in Kept(X), NEW h \in Kept(X), NEW ex \in X,
           NEW C \in Seq(TradesOf(X)), Continues(g, C, h)
    PROVE  Continues(Take(g, ex), C, Take(h, ex))
<1> DEFINE t == Opened(g, ex)
           m == Eat(g.lots, ex, t.side)
           n == Exited(t, ex, m)
<1>1. /\ g \in Groups(X) /\ Conserved(g) /\ h \in Groups(X) /\ g.lots = h.lots
      /\ g.closed = C \o h.closed
    BY DEF Kept, Continues
<1>2. t = Opened(h, ex)  BY <1>1 DEF Opened, Continues
<1>3. h.closed \in Seq(TradesOf(X))  BY <1>1 DEF Groups
<1>4. \A e \in TradesOf(X) : Append(g.closed, e) = C \o Append(h.closed, e)
    <2> DEFINE S == TradesOf(X)
    <2>1. C \in Seq(S) /\ h.closed \in Seq(S)  BY <1>3
    <2> HIDE DEF S
    <2>2. \A e \in S : Append(C \o h.closed, e) = C \o Append(h.closed, e)  BY <2>1
    <2> QED  BY <1>1, <2>2 DEF S
<1>5. CASE SideOf(ex) = t.side
    <2>1. /\ Take(g, ex) = [g EXCEPT !.open = Entered(t, ex, ex.qty), !.lots = Append(@, Leg(ex, ex.qty))]
          /\ Take(h, ex) = [h EXCEPT !.open = Entered(t, ex, ex.qty), !.lots = Append(@, Leg(ex, ex.qty))]
        BY <1>2, <1>5 DEF Take
    <2> HIDE DEF t
    <2> QED  BY <1>1, <2>1 DEF Continues, Groups
<1>6. CASE SideOf(ex) # t.side
    <2>1. t \in TradesOf(X) /\ g.lots \in Seq(Legs(X)) /\ t.side \in Sides
        BY <1>1, PositionOpened DEF Groups, TradesOf
    <2>2. m \in Meals(X) /\ Fed(m, g.lots, ex, t.side)
        <3> HIDE DEF t
        <3> QED  BY <2>1, ExitsFeed
    <2>3. m.left \in Nat /\ ex.qty \in Nat  BY <2>2 DEF Meals, Executions
    <2>4. /\ m.left > 0 => /\ Take(g, ex) = [open |-> Entered(Trade(SideOf(ex)), ex, m.left),
                                             lots |-> <<Leg(ex, m.left)>>, closed |-> Append(g.closed, n)]
                           /\ Take(h, ex) = [open |-> Entered(Trade(SideOf(ex)), ex, m.left),
                                             lots |-> <<Leg(ex, m.left)>>, closed |-> Append(h.closed, n)]
          /\ m.left = 0 => /\ Take(g, ex) = [open |-> n, lots |-> m.lots, closed |->
                                  IF m.lots = <<>> THEN Append(g.closed, n) ELSE g.closed]
                           /\ Take(h, ex) = [open |-> n, lots |-> m.lots, closed |->
                                  IF m.lots = <<>> THEN Append(h.closed, n) ELSE h.closed]
        BY <1>1, <1>2, <1>6 DEF Take
    <2>5. n \in TradesOf(X)
        <3>1. g.lots # <<>> /\ Positioned(t, g.lots)  BY <1>1, <1>6, PositionOpened
        <3> HIDE DEF t, m
        <3>2. ex.qty - m.left \in Nat \ {0}
            <4>1. Quantity(g.lots) > 0 /\ Quantity(g.lots) \in Nat  BY <2>1, <3>1, QuantityOfLegs
            <4>2. m.left <= ex.qty /\ (m.left > 0 => m.lots = <<>>)
                  /\ Quantity(m.lots) + (ex.qty - m.left) = Quantity(g.lots)
                BY <2>2 DEF Fed
            <4>3. Quantity(<<>>) = 0 /\ ex.qty > 0  BY QuantityOfLegs DEF Executions
            <4>4. m.left = ex.qty => FALSE
                <5> SUFFICES ASSUME m.left = ex.qty PROVE FALSE  OBVIOUS
                <5>1. m.lots = <<>>  BY <4>2, <4>3
                <5>2. Quantity(g.lots) = 0  BY <2>3, <4>2, <4>3, <5>1
                <5> QED  BY <4>1, <5>2
            <4> QED  BY <2>3, <4>2, <4>4
        <3> QED  BY <2>1, <2>2, <3>2, TradeExited DEF n
    <2> HIDE DEF t, m, n
    <2> DEFINE a == Take(g, ex)
               b == Take(h, ex)
    <2>6. CASE m.left > 0
        <3>1. /\ a.lots = b.lots /\ a.open = b.open
              /\ a.closed = Append(g.closed, n) /\ b.closed = Append(h.closed, n)
            BY <2>4, <2>6
        <3> HIDE DEF a, b
        <3>2. a.closed = C \o b.closed  BY <1>4, <2>5, <3>1
        <3>3. Continues(a, C, b)  BY <3>1, <3>2 DEF Continues
        <3> QED  BY <3>3 DEF a, b
    <2>7. CASE m.left = 0
        <3>1. /\ a.lots = b.lots /\ a.open = b.open
              /\ a.closed = IF m.lots = <<>> THEN Append(g.closed, n) ELSE g.closed
              /\ b.closed = IF m.lots = <<>> THEN Append(h.closed, n) ELSE h.closed
            BY <2>4, <2>7
        <3> HIDE DEF a, b
        <3>2. a.closed = C \o b.closed  BY <1>1, <1>4, <2>5, <3>1
        <3>3. Continues(a, C, b)  BY <3>1, <3>2 DEF Continues
        <3> QED  BY <3>3 DEF a, b
    <2> QED  BY <2>3, <2>6, <2>7
<1> QED  BY <1>5, <1>6

-----------------------------------------------------------------------------
(* A log in which no execution turns a position over *)

LEMMA NoneOfSymbol ==
    ASSUME NEW X \in SUBSET Executions, NEW execs \in Seq(X), NEW symbol,
           \A i \in DOMAIN execs : execs[i].symbol # symbol
    PROVE  Grouped(execs, symbol) = NoGroup
<1> DEFINE Y == {ex \in X : ex.symbol # symbol}
           T == {s \in Seq(Y) : Grouped(s, symbol) = NoGroup}
<1>1. execs \in Seq(Y)  OBVIOUS
<1>2. <<>> \in T  BY NoneGrouped
<1>3. ASSUME NEW s \in Seq(Y), NEW ex \in Y, s \in T PROVE Append(s, ex) \in T
    <2>1. s \in Seq(X) /\ ex \in X /\ ex.symbol # symbol  OBVIOUS
    <2>2. Grouped(Append(s, ex), symbol) = TakeOf(Grouped(s, symbol), ex, symbol)
        BY <2>1, MoreGrouped
    <2>3. Append(s, ex) \in Seq(Y)  OBVIOUS
    <2> QED  BY <1>3, <2>1, <2>2, <2>3 DEF TakeOf
<1> HIDE DEF T
<1>4. \A s \in Seq(Y) : s \in T  BY <1>2, <1>3, BySequence
<1> QED  BY <1>1, <1>4 DEF T

\* An execution that exits more than there is.
Turns(g, ex) ==
    /\ SideOf(ex) # Opened(g, ex).side
    /\ Eat(g.lots, ex, Opened(g, ex).side).left > 0

\* None of the first n executions does.
Straight(log, n) ==
    \A k \in 1..n : ~ Turns(After(log, k - 1, log[k].symbol), log[k])

LEMMA TakeStraight ==
    ASSUME NEW X \in SUBSET Executions, NEW g \in Kept(X), NEW ex \in X, ~ Turns(g, ex),
           Take(g, ex).lots # <<>>
    PROVE  Take(g, ex).closed = g.closed
<1> DEFINE t == Opened(g, ex)
           m == Eat(g.lots, ex, t.side)
<1>1. g \in Groups(X) /\ Conserved(g)  BY DEF Kept
<1>2. CASE SideOf(ex) = t.side  BY <1>1, <1>2 DEF Take, Groups
<1>3. CASE SideOf(ex) # t.side
    <2>1. t \in TradesOf(X) /\ g.lots \in Seq(Legs(X)) /\ t.side \in Sides
        BY <1>1, PositionOpened DEF Groups, TradesOf
    <2>2. m \in Meals(X)
        <3> HIDE DEF t
        <3> QED  BY <2>1, ExitsFeed
    <2>3. m.left = 0  BY <1>3, <2>2 DEF Turns, Meals
    <2>4. Take(g, ex) = [open |-> Exited(t, ex, m), lots |-> m.lots,
                         closed |-> IF m.lots = <<>> THEN Append(g.closed, Exited(t, ex, m))
                                    ELSE g.closed]
        BY <1>3, <2>3 DEF Take
    <2> QED  BY <2>4
<1> QED  BY <1>2, <1>3

Flat(log, n, symbol) == After(log, n, symbol).lots = <<>>

\* After c of the first n executions the symbol was closed for the last time.
ClosedAt(log, n, symbol, c) ==
    /\ c \in 0..n /\ Flat(log, c, symbol)
    /\ \A k \in (c + 1)..n : ~ Flat(log, k, symbol)

LEMMA ClosedSomewhere ==
    ASSUME NEW log, NEW n \in Nat, NEW symbol
    PROVE  \E c : ClosedAt(log, n, symbol, c)
<1> DEFINE T == {k \in 0..n : \E c : ClosedAt(log, k, symbol, c)}
<1>1. 0 \in T
    <2>1. Flat(log, 0, symbol)  BY AfterNone DEF Flat, NoGroup
    <2>2. ClosedAt(log, 0, symbol, 0)  BY <2>1 DEF ClosedAt
    <2> QED  BY <2>2
<1>2. \A k \in 1..n : k - 1 \in T => k \in T
    <2> SUFFICES ASSUME NEW k \in 1..n, k - 1 \in T PROVE k \in T  OBVIOUS
    <2>1. PICK c : ClosedAt(log, k - 1, symbol, c)  OBVIOUS
    <2>2. CASE Flat(log, k, symbol)
        <3>1. ClosedAt(log, k, symbol, k)  BY <2>2 DEF ClosedAt
        <3> QED  BY <3>1
    <2>3. CASE ~ Flat(log, k, symbol)
        <3>1. c \in 0..k /\ \A j \in (c + 1)..k : j = k \/ j \in (c + 1)..(k - 1)
            BY <2>1 DEF ClosedAt
        <3>2. ClosedAt(log, k, symbol, c)  BY <2>1, <2>3, <3>1 DEF ClosedAt
        <3> QED  BY <3>2
    <2> QED  BY <2>2, <2>3
<1> HIDE DEF T
<1>3. \A k \in 0..n : k \in T  BY <1>1, <1>2, UpTo
<1> QED  BY <1>3 DEF T

\* From there on nothing is closed.
LEMMA NothingCloses ==
    ASSUME NEW X \in SUBSET Executions, NEW log \in Seq(X), NEW n \in 0..Len(log),
           Straight(log, n), NEW symbol, NEW c, ClosedAt(log, n, symbol, c)
    PROVE  After(log, n, symbol).closed = After(log, c, symbol).closed
<1> DEFINE T == {k \in 0..n : k >= c => After(log, k, symbol).closed = After(log, c, symbol).closed}
<1>0. c \in 0..n /\ n \in Nat  BY DEF ClosedAt
<1>1. 0 \in T  BY <1>0
<1>2. \A k \in 1..n : k - 1 \in T => k \in T
    <2> SUFFICES ASSUME NEW k \in 1..n, k - 1 \in T, k >= c
                 PROVE  After(log, k, symbol).closed = After(log, c, symbol).closed
        OBVIOUS
    <2>1. CASE k = c  BY <2>1
    <2>2. CASE k # c
        <3>1. k \in (c + 1)..n /\ k - 1 >= c /\ k \in 1..Len(log)  BY <1>0, <2>2
        <3>2. ~ Flat(log, k, symbol)  BY <3>1 DEF ClosedAt
        <3>3. After(log, k - 1, symbol).closed = After(log, c, symbol).closed  BY <3>1
        <3> HIDE DEF T
        <3>4. /\ log[k] \in X /\ After(log, k - 1, symbol) \in Kept(X)
              /\ After(log, k, symbol) = TakeOf(After(log, k - 1, symbol), log[k], symbol)
            BY <3>1, AfterNext
        <3>5. CASE log[k].symbol = symbol
            <4>1. ~ Turns(After(log, k - 1, symbol), log[k])  BY <3>5 DEF Straight
            <4>2. Take(After(log, k - 1, symbol), log[k]).lots # <<>>
                BY <3>2, <3>4, <3>5 DEF Flat, TakeOf
            <4>3. Take(After(log, k - 1, symbol), log[k]).closed = After(log, k - 1, symbol).closed
                BY <3>4, <4>1, <4>2, TakeStraight
            <4> QED  BY <3>3, <3>4, <3>5, <4>3 DEF TakeOf
        <3>6. CASE log[k].symbol # symbol  BY <3>3, <3>4, <3>6 DEF TakeOf
        <3> QED  BY <3>5, <3>6
    <2> QED  BY <2>1, <2>2
<1> HIDE DEF T
<1>3. \A k \in 0..n : k \in T  BY <1>0, <1>1, <1>2, UpTo
<1>4. n \in 0..n  OBVIOUS
<1> QED  BY <1>0, <1>3, <1>4 DEF T

-----------------------------------------------------------------------------
(* What is grouped already, and the rest *)

\* The trades closed by the first n executions, and the places of the
\* executions these trades use.
Made(log, n) == UNION {ToSet(After(log, n, symbol).closed) : symbol \in STRING}
Settled(log, n) ==
    {i \in DOMAIN log : UsedOf(After(log, n, log[i].symbol).closed, log[i]) > 0}

\* The executions up to where their symbol was last closed.
LEMMA SettledUntil ==
    ASSUME NEW X \in SUBSET Executions, NEW log \in Seq(X), Distinct(log),
           NEW n \in 0..Len(log), Straight(log, n),
           NEW i \in 1..Len(log), NEW c, ClosedAt(log, n, log[i].symbol, c)
    PROVE  i \in Settled(log, n) <=> i <= c
<1> DEFINE x == log[i]
           p == Prefix(log, c)
<1>1. c \in 0..Len(log) /\ Len(log) \in Nat  BY DEF ClosedAt
<1>2. p \in Seq(X) /\ DOMAIN p = 1..c /\ Len(p) = c  BY <1>1, PrefixTyped
<1>3. \A k \in 1..c : p[k] = log[k]  BY DEF Prefix
<1>4. Distinct(p)
    <2>1. \A k \in 1..c : k \in DOMAIN log  BY <1>1
    <2> QED  BY <1>2, <1>3, <2>1 DEF Distinct
<1>5. UsedOf(After(log, n, x.symbol).closed, x) = UsedOf(After(log, c, x.symbol).closed, x)
    BY NothingCloses
<1>6. UsedBy(Grouped(p, x.symbol), x) = IF x \in ToSet(p) THEN x.qty ELSE 0
    <2> HIDE DEF p, x
    <2>1. UsesAll(p, x.symbol)  BY <1>2, <1>4, GroupingUses
    <2> QED  BY <2>1 DEF UsesAll
<1>7. After(log, c, x.symbol) = Grouped(p, x.symbol)  BY DEF After
<1>8. UsedOf(After(log, c, x.symbol).closed, x) = IF x \in ToSet(p) THEN x.qty ELSE 0
    <2>1. Grouped(p, x.symbol).lots = <<>>  BY <1>7 DEF ClosedAt, Flat
    <2>2. After(log, c, x.symbol) \in Kept(X)  BY <1>1, AfterKept
    <2>3. UsedOf(After(log, c, x.symbol).closed, x) \in Int
        BY <2>2, UseOfTrades DEF Kept, Groups
    <2>4. UsedBy(Grouped(p, x.symbol), x) = UsedOf(After(log, c, x.symbol).closed, x) + 0
        BY <1>7, <2>1 DEF UsedBy
    <2> QED  BY <1>6, <2>3, <2>4
<1>9. x \in ToSet(p) <=> i <= c
    <2>1. ASSUME x \in ToSet(p) PROVE i <= c
        <3>1. PICK k \in 1..c : log[k] = x  BY <1>2, <1>3, <2>1 DEF ToSet
        <3>2. k \in DOMAIN log /\ i \in DOMAIN log  BY <1>1
        <3>3. k = i  BY <3>1, <3>2 DEF Distinct
        <3> QED  BY <3>1, <3>3
    <2>2. ASSUME i <= c PROVE x \in ToSet(p)
        <3>1. i \in 1..c  BY <1>1, <2>2
        <3> QED  BY <1>2, <1>3, <3>1 DEF ToSet
    <2> QED  BY <2>1, <2>2
<1>10. x.qty \in Nat /\ x.qty > 0
    <2>1. x \in Executions  OBVIOUS
    <2> QED  BY <2>1 DEF Executions
<1>11. i \in DOMAIN log  OBVIOUS
<1> QED  BY <1>5, <1>8, <1>9, <1>10, <1>11 DEF Settled

\* Grouped on its own, the rest of a symbol continues what is grouped already.
LEMMA RestOfSymbol ==
    ASSUME NEW X \in SUBSET Executions, NEW log \in Seq(X), Distinct(log),
           Straight(log, Len(log)), NEW n \in 0..Len(log), NEW symbol
    PROVE  After(log, Len(log), symbol).closed
             = After(log, n, symbol).closed
                 \o Grouped(Picked(log, DOMAIN log \ Settled(log, n)), symbol).closed
<1> DEFINE N == Len(log)
           U == DOMAIN log \ Settled(log, n)
           rest(k) == Picked(log, {i \in U : i <= k})
<1>0. N \in Nat /\ DOMAIN log = 1..N /\ n \in 0..N /\ n \in Nat /\ N \in 0..N /\ U \in SUBSET (1..N)
    OBVIOUS
<1>1. Straight(log, n)
    <2>1. \A k \in 1..n : k \in 1..N  BY <1>0
    <2> QED  BY <2>1 DEF Straight
<1>2. PICK c : ClosedAt(log, n, symbol, c)  BY <1>0, ClosedSomewhere
<1>3. c \in 0..n /\ c \in 0..N /\ Flat(log, c, symbol)  BY <1>0, <1>2 DEF ClosedAt
<1>4. After(log, n, symbol).closed = After(log, c, symbol).closed
    BY <1>1, <1>2, NothingCloses
<1>5. \A i \in 1..N : log[i].symbol = symbol => (i \in U <=> i > c)
    <2> SUFFICES ASSUME NEW i \in 1..N, log[i].symbol = symbol PROVE i \in U <=> i > c
        OBVIOUS
    <2>1. i \in Settled(log, n) <=> i <= c  BY <1>0, <1>1, <1>2, SettledUntil
    <2>2. i \in DOMAIN log  OBVIOUS
    <2> QED  BY <1>3, <2>1, <2>2
<1> HIDE DEF U
<1>5a. ASSUME NEW k \in 1..N
       PROVE  /\ k \in U => {i \in U : i <= k} = {i \in U : i <= k - 1} \cup {k}
              /\ k \notin U => {i \in U : i <= k} = {i \in U : i <= k - 1}
              /\ \A i \in {j \in U : j <= k - 1} : i < k
    <2>1. \A i \in U : i \in Int  BY <1>0
    <2>2. k \in Int  OBVIOUS
    <2>3. \A i \in U : i <= k <=> i <= k - 1 \/ i = k  BY <2>1, <2>2
    <2>4. \A i \in U : i <= k - 1 => i < k  BY <2>1, <2>2
    <2>5. k <= k  BY <2>2
    <2> QED  BY <2>3, <2>4, <2>5
<1>6. ASSUME NEW k \in 0..N
      PROVE  rest(k) \in Seq(X) /\ rest(k) \in Seq({log[i] : i \in {j \in U : j <= k}})
    <2>1. {i \in U : i <= k} \in SUBSET (1..Len(log))  BY <1>0
    <2>2. rest(k) \in Seq({log[i] : i \in {j \in U : j <= k}})  BY <2>1, Picks
    <2>3. {log[i] : i \in {j \in U : j <= k}} \subseteq X  BY <1>0
    <2> QED  BY <2>2, <2>3
<1> DEFINE D == After(log, c, symbol).closed
<1>7. D \in Seq(TradesOf(X))
    <2>1. After(log, c, symbol) \in Kept(X)  BY <1>3, AfterKept
    <2> QED  BY <2>1 DEF Kept, Groups
<1> DEFINE T == {k \in 0..N : k >= c => Continues(After(log, k, symbol), D, Grouped(rest(k), symbol))}
<1>8. \A k \in 0..N : Grouped(rest(k), symbol) \in Kept(X)
    <2> SUFFICES ASSUME NEW k \in 0..N PROVE Grouped(rest(k), symbol) \in Kept(X)  OBVIOUS
    <2>1. rest(k) \in Seq(X)  BY <1>6
    <2> HIDE DEF rest
    <2>2. CASE rest(k) = <<>>
        <3>1. Grouped(<<>>, symbol) \in Kept(X)  BY NoneGrouped, NothingKept
        <3> QED  BY <2>2, <3>1
    <2>3. CASE rest(k) # <<>>
        <3>1. rest(k)[1] \in X  BY <2>1, <2>3
        <3> QED  BY <2>1, <3>1, MoreGrouped
    <2> QED  BY <2>2, <2>3
<1>9. Continues(After(log, c, symbol), D, Grouped(rest(c), symbol))
    <2>1. \A i \in {j \in U : j <= c} : log[i].symbol # symbol  BY <1>0, <1>3, <1>5
    <2>2. rest(c) \in Seq(X) /\ rest(c) \in Seq({log[i] : i \in {j \in U : j <= c}})
        BY <1>3, <1>6
    <2> HIDE DEF rest
    <2>3. \A k \in DOMAIN rest(c) : rest(c)[k].symbol # symbol  BY <2>1, <2>2
    <2>4. Grouped(rest(c), symbol) = NoGroup  BY <2>2, <2>3, NoneOfSymbol
    <2>5. NoGroup.lots = <<>> /\ NoGroup.closed = <<>>  BY DEF NoGroup
    <2>6. D = D \o <<>>  BY <1>7
    <2> QED  BY <1>3, <2>4, <2>5, <2>6 DEF Continues, Flat
<1>10. ASSUME NEW k \in 1..N, k - 1 \in T, k >= c
       PROVE  Continues(After(log, k, symbol), D, Grouped(rest(k), symbol))
    <2>1. CASE k = c  BY <1>9, <2>1
    <2>2. CASE k # c
        <3>1. k > c /\ k - 1 >= c /\ k - 1 \in 0..N /\ k \in 0..N  BY <1>0, <1>3, <1>10, <2>2
        <3>2. Continues(After(log, k - 1, symbol), D, Grouped(rest(k - 1), symbol))
            BY <1>10, <3>1
        <3>3. /\ log[k] \in X /\ After(log, k - 1, symbol) \in Kept(X)
              /\ After(log, k, symbol) = TakeOf(After(log, k - 1, symbol), log[k], symbol)
            <4> HIDE DEF T
            <4> QED  BY AfterNext
        <3> HIDE DEF T, D
        <3>4. CASE k \in U
            <4>1. {i \in U : i <= k} = {i \in U : i <= k - 1} \cup {k}  BY <1>5a, <3>4
            <4>2. {i \in U : i <= k - 1} \in SUBSET (1..Len(log))
                  /\ \A i \in {j \in U : j <= k - 1} : i < k
                BY <1>0, <1>5a
            <4>3. rest(k) = Append(rest(k - 1), log[k])  BY <4>1, <4>2, Picks
            <4>4. rest(k - 1) \in Seq(X)  BY <1>6, <3>1
            <4>5. Grouped(rest(k - 1), symbol) \in Kept(X)  BY <1>8, <3>1
            <4> HIDE DEF rest
            <4>6. Grouped(rest(k), symbol) = TakeOf(Grouped(rest(k - 1), symbol), log[k], symbol)
                BY <3>3, <4>3, <4>4, MoreGrouped
            <4>7. Continues(Take(After(log, k - 1, symbol), log[k]), D,
                            Take(Grouped(rest(k - 1), symbol), log[k]))
                BY <1>7, <3>2, <3>3, <4>5, TakeContinues
            <4> QED  BY <3>2, <3>3, <4>6, <4>7 DEF TakeOf
        <3>5. CASE k \notin U
            <4>1. log[k].symbol # symbol  BY <1>5, <3>1, <3>5
            <4>2. {i \in U : i <= k} = {i \in U : i <= k - 1}  BY <1>5a, <3>5
            <4> QED  BY <3>2, <3>3, <4>1, <4>2 DEF TakeOf
        <3> QED  BY <3>4, <3>5
    <2> QED  BY <1>3, <2>1, <2>2
<1> HIDE DEF rest, D
<1>11. 0 \in T
    <2>1. 0 >= c => c = 0  BY <1>3
    <2> QED  BY <1>0, <1>9, <2>1
<1>12. \A k \in 1..N : k - 1 \in T => k \in T
    <2> SUFFICES ASSUME NEW k \in 1..N, k - 1 \in T PROVE k \in T  OBVIOUS
    <2>1. k \in 0..N  BY <1>0
    <2>2. k >= c => Continues(After(log, k, symbol), D, Grouped(rest(k), symbol))  BY <1>10
    <2> QED  BY <2>1, <2>2
<1> HIDE DEF T
<1>13. \A k \in 0..N : k \in T  BY <1>0, <1>11, <1>12, UpTo
<1>14. Continues(After(log, N, symbol), D, Grouped(rest(N), symbol))
    BY <1>0, <1>3, <1>13 DEF T
<1>15. rest(N) = Picked(log, U)
    <2>1. \A i \in U : i <= N  BY <1>0
    <2>2. {i \in U : i <= N} = U  BY <2>1
    <2> QED  BY <2>2 DEF rest
<1>16. After(log, N, symbol).closed = D \o Grouped(Picked(log, U), symbol).closed
    BY <1>14, <1>15 DEF Continues
<1> QED  BY <1>4, <1>16 DEF D, U, N

-----------------------------------------------------------------------------
(* All symbols in parts *)

LEMMA SetOfBoth ==
    ASSUME NEW S, NEW a \in Seq(S), NEW b \in Seq(S)
    PROVE  ToSet(a \o b) = ToSet(a) \cup ToSet(b)
<1> DEFINE c == a \o b
<1>1. /\ Len(a) \in Nat /\ Len(b) \in Nat /\ DOMAIN a = 1..Len(a) /\ DOMAIN b = 1..Len(b)
      /\ DOMAIN c = 1..(Len(a) + Len(b))
      /\ \A i \in 1..Len(a) : c[i] = a[i]
      /\ \A i \in 1..Len(b) : c[Len(a) + i] = b[i]
    OBVIOUS
<1> HIDE DEF c
<1>2. ASSUME NEW i \in DOMAIN c PROVE c[i] \in ToSet(a) \cup ToSet(b)
    <2>1. CASE i <= Len(a)
        <3>1. i \in DOMAIN a /\ c[i] = a[i]  BY <1>1, <2>1
        <3> QED  BY <3>1 DEF ToSet
    <2>2. CASE i > Len(a)
        <3>1. i - Len(a) \in 1..Len(b) /\ Len(a) + (i - Len(a)) = i  BY <1>1, <2>2
        <3>2. c[i] = b[i - Len(a)]  BY <1>1, <3>1
        <3> QED  BY <1>1, <3>1, <3>2 DEF ToSet
    <2> QED  BY <1>1, <2>1, <2>2
<1>3. ASSUME NEW i \in DOMAIN a PROVE a[i] \in ToSet(c)
    <2>1. i \in DOMAIN c /\ c[i] = a[i]  BY <1>1
    <2> QED  BY <2>1 DEF ToSet
<1>4. ASSUME NEW i \in DOMAIN b PROVE b[i] \in ToSet(c)
    <2>1. Len(a) + i \in DOMAIN c /\ c[Len(a) + i] = b[i]  BY <1>1
    <2> QED  BY <2>1 DEF ToSet
<1>5. ToSet(c) = ToSet(a) \cup ToSet(b)  BY <1>2, <1>3, <1>4 DEF ToSet
<1> QED  BY <1>5 DEF c

LEMMA SetOfFlattened ==
    ASSUME NEW S, NEW ss \in Seq(Seq(S))
    PROVE  ToSet(FlattenSeq(ss)) = UNION {ToSet(ss[k]) : k \in DOMAIN ss}
<1> DEFINE N == Len(ss)
           upTo(k) == UNION {ToSet(ss[j]) : j \in 1..k}
<1>1. PICK f : Flattens(f, S, ss)  BY FlatteningExists
<1>2. /\ f \in [0..N -> Seq(S)] /\ f[0] = <<>> /\ N \in Nat
      /\ \A k \in 1..N : f[k] = f[k - 1] \o ss[k]
      /\ FlattenSeq(ss) = f[N] /\ \A k \in 1..N : ss[k] \in Seq(S)
    <2>1. N \in Nat /\ \A k \in 1..N : ss[k] \in Seq(S)  OBVIOUS
    <2> QED  BY <1>1, <2>1 DEF Flattens
<1> HIDE DEF N
<1> DEFINE T == {k \in 0..N : ToSet(f[k]) = upTo(k)}
<1>3. 0 \in T
    <2>1. ToSet(<<>>) = {}  BY DEF ToSet
    <2>2. upTo(0) = {}  OBVIOUS
    <2> QED  BY <1>2, <2>1, <2>2
<1>4. \A k \in 1..N : k - 1 \in T => k \in T
    <2> SUFFICES ASSUME NEW k \in 1..N, k - 1 \in T PROVE k \in T  OBVIOUS
    <2>1. ToSet(f[k - 1]) = upTo(k - 1)  OBVIOUS
    <2>2. f[k - 1] \in Seq(S) /\ ss[k] \in Seq(S) /\ f[k] = f[k - 1] \o ss[k]
        <3>1. k - 1 \in 0..N  BY <1>2
        <3> QED  BY <1>2, <3>1
    <2>3. ToSet(f[k]) = ToSet(f[k - 1]) \cup ToSet(ss[k])  BY <2>2, SetOfBoth
    <2>4. 1..k = (1..(k - 1)) \cup {k}  OBVIOUS
    <2>5. upTo(k) = upTo(k - 1) \cup ToSet(ss[k])  BY <2>4
    <2>6. k \in 0..N  BY <1>2
    <2> HIDE DEF upTo
    <2> QED  BY <2>1, <2>3, <2>5, <2>6
<1> HIDE DEF T
<1>5. \A k \in 0..N : k \in T  BY <1>2, <1>3, <1>4, UpTo
<1>6. ToSet(f[N]) = upTo(N)  BY <1>2, <1>5 DEF T
<1>7. DOMAIN ss = 1..N  BY DEF N
<1> QED  BY <1>2, <1>6, <1>7

LEMMA ListedAll ==
    ASSUME NEW S, IsFiniteSet(S)
    PROVE  ToSet(SetToSeq(S)) = S
<1> DEFINE s == SetToSeq(S)
           n == Cardinality(S)
<1>1. n \in Nat /\ IsFiniteSet(1..n) /\ Cardinality(1..n) = n
    BY FS_CardinalityType, FS_Interval
<1>2. \E f \in [1..n -> S] : IsInjective(f)
    <2>1. PICK f : f \in Bijection(1..n, S)  BY FS_CardinalityType DEF ExistsBijection
    <2> QED  BY <2>1 DEF Bijection, Injection, Surjection, IsInjective
<1>3. s \in [1..n -> S] /\ IsInjective(s)  BY <1>2 DEF SetToSeq
<1> HIDE DEF s
<1>4. s \in Injection(1..n, S)  BY <1>3 DEF Injection, IsInjective
<1>5. s \in Surjection(1..n, S)
    BY <1>1, <1>4, FS_Injection
<1>6. ToSet(s) = S  BY <1>3, <1>5 DEF Surjection, ToSet
<1> QED  BY <1>6 DEF s

\* All closed trades, of whatever symbol.
LEMMA TradesGrouped ==
    ASSUME NEW X \in SUBSET Executions, NEW execs \in Seq(X)
    PROVE  ToSet(GroupIntoTrades(execs)) = UNION {ToSet(Grouped(execs, symbol).closed) : symbol \in STRING}
<1> DEFINE symbols == SetToSeq(Symbols(execs))
           ss == [k \in DOMAIN symbols |-> Grouped(execs, symbols[k]).closed]
<1>1. IsFiniteSet(Symbols(execs))
    <2> DEFINE F == [i \in DOMAIN execs |-> execs[i].symbol]
    <2>1. Len(execs) \in Nat /\ DOMAIN execs = 1..Len(execs)  OBVIOUS
    <2>2. IsFiniteSet(DOMAIN execs)  BY <2>1, FS_Interval
    <2>3. F \in Surjection(DOMAIN execs, Symbols(execs))  BY DEF Surjection, Symbols
    <2> QED  BY <2>2, <2>3, FS_Surjection
<1>2. /\ symbols \in Seq(Symbols(execs)) /\ DOMAIN symbols = 1..Len(symbols)
      /\ ToSet(symbols) = Symbols(execs)
    <2>1. symbols \in Seq(Symbols(execs)) /\ DOMAIN symbols = 1..Len(symbols)
        BY <1>1, ListedOnce
    <2>2. ToSet(symbols) = Symbols(execs)  BY <1>1, ListedAll
    <2> QED  BY <2>1, <2>2
<1>3. GroupIntoTrades(execs) = FlattenSeq(ss)  BY DEF GroupIntoTrades
<1> HIDE DEF symbols
<1>4. \A symbol : Grouped(execs, symbol).closed \in Seq(TradesOf(X))
    BY GroupedKept DEF Kept, Groups
<1>5. /\ ss \in Seq(Seq(TradesOf(X))) /\ DOMAIN ss = DOMAIN symbols
      /\ \A k \in DOMAIN symbols : ss[k] = Grouped(execs, symbols[k]).closed
    BY <1>2, <1>4
<1> HIDE DEF ss
<1>6. ToSet(GroupIntoTrades(execs)) = UNION {ToSet(ss[k]) : k \in DOMAIN ss}
    BY <1>3, <1>5, SetOfFlattened
<1>7. UNION {ToSet(ss[k]) : k \in DOMAIN ss}
        = UNION {ToSet(Grouped(execs, symbol).closed) : symbol \in Symbols(execs)}
    <2>1. \A k \in DOMAIN ss : symbols[k] \in Symbols(execs)  BY <1>2, <1>5
    <2>2. \A symbol \in Symbols(execs) : \E k \in DOMAIN ss : symbols[k] = symbol
        BY <1>2, <1>5 DEF ToSet
    <2> QED  BY <1>5, <2>1, <2>2
<1>8. Symbols(execs) \subseteq STRING
    <2>1. \A i \in DOMAIN execs : execs[i] \in Executions  OBVIOUS
    <2> QED  BY <2>1 DEF Symbols, Executions
<1>9. ASSUME NEW symbol \in STRING, symbol \notin Symbols(execs)
      PROVE  ToSet(Grouped(execs, symbol).closed) = {}
    <2>1. \A i \in DOMAIN execs : execs[i].symbol # symbol  BY <1>9 DEF Symbols
    <2>2. Grouped(execs, symbol) = NoGroup  BY <2>1, NoneOfSymbol
    <2>3. NoGroup.closed = <<>> /\ ToSet(<<>>) = {}  BY DEF NoGroup, ToSet
    <2> QED  BY <2>2, <2>3
<1> QED  BY <1>6, <1>7, <1>8, <1>9

\* Whatever is grouped first, and however often: with the rest grouped on its
\* own the trades are those of everything grouped at once, as long as no
\* execution turns a position over (list_all_executions_for_account).
THEOREM GroupingInParts ==
    ASSUME NEW X \in SUBSET Executions, NEW log \in Seq(X), Distinct(log),
           Straight(log, Len(log)), NEW n \in 0..Len(log)
    PROVE  Made(log, Len(log))
             = Made(log, n) \cup ToSet(GroupIntoTrades(Picked(log, DOMAIN log \ Settled(log, n))))
<1> DEFINE rest == Picked(log, DOMAIN log \ Settled(log, n))
<1>1. rest \in Seq(X)
    <2> DEFINE U == DOMAIN log \ Settled(log, n)
    <2>1. U \in SUBSET (1..Len(log))  OBVIOUS
    <2>2. {log[i] : i \in U} \subseteq X  OBVIOUS
    <2> HIDE DEF U
    <2>3. Picked(log, U) \in Seq({log[i] : i \in U})  BY <2>1, Picks
    <2>4. Picked(log, U) \in Seq(X)  BY <2>2, <2>3
    <2> QED  BY <2>4 DEF U
<1>2. ASSUME NEW symbol
      PROVE  ToSet(After(log, Len(log), symbol).closed)
               = ToSet(After(log, n, symbol).closed) \cup ToSet(Grouped(rest, symbol).closed)
    <2>1. After(log, Len(log), symbol).closed
            = After(log, n, symbol).closed \o Grouped(rest, symbol).closed
        BY RestOfSymbol
    <2>2. After(log, n, symbol).closed \in Seq(TradesOf(X))  BY AfterKept DEF Kept, Groups
    <2> HIDE DEF rest
    <2>3. Grouped(rest, symbol).closed \in Seq(TradesOf(X))
        BY <1>1, GroupedKept DEF Kept, Groups
    <2> QED  BY <2>1, <2>2, <2>3, SetOfBoth
<1> HIDE DEF rest
<1>3. ToSet(GroupIntoTrades(rest)) = UNION {ToSet(Grouped(rest, symbol).closed) : symbol \in STRING}
    BY <1>1, TradesGrouped
<1>4. Made(log, Len(log)) = Made(log, n) \cup ToSet(GroupIntoTrades(rest))
    <2>1. ASSUME NEW t
          PROVE  t \in Made(log, Len(log))
                   <=> t \in Made(log, n) \/ t \in ToSet(GroupIntoTrades(rest))
        <3>1. t \in Made(log, Len(log))
                <=> \E symbol \in STRING : t \in ToSet(After(log, Len(log), symbol).closed)
            BY DEF Made
        <3>2. t \in Made(log, n) <=> \E symbol \in STRING : t \in ToSet(After(log, n, symbol).closed)
            BY DEF Made
        <3>3. t \in ToSet(GroupIntoTrades(rest))
                <=> \E symbol \in STRING : t \in ToSet(Grouped(rest, symbol).closed)
            BY <1>3
        <3> QED  BY <1>2, <3>1, <3>2, <3>3
    <2> QED  BY <2>1
<1> QED  BY <1>4 DEF rest

-----------------------------------------------------------------------------
(* The position a symbol is in *)

Position(g) == Sign(g.open.side) * Quantity(g.lots)

LEMMA SignsOppose ==
    ASSUME NEW a \in Sides, NEW b \in Sides
    PROVE  /\ Sign(a) \in {1, -1} /\ Sign(b) \in {1, -1}
           /\ a # b => Sign(b) = -Sign(a)
BY DEF Sides, Sign

LEMMA Opposite ==
    ASSUME NEW s \in {1, -1}, NEW q \in Nat, NEW r \in Nat, q > 0, r > 0
    PROVE  (s * q) * ((-s) * r) < 0
<1>1. q * r > 0  OBVIOUS
<1>2. CASE s = 1  BY <1>1, <1>2
<1>3. CASE s = -1  BY <1>1, <1>3
<1> QED  BY <1>2, <1>3

LEMMA TakeMoves ==
    ASSUME NEW X \in SUBSET Executions, NEW g \in Kept(X), NEW ex \in X
    PROVE  /\ Position(g) \in Int
           /\ Position(Take(g, ex)) = Position(g) + ex.qty * Sign(SideOf(ex))
           /\ Turns(g, ex) => Position(g) * Position(Take(g, ex)) < 0
<1> DEFINE t == Opened(g, ex)
           m == Eat(g.lots, ex, t.side)
           s == Sign(t.side)
           Q == Quantity(g.lots)
<1>1. g \in Groups(X) /\ Conserved(g)  BY DEF Kept
<1>2. /\ t \in TradesOf(X) /\ g.lots \in Seq(Legs(X)) /\ t.side \in Sides
      /\ g.open.side \in Sides /\ SideOf(ex) \in Sides
      /\ g.lots = <<>> => SideOf(ex) = t.side
      /\ g.lots # <<>> => t = g.open
    BY <1>1, PositionOpened, SidesAreTwo DEF Groups, TradesOf, Opened
<1>3. ex.qty \in Nat /\ ex.qty > 0  BY DEF Executions
<1>4. /\ s \in {1, -1} /\ Q \in Nat /\ (g.lots # <<>> => Q > 0) /\ (g.lots = <<>> => Q = 0)
      /\ Sign(g.open.side) \in {1, -1}
    BY <1>2, SignsOppose, QuantityOfLegs
<1>5. Position(g) = s * Q
    <2>1. CASE g.lots = <<>>  BY <1>4, <2>1 DEF Position
    <2>2. CASE g.lots # <<>>  BY <1>2, <2>2 DEF Position
    <2> QED  BY <2>1, <2>2
<1>6. s * Q \in Int  BY <1>4
<1>7. CASE SideOf(ex) = t.side
    <2>1. /\ Take(g, ex).lots = Append(g.lots, Leg(ex, ex.qty))
          /\ Take(g, ex).open = Entered(t, ex, ex.qty)
        BY <1>1, <1>7 DEF Take, Groups
    <2>2. Entered(t, ex, ex.qty).side = t.side /\ Leg(ex, ex.qty) \in Legs(X)
        <3> HIDE DEF t
        <3> QED  BY <1>2, <1>3, TradeEntered
    <2>3. Quantity(Append(g.lots, Leg(ex, ex.qty))) = Q + ex.qty
        BY <1>2, <2>2, QuantityOfLegs DEF Leg
    <2>4. Position(Take(g, ex)) = s * (Q + ex.qty)  BY <2>1, <2>2, <2>3 DEF Position
    <2>5. Sign(SideOf(ex)) = s  BY <1>7
    <2>6. ~ Turns(g, ex)  BY <1>7 DEF Turns
    <2> HIDE DEF s, Q
    <2>7. s * (Q + ex.qty) = s * Q + ex.qty * s  BY <1>3, <1>4
    <2> QED  BY <1>5, <1>6, <2>4, <2>5, <2>6, <2>7
<1>8. CASE SideOf(ex) # t.side
    <2>1. m \in Meals(X) /\ Fed(m, g.lots, ex, t.side)
        <3> HIDE DEF t
        <3> QED  BY <1>2, ExitsFeed
    <2>2. /\ m.left \in Nat /\ m.left <= ex.qty /\ (m.left > 0 => m.lots = <<>>)
          /\ Quantity(m.lots) + (ex.qty - m.left) = Q /\ Quantity(m.lots) \in Nat
        BY <2>1, QuantityOfLegs DEF Meals, Fed
    <2>3. Q > 0  BY <1>2, <1>4, <1>8
    <2>4. Sign(SideOf(ex)) = -s  BY <1>2, <1>8, SignsOppose
    <2>5. CASE m.left > 0
        <3>1. Take(g, ex) = [open   |-> Entered(Trade(SideOf(ex)), ex, m.left),
                             lots   |-> <<Leg(ex, m.left)>>,
                             closed |-> Append(g.closed, Exited(t, ex, m))]
            BY <1>8, <2>5 DEF Take
        <3>2. Entered(Trade(SideOf(ex)), ex, m.left).side = SideOf(ex) /\ Leg(ex, m.left) \in Legs(X)
            <4>1. Trade(SideOf(ex)) \in TradesOf(X) /\ Trade(SideOf(ex)).side = SideOf(ex)
                BY <1>2, NewTrade DEF Trade
            <4>2. m.left \in Nat \ {0}  BY <2>2, <2>5
            <4> HIDE DEF m, t
            <4> QED  BY <4>1, <4>2, TradeEntered
        <3>3. <<Leg(ex, m.left)>> = Append(<<>>, Leg(ex, m.left)) /\ <<>> \in Seq(Legs(X))
            OBVIOUS
        <3>4. Quantity(<<Leg(ex, m.left)>>) = m.left
            <4>1. Quantity(Append(<<>>, Leg(ex, m.left))) = 0 + Leg(ex, m.left).qty
                BY <3>2, <3>3, QuantityOfLegs
            <4>2. Leg(ex, m.left).qty = m.left  BY DEF Leg
            <4> QED  BY <2>2, <3>3, <4>1, <4>2
        <3>5. Position(Take(g, ex)) = (-s) * m.left  BY <2>4, <3>1, <3>2, <3>4 DEF Position
        <3>6. Quantity(m.lots) = 0  BY <2>2, <2>5, QuantityOfLegs
        <3>7. m.left = ex.qty - Q  BY <1>3, <1>4, <2>2, <3>6
        <3> DEFINE l == m.left
        <3>8. l \in Nat /\ l > 0 /\ l = ex.qty - Q  BY <2>2, <2>5, <3>7
        <3> HIDE DEF m, s, Q, t, l
        <3>9. (-s) * l = s * Q + ex.qty * (-s)  BY <1>3, <1>4, <3>8
        <3>10. (s * Q) * ((-s) * l) < 0  BY <1>4, <2>3, <3>8, Opposite
        <3> QED  BY <1>5, <1>6, <2>4, <3>5, <3>9, <3>10 DEF l
    <2>6. CASE m.left = 0
        <3>1. Take(g, ex).open = Exited(t, ex, m) /\ Take(g, ex).lots = m.lots
            BY <1>8, <2>6 DEF Take
        <3>2. Position(Take(g, ex)) = s * Quantity(m.lots)  BY <3>1 DEF Position, Exited
        <3>3. ~ Turns(g, ex)  BY <2>6 DEF Turns
        <3> DEFINE R == Quantity(m.lots)
        <3>4. R \in Nat /\ R = Q - ex.qty  BY <1>3, <1>4, <2>2, <2>6
        <3> HIDE DEF m, s, Q, t, R
        <3>5. s * R = s * Q + ex.qty * (-s)  BY <1>3, <1>4, <3>4
        <3> QED  BY <1>5, <1>6, <2>4, <3>2, <3>3, <3>5 DEF R
    <2> QED  BY <2>2, <2>5, <2>6
<1> QED  BY <1>7, <1>8

\* The position as the executions alone tell it.
Moves(log, symbol, k) ==
    [i \in 1..k |-> IF log[i].symbol # symbol THEN 0 ELSE log[i].qty * Sign(SideOf(log[i]))]

LEMMA MovesAdd ==
    ASSUME NEW X \in SUBSET Executions, NEW log \in Seq(X), NEW symbol, NEW n \in 0..Len(log)
    PROVE  SumSeq(Moves(log, symbol, n)) = Position(After(log, n, symbol))
<1> DEFINE N == Len(log)
           T == {k \in 0..N : SumSeq(Moves(log, symbol, k)) = Position(After(log, k, symbol))}
           move(i) == IF log[i].symbol # symbol THEN 0 ELSE log[i].qty * Sign(SideOf(log[i]))
<1>0. N \in Nat /\ \A i \in 1..N : log[i] \in X  OBVIOUS
<1>1. \A i \in 1..N : move(i) \in Int
    <2> SUFFICES ASSUME NEW i \in 1..N PROVE move(i) \in Int  OBVIOUS
    <2>1. log[i].qty \in Nat  BY <1>0 DEF Executions
    <2>2. Sign(SideOf(log[i])) \in {1, -1}  BY SidesAreTwo, SignsOppose
    <2> QED  BY <2>1, <2>2
<1>2. 0 \in T
    <2>1. Moves(log, symbol, 0) = <<>>  BY DEF Moves
    <2>2. After(log, 0, symbol) = NoGroup  BY AfterNone
    <2>3. Position(NoGroup) = 0
        <3>1. Quantity(<<>>) = 0  BY QuantityOfLegs
        <3> QED  BY <3>1 DEF Position, NoGroup, Trade, Sign
    <2> QED  BY <1>0, <2>1, <2>2, <2>3, SumOfNone
<1>3. \A k \in 1..N : k - 1 \in T => k \in T
    <2> SUFFICES ASSUME NEW k \in 1..N, k - 1 \in T PROVE k \in T  OBVIOUS
    <2>1. SumSeq(Moves(log, symbol, k - 1)) = Position(After(log, k - 1, symbol))  OBVIOUS
    <2>2. k \in 0..N  BY <1>0
    <2> HIDE DEF T
    <2>3. Moves(log, symbol, k) = Append(Moves(log, symbol, k - 1), move(k))
          /\ Moves(log, symbol, k - 1) \in Seq(Int)
        <3>1. \A i \in 1..(k - 1) : i \in 1..N  BY <1>0
        <3>2. Moves(log, symbol, k - 1) = [i \in 1..(k - 1) |-> move(i)]  BY DEF Moves
        <3>3. Moves(log, symbol, k) = [i \in 1..k |-> move(i)]  BY DEF Moves
        <3>4. \A i \in 1..(k - 1) : move(i) \in Int  BY <1>1, <3>1
        <3>5. k - 1 \in Nat /\ (k - 1) + 1 = k  BY <1>0
        <3>6. \A i \in 1..k : i = k \/ i \in 1..(k - 1)  BY <1>0
        <3> HIDE DEF move
        <3>7. [i \in 1..(k - 1) |-> move(i)] \in Seq(Int)  BY <3>4, <3>5
        <3>8. Append([i \in 1..(k - 1) |-> move(i)], move(k)) = [i \in 1..k |-> move(i)]
            BY <3>5, <3>6, <3>7
        <3> QED  BY <3>2, <3>3, <3>7, <3>8
    <2>4. SumSeq(Moves(log, symbol, k)) = SumSeq(Moves(log, symbol, k - 1)) + move(k)
        <3>1. move(k) \in Int  BY <1>1
        <3> HIDE DEF move
        <3> QED  BY <2>3, <3>1, SumOfMore
    <2>5. /\ log[k] \in X /\ After(log, k - 1, symbol) \in Kept(X)
          /\ After(log, k, symbol) = TakeOf(After(log, k - 1, symbol), log[k], symbol)
        BY AfterNext
    <2>6. CASE log[k].symbol = symbol
        <3>1. Position(Take(After(log, k - 1, symbol), log[k]))
                = Position(After(log, k - 1, symbol)) + log[k].qty * Sign(SideOf(log[k]))
            BY <2>5, TakeMoves
        <3>2. After(log, k, symbol) = Take(After(log, k - 1, symbol), log[k])
            BY <2>5, <2>6 DEF TakeOf
        <3>3. SumSeq(Moves(log, symbol, k)) = Position(After(log, k, symbol))
            BY <2>1, <2>4, <2>6, <3>1, <3>2
        <3> QED  BY <2>2, <3>3 DEF T
    <2>7. CASE log[k].symbol # symbol
        <3>1. Position(After(log, k - 1, symbol)) \in Int  BY <2>5, TakeMoves
        <3>2. After(log, k, symbol) = After(log, k - 1, symbol)  BY <2>5, <2>7 DEF TakeOf
        <3>3. SumSeq(Moves(log, symbol, k)) = Position(After(log, k, symbol))
            BY <2>1, <2>4, <2>7, <3>1, <3>2
        <3> QED  BY <2>2, <3>3 DEF T
    <2> QED  BY <2>6, <2>7
<1> HIDE DEF T
<1>4. \A k \in 0..N : k \in T  BY <1>0, <1>2, <1>3, UpTo
<1> QED  BY <1>4 DEF T

\* Where no position changes its sign, none is turned over.
LEMMA NeverTurned ==
    ASSUME NEW X \in SUBSET Executions, NEW log \in Seq(X),
           \A k \in 1..Len(log) : ~ (SumSeq(Moves(log, log[k].symbol, k - 1))
                                       * SumSeq(Moves(log, log[k].symbol, k)) < 0)
    PROVE  Straight(log, Len(log))
<1> SUFFICES ASSUME NEW k \in 1..Len(log), Turns(After(log, k - 1, log[k].symbol), log[k])
             PROVE  FALSE
    BY DEF Straight
<1> DEFINE g == After(log, k - 1, log[k].symbol)
<1>1. /\ log[k] \in X /\ g \in Kept(X)
      /\ After(log, k, log[k].symbol) = TakeOf(g, log[k], log[k].symbol)
    BY AfterNext
<1>2. Position(g) * Position(Take(g, log[k])) < 0  BY <1>1, TakeMoves
<1>3. k - 1 \in 0..Len(log) /\ k \in 0..Len(log)  OBVIOUS
<1>4. /\ SumSeq(Moves(log, log[k].symbol, k - 1)) = Position(g)
      /\ SumSeq(Moves(log, log[k].symbol, k)) = Position(Take(g, log[k]))
    BY <1>1, <1>3, MovesAdd DEF TakeOf
<1> QED  BY <1>2, <1>4

-----------------------------------------------------------------------------
(* What uses an execution *)

LEMMA SetOfMore ==
    ASSUME NEW S, NEW s \in Seq(S), NEW x \in S
    PROVE  ToSet(Append(s, x)) = ToSet(s) \cup {x}
<1>1. <<x>> \in Seq(S) /\ Append(s, x) = s \o <<x>>  OBVIOUS
<1>2. ToSet(<<x>>) = {x}  BY DEF ToSet
<1> DEFINE u == <<x>>
<1> HIDE DEF u
<1>3. ToSet(s \o u) = ToSet(s) \cup ToSet(u)
    <2>1. u \in Seq(S)  BY <1>1 DEF u
    <2> QED  BY <2>1, SetOfBoth
<1> QED  BY <1>1, <1>2, <1>3 DEF u

LEMMA HeadAndTail ==
    ASSUME NEW S, NEW s \in Seq(S), s # <<>>
    PROVE  /\ Head(s) \in S /\ Tail(s) \in Seq(S)
           /\ ToSet(s) = {Head(s)} \cup ToSet(Tail(s))
<1> DEFINE t == Tail(s)
<1>1. /\ Len(s) \in Nat /\ Len(s) > 0 /\ DOMAIN s = 1..Len(s) /\ Head(s) = s[1] /\ s[1] \in S
      /\ t \in Seq(S) /\ DOMAIN t = 1..(Len(s) - 1) /\ \A i \in 1..(Len(s) - 1) : t[i] = s[i + 1]
    OBVIOUS
<1> HIDE DEF t
<1>2. ASSUME NEW i \in DOMAIN s PROVE s[i] \in {Head(s)} \cup ToSet(t)
    <2>1. CASE i = 1  BY <1>1, <2>1
    <2>2. CASE i # 1
        <3>1. i - 1 \in DOMAIN t /\ (i - 1) + 1 = i  BY <1>1, <2>2
        <3>2. s[i] = t[i - 1]  BY <1>1, <3>1
        <3> QED  BY <3>1, <3>2 DEF ToSet
    <2> QED  BY <2>1, <2>2
<1>3. Head(s) \in ToSet(s)
    <2>1. 1 \in DOMAIN s  BY <1>1
    <2> QED  BY <1>1, <2>1 DEF ToSet
<1>4. ASSUME NEW i \in DOMAIN t PROVE t[i] \in ToSet(s)
    <2>1. i + 1 \in DOMAIN s /\ t[i] = s[i + 1]  BY <1>1
    <2> QED  BY <2>1 DEF ToSet
<1>5. ToSet(s) = {Head(s)} \cup ToSet(t)  BY <1>2, <1>3, <1>4 DEF ToSet
<1> QED  BY <1>1, <1>5 DEF t

LEMMA LegsUse ==
    ASSUME NEW X, NEW ls \in Seq(Legs(X)), NEW x
    PROVE  OfExecution(ls, x) \in Nat /\ (OfExecution(ls, x) > 0 <=> \E leg \in ToSet(ls) : leg.ex = x)
<1> DEFINE T == {s \in Seq(Legs(X)) :
                    /\ OfExecution(s, x) \in Nat
                    /\ OfExecution(s, x) > 0 <=> \E leg \in ToSet(s) : leg.ex = x}
<1>1. <<>> \in T
    <2>1. OfExecution(<<>>, x) = 0  BY LegsOfExecution
    <2>2. ToSet(<<>>) = {}  BY DEF ToSet
    <2> QED  BY <2>1, <2>2
<1>2. ASSUME NEW s \in Seq(Legs(X)), NEW leg \in Legs(X), s \in T
      PROVE  Append(s, leg) \in T
    <2>1. /\ OfExecution(s, x) \in Nat
          /\ OfExecution(s, x) > 0 <=> \E l \in ToSet(s) : l.ex = x
        BY <1>2
    <2> HIDE DEF T
    <2>2. OfExecution(Append(s, leg), x)
            = OfExecution(s, x) + (IF leg.ex = x THEN leg.qty ELSE 0)
        <3>1. \A es \in Seq(Legs(X)), l \in Legs(X) :
                 OfExecution(Append(es, l), x)
                   = OfExecution(es, x) + (IF l.ex = x THEN l.qty ELSE 0)
            BY LegsOfExecution
        <3> QED  BY <3>1
    <2>3. leg.qty \in Nat /\ leg.qty > 0  BY DEF Legs
    <2>4. ToSet(Append(s, leg)) = ToSet(s) \cup {leg}  BY SetOfMore
    <2>5. Append(s, leg) \in Seq(Legs(X))  OBVIOUS
    <2>6. CASE leg.ex = x
        <3>1. OfExecution(Append(s, leg), x) \in Nat /\ OfExecution(Append(s, leg), x) > 0
            BY <2>1, <2>2, <2>3, <2>6
        <3>2. \E l \in ToSet(Append(s, leg)) : l.ex = x  BY <2>4, <2>6
        <3> QED  BY <2>5, <3>1, <3>2 DEF T
    <2>7. CASE leg.ex # x
        <3>1. OfExecution(Append(s, leg), x) = OfExecution(s, x)  BY <2>1, <2>2, <2>7
        <3>2. (\E l \in ToSet(Append(s, leg)) : l.ex = x) <=> \E l \in ToSet(s) : l.ex = x
            BY <2>4, <2>7
        <3> QED  BY <2>1, <2>5, <3>1, <3>2 DEF T
    <2> QED  BY <2>6, <2>7
<1> HIDE DEF T
<1>3. ls \in T  BY <1>1, <1>2, BySequence
<1> QED  BY <1>3 DEF T

LEMMA TradeUses ==
    ASSUME NEW X, NEW t \in TradesOf(X), NEW x
    PROVE  UsedIn(t, x) > 0 <=> \E leg \in ToSet(t.entries) \cup ToSet(t.exits) : leg.ex = x
<1>1. t.entries \in Seq(Legs(X)) /\ t.exits \in Seq(Legs(X))  BY DEF TradesOf
<1>2. /\ OfExecution(t.entries, x) \in Nat
      /\ OfExecution(t.entries, x) > 0 <=> \E leg \in ToSet(t.entries) : leg.ex = x
    BY <1>1, LegsUse
<1>3. /\ OfExecution(t.exits, x) \in Nat
      /\ OfExecution(t.exits, x) > 0 <=> \E leg \in ToSet(t.exits) : leg.ex = x
    BY <1>1, LegsUse
<1>4. UsedIn(t, x) > 0 <=> OfExecution(t.entries, x) > 0 \/ OfExecution(t.exits, x) > 0
    BY <1>2, <1>3 DEF UsedIn
<1> QED  BY <1>2, <1>3, <1>4

LEMMA TradesUse ==
    ASSUME NEW X, NEW ts \in Seq(TradesOf(X)), NEW x
    PROVE  UsedOf(ts, x) > 0 <=> \E t \in ToSet(ts) : UsedIn(t, x) > 0
<1> DEFINE T == {s \in Seq(TradesOf(X)) :
                    UsedOf(s, x) > 0 <=> \E t \in ToSet(s) : UsedIn(t, x) > 0}
<1>1. <<>> \in T
    <2>1. UsedOf(<<>>, x) = 0  BY UseOfTrades
    <2>2. ToSet(<<>>) = {}  BY DEF ToSet
    <2> QED  BY <2>1, <2>2
<1>2. ASSUME NEW s \in Seq(TradesOf(X)), NEW t \in TradesOf(X), s \in T
      PROVE  Append(s, t) \in T
    <2>1. UsedOf(s, x) > 0 <=> \E u \in ToSet(s) : UsedIn(u, x) > 0  BY <1>2
    <2>2. UsedOf(Append(s, t), x) = UsedOf(s, x) + UsedIn(t, x)  BY UseOfTrades
    <2>3. UsedOf(s, x) \in Nat /\ UsedIn(t, x) \in Nat  BY UseIsNat
    <2>4. ToSet(Append(s, t)) = ToSet(s) \cup {t}  BY SetOfMore
    <2>5. Append(s, t) \in Seq(TradesOf(X))  OBVIOUS
    <2> HIDE DEF T
    <2>6. UsedOf(Append(s, t), x) > 0 <=> UsedOf(s, x) > 0 \/ UsedIn(t, x) > 0
        BY <2>2, <2>3
    <2>7. UsedOf(Append(s, t), x) > 0 <=> \E u \in ToSet(Append(s, t)) : UsedIn(u, x) > 0
        BY <2>1, <2>4, <2>6
    <2> QED  BY <2>5, <2>7 DEF T
<1> HIDE DEF T
<1>3. ts \in T  BY <1>1, <1>2, BySequence
<1> QED  BY <1>3 DEF T

LEMMA MadeTyped ==
    ASSUME NEW X \in SUBSET Executions, NEW log \in Seq(X), NEW n \in 0..Len(log)
    PROVE  Made(log, n) \subseteq TradesOf(X)
<1>1. ASSUME NEW symbol PROVE ToSet(After(log, n, symbol).closed) \subseteq TradesOf(X)
    <2>1. After(log, n, symbol).closed \in Seq(TradesOf(X))  BY AfterKept DEF Kept, Groups
    <2> HIDE DEF After
    <2> QED  BY <2>1 DEF ToSet
<1> QED  BY <1>1 DEF Made

\* The executions that are settled are those of the trades there are.
LEMMA SettledByMade ==
    ASSUME NEW X \in SUBSET Executions, NEW log \in Seq(X), Distinct(log),
           NEW n \in 0..Len(log), NEW i \in 1..Len(log)
    PROVE  i \in Settled(log, n)
             <=> \E t \in Made(log, n) :
                    \E leg \in ToSet(t.entries) \cup ToSet(t.exits) : leg.ex = log[i]
<1> DEFINE x == log[i]
           closed(symbol) == After(log, n, symbol).closed
           p == Prefix(log, n)
<1>1. x \in Executions /\ x.symbol \in STRING /\ i \in DOMAIN log  BY DEF Executions
<1>2. \A symbol : closed(symbol) \in Seq(TradesOf(X))  BY AfterKept DEF Kept, Groups
<1>3. i \in Settled(log, n) <=> UsedOf(closed(x.symbol), x) > 0  BY <1>1 DEF Settled
<1>4. ASSUME NEW symbol, UsedOf(closed(symbol), x) > 0 PROVE x.symbol = symbol
    <2>1. p \in Seq(X) /\ DOMAIN p = 1..n  BY PrefixTyped
    <2>2. Distinct(p)
        <3>1. \A k \in 1..n : k \in DOMAIN log /\ p[k] = log[k]  BY DEF Prefix
        <3> HIDE DEF p
        <3> QED  BY <2>1, <3>1 DEF Distinct
    <2>3. After(log, n, symbol) = Grouped(p, symbol) /\ After(log, n, symbol) \in Kept(X)
        BY AfterKept DEF After
    <2> HIDE DEF p, x
    <2>4. UsesAll(p, symbol)  BY <2>1, <2>2, GroupingUses
    <2>5. UsedBy(After(log, n, symbol), x)
            = IF x \in ToSet(p) /\ x.symbol = symbol THEN x.qty ELSE 0
        BY <2>3, <2>4 DEF UsesAll
    <2>6. UsedIn(After(log, n, symbol).open, x) \in Nat
        <3>1. After(log, n, symbol).open \in TradesOf(X)  BY <2>3 DEF Kept, Groups
        <3> QED  BY <3>1, UseIsNat
    <2>7. UsedOf(closed(symbol), x) \in Nat  BY <1>2, UseIsNat
    <2>8. UsedBy(After(log, n, symbol), x) > 0  BY <1>4, <2>6, <2>7 DEF UsedBy
    <2> QED  BY <2>5, <2>8
<1>5. ASSUME NEW symbol
      PROVE  UsedOf(closed(symbol), x) > 0 <=> \E t \in ToSet(closed(symbol)) : UsedIn(t, x) > 0
    BY <1>2, TradesUse
<1>6. i \in Settled(log, n) <=> \E t \in Made(log, n) : UsedIn(t, x) > 0
    <2>1. (\E t \in Made(log, n) : UsedIn(t, x) > 0)
            <=> \E symbol \in STRING : \E t \in ToSet(closed(symbol)) : UsedIn(t, x) > 0
        BY DEF Made
    <2> HIDE DEF closed, x
    <2> QED  BY <1>1, <1>3, <1>4, <1>5, <2>1
<1>7. \A t \in Made(log, n) :
         UsedIn(t, x) > 0 <=> \E leg \in ToSet(t.entries) \cup ToSet(t.exits) : leg.ex = x
    <2> HIDE DEF x
    <2> QED  BY MadeTyped, TradeUses
<1> HIDE DEF x
<1>8. i \in Settled(log, n)
        <=> \E t \in Made(log, n) :
               \E leg \in ToSet(t.entries) \cup ToSet(t.exits) : leg.ex = x
    BY <1>6, <1>7
<1> QED  BY <1>8 DEF x

\* More executions at the end change nothing of what came before.
LEMMA SoFarTheSame ==
    ASSUME NEW log, NEW more, NEW n \in Nat, \A i \in 1..n : more[i] = log[i]
    PROVE  /\ \A k \in 0..n : \A symbol : After(more, k, symbol) = After(log, k, symbol)
           /\ \A k \in 0..n : Made(more, k) = Made(log, k)
           /\ Straight(more, n) <=> Straight(log, n)
<1>1. ASSUME NEW k \in 0..n PROVE Prefix(more, k) = Prefix(log, k)
    <2>1. \A i \in 1..k : more[i] = log[i]  OBVIOUS
    <2> QED  BY <2>1 DEF Prefix
<1>2. \A k \in 0..n : \A symbol : After(more, k, symbol) = After(log, k, symbol)
    BY <1>1 DEF After
<1>3. \A k \in 0..n : Made(more, k) = Made(log, k)  BY <1>2 DEF Made
<1>4. \A k \in 1..n : k - 1 \in 0..n  OBVIOUS
<1>5. Straight(more, n) <=> Straight(log, n)  BY <1>2, <1>4 DEF Straight
<1> QED  BY <1>2, <1>3, <1>5

LEMMA AllPicked ==
    ASSUME NEW X, NEW log \in Seq(X)
    PROVE  Picked(log, DOMAIN log) = log
<1> DEFINE N == Len(log)
           T == {n \in 0..N : Picked(log, 1..n) = Prefix(log, n)}
<1>0. N \in Nat /\ DOMAIN log = 1..N  OBVIOUS
<1>1. 0 \in T
    <2>1. 1..0 = {} /\ Prefix(log, 0) = <<>>  BY DEF Prefix
    <2>2. Picked(log, {}) = <<>>  BY Picks
    <2> QED  BY <1>0, <2>1, <2>2
<1>2. \A n \in 1..N : n - 1 \in T => n \in T
    <2> SUFFICES ASSUME NEW n \in 1..N, n - 1 \in T PROVE n \in T  OBVIOUS
    <2>1. Picked(log, 1..(n - 1)) = Prefix(log, n - 1)  OBVIOUS
    <2> HIDE DEF T
    <2>2. 1..n = (1..(n - 1)) \cup {n} /\ 1..(n - 1) \in SUBSET (1..Len(log)) /\ n \in 0..N
        BY <1>0
    <2>3. Picked(log, (1..(n - 1)) \cup {n}) = Append(Picked(log, 1..(n - 1)), log[n])
        <3>1. \A i \in 1..(n - 1) : i < n  OBVIOUS
        <3> QED  BY <2>2, <3>1, Picks
    <2>4. Prefix(log, n) = Append(Prefix(log, n - 1), log[n])  BY PrefixNext
    <2> QED  BY <2>1, <2>2, <2>3, <2>4 DEF T
<1> HIDE DEF T
<1>3. \A n \in 0..N : n \in T  BY <1>0, <1>1, <1>2, UpTo
<1>4. Picked(log, 1..N) = Prefix(log, N)  BY <1>0, <1>3 DEF T
<1>5. Prefix(log, N) = log  BY PrefixTyped
<1> QED  BY <1>0, <1>4, <1>5
=============================================================================
