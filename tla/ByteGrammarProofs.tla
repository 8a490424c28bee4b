--------------------------- MODULE ByteGrammarProofs ---------------------------
(***************************************************************************)
(* What the bytes of fields tell, for any values, any number of them and   *)
(* any alerts: that three languages make the same of them but for the      *)
(* exceptions FieldLists names, that different fields show, and that the   *)
(* ids and hashes of AlertAudit name exactly what they are made of.        *)
(*                                                                         *)
(* Joins reads FlattenSeq, which Join is, as a chain of texts that grows   *)
(* by one; the lemmas about Join are by induction on that chain.           *)
(***************************************************************************)
EXTENDS FieldLists, AlertAudit, DataLemmas, SequenceTheorems

-----------------------------------------------------------------------------
(* Sequences *)

(* A sequence is one of anything its elements are among.                    *)
LEMMA SequenceOf ==
    ASSUME NEW s, IsSequence(s), NEW X, Range(s) \subseteq X
    PROVE  s \in Seq(X)
BY SeqMonotonic DEF IsSequence

(* What is a sequence of something is a sequence.                           *)
LEMMA SequenceIs ==
    ASSUME NEW X, NEW s \in Seq(X)
    PROVE  /\ IsSequence(s) /\ Range(s) \subseteq X
           /\ Len(s) \in Nat /\ DOMAIN s = 1..Len(s)
<1>1. s \in Seq(Range(s)) /\ Range(s) = {s[i] : i \in 1..Len(s)}
  BY SeqOfRange, RangeOfSeq DEF Range
<1>2. \A i \in 1..Len(s) : s[i] \in X
  BY ElementOfSeq
<1> QED
  BY <1>1, <1>2, LenProperties DEF IsSequence

(* Sequences joined one after the other are equal when the parts are.       *)
LEMMA ConcatCancel ==
    ASSUME NEW X, NEW s \in Seq(X), NEW t \in Seq(X), NEW u \in Seq(X), NEW v \in Seq(X),
           Len(s) = Len(u), s \o t = u \o v
    PROVE  s = u /\ t = v
<1>1. /\ Len(s) \in Nat /\ Len(t) \in Nat /\ Len(v) \in Nat
      /\ Len(s) + Len(t) = Len(u) + Len(v)
  <2>1. Len(s \o t) = Len(s) + Len(t) /\ Len(u \o v) = Len(u) + Len(v)
    BY ConcatProperties
  <2> QED
    BY <2>1
<1>2. \A i \in 1..Len(s) : s[i] = u[i]
  <2> SUFFICES ASSUME NEW i \in 1..Len(s) PROVE s[i] = u[i]
    OBVIOUS
  <2>1. i \in 1..Len(s) + Len(t) /\ i \in 1..Len(u) + Len(v) /\ i <= Len(s) /\ i <= Len(u)
    BY <1>1
  <2>2. (s \o t)[i] = s[i] /\ (u \o v)[i] = u[i]
    BY <2>1, ConcatProperties
  <2> QED
    BY <2>2
<1>3. s = u
  BY <1>2, SeqEqual
<1> QED
  BY <1>3, ConcatSimplifications

(* c is a, a sep and s.                                                     *)
Ends(c, a, sep, s) == c = a \o (<<sep>> \o s)

(* Where texts without sep follow a sep, it is the same one.                *)
LEMMA LastSeparator ==
    ASSUME NEW X, NEW sep \in X, NEW a \in Seq(X), NEW b \in Seq(X),
           NEW s \in Seq(X), NEW t \in Seq(X), sep \notin Range(s), sep \notin Range(t),
           NEW c, Ends(c, a, sep, s), Ends(c, b, sep, t)
    PROVE  a = b /\ s = t
<1> DEFINE x == <<sep>> \o s
           y == <<sep>> \o t
<1>1. /\ x \in Seq(X) /\ Len(x) = Len(s) + 1 /\ Len(s) \in Nat /\ x[1] = sep
      /\ \A i \in 1..Len(s) : x[i + 1] # sep
  <2>1. ASSUME NEW i \in 1..Len(s) PROVE s[i] # sep
    BY <2>1, RangeOfSeq DEF Range
  <2> QED
    BY <2>1
<1>2. /\ y \in Seq(X) /\ Len(y) = Len(t) + 1 /\ Len(t) \in Nat /\ y[1] = sep
      /\ \A i \in 1..Len(t) : y[i + 1] # sep
  <2>1. ASSUME NEW i \in 1..Len(t) PROVE t[i] # sep
    BY <2>1, RangeOfSeq DEF Range
  <2> QED
    BY <2>1
<1> HIDE DEF x, y
<1>3. Len(a) \in Nat /\ Len(b) \in Nat /\ Len(a) + Len(x) = Len(b) + Len(y)
  <2>1. a \o x = b \o y
    BY DEF x, y, Ends
  <2>2. Len(a \o x) = Len(a) + Len(x) /\ Len(b \o y) = Len(b) + Len(y)
    BY <1>1, <1>2, ConcatProperties
  <2>3. Len(a) \in Nat /\ Len(b) \in Nat
    OBVIOUS
  <2> QED
    BY <2>1, <2>2, <2>3
<1>4. ASSUME NEW i \in 1..Len(x) PROVE (a \o x)[Len(a) + i] = x[i]
  <2>1. Len(a) + i \in 1..Len(a) + Len(x) /\ ~(Len(a) + i <= Len(a)) /\ (Len(a) + i) - Len(a) = i
    BY <1>1, <1>3
  <2> QED
    BY <1>1, <2>1, ConcatProperties
<1>5. ASSUME NEW i \in 1..Len(y) PROVE (b \o y)[Len(b) + i] = y[i]
  <2>1. Len(b) + i \in 1..Len(b) + Len(y) /\ ~(Len(b) + i <= Len(b)) /\ (Len(b) + i) - Len(b) = i
    BY <1>2, <1>3
  <2> QED
    BY <1>2, <2>1, ConcatProperties
<1>6. a \o x = b \o y
  BY DEF x, y, Ends
<1>7. ~(Len(a) < Len(b))
  <2> SUFFICES ASSUME Len(a) < Len(b) PROVE FALSE
    OBVIOUS
  <2> DEFINE i == Len(b) - Len(a)
  <2>1. i \in 1..Len(s) /\ i + 1 \in 1..Len(x) /\ Len(a) + (i + 1) = Len(b) + 1
    BY <1>1, <1>2, <1>3
  <2>2. 1 \in 1..Len(y)
    BY <1>2
  <2> HIDE DEF i
  <2>3. x[i + 1] = y[1]
    BY <1>4, <1>5, <1>6, <2>1, <2>2
  <2> QED
    BY <1>1, <1>2, <2>1, <2>3
<1>8. ~(Len(b) < Len(a))
  <2> SUFFICES ASSUME Len(b) < Len(a) PROVE FALSE
    OBVIOUS
  <2> DEFINE i == Len(a) - Len(b)
  <2>1. i \in 1..Len(t) /\ i + 1 \in 1..Len(y) /\ Len(b) + (i + 1) = Len(a) + 1
    BY <1>1, <1>2, <1>3
  <2>2. 1 \in 1..Len(x)
    BY <1>1
  <2> HIDE DEF i
  <2>3. y[i + 1] = x[1]
    BY <1>4, <1>5, <1>6, <2>1, <2>2
  <2> QED
    BY <1>1, <1>2, <2>1, <2>3
<1>9. Len(a) = Len(b)
  BY <1>3, <1>7, <1>8
<1>10. a = b /\ x = y
  BY <1>1, <1>2, <1>6, <1>9, ConcatCancel
<1>11. <<sep>> \in Seq(X)
  OBVIOUS
<1> QED
  BY <1>10, <1>11, ConcatSimplifications DEF x, y

-----------------------------------------------------------------------------
(* Texts joined by a separator *)

(* h has the first k texts of S one after the other, each behind a sep.     *)
Joins(h, S, n, sep, X) ==
    /\ \A k \in 0..n : h[k] \in Seq(X)
    /\ h[0] = <<>>
    /\ \A k \in 1..n : S[k] \in Seq(X) /\ h[k] = h[k - 1] \o (<<sep>> \o S[k])

(* There is such an h.                                                      *)
LEMMA JoinsExist ==
    ASSUME NEW X, NEW sep \in X, NEW n \in Nat, NEW S, \A k \in 1..n : S[k] \in Seq(X)
    PROVE  \E h : Joins(h, S, n, sep, X)
<1> DEFINE N == {m \in Nat : m <= n => \E h : Joins(h, S, m, sep, X)}
<1>1. 0 \in N
  <2> DEFINE h == [k \in 0..0 |-> <<>>]
  <2>1. \A k \in 0..0 : k = 0
    OBVIOUS
  <2>2. h[0] = <<>> /\ \A k \in 0..0 : h[k] \in Seq(X)
    BY <2>1
  <2>3. 1..0 = {}
    OBVIOUS
  <2> HIDE DEF h
  <2>4. Joins(h, S, 0, sep, X)
    BY <2>2, <2>3 DEF Joins
  <2> QED
    BY <2>4
<1>2. ASSUME NEW m \in Nat, m \in N PROVE m + 1 \in N
  <2> SUFFICES ASSUME m + 1 <= n PROVE \E h : Joins(h, S, m + 1, sep, X)
    OBVIOUS
  <2>1. PICK h : Joins(h, S, m, sep, X)
    BY <1>2
  <2>2. m + 1 \in 1..n /\ S[m + 1] \in Seq(X) /\ h[m] \in Seq(X)
    BY <2>1 DEF Joins
  <2> DEFINE e == h[m] \o (<<sep>> \o S[m + 1])
             g == [k \in 0..(m + 1) |-> IF k = m + 1 THEN e ELSE h[k]]
  <2>3. e \in Seq(X)
    <3>1. <<sep>> \in Seq(X)
      OBVIOUS
    <3> QED
      BY <2>2, <3>1, ConcatProperties
  <2>4. g[m + 1] = e /\ \A k \in 0..m : g[k] = h[k]
    <3>1. m + 1 \in 0..(m + 1) /\ \A k \in 0..m : k \in 0..(m + 1) /\ k # m + 1
      OBVIOUS
    <3> HIDE DEF e
    <3> QED
      BY <3>1
  <2> HIDE DEF g
  <2>5. \A k \in 0..(m + 1) : g[k] \in Seq(X)
    <3>1. \A k \in 0..(m + 1) : k \in 0..m \/ k = m + 1
      OBVIOUS
    <3> HIDE DEF e
    <3> QED
      BY <2>1, <2>3, <2>4, <3>1 DEF Joins
  <2>6. \A k \in 1..(m + 1) : S[k] \in Seq(X) /\ g[k] = g[k - 1] \o (<<sep>> \o S[k])
    <3> SUFFICES ASSUME NEW k \in 1..(m + 1)
                 PROVE  S[k] \in Seq(X) /\ g[k] = g[k - 1] \o (<<sep>> \o S[k])
      OBVIOUS
    <3>1. CASE k = m + 1
      <4>1. k - 1 = m /\ m \in 0..m
        BY <3>1
      <4> QED
        BY <2>2, <2>4, <3>1, <4>1
    <3>2. CASE k # m + 1
      <4>1. k \in 1..m /\ k \in 0..m /\ k - 1 \in 0..m
        BY <3>2
      <4> QED
        BY <2>1, <2>4, <4>1 DEF Joins
    <3> QED
      BY <3>1, <3>2
  <2>7. g[0] = <<>>
    BY <2>1, <2>4 DEF Joins
  <2> HIDE DEF e
  <2> QED
    BY <2>5, <2>6, <2>7 DEF Joins
<1> HIDE DEF N
<1>3. Nat \subseteq N
  BY <1>1, <1>2, NatSetInduction
<1> QED
  BY <1>3 DEF N

(* g joins them from the first one on.                                      *)
Chained(g, S, n, sep) ==
    /\ g[1] = <<sep>> \o S[1]
    /\ \A k \in 2..n : g[k] = g[k - 1] \o (<<sep>> \o S[k])

(* There is one h only.                                                     *)
LEMMA JoinsUnique ==
    ASSUME NEW X, NEW sep \in X, NEW n \in Nat, NEW S, NEW h, Joins(h, S, n, sep, X),
           NEW g, Chained(g, S, n, sep)
    PROVE  \A k \in 1..n : g[k] = h[k]
<1> DEFINE N == {m \in Nat : m \in 1..n => g[m] = h[m]}
<1>1. 0 \in N
  OBVIOUS
<1>2. ASSUME NEW m \in Nat, m \in N PROVE m + 1 \in N
  <2> SUFFICES ASSUME m + 1 \in 1..n PROVE g[m + 1] = h[m + 1]
    OBVIOUS
  <2>1. S[m + 1] \in Seq(X) /\ h[m + 1] = h[m] \o (<<sep>> \o S[m + 1])
    <3>1. (m + 1) - 1 = m
      OBVIOUS
    <3> QED
      BY <3>1 DEF Joins
  <2>2. CASE m = 0
    <3>1. <<sep>> \o S[1] \in Seq(X)
      BY <2>1, <2>2, ConcatProperties
    <3>2. h[m] = <<>>
      BY <2>2 DEF Joins
    <3> QED
      BY <2>1, <2>2, <3>1, <3>2, ConcatEmptySeq DEF Chained
  <2>3. CASE m # 0
    <3>1. m \in 1..n /\ m + 1 \in 2..n /\ (m + 1) - 1 = m
      BY <2>3
    <3> QED
      BY <1>2, <2>1, <3>1 DEF Chained
  <2> QED
    BY <2>2, <2>3
<1> HIDE DEF N
<1>3. Nat \subseteq N
  BY <1>1, <1>2, NatSetInduction
<1> QED
  BY <1>3 DEF N

(* n texts, of tokens of X.                                                 *)
TextsOf(S, n, X) ==
    n \in Nat /\ S = [k \in 1..n |-> S[k]] /\ \A k \in 1..n : S[k] \in Seq(X)

(* What Join makes of texts is the last of such an h but for its first sep. *)
LEMMA JoinIs ==
    ASSUME NEW X, NEW sep \in X, NEW n, NEW S, TextsOf(S, n, X), n # 0
    PROVE  \E h : Joins(h, S, n, sep, X) /\ Join(sep, S) = Tail(h[n])
<1>1. n \in Nat /\ S = [k \in 1..n |-> S[k]] /\ \A k \in 1..n : S[k] \in Seq(X)
  BY DEF TextsOf
<1>2. PICK h : Joins(h, S, n, sep, X)
  BY <1>1, JoinsExist
<1> DEFINE P == [k \in 1..n |-> <<sep>> \o S[k]]
           Def(g) == g = [k \in 1..n |-> IF k = 1 THEN P[k] ELSE g[k - 1] \o P[k]]
           flat == CHOOSE g : Def(g)
<1>3. DOMAIN S = 1..n /\ S # <<>>
  <2>1. DOMAIN S = 1..n
    BY <1>1
  <2>2. 1 \in 1..n
    BY <1>1
  <2>3. DOMAIN <<>> = {}
    OBVIOUS
  <2> QED
    BY <2>1, <2>2, <2>3
<1>4. P \in Seq(Seq(X)) /\ Len(P) = n
  <2>1. \A k \in 1..n : P[k] \in Seq(X)
    BY <1>1, ConcatProperties
  <2>2. P = [k \in 1..n |-> P[k]]
    OBVIOUS
  <2> HIDE DEF P
  <2> QED
    BY <1>1, <2>1, <2>2
<1>5. \E g : Def(g)
  <2> DEFINE g == [k \in 1..n |-> h[k]]
  <2>1. ASSUME NEW k \in 1..n
        PROVE  h[k] = IF k = 1 THEN P[k] ELSE g[k - 1] \o P[k]
    <3>1. /\ h[k] = h[k - 1] \o (<<sep>> \o S[k]) /\ P[k] = <<sep>> \o S[k]
          /\ P[k] \in Seq(X) /\ h[0] = <<>>
      <4>1. P[k] \in Seq(X)
        BY <1>1, ConcatProperties
      <4> QED
        BY <1>2, <4>1 DEF Joins
    <3>2. CASE k = 1
      <4>1. h[k - 1] = <<>>
        BY <3>1, <3>2
      <4> HIDE DEF P
      <4> QED
        BY <3>1, <3>2, <4>1, ConcatEmptySeq
    <3>3. CASE k # 1
      <4>1. k - 1 \in 1..n
        BY <1>1, <3>3
      <4>2. g[k - 1] = h[k - 1]
        BY <4>1
      <4> HIDE DEF P, g
      <4> QED
        BY <3>1, <3>3, <4>2
    <3> QED
      BY <3>2, <3>3
  <2>2. Def(g)
    <3> HIDE DEF P
    <3> QED
      BY <2>1
  <2> QED
    BY <2>2
<1>6. Def(flat)
  <2> HIDE DEF Def
  <2> QED
    BY <1>5
<1>7. Join(sep, S) = Tail(flat[n])
  <2>1. Join(sep, S) = Tail(FlattenSeq(P))
    BY <1>3 DEF Join
  <2>2. FlattenSeq(P) = flat[n]
    <3> HIDE DEF P
    <3> QED
      BY <1>1, <1>4 DEF FlattenSeq
  <2> QED
    BY <2>1, <2>2
<1> HIDE DEF flat
<1>8. \A k \in 1..n : flat[k] = IF k = 1 THEN P[k] ELSE flat[k - 1] \o P[k]
  <2> HIDE DEF P
  <2> QED
    BY <1>6
<1>9. flat[1] = <<sep>> \o S[1]
  <2>1. 1 \in 1..n /\ P[1] = <<sep>> \o S[1]
    BY <1>1
  <2> HIDE DEF P
  <2> QED
    BY <1>8, <2>1
<1>10. \A k \in 2..n : flat[k] = flat[k - 1] \o (<<sep>> \o S[k])
  <2> SUFFICES ASSUME NEW k \in 2..n PROVE flat[k] = flat[k - 1] \o (<<sep>> \o S[k])
    OBVIOUS
  <2>1. k \in 1..n /\ k # 1 /\ P[k] = <<sep>> \o S[k]
    BY <1>1
  <2> HIDE DEF P
  <2> QED
    BY <1>8, <2>1
<1> HIDE DEF P, Def
<1>11. \A k \in 1..n : flat[k] = h[k]
  <2>1. n \in Nat /\ Chained(flat, S, n, sep)
    BY <1>1, <1>9, <1>10 DEF Chained
  <2> QED
    BY <1>2, <2>1, JoinsUnique
<1>12. n \in 1..n
  BY <1>1
<1> QED
  BY <1>2, <1>7, <1>11, <1>12

(* From i to k there is one text more.                                      *)
OneMore(h, S, i, k, sep, X) ==
    /\ h[k] \in Seq(X) /\ h[i] \in Seq(X) /\ S[k] \in Seq(X)
    /\ <<sep>> \o S[k] \in Seq(X) /\ Len(<<sep>> \o S[k]) = 1 + Len(S[k])
    /\ h[k] = h[i] \o (<<sep>> \o S[k])
    /\ Len(h[k]) = Len(h[i]) + (1 + Len(S[k]))
    /\ {Len(h[k]), Len(h[i]), Len(S[k])} \subseteq Nat

(* One text after the other is joined to what there is.                     *)
LEMMA JoinsStep ==
    ASSUME NEW X, NEW sep \in X, NEW n \in Nat, NEW S, NEW h, Joins(h, S, n, sep, X),
           NEW i, NEW k, k \in 1..n, k - 1 = i
    PROVE  OneMore(h, S, i, k, sep, X)
<1>1. /\ h[k] \in Seq(X) /\ h[k - 1] \in Seq(X) /\ S[k] \in Seq(X)
      /\ h[k] = h[k - 1] \o (<<sep>> \o S[k])
  <2>1. k \in 0..n /\ k - 1 \in 0..n
    OBVIOUS
  <2> QED
    BY <2>1 DEF Joins
<1>2. <<sep>> \in Seq(X) /\ Len(<<sep>>) = 1
  OBVIOUS
<1>3. <<sep>> \o S[k] \in Seq(X) /\ Len(<<sep>> \o S[k]) = 1 + Len(S[k])
  BY <1>1, <1>2, ConcatProperties
<1>4. Len(h[k - 1] \o (<<sep>> \o S[k])) = Len(h[k - 1]) + Len(<<sep>> \o S[k])
  BY <1>1, <1>3, ConcatProperties
<1>5. {Len(h[k]), Len(h[k - 1]), Len(S[k])} \subseteq Nat
  BY <1>1, LenProperties
<1> QED
  BY <1>1, <1>3, <1>4, <1>5 DEF OneMore

(* p begins with sep, and is longer than s.                                 *)
Begins(p, sep, s) ==
    Len(p) \in Nat /\ Len(p) > Len(s) /\ p[1] = sep /\ Len(s) \in Nat

(* It begins with sep, and has more than the first text.                    *)
LEMMA JoinsStart ==
    ASSUME NEW X, NEW sep \in X, NEW n \in Nat, NEW S, NEW h, Joins(h, S, n, sep, X)
    PROVE  \A k \in 1..n : Begins(h[k], sep, S[1])
<1> DEFINE Good(k) == Len(h[k]) \in Nat /\ Len(h[k]) > Len(S[1]) /\ h[k][1] = sep
                          /\ Len(S[1]) \in Nat
           N == {m \in Nat : m \in 1..n => Good(m)}
<1>1. 0 \in N
  OBVIOUS
<1>2. ASSUME NEW m \in Nat, m \in N PROVE m + 1 \in N
  <2> SUFFICES ASSUME m + 1 \in 1..n PROVE Good(m + 1)
    OBVIOUS
  <2> DEFINE k == m + 1
  <2>1. k \in 1..n /\ k - 1 = m
    OBVIOUS
  <2> HIDE DEF k
  <2>2. /\ h[k] \in Seq(X) /\ h[m] \in Seq(X) /\ S[k] \in Seq(X)
        /\ <<sep>> \o S[k] \in Seq(X) /\ Len(<<sep>> \o S[k]) = 1 + Len(S[k])
        /\ h[k] = h[m] \o (<<sep>> \o S[k])
        /\ Len(h[k]) = Len(h[m]) + (1 + Len(S[k]))
        /\ {Len(h[k]), Len(h[m]), Len(S[k])} \subseteq Nat
    <3>1. OneMore(h, S, m, k, sep, X)
      BY <2>1, JoinsStep
    <3> QED
      BY <3>1 DEF OneMore
  <2>3. CASE m = 0
    <3>1. h[m] = <<>> /\ k = 1
      BY <2>3 DEF Joins, k
    <3>2. h[k] = <<sep>> \o S[k]
      BY <2>2, <3>1, ConcatEmptySeq
    <3>3. (<<sep>> \o S[k])[1] = sep
      BY <2>2
    <3> QED
      BY <2>2, <3>1, <3>2, <3>3 DEF k
  <2>4. CASE m # 0
    <3>1. m \in 1..n
      BY <2>4
    <3>2. Good(m)
      BY <1>2, <3>1
    <3> DEFINE x == <<sep>> \o S[k]
               a == h[m]
    <3>3. /\ x \in Seq(X) /\ a \in Seq(X) /\ h[k] = a \o x /\ Len(h[k]) = Len(a) + Len(x)
          /\ Len(a) \in Nat /\ Len(a) > Len(S[1]) /\ Len(S[1]) \in Nat /\ a[1] = sep
          /\ Len(x) \in Nat
      BY <2>2, <3>2, LenProperties
    <3> HIDE DEF x, a
    <3>4. 1 \in 1..(Len(a) + Len(x)) /\ 1 <= Len(a) /\ Len(h[k]) > Len(S[1])
      BY <3>3
    <3>5. h[k][1] = a[1]
      BY <3>3, <3>4, ConcatProperties
    <3>6. Good(k)
      BY <2>2, <3>3, <3>4, <3>5
    <3> QED
      BY <3>6 DEF k
  <2> QED
    BY <2>3, <2>4
<1> HIDE DEF N, Good
<1>3. Nat \subseteq N
  BY <1>1, <1>2, NatSetInduction
<1>4. \A k \in 1..n : Good(k)
  BY <1>3 DEF N
<1> QED
  BY <1>4 DEF Good, Begins

(* The first k texts of S are those of T.                                   *)
SameTexts(S, T, k) == \A j \in 1..k : S[j] = T[j]

(* Texts are of the same lengths.                                           *)
SameLengths(S, T, n) == \A k \in 1..n : Len(S[k]) = Len(T[k])

(* p and q are of one length, and tell whether the texts are the same.      *)
TellTexts(p, q, S, T, k) == Len(p) = Len(q) /\ (p = q => SameTexts(S, T, k))

(* Texts of the same lengths are joined to texts of the same length, which  *)
(* are equal only when all of them are.                                     *)
LEMMA JoinsAgree ==
    ASSUME NEW X, NEW sep \in X, NEW n \in Nat, NEW S, NEW h, Joins(h, S, n, sep, X),
           NEW T, NEW g, Joins(g, T, n, sep, X), SameLengths(S, T, n)
    PROVE  \A k \in 0..n : TellTexts(h[k], g[k], S, T, k)
<1> DEFINE Good(k) == /\ Len(h[k]) = Len(g[k])
                      /\ h[k] = g[k] => \A j \in 1..k : S[j] = T[j]
           N == {m \in Nat : m \in 0..n => Good(m)}
<1>1. 0 \in N
  <2>1. h[0] = g[0] /\ 1..0 = {}
    BY DEF Joins
  <2> QED
    BY <2>1
<1>2. ASSUME NEW m \in Nat, m \in N PROVE m + 1 \in N
  <2> SUFFICES ASSUME m + 1 \in 0..n PROVE Good(m + 1)
    OBVIOUS
  <2> DEFINE k == m + 1
  <2>1. k \in 1..n /\ k - 1 = m /\ m \in 0..n /\ \A j \in 1..k : j \in 1..m \/ j = k
    OBVIOUS
  <2> HIDE DEF k
  <2>2. /\ h[m] \in Seq(X) /\ S[k] \in Seq(X) /\ <<sep>> \o S[k] \in Seq(X)
        /\ h[k] = h[m] \o (<<sep>> \o S[k])
        /\ Len(h[k]) = Len(h[m]) + (1 + Len(S[k]))
        /\ {Len(h[m]), Len(S[k])} \subseteq Nat
    <3>1. OneMore(h, S, m, k, sep, X)
      BY <2>1, JoinsStep
    <3> QED
      BY <3>1 DEF OneMore
  <2>3. /\ g[m] \in Seq(X) /\ T[k] \in Seq(X) /\ <<sep>> \o T[k] \in Seq(X)
        /\ g[k] = g[m] \o (<<sep>> \o T[k])
        /\ Len(g[k]) = Len(g[m]) + (1 + Len(T[k]))
        /\ {Len(g[m]), Len(T[k])} \subseteq Nat
    <3>1. OneMore(g, T, m, k, sep, X)
      BY <2>1, JoinsStep
    <3> QED
      BY <3>1 DEF OneMore
  <2>4. Good(m)
    BY <1>2, <2>1
  <2>5. Len(h[k]) = Len(g[k])
    BY <2>1, <2>2, <2>3, <2>4 DEF SameLengths
  <2>6. ASSUME h[k] = g[k] PROVE \A j \in 1..k : S[j] = T[j]
    <3> DEFINE s == <<sep>> \o S[k]
               u == <<sep>> \o T[k]
               a == h[m]
               b == g[m]
    <3>0. /\ Len(a) = Len(b) /\ a \in Seq(X) /\ b \in Seq(X)
          /\ s \in Seq(X) /\ u \in Seq(X) /\ a \o s = b \o u
      BY <2>2, <2>3, <2>4, <2>6
    <3> HIDE DEF s, u, a, b
    <3>a. a = b /\ s = u
      BY <3>0, ConcatCancel
    <3>1. h[m] = g[m] /\ s = u
      BY <3>a DEF a, b
    <3>2. S[k] = T[k]
      <4>1. <<sep>> \in Seq(X)
        OBVIOUS
      <4> QED
        BY <2>2, <2>3, <3>1, <4>1, ConcatSimplifications DEF s, u
    <3> QED
      BY <2>1, <2>4, <3>1, <3>2
  <2> QED
    BY <2>5, <2>6 DEF k
<1> HIDE DEF N, Good
<1>3. Nat \subseteq N
  BY <1>1, <1>2, NatSetInduction
<1>4. \A k \in 0..n : Good(k)
  BY <1>3 DEF N
<1> QED
  BY <1>4 DEF Good, TellTexts, SameTexts

(* Texts without sep are joined to different texts, unless they are the same *)
(* and as many.                                                             *)
LEMMA JoinsApart ==
    ASSUME NEW X, NEW sep \in X, NEW n \in Nat, NEW S, NEW h, Joins(h, S, n, sep, X),
           NEW m \in Nat, NEW T, NEW g, Joins(g, T, m, sep, X),
           \A k \in 1..n : sep \notin Range(S[k]), \A k \in 1..m : sep \notin Range(T[k])
    PROVE  \A k \in 0..n : \A l \in 0..m :
               h[k] = g[l] => k = l /\ \A j \in 1..k : S[j] = T[j]
<1> DEFINE Good(k, l) == h[k] = g[l] => k = l /\ \A j \in 1..k : S[j] = T[j]
           N == {i \in Nat : i \in 0..n => \A l \in 0..m : Good(i, l)}
<1>e. h[0] = <<>> /\ g[0] = <<>>
  BY DEF Joins
<1>1. 0 \in N
  <2> SUFFICES ASSUME NEW l \in 0..m PROVE Good(0, l)
    OBVIOUS
  <2>1. 1..0 = {}
    OBVIOUS
  <2>2. CASE l # 0
    <3>1. l \in 1..m
      BY <2>2
    <3>2. Len(g[l]) \in Nat /\ Len(T[1]) \in Nat /\ Len(g[l]) > Len(T[1])
      BY <3>1, JoinsStart DEF Begins
    <3>3. Len(<<>>) = 0
      OBVIOUS
    <3> QED
      BY <1>e, <3>2, <3>3
  <2> QED
    BY <2>1, <2>2
<1>2. ASSUME NEW i \in Nat, i \in N PROVE i + 1 \in N
  <2> SUFFICES ASSUME i + 1 \in 0..n, NEW l \in 0..m, h[i + 1] = g[l]
               PROVE  i + 1 = l /\ \A j \in 1..(i + 1) : S[j] = T[j]
    OBVIOUS
  <2> DEFINE k == i + 1
  <2>1. k \in 1..n /\ k - 1 = i /\ i \in 0..n /\ \A j \in 1..k : j \in 1..i \/ j = k
    OBVIOUS
  <2>2. k = i + 1
    OBVIOUS
  <2> HIDE DEF k
  <2>3. l # 0
    <3>1. Len(h[k]) \in Nat /\ Len(S[1]) \in Nat /\ Len(h[k]) > Len(S[1])
      BY <2>1, JoinsStart DEF Begins
    <3>2. Len(<<>>) = 0
      OBVIOUS
    <3> QED
      BY <1>e, <2>2, <3>1, <3>2
  <2>4. l \in 1..m /\ l - 1 \in 0..m
    BY <2>3
  <2>5. /\ h[i] \in Seq(X) /\ S[k] \in Seq(X)
        /\ h[k] = h[i] \o (<<sep>> \o S[k])
    <3>1. OneMore(h, S, i, k, sep, X)
      BY <2>1, JoinsStep
    <3> QED
      BY <3>1 DEF OneMore
  <2>6. /\ g[l - 1] \in Seq(X) /\ T[l] \in Seq(X)
        /\ g[l] = g[l - 1] \o (<<sep>> \o T[l])
    <3>1. OneMore(g, T, l - 1, l, sep, X)
      BY <2>4, JoinsStep
    <3> QED
      BY <3>1 DEF OneMore
  <2>7. sep \notin Range(S[k]) /\ sep \notin Range(T[l])
    BY <2>1, <2>4
  <2>8. h[i] \o (<<sep>> \o S[k]) = g[l - 1] \o (<<sep>> \o T[l])
    BY <2>2, <2>5, <2>6
  <2>9. h[i] = g[l - 1] /\ S[k] = T[l]
    <3> DEFINE a == h[i]
               b == g[l - 1]
               s == S[k]
               u == T[l]
    <3>1. /\ a \in Seq(X) /\ b \in Seq(X) /\ s \in Seq(X) /\ u \in Seq(X)
          /\ sep \notin Range(s) /\ sep \notin Range(u)
          /\ Ends(h[k], a, sep, s) /\ Ends(h[k], b, sep, u)
      BY <2>5, <2>6, <2>7, <2>8 DEF Ends
    <3> HIDE DEF a, b, s, u
    <3>2. a = b /\ s = u
      BY <3>1, LastSeparator
    <3> QED
      BY <3>2 DEF a, b, s, u
  <2>10. Good(i, l - 1)
    BY <1>2, <2>1, <2>4
  <2>11. i = l - 1 /\ \A j \in 1..i : S[j] = T[j]
    BY <2>9, <2>10
  <2>12. l = k
    BY <2>2, <2>4, <2>11
  <2> QED
    BY <2>1, <2>2, <2>9, <2>11, <2>12
<1> HIDE DEF N, Good
<1>3. Nat \subseteq N
  BY <1>1, <1>2, NatSetInduction
<1>4. \A k \in 0..n : \A l \in 0..m : Good(k, l)
  BY <1>3 DEF N
<1> QED
  BY <1>4 DEF Good

(* What begins so is not empty.                                             *)
LEMMA BeginsWith ==
    ASSUME NEW p, NEW sep, NEW s, Begins(p, sep, s)
    PROVE  p[1] = sep /\ p # <<>>
<1>1. Len(<<>>) = 0
  OBVIOUS
<1> QED
  BY <1>1 DEF Begins

(* n texts.                                                                 *)
Texts(S, n) == n \in Nat /\ S = [k \in 1..n |-> S[k]] /\ \A k \in 1..n : IsSequence(S[k])

(* What the texts of S are made of.                                         *)
TokensOf(S, n) == UNION {Range(S[k]) : k \in 1..n}

(* They are texts of whatever those are among.                              *)
LEMMA TextsAre ==
    ASSUME NEW S, NEW n, Texts(S, n), NEW X, TokensOf(S, n) \subseteq X
    PROVE  TextsOf(S, n, X)
<1>1. ASSUME NEW k \in 1..n PROVE S[k] \in Seq(X)
  <2>1. IsSequence(S[k]) /\ Range(S[k]) \subseteq X
    BY DEF Texts, TokensOf
  <2> QED
    BY <2>1, SequenceOf
<1> QED
  BY <1>1 DEF Texts, TextsOf

(* The joined text is one of the same tokens and sep; no texts make none,   *)
(* and a first text that says something is not lost.                        *)
LEMMA JoinTokens ==
    ASSUME NEW S, NEW n, Texts(S, n), NEW sep
    PROVE  /\ IsSequence(Join(sep, S))
           /\ Range(Join(sep, S)) \subseteq {sep} \cup TokensOf(S, n)
           /\ n = 0 => Join(sep, S) = <<>>
           /\ n # 0 /\ S[1] # <<>> => Join(sep, S) # <<>>
<1>1. CASE n = 0
  <2>1. S = <<>>
    BY <1>1 DEF Texts
  <2>2. Join(sep, S) = <<>>
    BY <2>1 DEF Join
  <2>3. IsSequence(<<>>) /\ Range(<<>>) \subseteq {}
    <3>1. DOMAIN <<>> = {} /\ \A X : <<>> \in Seq(X)
      OBVIOUS
    <3>2. Range(<<>>) = {}
      BY <3>1 DEF Range
    <3> QED
      BY <3>1, <3>2 DEF IsSequence
  <2> QED
    BY <1>1, <2>2, <2>3
<1>2. CASE n # 0
  <2> DEFINE X == {sep} \cup TokensOf(S, n)
  <2>1. TextsOf(S, n, X) /\ sep \in X /\ n \in Nat
    BY TextsAre DEF Texts
  <2> HIDE DEF X
  <2>2. PICK h : Joins(h, S, n, sep, X) /\ Join(sep, S) = Tail(h[n])
    BY <1>2, <2>1, JoinIs
  <2>3. n \in 1..n /\ n \in 0..n /\ 1 \in 1..n
    BY <1>2, <2>1
  <2>4. h[n] \in Seq(X) /\ S[1] \in Seq(X)
    BY <2>2, <2>3 DEF Joins
  <2>5. Len(h[n]) \in Nat /\ Len(h[n]) > Len(S[1]) /\ Len(S[1]) \in Nat
    BY <2>1, <2>2, <2>3, JoinsStart DEF Begins
  <2>6. h[n] # <<>>
    <3>1. Len(<<>>) = 0
      OBVIOUS
    <3> QED
      BY <2>5, <3>1
  <2>7. Tail(h[n]) \in Seq(X) /\ Len(Tail(h[n])) = Len(h[n]) - 1
    BY <2>4, <2>6, HeadTailProperties
  <2>8. S[1] # <<>> => Len(S[1]) # 0
    BY <2>4
  <2>9. S[1] # <<>> => Tail(h[n]) # <<>>
    <3>1. Len(<<>>) = 0
      OBVIOUS
    <3>2. Len(S[1]) # 0 => Len(h[n]) - 1 # 0
      <4> DEFINE x == Len(h[n])
                 y == Len(S[1])
      <4>1. x \in Nat /\ y \in Nat /\ x > y
        BY <2>5
      <4> HIDE DEF x, y
      <4>2. y # 0 => x - 1 # 0
        BY <4>1
      <4> QED
        BY <4>2 DEF x, y
    <3> DEFINE t == Tail(h[n])
               l == Len(h[n]) - 1
    <3>a. Len(t) = l
      BY <2>7
    <3> HIDE DEF t, l
    <3>b. t = <<>> => l = 0
      BY <3>1, <3>a
    <3>3. Tail(h[n]) = <<>> => Len(h[n]) - 1 = 0
      BY <3>b DEF t, l
    <3> QED
      BY <2>8, <3>2, <3>3
  <2>10. IsSequence(Tail(h[n])) /\ Range(Tail(h[n])) \subseteq X
    BY <2>7, SequenceIs
  <2> QED
    BY <1>2, <2>2, <2>9, <2>10 DEF X
<1> QED
  BY <1>1, <1>2

(* Sequences that begin alike and go on alike are equal.                    *)
LEMMA TailsTell ==
    ASSUME NEW X, NEW s \in Seq(X), NEW t \in Seq(X), s # <<>>, t # <<>>, s[1] = t[1],
           Tail(s) = Tail(t)
    PROVE  s = t
<1>1. /\ Len(Tail(s)) = Len(s) - 1 /\ \A i \in 1..Len(Tail(s)) : Tail(s)[i] = s[i + 1]
      /\ Len(s) \in Nat
  BY HeadTailProperties, LenProperties
<1>2. /\ Len(Tail(t)) = Len(t) - 1 /\ \A i \in 1..Len(Tail(t)) : Tail(t)[i] = t[i + 1]
      /\ Len(t) \in Nat
  BY HeadTailProperties, LenProperties
<1> DEFINE n == Len(s)
           m == Len(t)
           l == Len(Tail(s))
<1>a. n \in Nat /\ m \in Nat /\ l = n - 1 /\ l = m - 1
  BY <1>1, <1>2
<1> HIDE DEF n, m, l
<1>b. m = n
  BY <1>a
<1>3. n \in Nat /\ Len(t) = n /\ Len(Tail(s)) = n - 1
  BY <1>a, <1>b DEF m, l
<1>4. ASSUME NEW i \in 1..n PROVE s[i] = t[i]
  <2>1. CASE i = 1
    BY <2>1
  <2>2. CASE i # 1
    <3>1. i - 1 \in 1..Len(Tail(s)) /\ i - 1 \in 1..Len(Tail(t)) /\ (i - 1) + 1 = i
      BY <1>3, <2>2
    <3> QED
      BY <1>1, <1>2, <3>1
  <2> QED
    BY <2>1, <2>2
<1> QED
  BY <1>3, <1>4, SeqEqual DEF n

(* The texts p and q are of one length, and equal just when ok.             *)
EqualWhen(p, q, ok) ==
    IsSequence(p) /\ IsSequence(q) /\ Len(p) = Len(q) /\ (p = q <=> ok)

(* Texts that agree in length are joined to texts that do, whatever they    *)
(* hold, separators included.                                               *)
LEMMA JoinEqualWhen ==
    ASSUME NEW n, NEW S, Texts(S, n), NEW T, Texts(T, n), NEW sep, NEW K,
           \A k \in 1..n : EqualWhen(S[k], T[k], k \in K)
    PROVE  EqualWhen(Join(sep, S), Join(sep, T), 1..n \subseteq K)
<1>0. n \in Nat /\ S = [k \in 1..n |-> S[k]] /\ T = [k \in 1..n |-> T[k]]
  BY DEF Texts
<1>1. IsSequence(Join(sep, S)) /\ IsSequence(Join(sep, T))
  BY JoinTokens
<1>2. 1..n \subseteq K => S = T
  <2> SUFFICES ASSUME 1..n \subseteq K PROVE S = T
    OBVIOUS
  <2>1. \A k \in 1..n : S[k] = T[k]
    BY DEF EqualWhen
  <2> QED
    BY <1>0, <2>1
<1>3. CASE n = 0
  <2>1. S = T /\ 1..n = {}
    BY <1>0, <1>3
  <2> QED
    BY <1>1, <2>1 DEF EqualWhen
<1>4. CASE n # 0
  <2> DEFINE X == {sep} \cup (TokensOf(S, n) \cup TokensOf(T, n))
  <2>1. TextsOf(S, n, X) /\ TextsOf(T, n, X) /\ sep \in X
    BY TextsAre
  <2> HIDE DEF X
  <2>2. PICK h : Joins(h, S, n, sep, X) /\ Join(sep, S) = Tail(h[n])
    BY <1>4, <2>1, JoinIs
  <2>3. PICK g : Joins(g, T, n, sep, X) /\ Join(sep, T) = Tail(g[n])
    BY <1>4, <2>1, JoinIs
  <2>4. n \in 1..n /\ n \in 0..n
    BY <1>0, <1>4
  <2>5. h[n] \in Seq(X) /\ g[n] \in Seq(X)
    BY <2>2, <2>3, <2>4 DEF Joins
  <2>n. n \in Nat
    BY <1>0
  <2>6. h[n][1] = sep /\ g[n][1] = sep /\ h[n] # <<>> /\ g[n] # <<>>
    <3>1. Begins(h[n], sep, S[1])
      BY <2>n, <2>1, <2>2, <2>4, JoinsStart
    <3>2. Begins(g[n], sep, T[1])
      BY <2>n, <2>1, <2>3, <2>4, JoinsStart
    <3> QED
      BY <3>1, <3>2, BeginsWith
  <2>8. SameLengths(S, T, n)
    BY DEF EqualWhen, SameLengths
  <2>9. TellTexts(h[n], g[n], S, T, n)
    BY <2>n, <2>1, <2>2, <2>3, <2>4, <2>8, JoinsAgree
  <2>10. Len(Tail(h[n])) = Len(Tail(g[n]))
    BY <2>5, <2>6, <2>9, HeadTailProperties DEF TellTexts
  <2>11. ASSUME Tail(h[n]) = Tail(g[n]) PROVE 1..n \subseteq K
    <3>1. h[n] = g[n]
      BY <2>5, <2>6, <2>11, TailsTell
    <3>2. \A j \in 1..n : S[j] = T[j]
      BY <2>9, <3>1 DEF TellTexts, SameTexts
    <3> QED
      BY <3>2 DEF EqualWhen
  <2> QED
    BY <1>1, <1>2, <2>2, <2>3, <2>10, <2>11 DEF EqualWhen
<1> QED
  BY <1>3, <1>4

(* Texts without the separator are told apart when joined: as many, and the *)
(* same.                                                                    *)
LEMMA JoinApart ==
    ASSUME NEW n, NEW S, Texts(S, n), NEW m, NEW T, Texts(T, m), NEW sep,
           \A k \in 1..n : sep \notin Range(S[k]), \A k \in 1..m : sep \notin Range(T[k]),
           n # 0, m # 0, Join(sep, S) = Join(sep, T)
    PROVE  n = m /\ S = T
<1>0. /\ n \in Nat /\ S = [k \in 1..n |-> S[k]]
      /\ m \in Nat /\ T = [k \in 1..m |-> T[k]]
  BY DEF Texts
<1> DEFINE X == {sep} \cup (TokensOf(S, n) \cup TokensOf(T, m))
<1>1. TextsOf(S, n, X) /\ TextsOf(T, m, X) /\ sep \in X
  BY TextsAre
<1> HIDE DEF X
<1>2. PICK h : Joins(h, S, n, sep, X) /\ Join(sep, S) = Tail(h[n])
  BY <1>1, JoinIs
<1>3. PICK g : Joins(g, T, m, sep, X) /\ Join(sep, T) = Tail(g[m])
  BY <1>1, JoinIs
<1>4. n \in 1..n /\ n \in 0..n /\ m \in 1..m /\ m \in 0..m
  BY <1>0
<1>5. h[n] \in Seq(X) /\ g[m] \in Seq(X)
  BY <1>2, <1>3, <1>4 DEF Joins
<1>n. n \in Nat /\ m \in Nat
  BY <1>0
<1>6. h[n][1] = sep /\ g[m][1] = sep /\ h[n] # <<>> /\ g[m] # <<>>
  <2>1. Begins(h[n], sep, S[1])
    BY <1>n, <1>1, <1>2, <1>4, JoinsStart
  <2>2. Begins(g[m], sep, T[1])
    BY <1>n, <1>1, <1>3, <1>4, JoinsStart
  <2> QED
    BY <2>1, <2>2, BeginsWith
<1>8. h[n] = g[m]
  BY <1>2, <1>3, <1>5, <1>6, TailsTell
<1>9. n = m /\ \A j \in 1..n : S[j] = T[j]
  BY <1>n, <1>1, <1>2, <1>3, <1>4, <1>8, JoinsApart
<1> QED
  BY <1>0, <1>9

-----------------------------------------------------------------------------
(* Scalars *)

(* v has the one type.                                                      *)
Only(v, type) ==
    \A t \in {"null", "bool", "int", "float", "str", "list"} : Is(v, t) <=> t = type

(* A scalar has one type, and what goes with it.                            *)
LEMMA ScalarKinds ==
    ASSUME NEW v, IsScalar(v)
    PROVE  \/ Only(v, "null") /\ v = [null |-> 0]
           \/ Only(v, "bool") /\ v = [bool |-> v.bool] /\ v.bool \in BOOLEAN
           \/ Only(v, "int") /\ v = [int |-> v.int] /\ v.int \in Int
           \/ /\ Only(v, "float") /\ v.float \in Nat /\ v.off \in {-1, 0, 1}
              /\ v = [float |-> v.float, off |-> v.off]
           \/ Only(v, "str") /\ v = [str |-> v.str] /\ IsSequence(v.str)
<1>1. CASE v = [null |-> 0]
  <2>1. DOMAIN v = {"null"}
    BY <1>1
  <2> QED
    BY <1>1, <2>1 DEF Only, Is
<1>2. CASE v \in [bool : BOOLEAN]
  <2>1. DOMAIN v = {"bool"} /\ v = [bool |-> v.bool] /\ v.bool \in BOOLEAN
    BY <1>2
  <2> QED
    BY <2>1 DEF Only, Is
<1>3. CASE v \in [int : Int]
  <2>1. DOMAIN v = {"int"} /\ v = [int |-> v.int] /\ v.int \in Int
    BY <1>3
  <2> QED
    BY <2>1 DEF Only, Is
<1>4. CASE v \in [float : Nat, off : {-1, 0, 1}]
  <2>1. /\ DOMAIN v = {"float", "off"} /\ v = [float |-> v.float, off |-> v.off]
        /\ v.float \in Nat /\ v.off \in {-1, 0, 1}
    BY <1>4
  <2> QED
    BY <2>1 DEF Only, Is
<1>5. CASE v = [str |-> v.str] /\ IsSequence(v.str)
  <2>1. DOMAIN v = {"str"}
    BY <1>5
  <2> QED
    BY <1>5, <2>1 DEF Only, Is
<1> QED
  BY <1>1, <1>2, <1>3, <1>4, <1>5 DEF IsScalar

(* The texts of numbers have one token, and tell the numbers apart.         *)
LEMMA NumberTexts ==
    /\ \A n : /\ IsSequence(Digits(n)) /\ Len(Digits(n)) = 1 /\ Range(Digits(n)) = {[digits |-> n]}
              /\ IsSequence(Decimal(n)) /\ Len(Decimal(n)) = 1 /\ Range(Decimal(n)) = {[decimal |-> n]}
    /\ \A n, m : /\ Digits(n) = Digits(m) => n = m
                 /\ Decimal(n) = Decimal(m) => n = m
                 /\ Digits(n) # Decimal(m)
    /\ IsSequence(<<NUL>>) /\ Len(<<NUL>>) = 1 /\ Range(<<NUL>>) = {NUL}
    /\ \A n : <<NUL>> # Decimal(n)
<1>1. ASSUME NEW x PROVE IsSequence(<<x>>) /\ Len(<<x>>) = 1 /\ Range(<<x>>) = {x}
  <2>1. DOMAIN <<x>> = {1} /\ <<x>>[1] = x /\ Len(<<x>>) = 1 /\ <<x>> \in Seq({x})
    OBVIOUS
  <2>2. Range(<<x>>) = {x}
    BY <2>1 DEF Range
  <2> QED
    BY <2>1, <2>2 DEF IsSequence
<1>2. ASSUME NEW n, NEW m
      PROVE  /\ [digits |-> n] = [digits |-> m] => n = m
             /\ [decimal |-> n] = [decimal |-> m] => n = m
             /\ [digits |-> n] # [decimal |-> m]
             /\ NUL # [decimal |-> n]
  <2>1. /\ DOMAIN [digits |-> n] = {"digits"} /\ DOMAIN [decimal |-> m] = {"decimal"}
        /\ DOMAIN [decimal |-> n] = {"decimal"} /\ DOMAIN NUL = {"byte"}
    BY DEF NUL
  <2>2. [digits |-> n].digits = n /\ [digits |-> m].digits = m
    OBVIOUS
  <2>3. [decimal |-> n].decimal = n /\ [decimal |-> m].decimal = m
    OBVIOUS
  <2>4. {"digits"} # {"decimal"} /\ {"byte"} # {"decimal"}
    OBVIOUS
  <2> QED
    BY <2>1, <2>2, <2>3, <2>4
<1>3. ASSUME NEW x, NEW y, <<x>> = <<y>> PROVE x = y
  <2>1. <<x>>[1] = <<y>>[1]
    BY <1>3
  <2> QED
    BY <2>1
<1> QED
  BY <1>1, <1>2, <1>3 DEF Digits, Decimal

(* JavaScript writes the score as Python does; Scala does.                  *)
JsWrites(v)    == Is(v, "float") => ~Whole(v) /\ ~(TieDown(v) /\ v.off = 0)
ScalaWrites(v) == Is(v, "float") => ~TieDown(v)

(* The three languages write a scalar at one length, and as Python does     *)
(* just when they are said to.                                              *)
LEMMA ScalarsAgree ==
    ASSUME NEW v, IsScalar(v)
    PROVE  /\ EqualWhen(canonical_scalar(v), cfScalar(v), JsWrites(v))
           /\ EqualWhen(canonical_scalar(v), canonicalScalar(v), ScalaWrites(v))
<1>1. ASSUME canonical_scalar(v) = cfScalar(v), canonical_scalar(v) = canonicalScalar(v),
             IsSequence(canonical_scalar(v)), ~Is(v, "float")
      PROVE  /\ EqualWhen(canonical_scalar(v), cfScalar(v), JsWrites(v))
             /\ EqualWhen(canonical_scalar(v), canonicalScalar(v), ScalaWrites(v))
  BY <1>1 DEF EqualWhen, JsWrites, ScalaWrites
<1>2. CASE Only(v, "null")
  <2>1. /\ Is(v, "null") /\ ~Is(v, "float")
        /\ ~Is(v, "bool") /\ ~Is(v, "int") /\ ~Is(v, "str")
    BY <1>2 DEF Only
  <2>2. /\ canonical_scalar(v) = <<NUL>> /\ cfScalar(v) = <<NUL>>
        /\ canonicalScalar(v) = <<NUL>>
    BY <2>1 DEF canonical_scalar, cfScalar, canonicalScalar, None
  <2> QED
    BY <1>1, <2>1, <2>2, NumberTexts
<1>3. CASE Only(v, "bool")
  <2>1. /\ Is(v, "bool") /\ ~Is(v, "float")
        /\ ~Is(v, "null") /\ ~Is(v, "int") /\ ~Is(v, "str")
    BY <1>3 DEF Only
  <2> DEFINE t == Digits(IF v.bool THEN 1 ELSE 0)
  <2>2. canonical_scalar(v) = t /\ cfScalar(v) = t /\ canonicalScalar(v) = t
    BY <2>1 DEF canonical_scalar, cfScalar, canonicalScalar
  <2> QED
    BY <1>1, <2>1, <2>2, NumberTexts
<1>4. CASE Only(v, "int")
  <2>1. /\ Is(v, "int") /\ ~Is(v, "float")
        /\ ~Is(v, "null") /\ ~Is(v, "bool") /\ ~Is(v, "str")
    BY <1>4 DEF Only
  <2> DEFINE t == Digits(v.int)
  <2>2. canonical_scalar(v) = t /\ cfScalar(v) = t /\ canonicalScalar(v) = t
    BY <2>1 DEF canonical_scalar, cfScalar, canonicalScalar
  <2> QED
    BY <1>1, <2>1, <2>2, NumberTexts
<1>5. CASE Only(v, "str") /\ IsSequence(v.str)
  <2>1. /\ Is(v, "str") /\ ~Is(v, "float")
        /\ ~Is(v, "null") /\ ~Is(v, "bool") /\ ~Is(v, "int")
    BY <1>5 DEF Only
  <2>2. canonical_scalar(v) = v.str /\ cfScalar(v) = v.str /\ canonicalScalar(v) = v.str
    BY <2>1 DEF canonical_scalar, cfScalar, canonicalScalar
  <2> QED
    BY <1>1, <1>5, <2>1, <2>2
<1>6. CASE Only(v, "float") /\ v.float \in Nat /\ v.off \in {-1, 0, 1}
  <2>1. /\ Is(v, "float") /\ ~Is(v, "null") /\ ~Is(v, "bool") /\ ~Is(v, "int") /\ ~Is(v, "str")
    BY <1>6 DEF Only
  <2> DEFINE d(up) == Decimals8(v, up)
  <2>2. /\ canonical_scalar(v) = Decimal(d(UpInPython(v))) /\ canonicalScalar(v) = Decimal(d(TRUE))
        /\ cfScalar(v) = IF Whole(v) THEN Digits(v.float \div One) ELSE Decimal(d(v.off >= 0))
    BY <2>1 DEF canonical_scalar, cfScalar, canonicalScalar, Fixed8
  <2>3. UpInPython(v) \in BOOLEAN /\ (TieDown(v) <=> v.float % 10 = 5 /\ ~UpInPython(v))
    <3>1. (v.float \div 10) % 2 \in {0, 1}
      BY <1>6
    <3> QED
      BY <1>6, <3>1 DEF UpInPython, TieDown
  <2>4. /\ d(UpInPython(v)) = d(TRUE) <=> ~TieDown(v)
        /\ d(UpInPython(v)) = d(v.off >= 0) <=> ~(TieDown(v) /\ v.off = 0)
    <3>1. /\ v.float \div 10 \in Int /\ v.float % 10 \in Int
      BY <1>6
    <3>2. /\ v.off < 0 => ~UpInPython(v)
          /\ v.off > 0 => UpInPython(v)
      BY <1>6 DEF UpInPython
    <3> QED
      BY <1>6, <2>3, <3>1, <3>2 DEF Decimals8
  <2> HIDE DEF d
  <2>5. EqualWhen(canonical_scalar(v), canonicalScalar(v), ScalaWrites(v))
    BY <2>1, <2>2, <2>4, NumberTexts DEF EqualWhen, ScalaWrites
  <2>6. EqualWhen(canonical_scalar(v), cfScalar(v), JsWrites(v))
    <3>1. CASE Whole(v)
      BY <2>1, <2>2, <3>1, NumberTexts DEF EqualWhen, JsWrites
    <3>2. CASE ~Whole(v)
      BY <2>1, <2>2, <2>4, <3>2, NumberTexts DEF EqualWhen, JsWrites
    <3> QED
      BY <3>1, <3>2
  <2> QED
    BY <2>5, <2>6
<1> QED
  BY <1>2, <1>3, <1>4, <1>5, <1>6, ScalarKinds

-----------------------------------------------------------------------------
(* Lists of scalars, and of those *)

(* What a list of n items is.                                               *)
ListOf(v, n) ==
    /\ n \in Nat /\ n = Len(v.list) /\ DOMAIN v.list = 1..n
    /\ Is(v, "list") /\ Items(v) = {v.list[k] : k \in 1..n}
    /\ v.list \in Seq(Items(v))

(* What passes for a list is one.                                           *)
LEMMA ListIs ==
    ASSUME NEW v, Is(v, "list"), IsSequence(v.list)
    PROVE  ListOf(v, Len(v.list))
<1>1. v.list \in Seq(Range(v.list)) /\ Items(v) = Range(v.list)
  BY DEF IsSequence, Items
<1>2. Len(v.list) \in Nat /\ DOMAIN v.list = 1..Len(v.list)
  BY <1>1, LenProperties
<1> QED
  BY <1>1, <1>2 DEF ListOf, Range

(* A scalar is no list, and an item of its own.                             *)
LEMMA ScalarIs ==
    ASSUME NEW v, IsScalar(v)
    PROVE  ~Is(v, "list") /\ Items(v) = {v} /\ IsFlat(v)
<1>1. ~Is(v, "list")
  BY ScalarKinds DEF Only
<1> QED
  BY <1>1 DEF Items, IsFlat

(* The items of the list written as texts agree just when all of them do.   *)
LEMMA ListsAgree ==
    ASSUME NEW v, NEW n, ListOf(v, n), NEW S, S = [k \in 1..n |-> S[k]],
           NEW T, T = [k \in 1..n |-> T[k]], NEW K,
           \A k \in 1..n : EqualWhen(S[k], T[k], v.list[k] \in K)
    PROVE  EqualWhen(Join(RS, S), Join(RS, T), Items(v) \subseteq K)
<1> DEFINE L == {k \in 1..n : v.list[k] \in K}
<1>1. Texts(S, n) /\ Texts(T, n)
  BY DEF EqualWhen, Texts, ListOf
<1>2. \A k \in 1..n : EqualWhen(S[k], T[k], k \in L)
  BY DEF EqualWhen
<1>3. 1..n \subseteq L <=> Items(v) \subseteq K
  BY DEF ListOf
<1> HIDE DEF L
<1>4. EqualWhen(Join(RS, S), Join(RS, T), 1..n \subseteq L)
  BY <1>1, <1>2, JoinEqualWhen
<1> QED
  BY <1>3, <1>4 DEF EqualWhen

(* Lists of scalars agree as scalars do.                                    *)
LEMMA FlatsAgree ==
    ASSUME NEW v, IsFlat(v)
    PROVE  /\ EqualWhen(canonical_flat(v), cfFlat(v), \A w \in Items(v) : JsWrites(w))
           /\ EqualWhen(canonical_flat(v), canonicalFlat(v), \A w \in Items(v) : ScalaWrites(w))
<1>1. CASE IsScalar(v)
  <2>1. ~Is(v, "list") /\ Items(v) = {v}
    BY <1>1, ScalarIs
  <2>2. /\ canonical_flat(v) = canonical_scalar(v) /\ cfFlat(v) = cfScalar(v)
        /\ canonicalFlat(v) = canonicalScalar(v)
    BY <2>1 DEF canonical_flat, cfFlat, canonicalFlat, Rendered
  <2> QED
    BY <1>1, <2>1, <2>2, ScalarsAgree DEF EqualWhen
<1>2. CASE IsListOf(v, IsScalar)
  <2> DEFINE n == Len(v.list)
             S == [k \in 1..n |-> canonical_scalar(v.list[k])]
             J == [k \in 1..n |-> cfScalar(v.list[k])]
             T == [k \in 1..n |-> canonicalScalar(v.list[k])]
             KJ == {w \in Items(v) : JsWrites(w)}
             KS == {w \in Items(v) : ScalaWrites(w)}
  <2>1. ListOf(v, n) /\ \A k \in DOMAIN v.list : IsScalar(v.list[k])
    BY <1>2, ListIs DEF IsListOf
  <2>2. Is(v, "list") /\ DOMAIN v.list = 1..n /\ \A k \in 1..n : v.list[k] \in Items(v)
    BY <2>1 DEF ListOf
  <2>3. ASSUME NEW k \in 1..n
        PROVE  /\ EqualWhen(S[k], J[k], v.list[k] \in KJ)
               /\ EqualWhen(S[k], T[k], v.list[k] \in KS)
    <3>1. IsScalar(v.list[k])
      BY <2>1, <2>2
    <3> DEFINE w == v.list[k]
    <3>2. w \in Items(v) /\ IsScalar(w)
      BY <2>2, <3>1
    <3>3. S[k] = canonical_scalar(w) /\ J[k] = cfScalar(w) /\ T[k] = canonicalScalar(w)
      OBVIOUS
    <3> HIDE DEF w, S, J, T
    <3> QED
      BY <3>2, <3>3, ScalarsAgree DEF EqualWhen, w
  <2>4. /\ canonical_flat(v) = Join(RS, S) /\ cfFlat(v) = Join(RS, J)
        /\ canonicalFlat(v) = Join(RS, T)
    BY <2>2 DEF canonical_flat, cfFlat, canonicalFlat, Rendered
  <2>5. /\ S = [k \in 1..n |-> S[k]] /\ J = [k \in 1..n |-> J[k]] /\ T = [k \in 1..n |-> T[k]]
    OBVIOUS
  <2> HIDE DEF n, S, J, T, KJ, KS
  <2>6. EqualWhen(Join(RS, S), Join(RS, J), Items(v) \subseteq KJ)
    BY <2>1, <2>3, <2>5, ListsAgree
  <2>7. EqualWhen(Join(RS, S), Join(RS, T), Items(v) \subseteq KS)
    BY <2>1, <2>3, <2>5, ListsAgree
  <2> QED
    BY <2>4, <2>6, <2>7 DEF EqualWhen, KJ, KS
<1> QED
  BY <1>1, <1>2 DEF IsFlat

(* The items of a value are scalars or lists of scalars; a scalar's and a   *)
(* list's own are.                                                          *)
AllItems(v) == UNION {Items(u) : u \in Items(v)}

(* Values agree as the scalars in them do.                                  *)
LEMMA ValuesAgree ==
    ASSUME NEW v, IsValue(v)
    PROVE  /\ EqualWhen(canonical_field(v), cf(v), \A w \in AllItems(v) : JsWrites(w))
           /\ EqualWhen(canonical_field(v), canonicalField(v),
                        \A w \in AllItems(v) : ScalaWrites(w))
<1>1. CASE IsScalar(v)
  <2>1. ~Is(v, "list") /\ Items(v) = {v} /\ IsFlat(v)
    BY <1>1, ScalarIs
  <2>2. /\ canonical_field(v) = canonical_flat(v) /\ cf(v) = cfFlat(v)
        /\ canonicalField(v) = canonicalFlat(v)
    BY <2>1 DEF canonical_field, cf, canonicalField, Rendered
  <2>3. AllItems(v) = Items(v)
    BY <2>1 DEF AllItems
  <2> QED
    BY <2>1, <2>2, <2>3, FlatsAgree DEF EqualWhen
<1>2. CASE IsListOf(v, IsFlat)
  <2> DEFINE n == Len(v.list)
             S == [k \in 1..n |-> canonical_flat(v.list[k])]
             J == [k \in 1..n |-> cfFlat(v.list[k])]
             T == [k \in 1..n |-> canonicalFlat(v.list[k])]
             KJ == {u \in Items(v) : \A w \in Items(u) : JsWrites(w)}
             KS == {u \in Items(v) : \A w \in Items(u) : ScalaWrites(w)}
  <2>1. ListOf(v, n) /\ \A k \in DOMAIN v.list : IsFlat(v.list[k])
    BY <1>2, ListIs DEF IsListOf
  <2>2. Is(v, "list") /\ DOMAIN v.list = 1..n /\ \A k \in 1..n : v.list[k] \in Items(v)
    BY <2>1 DEF ListOf
  <2>3. ASSUME NEW k \in 1..n
        PROVE  /\ EqualWhen(S[k], J[k], v.list[k] \in KJ)
               /\ EqualWhen(S[k], T[k], v.list[k] \in KS)
    <3>1. IsFlat(v.list[k])
      BY <2>1, <2>2
    <3> DEFINE u == v.list[k]
    <3>2. u \in Items(v) /\ IsFlat(u)
      BY <2>2, <3>1
    <3>3. S[k] = canonical_flat(u) /\ J[k] = cfFlat(u) /\ T[k] = canonicalFlat(u)
      OBVIOUS
    <3> HIDE DEF u, S, J, T
    <3> QED
      BY <3>2, <3>3, FlatsAgree DEF EqualWhen, u
  <2>4. /\ canonical_field(v) = Join(RS, S) /\ cf(v) = Join(RS, J)
        /\ canonicalField(v) = Join(RS, T)
    BY <2>2 DEF canonical_field, cf, canonicalField, Rendered
  <2>5. /\ S = [k \in 1..n |-> S[k]] /\ J = [k \in 1..n |-> J[k]] /\ T = [k \in 1..n |-> T[k]]
    OBVIOUS
  <2> HIDE DEF n, S, J, T, KJ, KS
  <2>6. EqualWhen(Join(RS, S), Join(RS, J), Items(v) \subseteq KJ)
    BY <2>1, <2>3, <2>5, ListsAgree
  <2>7. EqualWhen(Join(RS, S), Join(RS, T), Items(v) \subseteq KS)
    BY <2>1, <2>3, <2>5, ListsAgree
  <2> QED
    BY <2>4, <2>6, <2>7 DEF EqualWhen, KJ, KS, AllItems
<1>3. CASE IsListOf(v, IsScalar)
  <2>1. IsListOf(v, IsFlat)
    BY <1>3 DEF IsListOf, IsFlat
  <2> QED
    BY <1>2, <2>1
<1> QED
  BY <1>1, <1>2, <1>3 DEF IsValue, IsFlat

(* A list of fields as the grammar knows them.                              *)
IsFields(list) == list = [k \in 1..Len(list) |-> list[k]] /\ Len(list) \in Nat
                    /\ \A k \in 1..Len(list) : IsValue(list[k])

(* Lists of fields agree as the scores in them do.                          *)
LEMMA FieldsAgree ==
    ASSUME NEW list, IsFields(list)
    PROVE  /\ EqualWhen(canonical_bytes(list), canon(list),
                        \A w \in Floats(list) : ~Whole(w) /\ ~(TieDown(w) /\ w.off = 0))
           /\ EqualWhen(canonical_bytes(list), canonicalBytes(list),
                        \A w \in Floats(list) : ~TieDown(w))
<1> DEFINE n == Len(list)
           S == [k \in 1..n |-> canonical_field(list[k])]
           J == [k \in 1..n |-> cf(list[k])]
           T == [k \in 1..n |-> canonicalField(list[k])]
           KJ == {k \in 1..n : \A w \in AllItems(list[k]) : JsWrites(w)}
           KS == {k \in 1..n : \A w \in AllItems(list[k]) : ScalaWrites(w)}
<1>1. n \in Nat /\ DOMAIN list = 1..n /\ \A k \in 1..n : IsValue(list[k])
  BY DEF IsFields
<1>2. ASSUME NEW k \in 1..n
      PROVE  EqualWhen(S[k], J[k], k \in KJ) /\ EqualWhen(S[k], T[k], k \in KS)
  <2> DEFINE v == list[k]
  <2>1. IsValue(v)
    BY <1>1
  <2>2. S[k] = canonical_field(v) /\ J[k] = cf(v) /\ T[k] = canonicalField(v)
    OBVIOUS
  <2>3. /\ k \in KJ <=> \A w \in AllItems(v) : JsWrites(w)
        /\ k \in KS <=> \A w \in AllItems(v) : ScalaWrites(w)
    OBVIOUS
  <2> HIDE DEF v, S, J, T, KJ, KS
  <2> QED
    BY <2>1, <2>2, <2>3, ValuesAgree DEF EqualWhen
<1>3. /\ canonical_bytes(list) = Join(US, S) /\ canon(list) = Join(US, J)
      /\ canonicalBytes(list) = Join(US, T)
  BY <1>1 DEF canonical_bytes, canon, canonicalBytes
<1>4. /\ S = [k \in 1..n |-> S[k]] /\ J = [k \in 1..n |-> J[k]] /\ T = [k \in 1..n |-> T[k]]
  OBVIOUS
<1>5. Floats(list) = {w \in UNION {AllItems(list[k]) : k \in 1..n} : Is(w, "float")}
  <2>1. Range(list) = {list[k] : k \in 1..n}
    BY <1>1 DEF Range
  <2> QED
    BY <2>1 DEF Floats, AllItems
<1>6. 1..n \subseteq KJ <=>
          \A w \in Floats(list) : ~Whole(w) /\ ~(TieDown(w) /\ w.off = 0)
  BY <1>5 DEF JsWrites
<1>7. 1..n \subseteq KS <=> \A w \in Floats(list) : ~TieDown(w)
  BY <1>5 DEF ScalaWrites
<1> HIDE DEF n, S, J, T, KJ, KS
<1>8. Texts(S, n) /\ Texts(J, n) /\ Texts(T, n)
  BY <1>1, <1>2, <1>4 DEF Texts, EqualWhen
<1>9. EqualWhen(Join(US, S), Join(US, J), 1..n \subseteq KJ)
  BY <1>2, <1>8, JoinEqualWhen
<1>10. EqualWhen(Join(US, S), Join(US, T), 1..n \subseteq KS)
  BY <1>2, <1>8, JoinEqualWhen
<1> QED
  BY <1>3, <1>6, <1>7, <1>9, <1>10 DEF EqualWhen

-----------------------------------------------------------------------------
(* The invariant of FieldLists: both lists are lists of values.             *)
ListsInv == ours \in Seq(Value) /\ theirs \in Seq(Value)

LEMMA ListsInvariant == ListsSpec => []ListsInv
<1>1. ListsInit => ListsInv
  BY DEF ListsInit, ListsInv
<1>2. ListsInv /\ [ListsNext]_lists => ListsInv'
  <2> SUFFICES ASSUME ListsInv, [ListsNext]_lists PROVE ListsInv'
    OBVIOUS
  <2>1. \A list \in Seq(Value) : \A v \in Value : Append(list, v) \in Seq(Value)
    BY AppendProperties
  <2>2. ASSUME NEW v \in Value, Add(ours, v), UNCHANGED theirs PROVE ListsInv'
    BY <2>1, <2>2 DEF ListsInv, Add
  <2>3. ASSUME NEW v \in Value, Add(theirs, v), UNCHANGED ours PROVE ListsInv'
    BY <2>1, <2>3 DEF ListsInv, Add
  <2>4. CASE UNCHANGED lists
    BY <2>4 DEF ListsInv, lists
  <2> QED
    BY <2>2, <2>3, <2>4 DEF ListsNext
<1> QED
  BY <1>1, <1>2, PTL DEF ListsSpec

(* A list of values is one of fields.                                       *)
LEMMA ValuesAreFields ==
    ASSUME NEW list \in Seq(Value)
    PROVE  IsFields(list)
<1>1. Len(list) \in Nat /\ DOMAIN list = 1..Len(list) /\ \A k \in 1..Len(list) : list[k] \in Value
  BY LenProperties, ElementOfSeq
<1>2. list = [k \in 1..Len(list) |-> list[k]]
  <2>1. list \in [1..Len(list) -> Value]
    BY LenProperties
  <2> QED
    BY <2>1
<1> QED
  BY <1>1, <1>2, FieldListsAssumption DEF IsFields

(* The languages agree but for the exceptions of the property, for any      *)
(* values and any number of them (canonical_field, canonicalField, cf).     *)
THEOREM AgreeExactly == ListsSpec => []LanguagesAgreeExactly
<1>1. ListsInv => LanguagesAgreeExactly
  <2> SUFFICES ASSUME ListsInv PROVE LanguagesAgreeExactly
    OBVIOUS
  <2>1. IsFields(ours)
    BY ValuesAreFields DEF ListsInv
  <2> QED
    BY <2>1, FieldsAgree DEF LanguagesAgreeExactly, EqualWhen
<1> QED
  BY <1>1, ListsInvariant, PTL

-----------------------------------------------------------------------------
(* Fields told apart *)

(* Separators are no numbers, and two of them differ.                       *)
LEMMA SeparatorsApart ==
    /\ US # RS /\ US # NUL
    /\ \A n : US # [digits |-> n] /\ US # [decimal |-> n]
<1>1. US.byte = 31 /\ RS.byte = 30 /\ NUL.byte = 0
  BY DEF US, RS, NUL
<1>2. /\ DOMAIN US = {"byte"}
      /\ \A n : DOMAIN [digits |-> n] = {"digits"} /\ DOMAIN [decimal |-> n] = {"decimal"}
  BY DEF US
<1>3. {"byte"} # {"digits"} /\ {"byte"} # {"decimal"}
  OBVIOUS
<1> QED
  BY <1>1, <1>2, <1>3

(* A string among the items of a list.                                      *)
LEMMA StringItem ==
    ASSUME NEW u, IsFlat(u), Is(u, "str")
    PROVE  u = [str |-> u.str] /\ IsSequence(u.str) /\ canonical_flat(u) = u.str
<1>1. IsScalar(u)
  <2>1. ASSUME IsListOf(u, IsScalar) PROVE FALSE
    <3>1. DOMAIN u = {"list"}
      BY <2>1 DEF IsListOf
    <3> QED
      BY <3>1 DEF Is
  <2> QED
    BY <2>1 DEF IsFlat
<1>2. Only(u, "str") /\ u = [str |-> u.str] /\ IsSequence(u.str)
  BY <1>1, ScalarKinds DEF Only
<1>3. canonical_flat(u) = canonical_scalar(u)
  BY <1>2 DEF canonical_flat, Rendered, Only
<1>4. canonical_scalar(u) = u.str
  <2>1. Is(u, "str") /\ ~Is(u, "null") /\ ~Is(u, "bool") /\ ~Is(u, "int") /\ ~Is(u, "float")
    BY <1>2 DEF Only
  <2> QED
    BY <2>1 DEF canonical_scalar
<1> QED
  BY <1>2, <1>3, <1>4

(* The text of a list of strings: its n strings S, joined.                  *)
Strings(v, n, S) ==
    /\ v = [list |-> v.list] /\ v.list = [k \in 1..n |-> [str |-> S[k]]]
    /\ Texts(S, n) /\ canonical_field(v) = Join(RS, S)
    /\ \A k \in 1..n : /\ S[k] # <<>> /\ US \notin Range(S[k])
                       /\ RS \notin Range(S[k])

(* A list that is not to be mistaken is one of strings.                     *)
LEMMA ListText ==
    ASSUME NEW v, IsValue(v), Unmistakable(v), Is(v, "list")
    PROVE  \E n : \E S : Strings(v, n, S)
<1>1. IsListOf(v, IsFlat)
  <2>1. ~IsScalar(v)
    BY ScalarIs
  <2> QED
    BY <2>1 DEF IsValue, IsFlat, IsListOf
<1> DEFINE n == Len(v.list)
           S == [k \in 1..n |-> v.list[k].str]
<1>2. ListOf(v, n) /\ v = [list |-> v.list] /\ \A k \in DOMAIN v.list : IsFlat(v.list[k])
  BY <1>1, ListIs DEF IsListOf
<1>3. n \in Nat /\ DOMAIN v.list = 1..n /\ v.list \in Seq(Items(v))
  BY <1>2 DEF ListOf
<1>4. ASSUME NEW k \in 1..n
      PROVE  /\ v.list[k] = [str |-> S[k]] /\ IsSequence(S[k])
             /\ canonical_flat(v.list[k]) = S[k]
             /\ S[k] # <<>> /\ US \notin Range(S[k]) /\ RS \notin Range(S[k])
  <2> DEFINE u == v.list[k]
  <2>1. IsFlat(u) /\ Is(u, "str") /\ u.str # <<>> /\ Separators \cap Range(u.str) = {}
    BY <1>2, <1>3 DEF Unmistakable
  <2>2. S[k] = u.str
    OBVIOUS
  <2> HIDE DEF u, S
  <2>3. u = [str |-> u.str] /\ IsSequence(u.str) /\ canonical_flat(u) = u.str
    BY <2>1, StringItem
  <2> QED
    BY <2>1, <2>2, <2>3 DEF Separators, u
<1>5. canonical_field(v) = Join(RS, S)
  <2> DEFINE R == [k \in DOMAIN v.list |-> canonical_flat(v.list[k])]
  <2>1. canonical_field(v) = Join(RS, R)
    BY DEF canonical_field, Rendered
  <2>2. R = S
    <3>1. R = [k \in 1..n |-> canonical_flat(v.list[k])]
      BY <1>3
    <3> HIDE DEF R
    <3> QED
      BY <1>4, <3>1
  <2> QED
    BY <2>1, <2>2
<1>6. v.list = [k \in 1..n |-> v.list[k]] /\ S = [k \in 1..n |-> S[k]]
  <2>1. v.list \in [1..n -> Items(v)]
    BY <1>3, LenProperties
  <2> QED
    BY <2>1
<1> HIDE DEF n, S
<1>7. v.list = [k \in 1..n |-> [str |-> S[k]]]
  BY <1>4, <1>6
<1>8. Texts(S, n)
  BY <1>3, <1>4, <1>6 DEF Texts
<1>9. Strings(v, n, S)
  BY <1>2, <1>4, <1>5, <1>7, <1>8 DEF Strings
<1> QED
  BY <1>9

(* A field with a type of its own, and the text it has.                     *)
FieldIs(v) ==
    \/ Only(v, "null") /\ v = [null |-> 0] /\ canonical_field(v) = <<NUL>>
    \/ /\ Only(v, "bool") /\ v = [bool |-> v.bool] /\ v.bool \in BOOLEAN
       /\ canonical_field(v) = Digits(IF v.bool THEN 1 ELSE 0)
    \/ /\ Only(v, "int") /\ v = [int |-> v.int]
       /\ canonical_field(v) = Digits(v.int)
    \/ Only(v, "float") /\ canonical_field(v) = Fixed8(v, UpInPython(v))
    \/ /\ Only(v, "str") /\ v = [str |-> v.str] /\ IsSequence(v.str)
       /\ US \notin Range(v.str) /\ canonical_field(v) = v.str
    \/ Only(v, "list") /\ \E n : \E S : Strings(v, n, S)

(* A value is of one kind.                                                  *)
LEMMA FieldKinds ==
    ASSUME NEW v, IsValue(v), Unmistakable(v)
    PROVE  FieldIs(v)
<1>1. CASE IsScalar(v)
  <2>1. canonical_field(v) = canonical_scalar(v)
    BY <1>1, ScalarIs DEF canonical_field, canonical_flat, Rendered
  <2>2. ASSUME NEW t, Only(v, t), t \in {"null", "bool", "int", "float", "str"}
        PROVE  canonical_field(v) = CASE t = "null"  -> <<NUL>>
                                      [] t = "bool"  -> Digits(IF v.bool THEN 1 ELSE 0)
                                      [] t = "int"   -> Digits(v.int)
                                      [] t = "float" -> Fixed8(v, UpInPython(v))
                                      [] t = "str"   -> v.str
    <3>1. /\ Is(v, "null") <=> t = "null"
          /\ Is(v, "bool") <=> t = "bool"
          /\ Is(v, "int") <=> t = "int"
          /\ Is(v, "float") <=> t = "float"
          /\ Is(v, "str") <=> t = "str"
      BY <2>2 DEF Only
    <3> QED
      BY <2>1, <2>2, <3>1 DEF canonical_scalar
  <2>3. Only(v, "str") => US \notin Range(v.str)
    BY DEF Unmistakable, Only, Separators
  <2>4. /\ Only(v, "null") => canonical_field(v) = <<NUL>>
        /\ Only(v, "bool") => canonical_field(v) = Digits(IF v.bool THEN 1 ELSE 0)
        /\ Only(v, "int") => canonical_field(v) = Digits(v.int)
        /\ Only(v, "float") => canonical_field(v) = Fixed8(v, UpInPython(v))
        /\ Only(v, "str") => canonical_field(v) = v.str
    BY <2>2
  <2> QED
    BY <1>1, <2>3, <2>4, ScalarKinds DEF FieldIs
<1>2. CASE ~IsScalar(v)
  <2>1. DOMAIN v = {"list"}
    BY <1>2 DEF IsValue, IsFlat, IsListOf
  <2>2. Only(v, "list")
    BY <2>1 DEF Only, Is
  <2>3. Is(v, "list")
    BY <2>2 DEF Only
  <2>4. \E n : \E S : Strings(v, n, S)
    BY <2>3, ListText
  <2> QED
    BY <2>2, <2>4 DEF FieldIs
<1> QED
  BY <1>1, <1>2

(* The text of a field has no separator of fields.                          *)
LEMMA FieldText ==
    ASSUME NEW v, IsValue(v), Unmistakable(v)
    PROVE  IsSequence(canonical_field(v)) /\ US \notin Range(canonical_field(v))
<1>1. IsSequence(canonical_field(v))
  BY ValuesAgree DEF EqualWhen
<1>2. ASSUME canonical_field(v) = <<NUL>> PROVE US \notin Range(canonical_field(v))
  BY <1>2, NumberTexts, SeparatorsApart
<1>3. ASSUME NEW m, canonical_field(v) = Digits(m) PROVE US \notin Range(canonical_field(v))
  BY <1>3, NumberTexts, SeparatorsApart
<1>4. ASSUME canonical_field(v) = Fixed8(v, UpInPython(v))
      PROVE  US \notin Range(canonical_field(v))
  BY <1>4, NumberTexts, SeparatorsApart DEF Fixed8
<1>5. ASSUME canonical_field(v) = v.str, US \notin Range(v.str)
      PROVE  US \notin Range(canonical_field(v))
  BY <1>5
<1>6. ASSUME NEW n, NEW S, Strings(v, n, S) PROVE US \notin Range(canonical_field(v))
  <2>1. Texts(S, n) /\ canonical_field(v) = Join(RS, S) /\ \A k \in 1..n : US \notin Range(S[k])
    BY <1>6 DEF Strings
  <2>2. Range(canonical_field(v)) \subseteq {RS} \cup TokensOf(S, n)
    BY <2>1, JoinTokens
  <2>3. US \notin TokensOf(S, n)
    BY <2>1 DEF TokensOf
  <2> QED
    BY <2>2, <2>3, SeparatorsApart
<1>7. FieldIs(v)
  BY FieldKinds
<1>8. US \notin Range(canonical_field(v))
  BY <1>2, <1>3, <1>4, <1>5, <1>6, <1>7 DEF FieldIs
<1> QED
  BY <1>1, <1>8

(* Lists of strings with one text are the same.                             *)
LEMMA ListsTell ==
    ASSUME NEW v, NEW n, NEW S, Strings(v, n, S), NEW w, NEW m, NEW T, Strings(w, m, T),
           canonical_field(v) = canonical_field(w)
    PROVE  v = w
<1>1. /\ Texts(S, n) /\ Texts(T, m) /\ Join(RS, S) = Join(RS, T)
      /\ \A k \in 1..n : S[k] # <<>> /\ RS \notin Range(S[k])
      /\ \A k \in 1..m : T[k] # <<>> /\ RS \notin Range(T[k])
  BY DEF Strings
<1>2. n \in Nat /\ m \in Nat /\ S = [k \in 1..n |-> S[k]] /\ T = [k \in 1..m |-> T[k]]
  BY <1>1 DEF Texts
<1>3. n # 0 => Join(RS, S) # <<>>
  <2>1. n # 0 => 1 \in 1..n
    BY <1>2
  <2> QED
    BY <1>1, <2>1, JoinTokens
<1>4. m # 0 => Join(RS, T) # <<>>
  <2>1. m # 0 => 1 \in 1..m
    BY <1>2
  <2> QED
    BY <1>1, <2>1, JoinTokens
<1>5. n = 0 <=> m = 0
  <2>1. n = 0 => Join(RS, S) = <<>>
    BY <1>1, JoinTokens
  <2>2. m = 0 => Join(RS, T) = <<>>
    BY <1>1, JoinTokens
  <2> QED
    BY <1>1, <1>3, <1>4, <2>1, <2>2
<1>6. n = m /\ S = T
  <2>1. CASE n = 0
    <3>1. m = 0
      BY <1>5, <2>1
    <3>2. 1..0 = {}
      OBVIOUS
    <3> QED
      BY <1>2, <2>1, <3>1, <3>2
  <2>2. CASE n # 0
    <3>1. m # 0
      BY <1>5, <2>2
    <3> QED
      BY <1>1, <2>2, <3>1, JoinApart
  <2> QED
    BY <2>1, <2>2
<1> QED
  BY <1>6 DEF Strings

(* Fields of one type and one text are the same, scores up to 8 decimals.   *)
LEMMA FieldTells ==
    ASSUME NEW v, IsValue(v), Unmistakable(v), NEW w, IsValue(w), Unmistakable(w),
           DOMAIN v = DOMAIN w, canonical_field(v) = canonical_field(w)
    PROVE  SameUpTo8Decimals(v, w)
<1>1. FieldIs(v) /\ FieldIs(w)
  BY FieldKinds
<1>2. \A t : Is(v, t) <=> Is(w, t)
  BY DEF Is
<1>3. \A t : Only(v, t) <=> Only(w, t)
  BY <1>2 DEF Only
<1>4. \A s, t \in {"null", "bool", "int", "float", "str", "list"} :
          Only(v, s) /\ Only(v, t) => s = t
  BY DEF Only
<1>5. CASE Only(v, "float")
  BY <1>5 DEF SameUpTo8Decimals, Only
<1>6. CASE Only(v, "null")
  <2>1. v = [null |-> 0] /\ w = [null |-> 0]
    BY <1>1, <1>3, <1>4, <1>6 DEF FieldIs
  <2> QED
    BY <1>6, <2>1 DEF SameUpTo8Decimals, Only
<1>7. CASE Only(v, "bool")
  <2>1. /\ v = [bool |-> v.bool] /\ w = [bool |-> w.bool] /\ {v.bool, w.bool} \subseteq BOOLEAN
        /\ Digits(IF v.bool THEN 1 ELSE 0) = Digits(IF w.bool THEN 1 ELSE 0)
    BY <1>1, <1>3, <1>4, <1>7 DEF FieldIs
  <2>2. (IF v.bool THEN 1 ELSE 0) = (IF w.bool THEN 1 ELSE 0)
    BY <2>1, NumberTexts
  <2>3. v.bool = w.bool
    <3> DEFINE x == v.bool
               y == w.bool
    <3>1. x \in BOOLEAN /\ y \in BOOLEAN /\ (IF x THEN 1 ELSE 0) = (IF y THEN 1 ELSE 0)
      BY <2>1, <2>2
    <3> HIDE DEF x, y
    <3>2. x = y
      BY <3>1
    <3> QED
      BY <3>2 DEF x, y
  <2>4. v = w
    BY <2>1, <2>3
  <2> QED
    BY <1>7, <2>4 DEF SameUpTo8Decimals, Only
<1>8. CASE Only(v, "int")
  <2>1. v = [int |-> v.int] /\ w = [int |-> w.int] /\ Digits(v.int) = Digits(w.int)
    BY <1>1, <1>3, <1>4, <1>8 DEF FieldIs
  <2>2. v.int = w.int
    BY <2>1, NumberTexts
  <2>3. v = w
    BY <2>1, <2>2
  <2> QED
    BY <1>8, <2>3 DEF SameUpTo8Decimals, Only
<1>9. CASE Only(v, "str")
  <2>1. v = [str |-> v.str] /\ w = [str |-> w.str] /\ v.str = w.str
    BY <1>1, <1>3, <1>4, <1>9 DEF FieldIs
  <2>2. v = w
    BY <2>1
  <2> QED
    BY <1>9, <2>2 DEF SameUpTo8Decimals, Only
<1>10. CASE Only(v, "list")
  <2>1. PICK n, S : Strings(v, n, S)
    BY <1>1, <1>4, <1>10 DEF FieldIs
  <2>2. PICK m, T : Strings(w, m, T)
    BY <1>1, <1>3, <1>4, <1>10 DEF FieldIs
  <2>3. v = w
    BY <2>1, <2>2, ListsTell
  <2> QED
    BY <1>10, <2>3 DEF SameUpTo8Decimals, Only
<1> QED
  BY <1>1, <1>5, <1>6, <1>7, <1>8, <1>9, <1>10 DEF FieldIs

(* Fields not to be mistaken.                                               *)
Clear(list) == IsFields(list) /\ \A k \in 1..Len(list) : Unmistakable(list[k])

(* A list of them with the bytes of some texts joined has those texts.      *)
LEMMA TextsTell ==
    ASSUME NEW list, Clear(list), list # <<>>, NEW m, NEW T, Texts(T, m), m # 0,
           \A k \in 1..m : US \notin Range(T[k]),
           canonical_bytes(list) = Join(US, T)
    PROVE  Len(list) = m /\ \A k \in 1..m : canonical_field(list[k]) = T[k]
<1> DEFINE n == Len(list)
           S == [k \in 1..n |-> canonical_field(list[k])]
<1>1. /\ list = [k \in 1..n |-> list[k]] /\ n \in Nat
      /\ \A k \in 1..n : IsValue(list[k]) /\ Unmistakable(list[k])
  BY DEF Clear, IsFields
<1>2. canonical_bytes(list) = Join(US, S)
  <2>1. DOMAIN list = 1..n
    BY <1>1
  <2> QED
    BY <2>1 DEF canonical_bytes
<1>3. \A k \in 1..n : IsSequence(S[k]) /\ US \notin Range(S[k])
  BY <1>1, FieldText
<1>4. /\ S = [k \in 1..n |-> S[k]]
      /\ \A k \in 1..n : S[k] = canonical_field(list[k])
  OBVIOUS
<1>5. n # 0
  <2>1. 1..0 = {} /\ <<>> = [k \in {} |-> 0]
    OBVIOUS
  <2> QED
    BY <1>1, <2>1
<1> HIDE DEF n, S
<1>6. Texts(S, n)
  BY <1>1, <1>3, <1>4 DEF Texts
<1>7. n = m /\ S = T
  BY <1>2, <1>3, <1>5, <1>6, JoinApart
<1> QED
  BY <1>4, <1>7 DEF n

(* Lists of them with the same bytes have as many fields, of the same texts. *)
LEMMA FieldsTell ==
    ASSUME NEW list, Clear(list), list # <<>>, NEW other, Clear(other), other # <<>>,
           canonical_bytes(list) = canonical_bytes(other)
    PROVE  /\ Len(list) = Len(other)
           /\ \A k \in 1..Len(list) : canonical_field(list[k]) = canonical_field(other[k])
<1> DEFINE m == Len(other)
           T == [k \in 1..m |-> canonical_field(other[k])]
<1>1. /\ other = [k \in 1..m |-> other[k]] /\ m \in Nat
      /\ \A k \in 1..m : IsValue(other[k]) /\ Unmistakable(other[k])
  BY DEF Clear, IsFields
<1>2. canonical_bytes(other) = Join(US, T)
  <2>1. DOMAIN other = 1..m
    BY <1>1
  <2> QED
    BY <2>1 DEF canonical_bytes
<1>3. \A k \in 1..m : IsSequence(T[k]) /\ US \notin Range(T[k])
  BY <1>1, FieldText
<1>4. /\ T = [k \in 1..m |-> T[k]]
      /\ \A k \in 1..m : T[k] = canonical_field(other[k])
  OBVIOUS
<1>5. m # 0
  <2>1. 1..0 = {} /\ <<>> = [k \in {} |-> 0]
    OBVIOUS
  <2> QED
    BY <1>1, <2>1
<1> HIDE DEF m, T
<1>6. Texts(T, m)
  BY <1>1, <1>3, <1>4 DEF Texts
<1>7. Len(list) = m /\ \A k \in 1..m : canonical_field(list[k]) = T[k]
  BY <1>2, <1>3, <1>5, <1>6, TextsTell
<1> QED
  BY <1>4, <1>7 DEF m

(* Equal bytes mean as many fields and, of one type, the same               *)
(* (canonical_bytes, audit_chain.py:66-69), for any values and number.      *)
THEOREM TellApart == ListsSpec => []BytesTellFieldsApart
<1>1. ListsInv => BytesTellFieldsApart
  <2> SUFFICES ASSUME ListsInv, ours # <<>>, theirs # <<>>,
                      \A k \in DOMAIN ours : Unmistakable(ours[k]),
                      \A k \in DOMAIN theirs : Unmistakable(theirs[k]),
                      canonical_bytes(ours) = canonical_bytes(theirs)
               PROVE  /\ Len(ours) = Len(theirs)
                      /\ \A k \in DOMAIN ours :
                           DOMAIN ours[k] = DOMAIN theirs[k]
                               => SameUpTo8Decimals(ours[k], theirs[k])
    BY DEF BytesTellFieldsApart
  <2>1. IsFields(ours) /\ IsFields(theirs)
    BY ValuesAreFields DEF ListsInv
  <2>2. DOMAIN ours = 1..Len(ours) /\ DOMAIN theirs = 1..Len(theirs)
    BY <2>1 DEF IsFields
  <2>3. Clear(ours) /\ Clear(theirs)
    BY <2>1, <2>2 DEF Clear
  <2>4. /\ Len(ours) = Len(theirs)
        /\ \A k \in 1..Len(ours) : canonical_field(ours[k]) = canonical_field(theirs[k])
    BY <2>3, FieldsTell
  <2>5. ASSUME NEW k \in DOMAIN ours, DOMAIN ours[k] = DOMAIN theirs[k]
        PROVE  SameUpTo8Decimals(ours[k], theirs[k])
    <3> DEFINE v == ours[k]
               w == theirs[k]
    <3>1. /\ IsValue(v) /\ Unmistakable(v) /\ IsValue(w) /\ Unmistakable(w)
          /\ DOMAIN v = DOMAIN w /\ canonical_field(v) = canonical_field(w)
      BY <2>1, <2>2, <2>3, <2>4, <2>5 DEF IsFields, Clear
    <3> HIDE DEF v, w
    <3>2. SameUpTo8Decimals(v, w)
      BY <3>1, FieldTells
    <3> QED
      BY <3>2 DEF v, w
  <2> QED
    BY <2>4, <2>5
<1> QED
  BY <1>1, ListsInvariant, PTL

-----------------------------------------------------------------------------
(* The fields of an alert *)

(* What a field of an alert holds, filled, altered or cleared as it may be. *)
Fit(f, x) ==
    /\ f = "alert_id"   => \E b : x = Str(sha256Hex(b))
    /\ f = "detector"   => \E t \in Detector : x = Str(t)
    /\ f = "trader_id"  => \E t \in Trader : x = Str(t)
    /\ f = "instrument" => \E t \in Instrument : x = Str(t)
    /\ f \in {"window_start", "window_end", "created_at"} => \E n \in Int : x = Int32(n)
    /\ f = "severity"   => \E n \in 1..5 : x = Int32(n)
    /\ f = "rule_score" => x \in RuleScore
    /\ f = "ml_score"   => x = Null \/ x \in MlScore
    /\ f \in {"shap_top_features", "triggering_event_ids"} => Is(x, "list")
    /\ f = "triggering_event_ids" => x = Empty
    /\ f = "regulation_refs" => x = Empty \/ \E t \in Detector : x = RegRefs[t]
    /\ f = "desk"       => x = Str(Word("equity"))

BodyFields ==
    {"alert_id", "detector", "trader_id", "instrument", "window_start", "window_end",
     "severity", "rule_score", "ml_score", "shap_top_features", "triggering_event_ids",
     "regulation_refs", "desk", "created_at"}

Fits(a) ==
    /\ DOMAIN a = BodyFields \cup {"audit_hash"}
    /\ \A f \in BodyFields : Fit(f, a[f])

(* A string, or a whole number.                                             *)
LEMMA PlainFields ==
    /\ \A t : /\ DOMAIN Str(t) = {"str"} /\ Str(t).str = t
              /\ IsSequence(t) => IsScalar(Str(t))
    /\ \A n : /\ DOMAIN Int32(n) = {"int"} /\ Int32(n).int = n
              /\ n \in Int => IsScalar(Int32(n))
    /\ DOMAIN Null = {"null"} /\ IsScalar(Null)
    /\ DOMAIN Empty = {"list"} /\ Empty.list = <<>> /\ IsListOf(Empty, IsScalar)
<1>1. \A t : DOMAIN Str(t) = {"str"} /\ Str(t).str = t
  BY DEF Str
<1>2. \A n : DOMAIN Int32(n) = {"int"} /\ Int32(n).int = n
  BY DEF Int32
<1>3. DOMAIN Null = {"null"}
  BY DEF Null
<1>4. DOMAIN Empty = {"list"} /\ Empty.list = <<>> /\ Empty = [list |-> Empty.list]
  BY DEF Empty
<1>5. \A t : IsSequence(t) => IsScalar(Str(t))
  BY <1>1 DEF IsScalar, Is, Str
<1>6. \A n : n \in Int => IsScalar(Int32(n))
  BY DEF IsScalar, Int32
<1>7. IsScalar(Null)
  BY DEF IsScalar, Null
<1>8. IsSequence(<<>>) /\ DOMAIN <<>> = {}
  <2>1. DOMAIN <<>> = {} /\ \A X : <<>> \in Seq(X)
    OBVIOUS
  <2> QED
    BY <2>1 DEF IsSequence
<1>9. IsListOf(Empty, IsScalar)
  BY <1>4, <1>8 DEF IsListOf, Is
<1> QED
  BY <1>1, <1>2, <1>3, <1>4, <1>5, <1>6, <1>7, <1>9

(* A text without separators.                                               *)
LEMMA TextIs ==
    ASSUME NEW t, IsName(t)
    PROVE  /\ IsValue(Str(t)) /\ Unmistakable(Str(t)) /\ DOMAIN Str(t) = {"str"}
           /\ \A w \in AllItems(Str(t)) : ~Is(w, "float")
<1>1. IsScalar(Str(t)) /\ DOMAIN Str(t) = {"str"} /\ Str(t).str = t
  BY PlainFields DEF IsName
<1>2. IsValue(Str(t)) /\ Unmistakable(Str(t))
  BY <1>1 DEF IsValue, IsFlat, Unmistakable, Is, IsName
<1>3. Items(Str(t)) = {Str(t)}
  BY <1>1, ScalarIs
<1> QED
  BY <1>1, <1>2, <1>3 DEF AllItems, Is

(* A whole number.                                                          *)
LEMMA NumberIs ==
    ASSUME NEW n \in Int
    PROVE  /\ IsValue(Int32(n)) /\ Unmistakable(Int32(n)) /\ DOMAIN Int32(n) = {"int"}
           /\ \A w \in AllItems(Int32(n)) : ~Is(w, "float")
<1>1. IsScalar(Int32(n)) /\ DOMAIN Int32(n) = {"int"}
  BY PlainFields
<1>2. IsValue(Int32(n)) /\ Unmistakable(Int32(n))
  BY <1>1 DEF IsValue, IsFlat, Unmistakable, Is
<1>3. Items(Int32(n)) = {Int32(n)}
  BY <1>1, ScalarIs
<1> QED
  BY <1>1, <1>2, <1>3 DEF AllItems, Is

(* No value.                                                                *)
LEMMA NullIs ==
    /\ IsValue(Null) /\ Unmistakable(Null) /\ canonical_field(Null) = <<NUL>>
    /\ \A w \in AllItems(Null) : ~Is(w, "float")
<1>1. IsScalar(Null) /\ DOMAIN Null = {"null"}
  BY PlainFields
<1>2. IsValue(Null) /\ Unmistakable(Null)
  BY <1>1 DEF IsValue, IsFlat, Unmistakable, Is
<1>3. Items(Null) = {Null} /\ ~Is(Null, "list") /\ Is(Null, "null")
  BY <1>1, ScalarIs DEF Is
<1>4. canonical_field(Null) = <<NUL>>
  <2>1. canonical_field(Null) = canonical_scalar(Null)
    BY <1>3 DEF canonical_field, canonical_flat, Rendered
  <2> QED
    BY <1>1, <2>1 DEF canonical_scalar, Is
<1> QED
  BY <1>1, <1>2, <1>3, <1>4 DEF AllItems, Is

(* A score.                                                                 *)
LEMMA ScoreIs ==
    ASSUME NEW s \in RuleScore \cup MlScore
    PROVE  /\ IsValue(s) /\ Unmistakable(s) /\ DOMAIN s = {"float", "off"}
           /\ Is(s, "float") /\ AllItems(s) = {s} /\ canonical_field(s) # <<NUL>>
           /\ s.float \in 0..One /\ s.float \in Nat
<1>1. IsScalar(s) /\ Is(s, "float") /\ s.float \in 0..One
  BY AlertAssumption DEF Probability
<1>2. Only(s, "float") /\ s = [float |-> s.float, off |-> s.off] /\ s.float \in Nat
  BY <1>1, ScalarKinds DEF Only
<1>3. DOMAIN s = {"float", "off"}
  BY <1>2
<1>4. IsValue(s) /\ Unmistakable(s)
  BY <1>1, <1>3 DEF IsValue, IsFlat, Unmistakable, Is
<1>5. Items(s) = {s} /\ ~Is(s, "list")
  BY <1>1, ScalarIs
<1>6. canonical_field(s) = Fixed8(s, UpInPython(s))
  <2>1. canonical_field(s) = canonical_scalar(s)
    BY <1>5 DEF canonical_field, canonical_flat, Rendered
  <2>2. /\ Is(s, "float") /\ ~Is(s, "null") /\ ~Is(s, "bool") /\ ~Is(s, "int")
        /\ ~Is(s, "str")
    BY <1>2 DEF Only
  <2> QED
    BY <2>1, <2>2 DEF canonical_scalar
<1>7. canonical_field(s) # <<NUL>>
  BY <1>6, NumberTexts DEF Fixed8
<1> QED
  BY <1>1, <1>2, <1>3, <1>4, <1>5, <1>7 DEF AllItems

(* The references of a detector, and none.                                  *)
LEMMA RefsAre ==
    ASSUME NEW x, x = Empty \/ \E t \in Detector : x = RegRefs[t]
    PROVE  /\ IsValue(x) /\ Unmistakable(x) /\ DOMAIN x = {"list"}
           /\ \A w \in AllItems(x) : ~Is(w, "float")
<1>1. IsListOf(x, IsReference)
  <2>1. IsListOf(Empty, IsReference)
    <3>1. DOMAIN <<>> = {}
      OBVIOUS
    <3> QED
      BY <3>1, PlainFields DEF IsListOf
  <2> QED
    BY <2>1, AlertAssumption
<1>2. /\ Is(x, "list") /\ x = [list |-> x.list] /\ IsSequence(x.list)
      /\ \A k \in DOMAIN x.list : IsReference(x.list[k])
  BY <1>1 DEF IsListOf
<1>3. DOMAIN x = {"list"}
  BY <1>2
<1>4. ASSUME NEW u, IsReference(u)
      PROVE  /\ IsScalar(u) /\ Is(u, "str") /\ u.str # <<>> /\ IsName(u.str)
             /\ Items(u) = {u} /\ ~Is(u, "float")
  <2>1. u = Str(u.str) /\ IsName(u.str) /\ u.str # <<>> /\ Is(u, "str")
    BY <1>4 DEF IsReference
  <2> DEFINE t == u.str
  <2>2. IsName(t) /\ u = Str(t)
    BY <2>1
  <2> HIDE DEF t
  <2>3. IsScalar(Str(t)) /\ DOMAIN Str(t) = {"str"}
    BY <2>2, PlainFields DEF IsName
  <2>4. IsScalar(u) /\ DOMAIN u = {"str"}
    BY <2>2, <2>3
  <2> QED
    BY <2>1, <2>4, ScalarIs DEF Is
<1>5. IsListOf(x, IsScalar)
  BY <1>2, <1>4 DEF IsListOf
<1>6. Unmistakable(x)
  <2>1. ~Is(x, "str")
    BY <1>3 DEF Is
  <2> QED
    BY <1>2, <1>4, <2>1 DEF Unmistakable, IsName
<1>7. Items(x) = {x.list[k] : k \in DOMAIN x.list}
  BY <1>2 DEF Items, Range
<1>8. \A w \in AllItems(x) : ~Is(w, "float")
  BY <1>2, <1>4, <1>7 DEF AllItems
<1> QED
  BY <1>3, <1>5, <1>6, <1>8 DEF IsValue, IsFlat

(* The digest and the desk are words without separators.                    *)
LEMMA WordsAre ==
    /\ \A b : IsName(sha256Hex(b))
    /\ IsName(Word("equity"))
<1>1. ASSUME NEW x, x \notin Separators PROVE IsName(<<x>>)
  <2>1. DOMAIN <<x>> = {1} /\ <<x>>[1] = x /\ <<x>> \in Seq({x})
    OBVIOUS
  <2>2. Range(<<x>>) = {x}
    BY <2>1 DEF Range
  <2> QED
    BY <1>1, <2>1, <2>2 DEF IsName, IsSequence
<1>2. \A s \in Separators : DOMAIN s = {"byte"}
  BY DEF Separators, US, RS, NUL
<1>3. \A b : DOMAIN [sha256 |-> b] = {"sha256"} /\ DOMAIN [word |-> b] = {"word"}
  OBVIOUS
<1>4. {"byte"} # {"sha256"} /\ {"byte"} # {"word"}
  OBVIOUS
<1>5. \A b : [sha256 |-> b] \notin Separators /\ [word |-> b] \notin Separators
  BY <1>2, <1>3, <1>4
<1> QED
  BY <1>1, <1>5 DEF sha256Hex, Word

HashNames == BodyFields \ {"shap_top_features"}

(* Whatever fits a hashed field has bytes that tell it apart, and one type  *)
(* unless it is ml_score; only the rule score and ml_score are scores.      *)
LEMMA FitClear ==
    ASSUME NEW f \in HashNames, NEW x, Fit(f, x)
    PROVE  /\ IsValue(x) /\ Unmistakable(x)
           /\ f \notin {"rule_score", "ml_score"} => \A w \in AllItems(x) : ~Is(w, "float")
<1>1. CASE f = "alert_id"
  BY <1>1, TextIs, WordsAre DEF Fit
<1>2. CASE f \in {"detector", "trader_id", "instrument"}
  BY <1>2, TextIs, AlertAssumption DEF Fit
<1>3. CASE f \in {"window_start", "window_end", "created_at"}
  BY <1>3, NumberIs DEF Fit
<1>4. CASE f = "severity"
  BY <1>4, NumberIs DEF Fit
<1>5. CASE f = "rule_score"
  BY <1>5, ScoreIs DEF Fit
<1>6. CASE f = "ml_score"
  BY <1>6, ScoreIs, NullIs DEF Fit
<1>7. CASE f \in {"triggering_event_ids", "regulation_refs"}
  BY <1>7, RefsAre DEF Fit
<1>8. CASE f = "desk"
  BY <1>8, TextIs, WordsAre DEF Fit
<1> QED
  BY <1>1, <1>2, <1>3, <1>4, <1>5, <1>6, <1>7, <1>8 DEF HashNames, BodyFields

(* Only scores are scores.                                                  *)
LEMMA FitPlain ==
    ASSUME NEW f \in HashNames \ {"rule_score", "ml_score"}, NEW x, Fit(f, x)
    PROVE  ~Is(x, "float")
<1>1. CASE f \in {"alert_id", "detector", "trader_id", "instrument", "desk"}
  BY <1>1, PlainFields DEF Fit, Is
<1>2. CASE f \in {"window_start", "window_end", "created_at", "severity"}
  BY <1>2, PlainFields DEF Fit, Is
<1>3. CASE f \in {"triggering_event_ids", "regulation_refs"}
  BY <1>3, RefsAre DEF Fit, Is
<1> QED
  BY <1>1, <1>2, <1>3 DEF HashNames, BodyFields

(* Two that fit the same field are of one type.                             *)
LEMMA FitDomain ==
    ASSUME NEW f \in HashNames \ {"ml_score"}, NEW x, Fit(f, x), NEW y, Fit(f, y)
    PROVE  DOMAIN x = DOMAIN y
<1>1. CASE f \in {"alert_id", "detector", "trader_id", "instrument", "desk"}
  BY <1>1, PlainFields DEF Fit
<1>2. CASE f \in {"window_start", "window_end", "created_at", "severity"}
  BY <1>2, PlainFields DEF Fit
<1>3. CASE f = "rule_score"
  BY <1>3, ScoreIs DEF Fit
<1>4. CASE f \in {"triggering_event_ids", "regulation_refs"}
  BY <1>4, RefsAre DEF Fit
<1> QED
  BY <1>1, <1>2, <1>3, <1>4 DEF HashNames, BodyFields

-----------------------------------------------------------------------------
(* Alerts *)

(* A severity is one of the five (Severity.fromRuleScore).                  *)
LEMMA SeverityRange ==
    ASSUME NEW s, s.float \in Nat
    PROVE  fromRuleScore(s) \subseteq 1..5
<1> DEFINE up == (s.float + Fifth - 1) \div Fifth
<1>0. up \in Int
  <2>1. Fifth \in Nat /\ Fifth > 0
    BY DEF Fifth, One
  <2> QED
    BY <2>1
<1>f. \A n \in fromRuleScore(s) :
        n = Min({5, Max({1, up})}) \/ n = Min({5, Max({1, up + 1})})
  BY Zenon DEF fromRuleScore
<1> HIDE DEF up
<1> SUFFICES ASSUME NEW raw \in Int
             PROVE  Min({5, Max({1, raw})}) \in 1..5
  BY <1>0, <1>f
<1> DEFINE most == Max({1, raw})
<1>1. raw \in Int
  OBVIOUS
<1>2. most \in Int /\ most >= 1
  <2>1. \E x \in {1, raw} : \A y \in {1, raw} : x >= y
    BY <1>1
  <2>2. most \in {1, raw} /\ \A y \in {1, raw} : most >= y
    BY <2>1 DEF Max
  <2> QED
    BY <1>1, <2>2
<1> HIDE DEF most
<1>3. Min({5, most}) \in {5, most} /\ \A y \in {5, most} : Min({5, most}) <= y
  <2>1. \E x \in {5, most} : \A y \in {5, most} : x <= y
    BY <1>2
  <2> QED
    BY <2>1 DEF Min
<1> QED
  BY <1>2, <1>3 DEF most

(* The alert Emit makes, field by field.                                    *)
LEMMA NewAlertIs ==
    ASSUME NEW name, NEW trader, NEW instrument, NEW start, NEW s, NEW sev,
           NEW createdAt, NEW a,
           a = NewAlert(name, trader, instrument, start, s, sev, createdAt)
    PROVE  /\ DOMAIN a = BodyFields \cup {"audit_hash"}
           /\ a.alert_id = Str(of(name, trader, instrument, start, start + WindowLen))
           /\ a.detector = Str(name) /\ a.trader_id = Str(trader)
           /\ a.instrument = Str(instrument) /\ a.window_start = Int32(start)
           /\ a.window_end = Int32(start + WindowLen)
           /\ a.severity = Int32(sev) /\ a.rule_score = s
           /\ a.ml_score = Null /\ a.shap_top_features = Empty
           /\ a.triggering_event_ids = Empty /\ a.regulation_refs = RegRefs[name]
           /\ a.desk = Str(Word("equity")) /\ a.created_at = Int32(createdAt)
           /\ a.audit_hash = sha256Hex(canonicalBytes(audited(a)))
<1> DEFINE end == start + WindowLen
           body == [alert_id             |-> Str(of(name, trader, instrument, start, end)),
                    detector             |-> Str(name),
                    trader_id            |-> Str(trader),
                    instrument           |-> Str(instrument),
                    window_start         |-> Int32(start),
                    window_end           |-> Int32(end),
                    severity             |-> Int32(sev),
                    rule_score           |-> s,
                    ml_score             |-> Null,
                    shap_top_features    |-> Empty,
                    triggering_event_ids |-> Empty,
                    regulation_refs      |-> RegRefs[name],
                    desk                 |-> Str(Word("equity")),
                    created_at           |-> Int32(createdAt)]
           hash == sha256Hex(canonicalBytes(audited(body)))
<1>1. a = [f \in DOMAIN body \cup {"audit_hash"} |->
              IF f = "audit_hash" THEN hash ELSE body[f]]
  BY DEF NewAlert
<1>2. /\ DOMAIN body = BodyFields
      /\ body.alert_id = Str(of(name, trader, instrument, start, end))
      /\ body.detector = Str(name) /\ body.trader_id = Str(trader)
      /\ body.instrument = Str(instrument) /\ body.window_start = Int32(start)
      /\ body.window_end = Int32(end)
      /\ body.severity = Int32(sev) /\ body.rule_score = s
      /\ body.ml_score = Null /\ body.shap_top_features = Empty
      /\ body.triggering_event_ids = Empty /\ body.regulation_refs = RegRefs[name]
      /\ body.desk = Str(Word("equity")) /\ body.created_at = Int32(createdAt)
  BY DEF BodyFields
<1> HIDE DEF body, hash
<1>5. /\ DOMAIN a = BodyFields \cup {"audit_hash"}
      /\ \A f \in BodyFields : a[f] = body[f]
      /\ a.audit_hash = hash
  <2>1. "audit_hash" \notin BodyFields
    BY DEF BodyFields
  <2> QED
    BY <1>1, <1>2, <2>1
<1>6. /\ a.alert_id = body.alert_id /\ a.detector = body.detector
      /\ a.trader_id = body.trader_id /\ a.instrument = body.instrument
      /\ a.window_start = body.window_start /\ a.window_end = body.window_end
      /\ a.severity = body.severity /\ a.rule_score = body.rule_score
      /\ a.ml_score = body.ml_score /\ a.shap_top_features = body.shap_top_features
      /\ a.triggering_event_ids = body.triggering_event_ids
      /\ a.regulation_refs = body.regulation_refs /\ a.desk = body.desk
      /\ a.created_at = body.created_at
  BY <1>5 DEF BodyFields
<1>7. audited(a) = audited(body)
  BY <1>6 DEF audited
<1> QED
  BY <1>2, <1>5, <1>6, <1>7 DEF hash

(* An alert as some detector emits it.                                      *)
Issued(a, name, trader, instrument, start, s, sev, createdAt) ==
    /\ name \in Detector /\ trader \in Trader /\ instrument \in Instrument
    /\ start \in Window /\ s \in RuleScore /\ createdAt \in Now
    /\ sev \in fromRuleScore(s)
    /\ a = NewAlert(name, trader, instrument, start, s, sev, createdAt)

(* It fits.                                                                 *)
LEMMA IssuedFits ==
    ASSUME NEW a, NEW name, NEW trader, NEW instrument, NEW start, NEW s, NEW sev,
           NEW createdAt,
           Issued(a, name, trader, instrument, start, s, sev, createdAt)
    PROVE  Fits(a)
<1>1. /\ name \in Detector /\ trader \in Trader /\ instrument \in Instrument
      /\ start \in Int /\ start + WindowLen \in Int /\ createdAt \in Int /\ s \in RuleScore
  BY AlertAssumption DEF Issued
<1>2. sev \in 1..5
  BY <1>1, ScoreIs, SeverityRange DEF Issued
<1>3. DOMAIN a = BodyFields \cup {"audit_hash"}
  BY NewAlertIs DEF Issued
<1>4. /\ Fit("alert_id", a.alert_id) /\ Fit("detector", a.detector)
      /\ Fit("trader_id", a.trader_id) /\ Fit("instrument", a.instrument)
  <2>1. \E b : of(name, trader, instrument, start, start + WindowLen) = sha256Hex(b)
    BY DEF of
  <2> QED
    BY <1>1, <2>1, NewAlertIs DEF Issued, Fit
<1>5. /\ Fit("window_start", a.window_start) /\ Fit("window_end", a.window_end)
      /\ Fit("created_at", a.created_at) /\ Fit("severity", a.severity)
  BY <1>1, <1>2, NewAlertIs DEF Issued, Fit
<1>6. /\ Fit("rule_score", a.rule_score) /\ Fit("ml_score", a.ml_score)
      /\ Fit("regulation_refs", a.regulation_refs) /\ Fit("desk", a.desk)
  BY <1>1, NewAlertIs DEF Issued, Fit
<1>7. /\ Fit("shap_top_features", a.shap_top_features)
      /\ Fit("triggering_event_ids", a.triggering_event_ids)
  <2>1. Is(Empty, "list")
    BY PlainFields DEF Is
  <2> QED
    BY <2>1, NewAlertIs DEF Issued, Fit
<1> QED
  BY <1>3, <1>4, <1>5, <1>6, <1>7 DEF Fits, BodyFields

(* The invariant: alerts are as some detector made them, above its          *)
(* threshold; what is held of them still fits, under the hash they came     *)
(* with.                                                                    *)
Made(a) ==
    \E name, trader, instrument, start, s, sev, createdAt :
        /\ Issued(a, name, trader, instrument, start, s, sev, createdAt)
        /\ s.float >= Threshold[name]

AlertInv ==
    /\ changes \in 0..MaxChanges
    /\ IsSequence(issued) /\ IsSequence(held) /\ Len(held) = Len(issued)
    /\ \A k \in DOMAIN issued : Made(issued[k])
    /\ \A k \in DOMAIN held :
        Fits(held[k]) /\ held[k].audit_hash = issued[k].audit_hash

(* The contract's order names 13 hashed fields.                             *)
LEMMA OrderIs ==
    /\ DOMAIN ALERT_HASH_FIELD_ORDER = 1..13
    /\ \A k \in 1..13 : ALERT_HASH_FIELD_ORDER[k] \in HashNames
<1>1. DOMAIN ALERT_HASH_FIELD_ORDER = 1..13
  BY DEF ALERT_HASH_FIELD_ORDER
<1>2. ASSUME NEW k \in 1..13 PROVE ALERT_HASH_FIELD_ORDER[k] \in HashNames
  BY DEF ALERT_HASH_FIELD_ORDER, HashNames, BodyFields
<1> QED
  BY <1>1, <1>2

(* The contract's fields of an alert, as a list.                            *)
LEMMA HashFieldsAre ==
    ASSUME NEW a
    PROVE  /\ HashFields(a) = [k \in 1..13 |-> a[ALERT_HASH_FIELD_ORDER[k]]]
           /\ Len(HashFields(a)) = 13 /\ DOMAIN HashFields(a) = 1..13
           /\ HashFields(a) # <<>>
           /\ \A k \in 1..13 : HashFields(a)[k] = a[ALERT_HASH_FIELD_ORDER[k]]
<1> DEFINE g == [k \in 1..13 |-> a[ALERT_HASH_FIELD_ORDER[k]]]
<1>1. HashFields(a) = g
  BY OrderIs DEF HashFields
<1>2. Len(g) = 13 /\ DOMAIN g = 1..13
  OBVIOUS
<1>3. Len(<<>>) = 0 /\ 13 # 0
  OBVIOUS
<1>4. g # <<>>
  BY <1>2, <1>3
<1> QED
  BY <1>1, <1>2, <1>4

(* Emit writes the fields down in the contract's order.                     *)
LEMMA OrdersAgree ==
    ASSUME NEW a, a.ml_score = Null, a.triggering_event_ids = Empty
    PROVE  audited(a) = HashFields(a)
<1>1. /\ DOMAIN audited(a) = 1..13
      /\ audited(a) = [k \in 1..13 |-> audited(a)[k]]
  BY DEF audited
<1>2. ASSUME NEW k \in 1..13 PROVE audited(a)[k] = a[ALERT_HASH_FIELD_ORDER[k]]
  <2>1. audited(a)[k] = a[ALERT_HASH_FIELD_ORDER[k]]
    BY DEF audited, ALERT_HASH_FIELD_ORDER
  <2> QED
    BY <2>1
<1> QED
  BY <1>1, <1>2, HashFieldsAre

(* They are clear.                                                          *)
LEMMA HashFieldsClear ==
    ASSUME NEW a, Fits(a)
    PROVE  /\ Clear(HashFields(a))
           /\ \A k \in 1..13 : Fit(ALERT_HASH_FIELD_ORDER[k], HashFields(a)[k])
<1>1. \A k \in 1..13 : Fit(ALERT_HASH_FIELD_ORDER[k], HashFields(a)[k])
  BY OrderIs, HashFieldsAre DEF Fits, HashNames
<1>2. \A k \in 1..13 : IsValue(HashFields(a)[k]) /\ Unmistakable(HashFields(a)[k])
  BY <1>1, OrderIs, FitClear
<1>3. IsFields(HashFields(a))
  <2>1. HashFields(a) = [k \in 1..13 |-> HashFields(a)[k]] /\ Len(HashFields(a)) = 13
    BY HashFieldsAre
  <2>2. 13 \in Nat
    OBVIOUS
  <2> QED
    BY <1>2, <2>1, <2>2 DEF IsFields
<1> QED
  BY <1>1, <1>2, <1>3, HashFieldsAre DEF Clear

(* Scala writes what fits a field as a text without separators of fields.   *)
LEMMA ScalaText ==
    ASSUME NEW f \in HashNames, NEW x, Fit(f, x), f = "ml_score" => x = Null
    PROVE  /\ IsSequence(canonicalField(x)) /\ US \notin Range(canonicalField(x))
           /\ f # "rule_score" => canonicalField(x) = canonical_field(x)
<1>1. IsValue(x) /\ Unmistakable(x)
  BY FitClear
<1>2. IsSequence(canonicalField(x))
  BY <1>1, ValuesAgree DEF EqualWhen
<1>3. CASE f # "rule_score"
  <2>1. \A w \in AllItems(x) : ~Is(w, "float")
    BY <1>3, FitClear, NullIs
  <2>2. canonicalField(x) = canonical_field(x)
    BY <1>1, <2>1, ValuesAgree DEF EqualWhen, ScalaWrites
  <2> QED
    BY <1>1, <1>2, <2>2, FieldText
<1>4. CASE f = "rule_score"
  <2>1. x \in RuleScore
    BY <1>4 DEF Fit
  <2>2. canonicalField(x) = Fixed8(x, TRUE)
    <3>1. IsScalar(x) /\ Is(x, "float")
      BY <2>1, AlertAssumption DEF Probability
    <3>2. ~Is(x, "list") /\ Only(x, "float")
      BY <3>1, ScalarKinds DEF Only
    <3>3. /\ Is(x, "float") /\ ~Is(x, "null") /\ ~Is(x, "bool") /\ ~Is(x, "int")
          /\ ~Is(x, "str")
      BY <3>2 DEF Only
    <3>4. canonicalField(x) = canonicalScalar(x)
      BY <3>2 DEF canonicalField, canonicalFlat, Rendered
    <3> QED
      BY <3>3, <3>4 DEF canonicalScalar
  <2>3. US \notin Range(canonicalField(x))
    <3> DEFINE d == Decimals8(x, TRUE)
    <3>1. canonicalField(x) = Decimal(d)
      BY <2>2 DEF Fixed8
    <3> HIDE DEF d
    <3>2. Range(Decimal(d)) = {[decimal |-> d]}
      BY NumberTexts
    <3>3. US # [decimal |-> d]
      BY SeparatorsApart
    <3> QED
      BY <3>1, <3>2, <3>3
  <2> QED
    BY <1>2, <1>4, <2>3
<1> QED
  BY <1>3, <1>4

(* Scala's bytes of one alert are Python's of another just when every field *)
(* is written by one as by the other.                                       *)
LEMMA HashesAgree ==
    ASSUME NEW a, Fits(a), NEW b, Fits(b), b.ml_score = Null, b.triggering_event_ids = Empty
    PROVE  canonical_bytes(HashFields(a)) = canonicalBytes(audited(b))
             <=> \A k \in 1..13 :
                   canonical_field(HashFields(a)[k]) = canonicalField(HashFields(b)[k])
<1> DEFINE list == HashFields(a)
           other == HashFields(b)
           S == [k \in 1..13 |-> canonical_field(list[k])]
           T == [k \in 1..13 |-> canonicalField(other[k])]
<1>1. /\ Clear(list) /\ list # <<>> /\ Len(list) = 13
      /\ DOMAIN list = 1..13 /\ DOMAIN other = 1..13
  BY HashFieldsAre, HashFieldsClear
<1>2. canonical_bytes(list) = Join(US, S)
  BY <1>1 DEF canonical_bytes
<1>3. canonicalBytes(audited(b)) = Join(US, T)
  <2>1. audited(b) = other
    BY OrdersAgree
  <2> QED
    BY <1>1, <2>1 DEF canonicalBytes
<1>4. \A k \in 1..13 : IsSequence(T[k]) /\ US \notin Range(T[k])
  <2> SUFFICES ASSUME NEW k \in 1..13
               PROVE  IsSequence(T[k]) /\ US \notin Range(T[k])
    OBVIOUS
  <2> DEFINE f == ALERT_HASH_FIELD_ORDER[k]
             y == other[k]
  <2>1. f \in HashNames /\ Fit(f, y) /\ y = b[f] /\ T[k] = canonicalField(y)
    BY OrderIs, HashFieldsAre, HashFieldsClear
  <2> HIDE DEF f, y, T, other
  <2>2. f = "ml_score" => y = Null
    BY <2>1
  <2> QED
    BY <2>1, <2>2, ScalaText
<1>5. /\ \A k \in 1..13 : S[k] = canonical_field(list[k])
      /\ \A k \in 1..13 : T[k] = canonicalField(other[k])
      /\ S = [k \in 1..13 |-> S[k]] /\ T = [k \in 1..13 |-> T[k]]
  OBVIOUS
<1> HIDE DEF list, other, S, T
<1>6. Texts(T, 13)
  BY <1>4, <1>5 DEF Texts
<1>7. ASSUME canonical_bytes(list) = Join(US, T)
      PROVE  \A k \in 1..13 : canonical_field(list[k]) = T[k]
  <2> DEFINE m == 13
  <2>1. m # 0 /\ Texts(T, m) /\ \A k \in 1..m : US \notin Range(T[k])
    BY <1>4, <1>6
  <2>2. Clear(list) /\ list # <<>> /\ canonical_bytes(list) = Join(US, T)
    BY <1>1, <1>7
  <2> HIDE DEF m
  <2>3. \A k \in 1..m : canonical_field(list[k]) = T[k]
    BY <2>1, <2>2, TextsTell
  <2> QED
    BY <2>3 DEF m
<1>8. ASSUME \A k \in 1..13 : canonical_field(list[k]) = T[k]
      PROVE  S = T
  BY <1>5, <1>8
<1>9. canonical_bytes(list) = canonicalBytes(audited(b))
        <=> \A k \in 1..13 : canonical_field(list[k]) = canonicalField(other[k])
  BY <1>2, <1>3, <1>5, <1>7, <1>8
<1> QED
  BY <1>9 DEF list, other

(* Written as Scala writes it, a field that is no score says what it said.  *)
LEMMA FieldSays ==
    ASSUME NEW f \in HashNames \ {"rule_score"}, NEW x, Fit(f, x), NEW y, Fit(f, y),
           f = "ml_score" => y = Null
    PROVE  canonical_field(x) = canonicalField(y) <=> x = y
<1>1. canonicalField(y) = canonical_field(y)
  BY ScalaText
<1>2. ASSUME canonical_field(x) = canonical_field(y) PROVE x = y
  <2>1. CASE f = "ml_score"
    <3>1. y = Null /\ (x = Null \/ x \in MlScore)
      BY <2>1 DEF Fit
    <3>2. x \notin MlScore
      BY <1>2, <3>1, NullIs, ScoreIs
    <3> QED
      BY <3>1, <3>2
  <2>2. CASE f # "ml_score"
    <3>1. DOMAIN x = DOMAIN y
      BY <2>2, FitDomain
    <3>2. IsValue(x) /\ Unmistakable(x) /\ IsValue(y) /\ Unmistakable(y)
      BY FitClear
    <3>3. SameUpTo8Decimals(x, y)
      BY <1>2, <3>1, <3>2, FieldTells
    <3>4. ~Is(x, "float")
      BY <2>2, FitPlain
    <3> QED
      BY <3>3, <3>4 DEF SameUpTo8Decimals
  <2> QED
    BY <2>1, <2>2
<1> QED
  BY <1>1, <1>2

(* The digest tells bytes apart.                                            *)
LEMMA DigestTells ==
    ASSUME NEW b, NEW c, sha256Hex(b) = sha256Hex(c)
    PROVE  b = c
<1>1. sha256Hex(b)[1] = [sha256 |-> b] /\ sha256Hex(c)[1] = [sha256 |-> c]
  BY DEF sha256Hex
<1>2. [sha256 |-> b] = [sha256 |-> c]
  BY <1>1
<1>3. [sha256 |-> b].sha256 = b /\ [sha256 |-> c].sha256 = c
  OBVIOUS
<1> QED
  BY <1>2, <1>3

(* What was made fits, and carries the hash of its own fields.              *)
LEMMA MadeIs ==
    ASSUME NEW a, Made(a)
    PROVE  /\ Fits(a) /\ a.ml_score = Null /\ a.triggering_event_ids = Empty
           /\ a.audit_hash = sha256Hex(canonicalBytes(audited(a)))
           /\ a.rule_score.float >= Threshold[a.detector.str]
<1>1. PICK name, trader, instrument, start, s, sev, createdAt :
          /\ Issued(a, name, trader, instrument, start, s, sev, createdAt)
          /\ s.float >= Threshold[name]
  BY DEF Made
<1>2. Fits(a)
  BY <1>1, IssuedFits
<1>3. /\ a.ml_score = Null /\ a.triggering_event_ids = Empty
      /\ a.audit_hash = sha256Hex(canonicalBytes(audited(a)))
      /\ a.rule_score = s /\ a.detector = Str(name)
  BY <1>1, NewAlertIs DEF Issued
<1>4. a.detector.str = name
  BY <1>3, PlainFields
<1> QED
  BY <1>1, <1>2, <1>3, <1>4

(* An alert that fits is one of the contract.                               *)
LEMMA FitsIsAlert ==
    ASSUME NEW a, Fits(a)
    PROVE  IsAlert(a)
<1>1. \A f \in BodyFields : Fit(f, a[f])
  BY DEF Fits
<1>2. ASSUME NEW f \in {"alert_id", "detector", "trader_id", "instrument", "desk"}
      PROVE  Is(a[f], "str")
  <2>1. Fit(f, a[f])
    BY <1>1 DEF BodyFields
  <2> DEFINE x == a[f]
  <2>2. Fit(f, x)
    BY <2>1
  <2> HIDE DEF x
  <2>3. \E t : x = Str(t)
    BY <2>2 DEF Fit
  <2>4. Is(x, "str")
    BY <2>3, PlainFields DEF Is
  <2> QED
    BY <2>4 DEF x
<1>3. ASSUME NEW f \in {"window_start", "window_end", "severity", "created_at"}
      PROVE  Is(a[f], "int")
  <2>1. Fit(f, a[f])
    BY <1>1 DEF BodyFields
  <2> DEFINE x == a[f]
  <2>2. Fit(f, x)
    BY <2>1
  <2> HIDE DEF x
  <2>3. \E n : x = Int32(n)
    BY <2>2 DEF Fit
  <2>4. Is(x, "int")
    BY <2>3, PlainFields DEF Is
  <2> QED
    BY <2>4 DEF x
<1>4. a.detector.str \in Detector /\ a.severity.int \in 1..5
  <2>1. Fit("detector", a.detector) /\ Fit("severity", a.severity)
    BY <1>1 DEF BodyFields
  <2>2. (\E t \in Detector : a.detector = Str(t)) /\ \E n \in 1..5 : a.severity = Int32(n)
    BY <2>1 DEF Fit
  <2> QED
    BY <2>2, PlainFields
<1>5. Probability(a.rule_score) /\ (a.ml_score = Null \/ Probability(a.ml_score))
  <2>1. Fit("rule_score", a.rule_score) /\ Fit("ml_score", a.ml_score)
    BY <1>1 DEF BodyFields
  <2>2. a.rule_score \in RuleScore /\ (a.ml_score = Null \/ a.ml_score \in MlScore)
    BY <2>1 DEF Fit
  <2> QED
    BY <2>2, AlertAssumption
<1>6. ASSUME NEW f \in {"shap_top_features", "triggering_event_ids", "regulation_refs"}
      PROVE  Is(a[f], "list")
  <2>1. Fit(f, a[f])
    BY <1>1 DEF BodyFields
  <2> DEFINE x == a[f]
  <2>2. Fit(f, x)
    BY <2>1
  <2> HIDE DEF x
  <2>3. Is(x, "list")
    BY <2>2, RefsAre DEF Fit, Is
  <2> QED
    BY <2>3 DEF x
<1> QED
  BY <1>2, <1>3, <1>4, <1>5, <1>6 DEF IsAlert

-----------------------------------------------------------------------------
(* The steps *)

(* A sequence is a function of 1 to its length.                             *)
LEMMA SequenceDomain ==
    ASSUME NEW q, IsSequence(q)
    PROVE  Len(q) \in Nat /\ DOMAIN q = 1..Len(q)
BY LenProperties DEF IsSequence

(* What comes to a log is its last, and the others stay.                    *)
LEMMA LogGrows ==
    ASSUME NEW q, IsSequence(q), NEW a
    PROVE  /\ IsSequence(Append(q, a)) /\ Len(Append(q, a)) = Len(q) + 1
           /\ DOMAIN Append(q, a) = DOMAIN q \cup {Len(q) + 1}
           /\ \A k \in DOMAIN q : Append(q, a)[k] = q[k]
           /\ Append(q, a)[Len(q) + 1] = a
<1> DEFINE X == Range(q) \cup {a}
<1>1. q \in Seq(X) /\ a \in X
  BY SeqMonotonic DEF IsSequence
<1> HIDE DEF X
<1>2. /\ Append(q, a) \in Seq(X) /\ Len(Append(q, a)) = Len(q) + 1
      /\ \A k \in 1..Len(q) : Append(q, a)[k] = q[k]
      /\ Append(q, a)[Len(q) + 1] = a
  BY <1>1, AppendProperties
<1>3. IsSequence(Append(q, a)) /\ DOMAIN Append(q, a) = 1..Len(Append(q, a))
  BY <1>2, SequenceIs
<1>4. Len(q) \in Nat /\ DOMAIN q = 1..Len(q)
  BY SequenceDomain
<1>5. 1..(Len(q) + 1) = 1..Len(q) \cup {Len(q) + 1}
  BY <1>4
<1> QED
  BY <1>2, <1>3, <1>4, <1>5

(* A log with one entry changed is one of the same length.                  *)
LEMMA LogChanges ==
    ASSUME NEW q, IsSequence(q), NEW k \in DOMAIN q, NEW x
    PROVE  /\ IsSequence([q EXCEPT ![k] = x]) /\ Len([q EXCEPT ![k] = x]) = Len(q)
           /\ DOMAIN [q EXCEPT ![k] = x] = DOMAIN q
<1> DEFINE X == Range(q) \cup {x}
           n == Len(q)
           g == [q EXCEPT ![k] = x]
<1>1. n \in Nat /\ DOMAIN q = 1..n
  BY SequenceDomain
<1>2. \A i \in 1..n : g[i] \in X
  <2>1. \A i \in 1..n : q[i] \in X
    BY <1>1 DEF Range
  <2>2. x \in X
    OBVIOUS
  <2> HIDE DEF X
  <2> QED
    BY <1>1, <2>1, <2>2
<1>3. g = [i \in 1..n |-> g[i]]
  BY <1>1
<1> HIDE DEF X, g, n
<1>4. g \in Seq(X) /\ Len(g) = n
  BY <1>1, <1>2, <1>3
<1>5. IsSequence(g)
  BY <1>4, SequenceIs
<1> QED
  BY <1>1, <1>3, <1>4, <1>5 DEF g, n

(* An alert with a field changed to what fits still fits.                   *)
LEMMA ChangeFits ==
    ASSUME NEW a, Fits(a), NEW f \in BodyFields, NEW x, Fit(f, x)
    PROVE  Fits([a EXCEPT ![f] = x]) /\ [a EXCEPT ![f] = x].audit_hash = a.audit_hash
<1> DEFINE g == [a EXCEPT ![f] = x]
<1>1. "audit_hash" \notin BodyFields
  BY DEF BodyFields
<1>2. /\ DOMAIN g = BodyFields \cup {"audit_hash"} /\ g.audit_hash = a.audit_hash
      /\ g[f] = x /\ \A e \in BodyFields \ {f} : g[e] = a[e]
  BY <1>1 DEF Fits
<1> HIDE DEF g
<1>3. \A e \in BodyFields : Fit(e, g[e])
  BY <1>2 DEF Fits
<1>4. Fits(g) /\ g.audit_hash = a.audit_hash
  BY <1>2, <1>3 DEF Fits
<1> QED
  BY <1>4 DEF g

(* A step that changes a field to what fits keeps the invariant.            *)
LEMMA ChangeKeeps ==
    ASSUME AlertInv, NEW k \in DOMAIN held, NEW f \in BodyFields, NEW x, Fit(f, x),
           Change(k, f, x)
    PROVE  AlertInv'
<1>1. /\ changes < MaxChanges /\ changes' = changes + 1
      /\ held' = [held EXCEPT ![k] = [held[k] EXCEPT ![f] = x]]
      /\ issued' = issued
  BY DEF Change
<1>2. changes' \in 0..MaxChanges
  BY <1>1, AlertAssumption DEF AlertInv
<1>3. IsSequence(held) /\ Fits(held[k]) /\ held[k].audit_hash = issued[k].audit_hash
  BY DEF AlertInv
<1> DEFINE g == [held[k] EXCEPT ![f] = x]
<1>4. Fits(g) /\ g.audit_hash = issued[k].audit_hash
  BY <1>3, ChangeFits
<1>5. held' = [held EXCEPT ![k] = g]
  BY <1>1
<1> HIDE DEF g
<1>6. IsSequence(held') /\ Len(held') = Len(held) /\ DOMAIN held' = DOMAIN held
  BY <1>3, <1>5, LogChanges
<1>7. ASSUME NEW j \in DOMAIN held
      PROVE  Fits(held'[j]) /\ held'[j].audit_hash = issued[j].audit_hash
  <2>1. CASE j = k
    <3>1. held'[j] = g
      BY <1>5, <2>1
    <3> QED
      BY <1>4, <2>1, <3>1
  <2>2. CASE j # k
    <3>1. held'[j] = held[j]
      BY <1>5, <2>2
    <3> QED
      BY <3>1 DEF AlertInv
  <2> QED
    BY <2>1, <2>2
<1> QED
  BY <1>1, <1>2, <1>6, <1>7 DEF AlertInv

(* What is held, and issued, stays as the invariant says.                   *)
LEMMA AlertInvariant == Spec => []AlertInv
<1>1. Init => AlertInv
  <2> SUFFICES ASSUME Init PROVE AlertInv
    OBVIOUS
  <2>1. issued = <<>> /\ held = <<>> /\ changes = 0
    BY DEF Init
  <2>2. DOMAIN <<>> = {} /\ (\A X : <<>> \in Seq(X)) /\ Len(<<>>) = 0
    OBVIOUS
  <2>3. IsSequence(<<>>)
    BY <2>2 DEF IsSequence
  <2>4. 0 \in 0..MaxChanges
    BY AlertAssumption
  <2> QED
    BY <2>1, <2>2, <2>3, <2>4 DEF AlertInv
<1>2. AlertInv /\ [Next]_vars => AlertInv'
  <2> SUFFICES ASSUME AlertInv, [Next]_vars PROVE AlertInv'
    OBVIOUS
  <2>1. ASSUME NEW name \in Detector, NEW trader \in Trader, NEW instrument \in Instrument,
               NEW start \in Window, NEW s \in RuleScore, NEW createdAt \in Now,
               fromScore(name, trader, instrument, start, s, createdAt)
        PROVE  AlertInv'
    <3>0. PICK sev \in fromRuleScore(s) :
            LET new == NewAlert(name, trader, instrument, start, s, sev, createdAt)
            IN  issued' = Append(issued, new) /\ held' = Append(held, new)
      BY <2>1 DEF fromScore
    <3> DEFINE a == NewAlert(name, trader, instrument, start, s, sev, createdAt)
    <3>1. /\ sev \in fromRuleScore(s)
          /\ issued' = Append(issued, a) /\ held' = Append(held, a)
          /\ changes' = changes /\ s.float >= Threshold[name]
      BY <2>1, <3>0 DEF fromScore
    <3>2. Issued(a, name, trader, instrument, start, s, sev, createdAt)
      BY DEF Issued
    <3> HIDE DEF a
    <3>3. Made(a)
      BY <3>1, <3>2 DEF Made
    <3>4. Fits(a)
      BY <3>3, MadeIs
    <3>5. IsSequence(issued) /\ IsSequence(held) /\ Len(held) = Len(issued)
      BY DEF AlertInv
    <3>6. /\ IsSequence(issued') /\ Len(issued') = Len(issued) + 1
          /\ DOMAIN issued' = DOMAIN issued \cup {Len(issued) + 1}
          /\ \A k \in DOMAIN issued : issued'[k] = issued[k]
          /\ issued'[Len(issued) + 1] = a
      BY <3>1, <3>5, LogGrows
    <3>7. /\ IsSequence(held') /\ Len(held') = Len(held) + 1
          /\ DOMAIN held' = DOMAIN held \cup {Len(held) + 1}
          /\ \A k \in DOMAIN held : held'[k] = held[k]
          /\ held'[Len(held) + 1] = a
      BY <3>1, <3>5, LogGrows
    <3>8. \A k \in DOMAIN issued' : Made(issued'[k])
      BY <3>3, <3>6 DEF AlertInv
    <3>9. \A k \in DOMAIN held' :
              Fits(held'[k]) /\ held'[k].audit_hash = issued'[k].audit_hash
      <4>1. DOMAIN held = DOMAIN issued
        BY <3>5, SequenceDomain
      <4> QED
        BY <3>4, <3>5, <3>6, <3>7, <4>1 DEF AlertInv
    <3> QED
      BY <3>1, <3>5, <3>6, <3>7, <3>8, <3>9 DEF AlertInv
  <2>2. ASSUME NEW k \in DOMAIN held, NEW s \in MlScore, FillScore(k, s)
        PROVE  AlertInv'
    <3>1. Fit("ml_score", s) /\ "ml_score" \in BodyFields
      BY DEF Fit, BodyFields
    <3> QED
      BY <2>2, <3>1, ChangeKeeps DEF FillScore
  <2>3. ASSUME NEW k \in DOMAIN held, NEW s \in MlScore, Explain(k, s)
        PROVE  AlertInv'
    <3> DEFINE x == [list |-> <<s>>]
    <3>1. Is(x, "list")
      BY DEF Is
    <3>2. Change(k, "shap_top_features", x)
      BY <2>3 DEF Explain
    <3> HIDE DEF x
    <3>3. Fit("shap_top_features", x) /\ "shap_top_features" \in BodyFields
      BY <3>1 DEF Fit, BodyFields
    <3> QED
      BY <3>2, <3>3, ChangeKeeps
  <2>4. ASSUME NEW k \in DOMAIN held, NEW f \in DOMAIN held[k] \ {"audit_hash"}, Alter(k, f)
        PROVE  AlertInv'
    <3>1. f \in BodyFields
      BY DEF AlertInv, Fits
    <3>2. ASSUME NEW j \in DOMAIN issued, Change(k, f, issued[j][f])
          PROVE  AlertInv'
      <4>1. Fits(issued[j])
        BY MadeIs DEF AlertInv
      <4>2. Fit(f, issued[j][f])
        BY <3>1, <4>1 DEF Fits
      <4> QED
        BY <3>1, <3>2, <4>2, ChangeKeeps
    <3>3. ASSUME f = "regulation_refs", Change(k, f, Empty)
          PROVE  AlertInv'
      <4>1. Fit(f, Empty)
        BY <3>3 DEF Fit
      <4> QED
        BY <3>1, <3>3, <4>1, ChangeKeeps
    <3> QED
      BY <2>4, <3>2, <3>3 DEF Alter
  <2>5. CASE UNCHANGED vars
    BY <2>5 DEF AlertInv, vars
  <2> QED
    BY <2>1, <2>2, <2>3, <2>4, <2>5 DEF Next
<1> QED
  BY <1>1, <1>2, PTL DEF Spec

(* Every alert emitted is one of the contract, and so is every one held,    *)
(* whatever was filled in or altered (Emit.fromScore, Alert).               *)
THEOREM AlertTypes == Spec => []TypeOK
<1>1. AlertInv => TypeOK
  <2> SUFFICES ASSUME AlertInv PROVE TypeOK
    OBVIOUS
  <2>1. Len(held) = Len(issued) /\ DOMAIN held = DOMAIN issued /\ changes \in 0..MaxChanges
    BY SequenceDomain DEF AlertInv
  <2>2. ASSUME NEW k \in DOMAIN held
        PROVE  /\ IsAlert(issued[k]) /\ IsAlert(held[k])
               /\ issued[k].rule_score.float >= Threshold[issued[k].detector.str]
    <3>1. Made(issued[k]) /\ Fits(held[k])
      BY <2>1 DEF AlertInv
    <3> QED
      BY <3>1, MadeIs, FitsIsAlert
  <2> QED
    BY <2>1, <2>2 DEF TypeOK
<1> QED
  BY <1>1, AlertInvariant, PTL

(* The fields an alert id is made of.                                       *)
Five(name, trader, instrument, start, end) ==
    <<Str(name), Str(trader), Str(instrument), Int32(start), Int32(end)>>

(* They are clear, and have no scores.                                      *)
LEMMA FiveClear ==
    ASSUME NEW name, IsName(name), NEW trader, IsName(trader),
           NEW instrument, IsName(instrument), NEW start \in Int, NEW end \in Int,
           NEW list, list = Five(name, trader, instrument, start, end)
    PROVE  /\ Clear(list) /\ list # <<>> /\ Len(list) = 5
           /\ canonicalBytes(list) = canonical_bytes(list)
<1>1. /\ list[1] = Str(name) /\ list[2] = Str(trader) /\ list[3] = Str(instrument)
      /\ list[4] = Int32(start) /\ list[5] = Int32(end)
      /\ Len(list) = 5 /\ DOMAIN list = 1..5
      /\ list = [k \in 1..5 |-> list[k]]
  BY DEF Five
<1>2. ASSUME NEW k \in 1..5
      PROVE  /\ IsValue(list[k]) /\ Unmistakable(list[k])
             /\ \A w \in AllItems(list[k]) : ~Is(w, "float")
  <2>1. CASE k = 1
    BY <1>1, <2>1, TextIs
  <2>2. CASE k = 2
    BY <1>1, <2>2, TextIs
  <2>3. CASE k = 3
    BY <1>1, <2>3, TextIs
  <2>4. CASE k = 4
    BY <1>1, <2>4, NumberIs
  <2>5. CASE k = 5
    BY <1>1, <2>5, NumberIs
  <2> QED
    BY <2>1, <2>2, <2>3, <2>4, <2>5
<1>3. IsFields(list)
  <2>1. Len(list) \in Nat
    BY <1>1
  <2> QED
    BY <1>1, <1>2, <2>1 DEF IsFields
<1>4. list # <<>>
  <2>1. Len(<<>>) = 0
    OBVIOUS
  <2> QED
    BY <1>1, <2>1
<1>5. \A w \in Floats(list) : ~TieDown(w)
  <2>1. Range(list) = {list[k] : k \in 1..5}
    BY <1>1 DEF Range
  <2> QED
    BY <1>2, <2>1 DEF Floats, AllItems
<1>6. canonicalBytes(list) = canonical_bytes(list)
  BY <1>3, <1>5, FieldsAgree DEF EqualWhen
<1> QED
  BY <1>1, <1>2, <1>3, <1>4, <1>6 DEF Clear

(* What an alert is about, and its id.                                      *)
About(name, trader, instrument, start) ==
    IsName(name) /\ IsName(trader) /\ IsName(instrument) /\ start \in Int

IdOf(name, trader, instrument, start) ==
    of(name, trader, instrument, start, start + WindowLen)

(* Ids are the same just when all they are made of is.                      *)
LEMMA IdTells ==
    ASSUME NEW n1, NEW t1, NEW i1, NEW s1, About(n1, t1, i1, s1),
           NEW n2, NEW t2, NEW i2, NEW s2, About(n2, t2, i2, s2),
           IdOf(n1, t1, i1, s1) = IdOf(n2, t2, i2, s2)
    PROVE  n1 = n2 /\ t1 = t2 /\ i1 = i2 /\ s1 = s2
<1> DEFINE list == Five(n1, t1, i1, s1, s1 + WindowLen)
           other == Five(n2, t2, i2, s2, s2 + WindowLen)
<1>1. /\ IsName(n1) /\ IsName(t1) /\ IsName(i1) /\ s1 \in Int /\ s1 + WindowLen \in Int
      /\ IsName(n2) /\ IsName(t2) /\ IsName(i2) /\ s2 \in Int /\ s2 + WindowLen \in Int
  BY AlertAssumption DEF About
<1>2. canonicalBytes(list) = canonicalBytes(other)
  BY DigestTells DEF IdOf, of, Five
<1>3. /\ list[1] = Str(n1) /\ list[2] = Str(t1) /\ list[3] = Str(i1) /\ list[4] = Int32(s1)
      /\ other[1] = Str(n2) /\ other[2] = Str(t2) /\ other[3] = Str(i2)
      /\ other[4] = Int32(s2)
  BY DEF Five
<1> HIDE DEF list, other
<1>4. /\ Clear(list) /\ list # <<>> /\ Len(list) = 5
      /\ canonicalBytes(list) = canonical_bytes(list)
  BY <1>1, FiveClear DEF list
<1>5. /\ Clear(other) /\ other # <<>> /\ Len(other) = 5
      /\ canonicalBytes(other) = canonical_bytes(other)
  BY <1>1, FiveClear DEF other
<1>6. \A k \in 1..5 : canonical_field(list[k]) = canonical_field(other[k])
  BY <1>2, <1>4, <1>5, FieldsTell
<1>7. \A k \in 1..5 : IsValue(list[k]) /\ Unmistakable(list[k])
                          /\ IsValue(other[k]) /\ Unmistakable(other[k])
  BY <1>4, <1>5 DEF Clear, IsFields
<1>8. ASSUME NEW k \in 1..5, DOMAIN list[k] = DOMAIN other[k], ~Is(list[k], "float")
      PROVE  list[k] = other[k]
  <2>1. SameUpTo8Decimals(list[k], other[k])
    BY <1>6, <1>7, <1>8, FieldTells
  <2> QED
    BY <1>8, <2>1 DEF SameUpTo8Decimals
<1>9. Str(n1) = Str(n2) /\ Str(t1) = Str(t2) /\ Str(i1) = Str(i2) /\ Int32(s1) = Int32(s2)
  <2>1. \A t : DOMAIN Str(t) = {"str"} /\ ~Is(Str(t), "float")
    BY PlainFields DEF Is
  <2>2. \A n : DOMAIN Int32(n) = {"int"} /\ ~Is(Int32(n), "float")
    BY PlainFields DEF Is
  <2>3. list[1] = other[1] /\ list[2] = other[2] /\ list[3] = other[3]
    BY <1>3, <1>8, <2>1
  <2>4. list[4] = other[4]
    BY <1>3, <1>8, <2>2
  <2> QED
    BY <1>3, <2>3, <2>4
<1> QED
  BY <1>9, PlainFields

(* Alerts have one id just when they are about one detector, trader,        *)
(* instrument and window (AlertId.of).                                      *)
THEOREM IdsNameWindows == Spec => []AlertIdsNameWindows
<1>1. AlertInv => AlertIdsNameWindows
  <2> SUFFICES ASSUME AlertInv, NEW j \in DOMAIN issued, NEW k \in DOMAIN issued
               PROVE  issued[j].alert_id = issued[k].alert_id
                        <=> \A f \in {"detector", "trader_id", "instrument", "window_start"} :
                              issued[j][f] = issued[k][f]
    BY DEF AlertIdsNameWindows
  <2>1. PICK n1, t1, i1, s1, r1, v1, c1 : Issued(issued[j], n1, t1, i1, s1, r1, v1, c1)
    BY DEF AlertInv, Made
  <2>2. PICK n2, t2, i2, s2, r2, v2, c2 : Issued(issued[k], n2, t2, i2, s2, r2, v2, c2)
    BY DEF AlertInv, Made
  <2> DEFINE a == issued[j]
             b == issued[k]
             id1 == IdOf(n1, t1, i1, s1)
             id2 == IdOf(n2, t2, i2, s2)
  <2>3. /\ a.alert_id = Str(id1) /\ a.detector = Str(n1) /\ a.trader_id = Str(t1)
        /\ a.instrument = Str(i1) /\ a.window_start = Int32(s1)
    BY <2>1, NewAlertIs DEF Issued, IdOf
  <2>4. /\ b.alert_id = Str(id2) /\ b.detector = Str(n2) /\ b.trader_id = Str(t2)
        /\ b.instrument = Str(i2) /\ b.window_start = Int32(s2)
    BY <2>2, NewAlertIs DEF Issued, IdOf
  <2>5. About(n1, t1, i1, s1) /\ About(n2, t2, i2, s2)
    BY <2>1, <2>2, AlertAssumption DEF Issued, About
  <2>6. id1 = id2 => n1 = n2 /\ t1 = t2 /\ i1 = i2 /\ s1 = s2
    BY <2>5, IdTells
  <2>7. /\ Str(id1) = Str(id2) => id1 = id2
        /\ Str(n1) = Str(n2) => n1 = n2
        /\ Str(t1) = Str(t2) => t1 = t2
        /\ Str(i1) = Str(i2) => i1 = i2
        /\ Int32(s1) = Int32(s2) => s1 = s2
    BY PlainFields
  <2> HIDE DEF a, b
  <2>8. a.alert_id = b.alert_id
          <=> /\ a.detector = b.detector /\ a.trader_id = b.trader_id
              /\ a.instrument = b.instrument /\ a.window_start = b.window_start
    BY <2>3, <2>4, <2>6, <2>7
  <2> QED
    BY <2>8 DEF a, b
<1> QED
  BY <1>1, AlertInvariant, PTL

(* The fields of the contract's order, the rule score and the others.       *)
LEMMA OrderRange ==
    /\ Range(ALERT_HASH_FIELD_ORDER) = {ALERT_HASH_FIELD_ORDER[k] : k \in 1..13}
    /\ Range(ALERT_HASH_FIELD_ORDER) \subseteq HashNames
    /\ "rule_score" \in Range(ALERT_HASH_FIELD_ORDER)
<1>1. Range(ALERT_HASH_FIELD_ORDER) = {ALERT_HASH_FIELD_ORDER[k] : k \in 1..13}
  BY OrderIs DEF Range
<1>2. ALERT_HASH_FIELD_ORDER[8] = "rule_score" /\ 8 \in 1..13
  BY DEF ALERT_HASH_FIELD_ORDER
<1> QED
  BY <1>1, <1>2, OrderIs

(* Python's hash of what is held is Scala's of what was emitted just when   *)
(* every field of the contract's order still says what it said, the rule    *)
(* score as either side writes it: for any scores, half-way cases and those *)
(* that 8 decimals do not tell apart included (Emit.fromScore,              *)
(* ALERT_HASH_FIELD_ORDER).                                                 *)
THEOREM HashExact == Spec => []AuditHashExact
<1>1. AlertInv => AuditHashExact
  <2> SUFFICES ASSUME AlertInv, NEW k \in DOMAIN held
               PROVE  Verifies(held[k]) <=>
                        /\ canonical_field(held[k].rule_score)
                             = canonicalField(issued[k].rule_score)
                        /\ \A f \in Range(ALERT_HASH_FIELD_ORDER) \ {"rule_score"} :
                             held[k][f] = issued[k][f]
    BY DEF AuditHashExact
  <2>1. Made(issued[k]) /\ Fits(held[k]) /\ held[k].audit_hash = issued[k].audit_hash
    <3>1. DOMAIN held = DOMAIN issued
      BY SequenceDomain DEF AlertInv
    <3> QED
      BY <3>1 DEF AlertInv
  <2> DEFINE x == held[k]
             y == issued[k]
  <2>2. Fits(x) /\ Fits(y) /\ y.ml_score = Null /\ y.triggering_event_ids = Empty
    BY <2>1, MadeIs
  <2>3. x.audit_hash = sha256Hex(canonicalBytes(audited(y)))
    BY <2>1, MadeIs
  <2> HIDE DEF x, y
  <2>4. Verifies(x) <=> canonical_bytes(HashFields(x)) = canonicalBytes(audited(y))
    BY <2>3, DigestTells DEF Verifies
  <2>5. Verifies(x) <=>
          \A f \in Range(ALERT_HASH_FIELD_ORDER) :
              canonical_field(x[f]) = canonicalField(y[f])
    <3>1. /\ \A j \in 1..13 : HashFields(x)[j] = x[ALERT_HASH_FIELD_ORDER[j]]
          /\ \A j \in 1..13 : HashFields(y)[j] = y[ALERT_HASH_FIELD_ORDER[j]]
      BY HashFieldsAre
    <3>2. Verifies(x) <=>
            \A j \in 1..13 : canonical_field(x[ALERT_HASH_FIELD_ORDER[j]])
                                = canonicalField(y[ALERT_HASH_FIELD_ORDER[j]])
      BY <2>2, <2>4, <3>1, HashesAgree
    <3> QED
      BY <3>2, OrderRange
  <2>6. \A f \in Range(ALERT_HASH_FIELD_ORDER) \ {"rule_score"} :
            canonical_field(x[f]) = canonicalField(y[f]) <=> x[f] = y[f]
    <3> SUFFICES ASSUME NEW f \in Range(ALERT_HASH_FIELD_ORDER) \ {"rule_score"}
                 PROVE  canonical_field(x[f]) = canonicalField(y[f]) <=> x[f] = y[f]
      OBVIOUS
    <3>1. f \in HashNames \ {"rule_score"}
      BY OrderRange
    <3>2. Fit(f, x[f]) /\ Fit(f, y[f])
      BY <2>2, <3>1 DEF Fits, HashNames
    <3>3. f = "ml_score" => y[f] = Null
      BY <2>2
    <3> QED
      BY <3>1, <3>2, <3>3, FieldSays
  <2>7. Verifies(x) <=>
          /\ canonical_field(x["rule_score"]) = canonicalField(y["rule_score"])
          /\ \A f \in Range(ALERT_HASH_FIELD_ORDER) \ {"rule_score"} : x[f] = y[f]
    BY <2>5, <2>6, OrderRange
  <2> QED
    BY <2>7 DEF x, y
<1> QED
  BY <1>1, AlertInvariant, PTL

===============================================================================
