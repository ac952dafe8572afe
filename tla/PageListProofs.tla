--------------------------- MODULE PageListProofs ---------------------------
(***************************************************************************)
(* Proofs about PageList: what the loop of rebuild_pages_cb makes of a     *)
(* table, and from it that the list is right about the vendor's file, the  *)
(* mode and, where the rebuild walks the table it should, about the user's *)
(* latest choices, however often he comes back to make them.               *)
(***************************************************************************)
EXTENDS PageList, SequenceTheorems, WellFoundedInduction, TLAPS

-----------------------------------------------------------------------------
(* Induction, from the least of those that would fail.                     *)

LEMMA Least ==
  ASSUME NEW S \in SUBSET Nat, S # {}
  PROVE  \E m \in S : \A n \in S : m <= n
<1> DEFINE R == OpToRel(<, Nat)
<1>1. \E m \in S : \A n \in S : <<n, m>> \notin R
  <2> HIDE DEF R
  <2>1. IsWellFoundedOn(R, Nat)  BY NatLessThanWellFounded DEF R
  <2> QED  BY <2>1, WFMin, Zenon
<1>2. \A m, n \in Nat : <<n, m>> \notin R => m <= n
  BY DEF OpToRel
<1> HIDE DEF R
<1> QED  BY <1>1, <1>2

LEMMA Induction ==
  ASSUME NEW S, 0 \in S, \A n \in Nat : n \in S => n + 1 \in S
  PROVE  Nat \subseteq S
<1> SUFFICES ASSUME Nat \ S # {} PROVE FALSE
  OBVIOUS
<1>1. PICK m \in Nat \ S : \A n \in Nat \ S : m <= n
  BY Least, Zenon
<1>2. m # 0 /\ m - 1 \in Nat /\ m - 1 \in S
  BY <1>1
<1>3. (m - 1) + 1 = m  BY <1>1
<1> QED  BY <1>1, <1>2, <1>3

-----------------------------------------------------------------------------
(* The loop over a table s that lets the pages in Q pass.                  *)

Loop(f, s, Q) ==
  /\ f \in [0 .. Len(s) -> Seq(PageId)]
  /\ f[0] = <<>>
  /\ \A i \in 1 .. Len(s) : f[i] = IF s[i] \in Q THEN Append(f[i - 1], s[i]) ELSE f[i - 1]

(* t is what it leaves of s.                                               *)
Left(s, Q, t) == \E f : Loop(f, s, Q) /\ t = f[Len(s)]

LEMMA LoopExists ==
  ASSUME NEW s \in Seq(PageId), NEW Q
  PROVE  \E f : Loop(f, s, Q)
<1> DEFINE n == Len(s)
           UpTo(f, m) == \A i \in 1 .. n : i <= m =>
                           f[i] = IF s[i] \in Q THEN Append(f[i - 1], s[i]) ELSE f[i - 1]
           Good(m) == \E f \in [0 .. n -> Seq(PageId)] : f[0] = <<>> /\ UpTo(f, m)
           G == {m \in Nat : Good(m)}
<1> DEFINE P == PageId
<1>1. n \in Nat /\ \A i \in 1 .. n : s[i] \in PageId
  BY LenProperties
<1>2. 0 \in G
  <2> DEFINE f == [i \in 0 .. n |-> <<>>]
  <2>1. f \in [0 .. n -> Seq(PageId)] /\ f[0] = <<>>
    <3>1. <<>> \in Seq(P)  OBVIOUS
    <3> HIDE DEF P
    <3>2. f \in [0 .. n -> Seq(P)] /\ f[0] = <<>>  BY <1>1, <3>1
    <3> QED  BY <3>2 DEF P
  <2>2. UpTo(f, 0)  BY <1>1
  <2> QED  BY <2>1, <2>2
<1>3. ASSUME NEW m \in Nat, m \in G
      PROVE  m + 1 \in G
  <2>1. PICK f \in [0 .. n -> Seq(P)] : f[0] = <<>> /\ UpTo(f, m)
    BY <1>3
  <2> DEFINE next == IF s[m + 1] \in Q THEN Append(f[m], s[m + 1]) ELSE f[m]
             g == [f EXCEPT ![m + 1] = next]
  <2>2. CASE m + 1 \in 1 .. n
    <3>1. f[m] \in Seq(P) /\ s[m + 1] \in P  BY <1>1, <2>2
    <3> HIDE DEF P
    <3>2. next \in Seq(P)  BY <3>1
    <3> HIDE DEF next
    <3>3. /\ g \in [0 .. n -> Seq(P)] /\ g[0] = <<>> /\ g[m + 1] = next
          /\ \A i \in 0 .. n : i # m + 1 => g[i] = f[i]
      BY <1>1, <2>1, <2>2, <3>2
    <3> HIDE DEF g
    <3>4. ASSUME NEW i \in 1 .. n, i <= m + 1
          PROVE  g[i] = IF s[i] \in Q THEN Append(g[i - 1], s[i]) ELSE g[i - 1]
      <4>1. CASE i = m + 1
        <5>1. g[i - 1] = f[m]  BY <1>1, <3>3, <4>1
        <5> QED  BY <3>3, <4>1, <5>1 DEF next
      <4>2. CASE i # m + 1
        <5>1. i <= m /\ g[i] = f[i] /\ g[i - 1] = f[i - 1]  BY <1>1, <3>3, <3>4, <4>2
        <5> QED  BY <2>1, <5>1
      <4> QED  BY <4>1, <4>2
    <3>5. UpTo(g, m + 1)  BY <3>4
    <3> QED  BY <3>3, <3>5 DEF P
  <2>3. CASE m + 1 \notin 1 .. n
    <3>1. \A i \in 1 .. n : i <= m + 1 => i <= m  BY <1>1, <2>3
    <3>2. Good(m + 1)  BY <2>1, <3>1
    <3> QED  BY <3>2
  <2> QED  BY <2>2, <2>3
<1>4. Nat \subseteq G
  <2> HIDE DEF G
  <2> QED  BY <1>2, <1>3, Induction
<1>5. Good(n)  BY <1>1, <1>4
<1>6. \A i \in 1 .. n : i <= n  BY <1>1
<1> QED  BY <1>5, <1>6 DEF Loop

(* Two runs of the loop over the same table leave the same.                *)
LEMMA LoopUnique ==
  ASSUME NEW s \in Seq(PageId), NEW Q, NEW f, Loop(f, s, Q), NEW g,
         g[0] = <<>>,
         \A i \in 1 .. Len(s) : g[i] = IF s[i] \in Q THEN Append(g[i - 1], s[i]) ELSE g[i - 1]
  PROVE  g[Len(s)] = f[Len(s)]
<1> DEFINE n == Len(s)
           G == {m \in Nat : m <= n => g[m] = f[m]}
<1>1. n \in Nat  BY LenProperties
<1>2. /\ f[0] = <<>>
      /\ \A i \in 1 .. n : f[i] = IF s[i] \in Q THEN Append(f[i - 1], s[i]) ELSE f[i - 1]
  BY DEF Loop
<1>3. 0 \in G  BY <1>2
<1>4. ASSUME NEW m \in Nat, m \in G
      PROVE  m + 1 \in G
  <2> SUFFICES ASSUME m + 1 <= n PROVE g[m + 1] = f[m + 1]
    OBVIOUS
  <2>1. m + 1 \in 1 .. n /\ (m + 1) - 1 = m /\ m <= n  BY <1>1
  <2>2. g[m] = f[m]  BY <1>4, <2>1
  <2> QED  BY <1>2, <2>1, <2>2
<1>5. Nat \subseteq G
  <2> HIDE DEF G
  <2> QED  BY <1>3, <1>4, Induction
<1> QED  BY <1>1, <1>5

LEMMA AppendJoined ==
  ASSUME NEW S, NEW s \in Seq(S), NEW t \in Seq(S), NEW e \in S
  PROVE  s \o Append(t, e) = Append(s \o t, e)
<1>1. <<e>> \in Seq(S) /\ s \o t \in Seq(S)
  BY ConcatProperties
<1>2. Append(t, e) = t \o <<e>> /\ Append(s \o t, e) = (s \o t) \o <<e>>
  BY <1>1, AppendIsConcat
<1>3. s \o (t \o <<e>>) = (s \o t) \o <<e>>
  BY <1>1, ConcatAssociative
<1> QED  BY <1>2, <1>3

(* One table behind another.                                               *)
LEMMA LoopJoined ==
  ASSUME NEW s \in Seq(PageId), NEW t \in Seq(PageId), NEW Q, NEW u, NEW v,
         Left(s, Q, u), Left(t, Q, v)
  PROVE  Left(s \o t, Q, u \o v)
<1> DEFINE n == Len(s)
           m == Len(t)
           P == PageId
<1>1. PICK f : Loop(f, s, Q) /\ u = f[n]  BY DEF Left
<1>2. PICK g : Loop(g, t, Q) /\ v = g[m]  BY DEF Left
<1> DEFINE h == [i \in 0 .. n + m |-> IF i <= n THEN f[i] ELSE u \o g[i - n]]
           joined == s \o t
<1>3. /\ f \in [0 .. n -> Seq(P)] /\ f[0] = <<>>
      /\ \A i \in 1 .. n : f[i] = IF s[i] \in Q THEN Append(f[i - 1], s[i]) ELSE f[i - 1]
  BY <1>1 DEF Loop
<1>4. /\ g \in [0 .. m -> Seq(P)] /\ g[0] = <<>>
      /\ \A i \in 1 .. m : g[i] = IF t[i] \in Q THEN Append(g[i - 1], t[i]) ELSE g[i - 1]
  BY <1>2 DEF Loop
<1>5. /\ n \in Nat /\ m \in Nat /\ Len(joined) = n + m
      /\ \A i \in 1 .. n : joined[i] = s[i] /\ i \in 1 .. n + m
      /\ \A i \in 1 .. m : joined[i + n] = t[i]
      /\ \A i \in 1 .. m : t[i] \in P
  BY LenProperties, ConcatProperties
<1> HIDE DEF P, n, m, joined
<1>6. u \in Seq(P) /\ \A i \in 0 .. m : g[i] \in Seq(P) /\ u \o g[i] \in Seq(P)
  <2>1. u \in Seq(P)  BY <1>1, <1>3, <1>5
  <2>2. \A i \in 0 .. m : g[i] \in Seq(P)  BY <1>4
  <2> QED  BY <2>1, <2>2
<1>7. h \in [0 .. n + m -> Seq(P)]
  <2>1. ASSUME NEW i \in 0 .. n + m
        PROVE  (IF i <= n THEN f[i] ELSE u \o g[i - n]) \in Seq(P)
    <3>1. CASE i <= n
      <4>1. i \in 0 .. n  BY <1>5, <3>1
      <4> QED  BY <1>3, <3>1, <4>1
    <3>2. CASE ~(i <= n)
      <4>1. i - n \in 0 .. m  BY <1>5, <3>2
      <4> QED  BY <1>6, <3>2, <4>1
    <3> QED  BY <3>1, <3>2
  <2> QED  BY <2>1
<1>8. h[0] = <<>>  BY <1>3, <1>5
<1>9. \A i \in 0 .. n : h[i] = f[i]  BY <1>5
<1>10. \A i \in 0 .. m : h[i + n] = u \o g[i]
  <2>1. h[0 + n] = u \o g[0]
    <3>1. 0 + n \in 0 .. n + m /\ 0 + n = n /\ n <= n  BY <1>5
    <3>2. h[0 + n] = f[n]  BY <3>1
    <3> QED  BY <1>1, <1>4, <1>6, <3>2, ConcatEmptySeq
  <2>2. ASSUME NEW i \in 0 .. m, i # 0
        PROVE  h[i + n] = u \o g[i]
    <3>1. i + n \in 0 .. n + m /\ ~(i + n <= n) /\ (i + n) - n = i  BY <1>5, <2>2
    <3> QED  BY <3>1
  <2> HIDE DEF h
  <2> QED  BY <2>1, <2>2
<1> HIDE DEF h
<1>11. ASSUME NEW i \in 1 .. n + m
       PROVE  h[i] = IF joined[i] \in Q THEN Append(h[i - 1], joined[i]) ELSE h[i - 1]
  <2>1. CASE i <= n
    <3>1. i \in 1 .. n /\ i \in 0 .. n /\ i - 1 \in 0 .. n  BY <1>5, <2>1
    <3> QED  BY <1>3, <1>5, <1>9, <3>1
  <2>2. CASE ~(i <= n)
    <3> DEFINE k == i - n
    <3>1. k \in 1 .. m /\ k \in 0 .. m /\ k - 1 \in 0 .. m /\ k + n = i /\ (k - 1) + n = i - 1
      BY <1>5, <2>2
    <3> HIDE DEF k
    <3>2. joined[i] = t[k] /\ h[i] = u \o g[k] /\ h[i - 1] = u \o g[k - 1] /\ t[k] \in P
          /\ g[k - 1] \in Seq(P)
      BY <1>5, <1>6, <1>10, <3>1
    <3>3. CASE t[k] \in Q
      <4>1. g[k] = Append(g[k - 1], t[k])  BY <1>4, <3>1, <3>3
      <4>2. u \o Append(g[k - 1], t[k]) = Append(u \o g[k - 1], t[k])
        <5> DEFINE x == g[k - 1]
                   e == t[k]
        <5>1. x \in Seq(P) /\ e \in P /\ u \in Seq(P)  BY <1>6, <3>2
        <5> HIDE DEF x, e
        <5>2. u \o Append(x, e) = Append(u \o x, e)  BY <5>1, AppendJoined
        <5> QED  BY <5>2 DEF x, e
      <4> QED  BY <3>2, <3>3, <4>1, <4>2
    <3>4. CASE t[k] \notin Q
      <4>1. g[k] = g[k - 1]  BY <1>4, <3>1, <3>4
      <4> QED  BY <3>2, <3>4, <4>1
    <3> QED  BY <3>3, <3>4
  <2> QED  BY <2>1, <2>2
<1>12. Loop(h, joined, Q)
  BY <1>5, <1>7, <1>8, <1>11 DEF Loop, P
<1>13. h[Len(joined)] = u \o v
  <2>1. m \in 0 .. m /\ m + n = n + m  BY <1>5
  <2> QED  BY <1>2, <1>5, <1>10, <2>1
<1> QED  BY <1>12, <1>13 DEF Left, joined

(* A page more.                                                            *)
LEMMA AppendSet ==
  ASSUME NEW S, NEW s \in Seq(S), NEW e \in S
  PROVE  ToSet(Append(s, e)) = ToSet(s) \cup {e}
<1> DEFINE n == Len(s)
           longer == Append(s, e)
<1>1. n \in Nat /\ DOMAIN s = 1 .. n
  BY LenProperties
<1>2. /\ longer \in Seq(S) /\ Len(longer) = n + 1
      /\ \A i \in 1 .. n : longer[i] = s[i]
      /\ longer[n + 1] = e
  BY AppendProperties
<1>3. DOMAIN longer = 1 .. n + 1
  BY <1>2, LenProperties
<1> HIDE DEF n, longer
<1>4. 1 .. n + 1 = (1 .. n) \cup {n + 1}
  BY <1>1
<1>5. ToSet(longer) \subseteq ToSet(s) \cup {e}
  BY <1>1, <1>2, <1>3, <1>4 DEF ToSet
<1>6. ToSet(s) \subseteq ToSet(longer) /\ e \in ToSet(longer)
  BY <1>1, <1>2, <1>3, <1>4 DEF ToSet
<1> QED  BY <1>5, <1>6 DEF longer

(* What is left are the pages that pass.                                   *)
LEMMA LeftPasses ==
  ASSUME NEW s \in Seq(PageId), NEW Q, NEW t, Left(s, Q, t)
  PROVE  t \in Seq(PageId) /\ ToSet(t) = ToSet(s) \cap Q
<1> DEFINE n == Len(s)
           P == PageId
           Until(m) == {s[i] : i \in 1 .. m} \cap Q
<1>1. PICK f : Loop(f, s, Q) /\ t = f[n]  BY DEF Left
<1>2. /\ f \in [0 .. n -> Seq(P)] /\ f[0] = <<>>
      /\ \A i \in 1 .. n : f[i] = IF s[i] \in Q THEN Append(f[i - 1], s[i]) ELSE f[i - 1]
  BY <1>1 DEF Loop
<1>3. n \in Nat /\ DOMAIN s = 1 .. n /\ \A i \in 1 .. n : s[i] \in P
  BY LenProperties
<1> HIDE DEF n, P
<1> DEFINE G == {m \in Nat : m <= n => ToSet(f[m]) = Until(m)}
<1>4. 0 \in G
  <2>1. Until(0) = {}  OBVIOUS
  <2>2. ToSet(<<>>) = {}
    <3>1. DOMAIN <<>> = {}  OBVIOUS
    <3> QED  BY <3>1 DEF ToSet
  <2> QED  BY <1>2, <2>1, <2>2
<1>5. ASSUME NEW m \in Nat, m \in G
      PROVE  m + 1 \in G
  <2> SUFFICES ASSUME m + 1 <= n PROVE ToSet(f[m + 1]) = Until(m + 1)
    OBVIOUS
  <2>1. m <= n /\ m + 1 \in 1 .. n /\ m \in 0 .. n /\ (m + 1) - 1 = m
        /\ 1 .. m + 1 = (1 .. m) \cup {m + 1}
    BY <1>3
  <2>2. ToSet(f[m]) = Until(m)  BY <1>5, <2>1
  <2>3. Until(m + 1) = Until(m) \cup ({s[m + 1]} \cap Q)  BY <2>1
  <2>4. f[m + 1] = IF s[m + 1] \in Q THEN Append(f[m], s[m + 1]) ELSE f[m]
    BY <1>2, <2>1
  <2>5. f[m] \in Seq(P) /\ s[m + 1] \in P  BY <1>2, <1>3, <2>1
  <2> HIDE DEF Until
  <2>6. CASE s[m + 1] \in Q
    <3>1. ToSet(Append(f[m], s[m + 1])) = ToSet(f[m]) \cup {s[m + 1]}
      BY <2>5, AppendSet
    <3> QED  BY <2>2, <2>3, <2>4, <2>6, <3>1
  <2>7. CASE s[m + 1] \notin Q
    BY <2>2, <2>3, <2>4, <2>7
  <2> QED  BY <2>6, <2>7
<1>6. Nat \subseteq G
  <2> HIDE DEF G
  <2> QED  BY <1>4, <1>5, Induction
<1>7. ToSet(t) = Until(n)  BY <1>1, <1>3, <1>6
<1>8. Until(n) = ToSet(s) \cap Q  BY <1>3 DEF ToSet
<1>9. t \in Seq(P)  BY <1>1, <1>2, <1>3
<1> QED  BY <1>7, <1>8, <1>9 DEF P

LEMMA LeftUnique ==
  ASSUME NEW s \in Seq(PageId), NEW Q, NEW t, NEW u, Left(s, Q, t), Left(s, Q, u)
  PROVE  t = u
<1>1. PICK f : Loop(f, s, Q) /\ t = f[Len(s)]  BY DEF Left
<1>2. PICK g : Loop(g, s, Q) /\ u = g[Len(s)]  BY DEF Left
<1>3. /\ g[0] = <<>>
      /\ \A i \in 1 .. Len(s) : g[i] = IF s[i] \in Q THEN Append(g[i - 1], s[i]) ELSE g[i - 1]
  BY <1>2 DEF Loop
<1> QED  BY <1>1, <1>2, <1>3, LoopUnique

(* Only the pages of the table matter.                                     *)
LEMMA LeftSame ==
  ASSUME NEW s \in Seq(PageId), NEW Q, NEW R, NEW t, Left(s, Q, t),
         ToSet(s) \cap Q = ToSet(s) \cap R
  PROVE  Left(s, R, t)
<1>1. PICK f : Loop(f, s, Q) /\ t = f[Len(s)]  BY DEF Left
<1>2. \A i \in 1 .. Len(s) : s[i] \in Q <=> s[i] \in R
  <2>1. DOMAIN s = 1 .. Len(s)  BY LenProperties
  <2>2. \A i \in 1 .. Len(s) : s[i] \in ToSet(s)  BY <2>1 DEF ToSet
  <2> QED  BY <2>2
<1>3. Loop(f, s, R)  BY <1>1, <1>2 DEF Loop
<1> QED  BY <1>1, <1>3 DEF Left

LEMMA LeftOne ==
  ASSUME NEW id \in PageId, NEW Q, id \in Q
  PROVE  Left(<<id>>, Q, <<id>>)
<1> DEFINE s == <<id>>
           P == PageId
           f == [i \in 0 .. 1 |-> IF i = 0 THEN <<>> ELSE s]
<1>1. s \in Seq(P) /\ Len(s) = 1 /\ s[1] = id /\ <<>> \in Seq(P) /\ Append(<<>>, id) = s
  OBVIOUS
<1> HIDE DEF s, P
<1>2. f \in [0 .. 1 -> Seq(P)] /\ f[0] = <<>> /\ f[1] = s  BY <1>1
<1> HIDE DEF f
<1>3. \A i \in 1 .. 1 : i = 1 /\ i - 1 = 0  OBVIOUS
<1>4. Loop(f, s, Q)  BY <1>1, <1>2, <1>3 DEF Loop, P
<1> QED  BY <1>1, <1>2, <1>4 DEF Left, s

-----------------------------------------------------------------------------
(* Offered is that loop.                                                   *)

Allowed(guarded) == {id \in PageId : Passes(id, guarded)}

LEMMA OfferedLeft ==
  ASSUME NEW ids \in Seq(PageId), NEW guarded
  PROVE  Left(ids, Allowed(guarded), Offered(ids, guarded))
<1> DEFINE n == Len(ids)
           E(g, i) == IF i = 0 THEN <<>>
                      ELSE IF Passes(ids[i], guarded) THEN Append(g[i - 1], ids[i])
                      ELSE g[i - 1]
           F == CHOOSE g : g = [i \in 0 .. n |-> E(g, i)]
           Q == Allowed(guarded)
<1>1. Offered(ids, guarded) = F[n]
  BY DEF Offered
<1>2. PICK f : Loop(f, ids, Q)
  BY LoopExists
<1>3. n \in Nat /\ \A i \in 1 .. n : ids[i] \in PageId
  BY LenProperties
<1>4. /\ f = [i \in 0 .. n |-> f[i]] /\ f[0] = <<>>
      /\ \A i \in 1 .. n : f[i] = IF ids[i] \in Q THEN Append(f[i - 1], ids[i]) ELSE f[i - 1]
  BY <1>2 DEF Loop
<1>5. \A i \in 1 .. n : ids[i] \in Q <=> Passes(ids[i], guarded)
  BY <1>3 DEF Allowed
<1> HIDE DEF n, Q
<1>6. f = [i \in 0 .. n |-> E(f, i)]
  <2>1. ASSUME NEW i \in 0 .. n PROVE f[i] = E(f, i)
    <3>1. CASE i = 0  BY <1>4, <3>1
    <3>2. CASE i # 0
      <4>1. i \in 1 .. n  BY <1>3, <3>2
      <4> QED  BY <1>4, <1>5, <3>2, <4>1
    <3> QED  BY <3>1, <3>2
  <2> HIDE DEF E
  <2> QED  BY <1>4, <2>1
<1> HIDE DEF E
<1>7. F = [i \in 0 .. n |-> E(F, i)]
  BY <1>6
<1> HIDE DEF F
<1>8. F[0] = <<>>
  <2>1. 0 \in 0 .. n  BY <1>3
  <2>2. F[0] = E(F, 0)  BY <1>7, <2>1
  <2> QED  BY <2>2 DEF E
<1>9. ASSUME NEW i \in 1 .. n
      PROVE  F[i] = IF ids[i] \in Q THEN Append(F[i - 1], ids[i]) ELSE F[i - 1]
  <2>1. i \in 0 .. n /\ i # 0  BY <1>3
  <2>2. F[i] = E(F, i)  BY <1>7, <2>1
  <2> QED  BY <1>5, <2>1, <2>2 DEF E
<1>10. F[n] = f[n]
  BY <1>2, <1>8, <1>9, LoopUnique DEF n
<1> QED  BY <1>1, <1>2, <1>10 DEF Left, n, Q

LEMMA OfferedPasses ==
  ASSUME NEW ids \in Seq(PageId), NEW guarded
  PROVE  /\ Offered(ids, guarded) \in Seq(PageId)
         /\ ToSet(Offered(ids, guarded)) = ToSet(ids) \cap Allowed(guarded)
BY OfferedLeft, LeftPasses

LEMMA OfferedJoined ==
  ASSUME NEW s \in Seq(PageId), NEW t \in Seq(PageId), NEW guarded
  PROVE  Offered(s \o t, guarded) = Offered(s, guarded) \o Offered(t, guarded)
<1> DEFINE Q == Allowed(guarded)
<1>1. Left(s, Q, Offered(s, guarded)) /\ Left(t, Q, Offered(t, guarded))
  BY OfferedLeft
<1>2. s \o t \in Seq(PageId)  BY ConcatProperties
<1>3. Left(s \o t, Q, Offered(s \o t, guarded))  BY <1>2, OfferedLeft
<1> HIDE DEF Q
<1>4. Left(s \o t, Q, Offered(s, guarded) \o Offered(t, guarded))  BY <1>1, LoopJoined
<1> QED  BY <1>2, <1>3, <1>4, LeftUnique

LEMMA OfferedSame ==
  ASSUME NEW ids \in Seq(PageId), NEW g, NEW h,
         ToSet(ids) \cap Allowed(g) = ToSet(ids) \cap Allowed(h)
  PROVE  Offered(ids, g) = Offered(ids, h)
<1>1. Left(ids, Allowed(g), Offered(ids, g)) /\ Left(ids, Allowed(h), Offered(ids, h))
  BY OfferedLeft
<1>2. Left(ids, Allowed(h), Offered(ids, g))  BY <1>1, LeftSame
<1> QED  BY <1>1, <1>2, LeftUnique

LEMMA OfferedOne ==
  ASSUME NEW id \in PageId, NEW guarded, id \in Allowed(guarded)
  PROVE  Offered(<<id>>, guarded) = <<id>>
<1>1. <<id>> \in Seq(PageId)  OBVIOUS
<1>2. Left(<<id>>, Allowed(guarded), <<id>>)  BY LeftOne
<1>3. Left(<<id>>, Allowed(guarded), Offered(<<id>>, guarded))  BY <1>1, OfferedLeft
<1> QED  BY <1>1, <1>2, <1>3, LeftUnique

-----------------------------------------------------------------------------
(* The tables.  Those of ubuntu and unity are parted by the account page,  *)
(* and what comes behind it is the same.                                   *)

Before(d) == IF d = "ubuntu" THEN <<"goa", "livepatch", "ubuntu_report", "privacy">>
             ELSE <<"goa", "livepatch", "ubuntu_report">>
Behind == <<"password", "apps">>

Named == {"welcome", "language", "keyboard", "network", "privacy", "timezone", "software", "goa",
          "account", "password", "parental_controls", "parent_password", "summary", "livepatch",
          "ubuntu_report", "apps"}

LEMMA PageIds == PageId = Named
<1>1. ToSet(page_table) = {"welcome", "language", "keyboard", "network", "privacy", "timezone",
        "software", "goa", "account", "password", "parental_controls", "parent_password",
        "summary"}
  BY DEF ToSet, page_table
<1>2. ToSet(ubuntu_page_table) = {"goa", "livepatch", "ubuntu_report", "privacy", "account",
        "password", "apps"}
  BY DEF ToSet, ubuntu_page_table
<1> QED  BY <1>1, <1>2 DEF PageId, Named

LEMMA TablesInSeq ==
  /\ page_table \in Seq(PageId) /\ ubuntu_page_table \in Seq(PageId)
  /\ unity_page_table \in Seq(PageId) /\ Behind \in Seq(PageId)
  /\ \A d : Before(d) \in Seq(PageId)
  /\ \A d \in {"ubuntu", "unity", "gnome"} : Table(d) \in Seq(PageId)
<1>1. page_table \in Seq(PageId)  BY PageIds DEF page_table, Named
<1>2. ubuntu_page_table \in Seq(PageId)  BY PageIds DEF ubuntu_page_table, Named
<1>3. unity_page_table \in Seq(PageId)  BY PageIds DEF unity_page_table, Named
<1>4. Behind \in Seq(PageId)  BY PageIds DEF Behind, Named
<1>5. ASSUME NEW d
      PROVE  Before(d) \in Seq(PageId)
  <2>1. CASE d = "ubuntu"  BY <2>1, PageIds DEF Before, Named
  <2>2. CASE d # "ubuntu"  BY <2>2, PageIds DEF Before, Named
  <2> QED  BY <2>1, <2>2
<1>6. \A d \in {"ubuntu", "unity", "gnome"} : Table(d) \in Seq(PageId)
  BY <1>1, <1>2, <1>3 DEF Table
<1> QED  BY <1>1, <1>2, <1>3, <1>4, <1>5, <1>6

LEMMA TableParts ==
  ASSUME NEW d \in {"ubuntu", "unity"}
  PROVE  /\ Table(d) = Before(d) \o (<<"account">> \o Behind)
         /\ "account" \notin ToSet(Before(d)) /\ "account" \notin ToSet(Behind)
         /\ ToSet(Table(d)) \cap {"language", "parental_controls", "parent_password"} = {}
<1>1. "account" \notin ToSet(Before(d))  BY DEF ToSet, Before
<1>2. "account" \notin ToSet(Behind)  BY DEF ToSet, Behind
<1>3. CASE d = "ubuntu"
  <2>1. Table(d) = ubuntu_page_table  BY <1>3 DEF Table
  <2>2. ubuntu_page_table = Before(d) \o (<<"account">> \o Behind)
    BY <1>3 DEF ubuntu_page_table, Before, Behind
  <2>3. ToSet(ubuntu_page_table) \cap {"language", "parental_controls", "parent_password"} = {}
    BY DEF ToSet, ubuntu_page_table
  <2> QED  BY <1>1, <1>2, <2>1, <2>2, <2>3
<1>4. CASE d = "unity"
  <2>1. Table(d) = unity_page_table  BY <1>4 DEF Table
  <2>2. unity_page_table = Before(d) \o (<<"account">> \o Behind)
    BY <1>4 DEF unity_page_table, Before, Behind
  <2>3. ToSet(unity_page_table) \cap {"language", "parental_controls", "parent_password"} = {}
    BY DEF ToSet, unity_page_table
  <2> QED  BY <1>1, <1>2, <2>1, <2>2, <2>3
<1> QED  BY <1>3, <1>4

(* The walk in ubuntu_page_table.                                          *)
LEMMA Walk ==
  /\ Contains(ubuntu_page_table, "account") /\ Rest("account") = Behind
  /\ ~Contains(ubuntu_page_table, "language")
  /\ \A id : Contains(ubuntu_page_table, id) => Rest(id) \in Seq(PageId)
<1> DEFINE s == ubuntu_page_table
<1>1. /\ Len(s) = 7 /\ DOMAIN s = 1 .. 7 /\ s[1] = "goa" /\ s[2] = "livepatch"
      /\ s[3] = "ubuntu_report" /\ s[4] = "privacy" /\ s[5] = "account" /\ s[6] = "password"
      /\ s[7] = "apps"
  BY DEF ubuntu_page_table
<1>2. \A j \in 1 .. 7 : j = 1 \/ j = 2 \/ j = 3 \/ j = 4 \/ j = 5 \/ j = 6 \/ j = 7
  OBVIOUS
<1> HIDE DEF s
<1>3. Contains(s, "account") /\ ~Contains(s, "language")
  BY <1>1, <1>2 DEF Contains
<1>4. (CHOOSE j \in DOMAIN s : s[j] = "account") = 5
  BY <1>1, <1>2
<1>5. SubSeq(s, 6, 7) = Behind
  <2> DEFINE t == SubSeq(s, 6, 7)
             P == {"password", "apps"}
  <2>1. \A k \in 6 .. 7 : s[k] \in P  BY <1>1
  <2>2. t \in Seq(P) /\ Len(t) = 2 /\ \A k \in 1 .. 2 : t[k] = s[6 + k - 1]
    BY <2>1, SubSeqProperties
  <2>3. t[1] = "password" /\ t[2] = "apps"
    <3>1. t[1] = s[6] /\ t[2] = s[7]  BY <2>2
    <3> QED  BY <1>1, <3>1
  <2>4. Behind \in Seq(P) /\ Len(Behind) = 2 /\ Behind[1] = "password" /\ Behind[2] = "apps"
    BY DEF Behind
  <2> HIDE DEF t, P
  <2>5. \A k \in 1 .. 2 : k = 1 \/ k = 2  OBVIOUS
  <2>6. \A k \in 1 .. 2 : t[k] = Behind[k]  BY <2>3, <2>4, <2>5
  <2>7. t = Behind  BY <2>2, <2>4, <2>6, SeqEqual
  <2> QED  BY <2>7 DEF t
<1>6. Rest("account") = Behind
  BY <1>1, <1>4, <1>5 DEF Rest, s
<1>7. ASSUME NEW id, Contains(s, id)
      PROVE  Rest(id) \in Seq(PageId)
  <2> DEFINE i == CHOOSE j \in DOMAIN s : s[j] = id
  <2>1. i \in 1 .. 7  BY <1>1, <1>7 DEF Contains
  <2>2. Rest(id) = SubSeq(s, i + 1, Len(s))  BY DEF Rest, s
  <2>3. s \in Seq(PageId)  BY TablesInSeq DEF s
  <2> HIDE DEF i
  <2>4. \A k \in 1 .. 7 : s[k] \in PageId
    <3>1. \A k \in 1 .. Len(s) : s[k] \in PageId  BY <2>3, LenProperties
    <3> QED  BY <1>1, <3>1
  <2>5. i + 1 \in Int /\ \A k \in i + 1 .. 7 : k \in 1 .. 7  BY <2>1
  <2> QED  BY <1>1, <2>2, <2>4, <2>5, SubSeqProperties
<1> QED  BY <1>3, <1>6, <1>7 DEF s

-----------------------------------------------------------------------------
(* The specification.  TypeOK, with what may be on the list at all.        *)

Excluded == vendor.skip \cup (IF new_user THEN vendor.existing_user_only ELSE vendor.new_user_only)
Permitted == {id \in PageId : id # "welcome" => id \notin Excluded /\ (id \in NewUserOnly => new_user)}

PermittedInv == ToSet(pages) \subseteq Permitted
FreshInv == desktop # "gnome" => pages = Offered(Table(desktop), parental)

LEMMA AllowedPermitted ==
  ASSUME NEW guarded
  PROVE  Allowed(guarded) \subseteq Permitted
BY DEF Allowed, Permitted, Passes, ShouldSkip, SkipPages, Excluded

LEMMA OfferedPermitted ==
  ASSUME NEW ids \in Seq(PageId), NEW guarded
  PROVE  Offered(ids, guarded) \in Seq(PageId) /\ ToSet(Offered(ids, guarded)) \subseteq Permitted
BY OfferedPasses, AllowedPermitted

LEMMA JoinedSet ==
  ASSUME NEW S, NEW s \in Seq(S), NEW t \in Seq(S)
  PROVE  ToSet(s \o t) \subseteq ToSet(s) \cup ToSet(t)
<1> DEFINE joined == s \o t
<1>1. /\ Len(s) \in Nat /\ Len(t) \in Nat /\ DOMAIN s = 1 .. Len(s) /\ DOMAIN t = 1 .. Len(t)
      /\ joined \in Seq(S) /\ Len(joined) = Len(s) + Len(t) /\ DOMAIN joined = 1 .. Len(joined)
      /\ \A i \in 1 .. Len(s) + Len(t) : joined[i] = IF i <= Len(s) THEN s[i] ELSE t[i - Len(s)]
  BY LenProperties, ConcatProperties
<1> HIDE DEF joined
<1>2. ASSUME NEW i \in DOMAIN joined
      PROVE  joined[i] \in ToSet(s) \cup ToSet(t)
  <2>1. CASE i <= Len(s)
    <3>1. i \in DOMAIN s /\ joined[i] = s[i]  BY <1>1, <2>1
    <3> QED  BY <3>1 DEF ToSet
  <2>2. CASE ~(i <= Len(s))
    <3>1. i - Len(s) \in DOMAIN t /\ joined[i] = t[i - Len(s)]  BY <1>1, <2>2
    <3> QED  BY <3>1 DEF ToSet
  <2> QED  BY <2>1, <2>2
<1>3. ToSet(joined) \subseteq ToSet(s) \cup ToSet(t)
  BY <1>2 DEF ToSet
<1> QED  BY <1>3 DEF joined

(* destroy_pages_after keeps the pages up to the current one.              *)
LEMMA KeptPages ==
  ASSUME TypeOK, at > 0
  PROVE  /\ Kept \in Seq(PageId) /\ Len(Kept) = at /\ ToSet(Kept) \subseteq ToSet(pages)
         /\ \A i \in 1 .. at : Kept[i] = pages[i]
         /\ at \in DOMAIN pages /\ pages[at] \in ToSet(pages)
<1>1. at \in Nat /\ at <= Len(pages) /\ Len(pages) \in Nat /\ DOMAIN pages = 1 .. Len(pages)
      /\ pages \in Seq(PageId) /\ \A i \in 1 .. Len(pages) : pages[i] \in PageId
  BY LenProperties DEF TypeOK
<1>2. \A i \in 1 .. at : i \in 1 .. Len(pages)  BY <1>1
<1>3. \A i \in 1 .. at : pages[i] \in PageId  BY <1>1, <1>2
<1>4. /\ Kept \in Seq(PageId) /\ Len(Kept) = at
      /\ \A i \in 1 .. at : Kept[i] = pages[i]
  <2> DEFINE k == SubSeq(pages, 1, at)
  <2>1. /\ k \in Seq(PageId) /\ Len(k) = IF 1 <= at THEN at - 1 + 1 ELSE 0
        /\ \A i \in 1 .. at - 1 + 1 : k[i] = pages[1 + i - 1]
    BY <1>1, <1>3, SubSeqProperties
  <2> HIDE DEF k
  <2>2. Len(k) = at /\ \A i \in 1 .. at : k[i] = pages[i]  BY <1>1, <2>1
  <2> QED  BY <2>1, <2>2 DEF Kept, k
<1>5. DOMAIN Kept = 1 .. at  BY <1>4, LenProperties
<1>6. ToSet(Kept) \subseteq ToSet(pages)
  BY <1>1, <1>2, <1>4, <1>5 DEF ToSet
<1>7. at \in DOMAIN pages  BY <1>1
<1> QED  BY <1>4, <1>6, <1>7 DEF ToSet

(* Whatever table is walked: the pages up to the current one stay, those   *)
(* behind it are permitted.                                                *)
LEMMA RebuildKeeps ==
  ASSUME TypeOK, PermittedInv, at > 0, NEW guarded, Rebuild(guarded)
  PROVE  /\ pages' \in Seq(PageId) /\ at <= Len(pages')
         /\ ToSet(pages') \subseteq Permitted
         /\ \A i \in 1 .. at : pages'[i] = pages[i]
         /\ phase' \in {phase, "stopped"} /\ overruns' \in 0 .. MaxOverruns
<1>1. /\ Kept \in Seq(PageId) /\ Len(Kept) = at /\ ToSet(Kept) \subseteq Permitted
      /\ \A i \in 1 .. at : Kept[i] = pages[i]
  BY KeptPages DEF PermittedInv
<1>0. at \in Nat /\ overruns \in 0 .. MaxOverruns /\ MaxOverruns \in Nat
      /\ pages \in Seq(PageId) /\ at <= Len(pages)
  BY BoundAssumption, LenProperties DEF TypeOK
<1>2. ASSUME NEW ids \in Seq(PageId), pages' = Kept \o Offered(ids, guarded)
      PROVE  /\ pages' \in Seq(PageId) /\ at <= Len(pages')
             /\ ToSet(pages') \subseteq Permitted
             /\ \A i \in 1 .. at : pages'[i] = pages[i]
  <2> DEFINE rest == Offered(ids, guarded)
  <2>1. rest \in Seq(PageId) /\ ToSet(rest) \subseteq Permitted  BY OfferedPermitted
  <2> HIDE DEF rest
  <2>2. /\ pages' \in Seq(PageId) /\ Len(pages') = at + Len(rest) /\ Len(rest) \in Nat
        /\ \A i \in 1 .. at + Len(rest) : pages'[i] = IF i <= at THEN Kept[i] ELSE rest[i - at]
    BY <1>1, <1>2, <2>1, ConcatProperties, LenProperties DEF rest
  <2>3. at <= Len(pages') /\ \A i \in 1 .. at : pages'[i] = pages[i]
    <3>1. \A i \in 1 .. at : i \in 1 .. at + Len(rest) /\ i <= at  BY <1>0, <2>2
    <3>2. at <= Len(pages')  BY <1>0, <2>2
    <3> QED  BY <1>1, <2>2, <3>1, <3>2
  <2>4. ToSet(pages') \subseteq Permitted
    <3>1. pages' = Kept \o rest  BY <1>2 DEF rest
    <3>2. ToSet(Kept \o rest) \subseteq ToSet(Kept) \cup ToSet(rest)
      BY <1>1, <2>1, JoinedSet
    <3> QED  BY <1>1, <2>1, <3>1, <3>2
  <2> QED  BY <2>2, <2>3, <2>4
<1>3. CASE Contains(ubuntu_page_table, pages[at]) /\ pages' = Kept \o Offered(Rest(pages[at]), guarded)
           /\ UNCHANGED <<phase, overruns>>
  <2>1. Rest(pages[at]) \in Seq(PageId)  BY <1>3, Walk
  <2> QED  BY <1>0, <1>2, <1>3, <2>1
<1>4. CASE Overrun(guarded)
  <2>1. overruns' \in 0 .. MaxOverruns
    BY <1>0, <1>4 DEF Overrun
  <2>2. CASE \E t \in {page_table, unity_page_table} : \E i \in 1 .. Len(t) + 1 :
                pages' = Kept \o Offered(SubSeq(t, i, Len(t)), guarded) /\ UNCHANGED phase
    <3>0. PICK t \in Seq(PageId) : \E i \in 1 .. Len(t) + 1 :
            pages' = Kept \o Offered(SubSeq(t, i, Len(t)), guarded) /\ UNCHANGED phase
      BY <2>2, TablesInSeq
    <3>1. PICK i \in 1 .. Len(t) + 1 :
            pages' = Kept \o Offered(SubSeq(t, i, Len(t)), guarded) /\ UNCHANGED phase
      BY <3>0
    <3>2. \A j \in i .. Len(t) : t[j] \in PageId
      <4> TAKE j \in i .. Len(t)
      <4>1. j \in 1 .. Len(t)  BY LenProperties
      <4> QED  BY <4>1, ElementOfSeq
    <3>3. SubSeq(t, i, Len(t)) \in Seq(PageId)  BY <3>2, LenProperties, SubSeqProperties
    <3> QED  BY <1>2, <2>1, <3>1, <3>3
  <2>3. CASE phase' = "stopped" /\ UNCHANGED pages
    BY <1>0, <2>1, <2>3 DEF PermittedInv
  <2> QED  BY <1>4, <2>2, <2>3 DEF Overrun
<1> QED  BY <1>3, <1>4 DEF Rebuild

(* Where the account page parts the table, it parts the list.              *)
LEMMA ListParts ==
  ASSUME NEW d \in {"ubuntu", "unity"}, NEW guarded, "account" \in Allowed(guarded)
  PROVE  /\ Offered(Table(d), guarded) =
              Offered(Before(d), guarded) \o (<<"account">> \o Offered(Behind, guarded))
         /\ Offered(Before(d), guarded) \in Seq(PageId) /\ Offered(Behind, guarded) \in Seq(PageId)
         /\ "account" \notin ToSet(Offered(Before(d), guarded))
         /\ "account" \notin ToSet(Offered(Behind, guarded))
<1>1. Before(d) \in Seq(PageId) /\ Behind \in Seq(PageId) /\ "account" \in PageId
  BY TablesInSeq DEF Allowed
<1>2. <<"account">> \in Seq(PageId)  BY <1>1
<1>3. <<"account">> \o Behind \in Seq(PageId)  BY <1>1, <1>2, ConcatProperties
<1>4. Offered(Table(d), guarded) =
        Offered(Before(d), guarded) \o Offered(<<"account">> \o Behind, guarded)
  <2> DEFINE back == <<"account">> \o Behind
  <2>1. back \in Seq(PageId) /\ Table(d) = Before(d) \o back  BY <1>3, TableParts
  <2> HIDE DEF back
  <2>2. Offered(Before(d) \o back, guarded) = Offered(Before(d), guarded) \o Offered(back, guarded)
    BY <1>1, <2>1, OfferedJoined
  <2> QED  BY <2>1, <2>2 DEF back
<1>5. Offered(<<"account">> \o Behind, guarded) =
        Offered(<<"account">>, guarded) \o Offered(Behind, guarded)
  BY <1>1, <1>2, OfferedJoined
<1>6. Offered(<<"account">>, guarded) = <<"account">>
  BY <1>1, OfferedOne
<1>7. /\ Offered(Before(d), guarded) \in Seq(PageId) /\ Offered(Behind, guarded) \in Seq(PageId)
      /\ "account" \notin ToSet(Offered(Before(d), guarded))
      /\ "account" \notin ToSet(Offered(Behind, guarded))
  BY <1>1, OfferedPasses, TableParts
<1> QED  BY <1>4, <1>5, <1>6, <1>7

(* w is v behind u.                                                        *)
IsJoined(S, w, u, v) ==
  /\ u \in Seq(S) /\ v \in Seq(S) /\ w \in Seq(S) /\ Len(w) = Len(u) + Len(v)
  /\ \A j \in 1 .. Len(u) + Len(v) : w[j] = IF j <= Len(u) THEN u[j] ELSE v[j - Len(u)]

LEMMA JoinedIs ==
  ASSUME NEW S, NEW u \in Seq(S), NEW v \in Seq(S)
  PROVE  IsJoined(S, u \o v, u, v)
BY ConcatProperties DEF IsJoined

(* A page that is in a list once is where the list is parted.              *)
LEMMA PartedAtOne ==
  ASSUME NEW S, NEW s, NEW t, NEW one, NEW back, NEW whole, NEW front, NEW i \in Nat, i > 0,
         IsJoined(S, back, one, t), IsJoined(S, whole, s, back), IsJoined(S, front, s, one),
         Len(one) = 1, i <= Len(whole), whole[i] = one[1],
         one[1] \notin ToSet(s), one[1] \notin ToSet(t)
  PROVE  SubSeq(whole, 1, i) = front
<1>2. /\ back \in Seq(S) /\ Len(back) = Len(one) + Len(t)
      /\ t \in Seq(S) /\ one \in Seq(S)
      /\ \A j \in 1 .. Len(one) + Len(t) :
            back[j] = IF j <= Len(one) THEN one[j] ELSE t[j - Len(one)]
  BY DEF IsJoined
<1>3. /\ whole \in Seq(S) /\ Len(whole) = Len(s) + Len(back) /\ s \in Seq(S)
      /\ \A j \in 1 .. Len(s) + Len(back) :
            whole[j] = IF j <= Len(s) THEN s[j] ELSE back[j - Len(s)]
  BY DEF IsJoined
<1>4. /\ front \in Seq(S) /\ Len(front) = Len(s) + Len(one)
      /\ \A j \in 1 .. Len(s) + Len(one) :
            front[j] = IF j <= Len(s) THEN s[j] ELSE one[j - Len(s)]
  BY DEF IsJoined
<1>1. /\ Len(s) \in Nat /\ DOMAIN s = 1 .. Len(s) /\ Len(t) \in Nat /\ DOMAIN t = 1 .. Len(t)
  BY <1>2, <1>3, LenProperties
<1> DEFINE n == Len(s)
           m == Len(t)
           e == one[1]
<1>5. /\ Len(back) = 1 + m /\ Len(whole) = n + (1 + m) /\ Len(front) = n + 1
      /\ i \in 1 .. n + (1 + m)
  BY <1>1, <1>2, <1>3, <1>4
<1>6. /\ n \in Nat /\ m \in Nat /\ e \notin ToSet(s) /\ e \notin ToSet(t) /\ whole[i] = e
      /\ DOMAIN s = 1 .. n /\ DOMAIN t = 1 .. m /\ one[1] = e
      /\ \A j \in 1 .. 1 + m : back[j] = IF j <= 1 THEN one[j] ELSE t[j - 1]
      /\ \A j \in 1 .. n + (1 + m) : whole[j] = IF j <= n THEN s[j] ELSE back[j - n]
      /\ \A j \in 1 .. n + 1 : front[j] = IF j <= n THEN s[j] ELSE one[j - n]
  BY <1>1, <1>2, <1>3, <1>4, <1>5
<1> HIDE DEF n, m, e
<1>7. ~(i <= n)
  <2> SUFFICES ASSUME i <= n PROVE FALSE
    OBVIOUS
  <2>1. i \in 1 .. n  BY <1>5
  <2>2. s[i] = e  BY <1>5, <1>6
  <2> QED  BY <1>6, <2>1, <2>2 DEF ToSet
<1>8. ~(i > n + 1)
  <2> SUFFICES ASSUME i > n + 1 PROVE FALSE
    OBVIOUS
  <2> DEFINE k == (i - n) - 1
  <2>1. k \in 1 .. m /\ i - n \in 1 .. 1 + m /\ ~(i - n <= 1) /\ ~(i <= n)  BY <1>5, <1>6
  <2>2. t[k] = e  BY <1>5, <1>6, <2>1
  <2> HIDE DEF k
  <2> QED  BY <1>6, <2>1, <2>2 DEF ToSet
<1>9. i = n + 1  BY <1>5, <1>6, <1>7, <1>8
<1> DEFINE cut == SubSeq(whole, 1, i)
<1>10. \A j \in 1 .. i : whole[j] \in S
  <2>1. \A j \in 1 .. n + (1 + m) : whole[j] \in S  BY <1>3, <1>5, LenProperties
  <2>2. \A j \in 1 .. i : j \in 1 .. n + (1 + m)  BY <1>5, <1>6
  <2> QED  BY <2>1, <2>2
<1>11. /\ cut \in Seq(S) /\ Len(cut) = i - 1 + 1
       /\ \A j \in 1 .. i - 1 + 1 : cut[j] = whole[1 + j - 1]
  <2>1. i \in Int /\ 1 <= i /\ 1 \in Int  OBVIOUS
  <2>2. /\ cut \in Seq(S) /\ Len(cut) = IF 1 <= i THEN i - 1 + 1 ELSE 0
        /\ \A j \in 1 .. i - 1 + 1 : cut[j] = whole[1 + j - 1]
    BY <1>10, <2>1, SubSeqProperties
  <2> QED  BY <2>1, <2>2
<1> HIDE DEF cut
<1>12. Len(cut) = Len(front) /\ Len(cut) = n + 1  BY <1>5, <1>6, <1>9, <1>11
<1>13. ASSUME NEW j \in 1 .. n + 1
       PROVE  cut[j] = front[j]
  <2>1. cut[j] = whole[j] /\ j \in 1 .. n + (1 + m)  BY <1>6, <1>9, <1>11
  <2>2. CASE j <= n  BY <1>6, <2>1, <2>2
  <2>3. CASE ~(j <= n)
    <3>1. j = i /\ j - n = 1  BY <1>6, <1>9, <2>3
    <3>2. front[j] = one[1]  BY <1>6, <2>3, <3>1
    <3> QED  BY <1>6, <2>1, <3>1, <3>2
  <2> QED  BY <2>2, <2>3
<1>14. cut = front  BY <1>4, <1>11, <1>12, <1>13, SeqEqual
<1> QED  BY <1>14 DEF cut

LEMMA PartedAt ==
  ASSUME NEW S, NEW s \in Seq(S), NEW t \in Seq(S), NEW e \in S, NEW i \in Nat, i > 0,
         i <= Len(s \o (<<e>> \o t)),
         e \notin ToSet(s), e \notin ToSet(t), (s \o (<<e>> \o t))[i] = e
  PROVE  SubSeq(s \o (<<e>> \o t), 1, i) = s \o <<e>>
<1> DEFINE one == <<e>>
           back == one \o t
           whole == s \o back
           front == s \o one
<1>1. one \in Seq(S) /\ Len(one) = 1 /\ one[1] = e /\ i <= Len(whole) /\ whole[i] = e
  OBVIOUS
<1>2. IsJoined(S, back, one, t)
  <2> HIDE DEF one
  <2> QED  BY <1>1, JoinedIs
<1>3. IsJoined(S, front, s, one)
  <2> HIDE DEF one
  <2> QED  BY <1>1, JoinedIs
<1>4. IsJoined(S, whole, s, back)
  <2>1. back \in Seq(S)  BY <1>2 DEF IsJoined
  <2> HIDE DEF back
  <2> QED  BY <2>1, JoinedIs
<1> HIDE DEF one, back, whole, front
<1>5. SubSeq(whole, 1, i) = front  BY <1>1, <1>2, <1>3, <1>4, PartedAtOne
<1> QED  BY <1>5 DEF one, back, whole, front

(* What passes in these tables does not depend on the parental controls.   *)
LEMMA NotGuarded ==
  ASSUME NEW d \in {"ubuntu", "unity"}, NEW g, NEW h
  PROVE  Offered(Table(d), g) = Offered(Table(d), h)
<1>1. Table(d) \in Seq(PageId)  BY TablesInSeq
<1>2. \A id \in ToSet(Table(d)) : id \notin {"parental_controls", "parent_password"}
  BY TableParts
<1>3. \A id : id \notin {"parental_controls", "parent_password"} => (Passes(id, g) <=> Passes(id, h))
  BY DEF Passes, Prepared
<1>4. ToSet(Table(d)) \cap Allowed(g) = ToSet(Table(d)) \cap Allowed(h)
  BY <1>2, <1>3 DEF Allowed
<1> QED  BY <1>1, <1>4, OfferedSame

LEMMA FreshRebuild ==
  ASSUME TypeOK, FreshInv, at > 0, desktop \in {"ubuntu", "unity"}, pages[at] = "account",
         NEW guarded, Rebuild(guarded)
  PROVE  pages' = Offered(Table(desktop), guarded)
<1> DEFINE d == desktop
           a == Offered(Before(d), parental)
           b == Offered(Behind, parental)
<1>1. pages = Offered(Table(d), parental)  BY DEF FreshInv
<1>2. "account" \in ToSet(pages)  BY KeptPages
<1>3. "account" \in Allowed(parental)
  BY <1>1, <1>2, OfferedPasses, TablesInSeq
<1>4. /\ pages = a \o (<<"account">> \o b) /\ a \in Seq(PageId) /\ b \in Seq(PageId)
      /\ "account" \notin ToSet(a) /\ "account" \notin ToSet(b) /\ "account" \in PageId
  BY <1>1, <1>3, ListParts DEF Allowed
<1>5. at \in Nat /\ at <= Len(pages)  BY LenProperties DEF TypeOK
<1> HIDE DEF a, b
<1>6. Kept = a \o <<"account">>
  <2> DEFINE x == "account"
  <2>1. x \in PageId /\ x \notin ToSet(a) /\ x \notin ToSet(b) /\ pages = a \o (<<x>> \o b)
        /\ pages[at] = x
    BY <1>4
  <2> HIDE DEF x
  <2>2. SubSeq(pages, 1, at) = a \o <<x>>
    BY <1>4, <1>5, <2>1, PartedAt
  <2> QED  BY <2>2 DEF Kept, x
<1>7. pages' = Kept \o Offered(Behind, guarded)
  BY Walk DEF Rebuild, Overrun
<1>8. Offered(Table(d), guarded) = Offered(Table(d), parental)
  BY NotGuarded
<1>9. b = Offered(Behind, guarded)
  <2>1. ToSet(Behind) = {"password", "apps"}  BY DEF Behind, ToSet
  <2>2. \A id \in {"password", "apps"} : Passes(id, guarded) <=> Passes(id, parental)
    BY DEF Passes, Prepared
  <2>3. ToSet(Behind) \cap Allowed(guarded) = ToSet(Behind) \cap Allowed(parental)
    BY <2>1, <2>2 DEF Allowed
  <2> QED  BY <2>3, OfferedSame, TablesInSeq DEF b
<1>10. (a \o <<"account">>) \o b = a \o (<<"account">> \o b)
  <2>1. <<"account">> \in Seq(PageId)  BY <1>4
  <2> QED  BY <1>4, <2>1, ConcatAssociative
<1> QED  BY <1>1, <1>4, <1>6, <1>7, <1>8, <1>9, <1>10


(* A list depends on the tables, the vendor's file, the mode and what this *)
(* machine supports, which no step changes.                                *)
LEMMA OfferedStays ==
  ASSUME UNCHANGED system
  PROVE  /\ (Offered(Table(desktop), parental))' = Offered(Table(desktop), parental')
         /\ Permitted' = Permitted
<1>1. /\ desktop' = desktop /\ vendor' = vendor /\ new_user' = new_user
      /\ livepatch' = livepatch /\ software' = software
  BY DEF system
<1>2. Permitted' = Permitted
  BY <1>1 DEF Permitted, Excluded
<1>3. (Offered(Table(desktop), parental))' = Offered(Table(desktop), parental')
  BY <1>1 DEF Offered, Passes, ShouldSkip, SkipPages, Prepared, Table
<1> QED  BY <1>2, <1>3


Inv == TypeOK /\ PermittedInv /\ FreshInv

LEMMA DesktopKnown ==
  ASSUME TypeOK
  PROVE  desktop \in {"ubuntu", "unity", "gnome"}
BY DesktopsAssumption DEF TypeOK

(* Nobody changes the language on the desktops without a language page.    *)
LEMMA NoLanguagePage ==
  ASSUME TypeOK, FreshInv, desktop # "gnome", at > 0
  PROVE  pages[at] # "language"
<1>1. desktop \in {"ubuntu", "unity"}  BY DesktopKnown
<1>2. Table(desktop) \in Seq(PageId)  BY <1>1, TablesInSeq
<1>3. ToSet(pages) \subseteq ToSet(Table(desktop))  BY <1>2, OfferedPasses DEF FreshInv
<1>4. pages[at] \in ToSet(pages)  BY KeptPages
<1> QED  BY <1>1, <1>3, <1>4, TableParts

LEMMA FreshStep ==
  ASSUME Inv, [Next]_vars
  PROVE  FreshInv'
<1> SUFFICES ASSUME desktop' # "gnome"
             PROVE  pages' = (Offered(Table(desktop), parental))'
  BY DEF FreshInv
<1> USE DEF Inv
<1>1. UNCHANGED system
  BY DEF Next, vars, NextPage, ApplyAccount, PreviousPage, ChangeLanguage, Finish
<1>2. desktop \in {"ubuntu", "unity"}
  BY <1>1, DesktopKnown DEF system
<1>3. pages = Offered(Table(desktop), parental)
  BY <1>2 DEF FreshInv
<1>4. SUFFICES pages' = Offered(Table(desktop), parental')
  BY <1>1, OfferedStays
<1>5. CASE UNCHANGED <<pages, parental>>
  BY <1>3, <1>5
<1>6. ASSUME NEW guarded \in BOOLEAN, ApplyAccount(guarded)
      PROVE  pages' = Offered(Table(desktop), parental')
  <2>1. CASE guarded = parental
    BY <1>3, <1>6, <2>1 DEF ApplyAccount
  <2>2. CASE guarded # parental
    <3>1. at > 0 /\ pages[at] = "account" /\ parental' = guarded /\ Rebuild(guarded)
      BY <1>6, <2>2 DEF ApplyAccount, Running
    <3> QED  BY <1>2, <3>1, FreshRebuild
  <2> QED  BY <2>1, <2>2
<1>7. ~ChangeLanguage
  BY <1>2, NoLanguagePage DEF ChangeLanguage, Running
<1> QED
  BY <1>5, <1>6, <1>7 DEF Next, vars, NextPage, PreviousPage, Finish

(* The current page stays on the list.                                     *)
LEMMA TypeStep ==
  ASSUME Inv, [Next]_vars
  PROVE  TypeOK' /\ PermittedInv'
<1> USE DEF Inv
<1>1. UNCHANGED system
  BY DEF Next, vars, NextPage, ApplyAccount, PreviousPage, ChangeLanguage, Finish
<1>2. Permitted' = Permitted  BY <1>1, OfferedStays
<1>3. /\ desktop \in Desktops /\ vendor \in Vendors
      /\ new_user \in BOOLEAN /\ livepatch \in BOOLEAN /\ software \in BOOLEAN
      /\ parental \in BOOLEAN /\ saved \in BOOLEAN
      /\ pages \in Seq(PageId) /\ Len(pages) \in Nat /\ at \in Nat /\ at <= Len(pages)
      /\ phase \in {"running", "ended", "stopped"} /\ overruns \in 0 .. MaxOverruns
  BY LenProperties DEF TypeOK
<1>4. SUFFICES /\ parental' \in BOOLEAN /\ saved' \in BOOLEAN
               /\ pages' \in Seq(PageId) /\ at' \in Nat /\ at' <= Len(pages')
               /\ phase' \in {"running", "ended", "stopped"} /\ overruns' \in 0 .. MaxOverruns
               /\ ToSet(pages') \subseteq Permitted
  <2>1. /\ desktop' \in Desktops /\ vendor' \in Vendors
        /\ {new_user', livepatch', software', parental', saved'} \subseteq BOOLEAN
    BY <1>1, <1>3, <1>4 DEF system, Vendors
  <2>2. Len(pages') \in Nat  BY <1>4, LenProperties
  <2>3. at' \in 0 .. Len(pages')  BY <1>4, <2>2
  <2> QED  BY <1>2, <1>4, <2>1, <2>3 DEF TypeOK, PermittedInv
<1>5. CASE UNCHANGED vars
  BY <1>3, <1>5 DEF vars, PermittedInv
<1>6. CASE NextPage
  <2>1. saved' \in BOOLEAN  BY <1>3, <1>6 DEF NextPage, Show
  <2> QED  BY <1>3, <1>6, <2>1 DEF NextPage, Show, PermittedInv
<1>7. ASSUME NEW guarded \in BOOLEAN, ApplyAccount(guarded)
      PROVE  /\ parental' \in BOOLEAN /\ saved' \in BOOLEAN
             /\ pages' \in Seq(PageId) /\ at' \in Nat /\ at' <= Len(pages')
             /\ phase' \in {"running", "ended", "stopped"} /\ overruns' \in 0 .. MaxOverruns
             /\ ToSet(pages') \subseteq Permitted
  <2>1. /\ pages' \in Seq(PageId) /\ at <= Len(pages') /\ ToSet(pages') \subseteq Permitted
        /\ phase' \in {"running", "ended", "stopped"} /\ overruns' \in 0 .. MaxOverruns
    <3>1. CASE guarded = parental
      BY <1>3, <1>7, <3>1 DEF ApplyAccount, PermittedInv
    <3>2. CASE guarded # parental
      <4>1. at > 0 /\ Rebuild(guarded)  BY <1>7, <3>2 DEF ApplyAccount, Running
      <4>2. /\ pages' \in Seq(PageId) /\ at <= Len(pages') /\ ToSet(pages') \subseteq Permitted
            /\ phase' \in {phase, "stopped"} /\ overruns' \in 0 .. MaxOverruns
        BY <4>1, RebuildKeeps
      <4> QED  BY <1>3, <4>2
    <3> QED  BY <3>1, <3>2
  <2>2. parental' \in BOOLEAN  BY <1>7 DEF ApplyAccount
  <2>3. saved' \in BOOLEAN  BY <1>3, <1>7 DEF ApplyAccount, Show
  <2>4. \/ at' = at + 1 /\ at < Len(pages')
        \/ at' = at
    BY <1>7 DEF ApplyAccount, Show
  <2>5. Len(pages') \in Nat  BY <2>1, LenProperties
  <2>6. at' \in Nat /\ at' <= Len(pages')  BY <1>3, <2>1, <2>4, <2>5
  <2> QED  BY <2>1, <2>2, <2>3, <2>6
<1>8. CASE PreviousPage
  <2>1. at' \in Nat /\ at' <= Len(pages)  BY <1>3, <1>8 DEF PreviousPage
  <2> QED  BY <1>3, <1>8, <2>1 DEF PreviousPage, PermittedInv
<1>9. CASE ChangeLanguage
  <2>1. /\ pages' \in Seq(PageId) /\ at <= Len(pages') /\ ToSet(pages') \subseteq Permitted
        /\ phase' \in {phase, "stopped"} /\ overruns' \in 0 .. MaxOverruns
    BY <1>9, RebuildKeeps DEF ChangeLanguage, Running
  <2> QED  BY <1>3, <1>9, <2>1 DEF ChangeLanguage
<1>10. CASE Finish
  BY <1>3, <1>10 DEF Finish, PermittedInv
<1> QED  BY <1>5, <1>6, <1>7, <1>8, <1>9, <1>10 DEF Next

LEMMA InitInv == Init => Inv
<1> SUFFICES ASSUME Init PROVE Inv
  OBVIOUS
<1>1. desktop \in {"ubuntu", "unity", "gnome"}  BY DesktopsAssumption DEF Init
<1>2. Table(desktop) \in Seq(PageId)  BY <1>1, TablesInSeq
<1>3. pages = Offered(Table(desktop), FALSE) /\ parental = FALSE  BY DEF Init
<1>4. pages \in Seq(PageId) /\ ToSet(pages) \subseteq Permitted
  BY <1>2, <1>3, OfferedPermitted
<1>5. at \in 0 .. Len(pages)
  <2>1. Len(pages) \in Nat  BY <1>4, LenProperties
  <2>2. pages # <<>> => Len(pages) > 0  BY <1>4, EmptySeq
  <2>3. at = IF pages = <<>> THEN 0 ELSE 1  BY DEF Init
  <2> QED  BY <2>1, <2>2, <2>3
<1>6. TypeOK
  <2>1. overruns \in 0 .. MaxOverruns  BY BoundAssumption DEF Init
  <2>2. {new_user, livepatch, software, parental, saved} \subseteq BOOLEAN  BY DEF Init
  <2>3. desktop \in Desktops /\ vendor \in Vendors /\ phase \in {"running", "ended", "stopped"}
    BY DEF Init
  <2> QED  BY <1>4, <1>5, <2>1, <2>2, <2>3 DEF TypeOK
<1> QED  BY <1>3, <1>4, <1>6 DEF Inv, PermittedInv, FreshInv

LEMMA Invariance == Spec => []Inv
<1>1. Inv /\ [Next]_vars => Inv'
  BY FreshStep, TypeStep DEF Inv
<1> QED  BY <1>1, InitInv, PTL DEF Spec

(* Every variable has its type: however the list is cut and built again,   *)
(* the current page is one of it, which rebuild_pages_cb takes for granted.*)
THEOREM TypeCorrect == Spec => []TypeOK
<1>1. Inv => TypeOK  BY DEF Inv
<1> QED  BY <1>1, Invariance, PTL

(* On the desktops whose tables agree with the one rebuild_pages_cb walks, *)
(* what it builds is what a start with the present choices would; and it   *)
(* never brings a page that pages_to_skip_from_file or the mode leaves out.*)
THEOREM ListFresh == Spec => []ListIsFresh
<1>1. Inv => ListIsFresh
  BY DEF Inv, PermittedInv, FreshInv, Permitted, Excluded, ListIsFresh
<1> QED  BY <1>1, Invariance, PTL

(* destroy_pages_after takes no page away that the user has been through.  *)
THEOREM PagesSeenStay == Spec => SeenStay
<1>1. ASSUME Inv, [Next]_vars
      PROVE  [SubSeq(pages', 1, at) = SubSeq(pages, 1, at)]_vars
  <2> SUFFICES SubSeq(pages', 1, at) = SubSeq(pages, 1, at)
    OBVIOUS
  <2>1. CASE pages' = pages  BY <2>1
  <2>2. CASE pages' # pages
    <3>1. PICK guarded : at > 0 /\ Rebuild(guarded)
      BY <1>1, <2>2
      DEF Next, vars, NextPage, ApplyAccount, PreviousPage, ChangeLanguage, Finish, Running
    <3>2. /\ pages' \in Seq(PageId) /\ at <= Len(pages')
          /\ \A i \in 1 .. at : pages'[i] = pages[i]
      BY <1>1, <3>1, RebuildKeeps DEF Inv
    <3>3. /\ Kept \in Seq(PageId) /\ Len(Kept) = at /\ \A i \in 1 .. at : Kept[i] = pages[i]
      BY <1>1, <3>1, KeptPages DEF Inv
    <3> DEFINE now == SubSeq(pages', 1, at)
    <3>4. at \in Nat /\ 1 <= at /\ at \in Int  BY <1>1, <3>1 DEF Inv, TypeOK
    <3>5. \A i \in 1 .. at : pages'[i] \in PageId
      <4>1. \A i \in 1 .. Len(pages') : pages'[i] \in PageId  BY <3>2, LenProperties
      <4>2. \A i \in 1 .. at : i \in 1 .. Len(pages')
        BY <3>2, <3>4, LenProperties
      <4> QED  BY <4>1, <4>2
    <3>6. /\ now \in Seq(PageId) /\ Len(now) = at - 1 + 1
          /\ \A i \in 1 .. at - 1 + 1 : now[i] = pages'[1 + i - 1]
      BY <3>4, <3>5, SubSeqProperties
    <3> HIDE DEF now
    <3>7. now \in Seq(PageId) /\ Len(now) = at /\ \A i \in 1 .. at : now[i] = pages'[i]
      BY <3>4, <3>6
    <3>8. Len(now) = Len(Kept) /\ \A i \in 1 .. Len(now) : now[i] = Kept[i]
      BY <3>2, <3>3, <3>7
    <3>9. now = Kept  BY <3>3, <3>7, <3>8, SeqEqual
    <3> QED  BY <3>9 DEF now, Kept
  <2> QED  BY <2>1, <2>2
<1> QED  BY <1>1, Invariance, PTL DEF Spec, SeenStay
=============================================================================
