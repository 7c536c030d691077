------------------------- MODULE WorkspaceTreeCopies -------------------------
(***************************************************************************)
(* What a whole copy adds up to in WorkspaceTree: each entry of the source *)
(* arrives, and none is lost on the way.                                   *)
(***************************************************************************)
EXTENDS WorkspaceTreeSteps

----------------------------------------------------------------------------
(* Places below the destination. *)

\* t is dst with the names that q has below src.
IsRebased(t, q, src, dst) ==
  /\ t \in Names
  /\ Len(t) = Len(dst) + (Len(q) - Len(src))
  /\ Len(src) <= Len(q)
  /\ \A i \in 1..Len(dst) : t[i] = dst[i]
  /\ \A i \in 1..(Len(q) - Len(src)) : t[Len(dst) + i] = q[Len(src) + i]

LEMMA RebasedNames ==
  ASSUME NEW src \in Names, NEW dst \in Names, NEW q \in Names, AtOrAbove(src, q)
  PROVE  IsRebased(Rebased(q, src, dst), q, src, dst)
<1>1. Len(src) \in Nat /\ Len(dst) \in Nat /\ Len(q) \in Nat /\ Len(src) <= Len(q)
  BY AboveByNames DEF Names
<1>2. PICK s : s = SubSeq(q, Len(src) + 1, Len(q))
  OBVIOUS
<1>3. /\ s \in Names
      /\ Len(s) = Len(q) - Len(src)
      /\ \A i \in 1..(Len(q) - Len(src)) : s[i] = q[Len(src) + i]
  <2>1. \A i \in (Len(src) + 1)..Len(q) : q[i] \in Name
    BY <1>1 DEF Names
  <2>2. /\ s \in Seq(Name)
        /\ Len(s) = IF Len(src) + 1 <= Len(q) THEN Len(q) - (Len(src) + 1) + 1 ELSE 0
        /\ \A i \in 1..(Len(q) - (Len(src) + 1) + 1) : s[i] = q[(Len(src) + 1) + i - 1]
    BY <1>1, <1>2, <2>1, SubSeqProperties
  <2>3. Len(s) = Len(q) - Len(src)
    BY <1>1, <2>2
  <2>4. ASSUME NEW i \in 1..(Len(q) - Len(src)) PROVE s[i] = q[Len(src) + i]
    <3>1. i \in 1..(Len(q) - (Len(src) + 1) + 1) /\ (Len(src) + 1) + i - 1 = Len(src) + i
      BY <1>1
    <3>2. QED BY <2>2, <3>1
  <2>5. QED BY <2>2, <2>3, <2>4 DEF Names
<1>4. PICK t : t = Rebased(q, src, dst)
  OBVIOUS
<1>5. t = dst \o s
  BY <1>2, <1>4 DEF Rebased
<1>6. /\ t \in Names
      /\ Len(t) = Len(dst) + Len(s)
      /\ \A i \in 1..(Len(dst) + Len(s)) : t[i] = IF i <= Len(dst) THEN dst[i] ELSE s[i - Len(dst)]
  <2>1. dst \in Seq(Name) /\ s \in Seq(Name)
    BY <1>3 DEF Names
  <2>2. /\ dst \o s \in Seq(Name)
        /\ Len(dst \o s) = Len(dst) + Len(s)
        /\ \A i \in 1..(Len(dst) + Len(s)) : (dst \o s)[i] = IF i <= Len(dst) THEN dst[i] ELSE s[i - Len(dst)]
    BY <2>1, ConcatProperties
  <2>3. QED BY <1>5, <2>2 DEF Names
<1>7. \A i \in 1..Len(dst) : t[i] = dst[i]
  BY <1>1, <1>3, <1>6
<1>8. ASSUME NEW i \in 1..(Len(q) - Len(src)) PROVE t[Len(dst) + i] = q[Len(src) + i]
  <2>1. /\ Len(dst) + i \in 1..(Len(dst) + Len(s)) /\ ~(Len(dst) + i <= Len(dst))
        /\ (Len(dst) + i) - Len(dst) = i
    BY <1>1, <1>3
  <2>2. QED BY <1>3, <1>6, <2>1
<1>9. IsRebased(t, q, src, dst)
  BY <1>1, <1>3, <1>6, <1>7, <1>8 DEF IsRebased
<1>10. QED BY <1>4, <1>9

LEMMA RebasedBelow ==
  ASSUME NEW src \in Names, NEW dst \in Names, NEW q \in Names, AtOrAbove(src, q)
  PROVE  AtOrAbove(dst, Rebased(q, src, dst))
<1>1. PICK t : t = Rebased(q, src, dst)
  OBVIOUS
<1>2. /\ t \in Names /\ Len(t) = Len(dst) + (Len(q) - Len(src)) /\ Len(src) <= Len(q)
      /\ \A i \in 1..Len(dst) : t[i] = dst[i]
  <2>1. IsRebased(t, q, src, dst)
    BY <1>1, RebasedNames
  <2>2. QED BY <2>1 DEF IsRebased
<1>3. Len(dst) <= Len(t)
  BY <1>2 DEF Names
<1>4. QED BY <1>1, <1>2, <1>3, AboveByNames

LEMMA RebasedSrc ==
  ASSUME NEW src \in Names, NEW dst \in Names
  PROVE  Rebased(src, src, dst) = dst
<1>1. AtOrAbove(src, src) /\ Len(src) \in Nat /\ Len(dst) \in Nat
  BY DEF AtOrAbove, Names
<1>2. PICK t : t = Rebased(src, src, dst)
  OBVIOUS
<1>3. t \in Names /\ Len(t) = Len(dst) + (Len(src) - Len(src)) /\ \A i \in 1..Len(dst) : t[i] = dst[i]
  <2>1. IsRebased(t, src, src, dst)
    BY <1>1, <1>2, RebasedNames
  <2>2. QED BY <2>1 DEF IsRebased
<1>4. QED BY <1>1, <1>2, <1>3, SeqEqual DEF Names

\* Places are above each other as the entries are.
LEMMA RebasedOrder ==
  ASSUME NEW src \in Names, NEW dst \in Names, NEW p \in Names, NEW q \in Names,
         AtOrAbove(src, p), AtOrAbove(src, q)
  PROVE  /\ AtOrAbove(Rebased(p, src, dst), Rebased(q, src, dst)) <=> AtOrAbove(p, q)
         /\ Rebased(p, src, dst) = Rebased(q, src, dst) <=> p = q
<1>1. PICK t : t = Rebased(p, src, dst)
  OBVIOUS
<1>2. PICK u : u = Rebased(q, src, dst)
  OBVIOUS
<1>3. /\ t \in Names /\ Len(t) = Len(dst) + (Len(p) - Len(src)) /\ Len(src) <= Len(p)
      /\ \A i \in 1..Len(dst) : t[i] = dst[i]
      /\ \A i \in 1..(Len(p) - Len(src)) : t[Len(dst) + i] = p[Len(src) + i]
  <2>1. IsRebased(t, p, src, dst)
    BY <1>1, RebasedNames
  <2>2. QED BY <2>1 DEF IsRebased
<1>4. /\ u \in Names /\ Len(u) = Len(dst) + (Len(q) - Len(src)) /\ Len(src) <= Len(q)
      /\ \A i \in 1..Len(dst) : u[i] = dst[i]
      /\ \A i \in 1..(Len(q) - Len(src)) : u[Len(dst) + i] = q[Len(src) + i]
  <2>1. IsRebased(u, q, src, dst)
    BY <1>2, RebasedNames
  <2>2. QED BY <2>1 DEF IsRebased
<1>5. /\ Len(src) \in Nat /\ Len(dst) \in Nat /\ Len(p) \in Nat /\ Len(q) \in Nat
      /\ \A i \in 1..Len(src) : p[i] = src[i] /\ q[i] = src[i]
  BY AboveByNames DEF Names
<1>6. AtOrAbove(t, u) <=> Len(t) <= Len(u) /\ \A i \in 1..Len(t) : t[i] = u[i]
  BY <1>3, <1>4, AboveByNames
<1>7. AtOrAbove(p, q) <=> Len(p) <= Len(q) /\ \A i \in 1..Len(p) : p[i] = q[i]
  BY AboveByNames
<1>8. Len(t) <= Len(u) <=> Len(p) <= Len(q)
  BY <1>3, <1>4, <1>5
<1>9. ASSUME AtOrAbove(t, u) PROVE AtOrAbove(p, q)
  <2>1. Len(p) <= Len(q)
    BY <1>6, <1>8, <1>9
  <2>2. ASSUME NEW i \in 1..Len(p) PROVE p[i] = q[i]
    <3>1. CASE i <= Len(src)
      BY <1>5, <3>1
    <3>2. CASE i > Len(src)
      <4>1. PICK k \in 1..(Len(p) - Len(src)) : i = Len(src) + k
        <5>1. i - Len(src) \in 1..(Len(p) - Len(src)) /\ i = Len(src) + (i - Len(src))
          BY <1>3, <1>5, <3>2
        <5>2. QED BY <5>1
      <4>2. k \in 1..(Len(q) - Len(src)) /\ Len(dst) + k \in 1..Len(t)
        BY <1>3, <1>5, <2>1
      <4>3. t[Len(dst) + k] = u[Len(dst) + k]
        BY <1>6, <1>9, <4>2
      <4>4. QED BY <1>3, <1>4, <4>1, <4>2, <4>3
    <3>3. QED BY <1>5, <3>1, <3>2
  <2>3. QED BY <1>7, <2>1, <2>2
<1>10. ASSUME AtOrAbove(p, q) PROVE AtOrAbove(t, u)
  <2>1. Len(t) <= Len(u) /\ Len(p) <= Len(q)
    BY <1>7, <1>8, <1>10
  <2>2. ASSUME NEW i \in 1..Len(t) PROVE t[i] = u[i]
    <3>1. CASE i <= Len(dst)
      BY <1>3, <1>4, <1>5, <3>1
    <3>2. CASE i > Len(dst)
      <4>1. PICK k \in 1..(Len(p) - Len(src)) : i = Len(dst) + k
        <5>1. i - Len(dst) \in 1..(Len(p) - Len(src)) /\ i = Len(dst) + (i - Len(dst))
          BY <1>3, <1>5, <3>2
        <5>2. QED BY <5>1
      <4>2. k \in 1..(Len(q) - Len(src)) /\ Len(src) + k \in 1..Len(p)
        BY <1>3, <1>5, <2>1
      <4>3. p[Len(src) + k] = q[Len(src) + k]
        BY <1>7, <1>10, <4>2
      <4>4. QED BY <1>3, <1>4, <4>1, <4>2, <4>3
    <3>3. QED BY <1>3, <1>5, <3>1, <3>2
  <2>3. QED BY <1>6, <2>1, <2>2
<1>11. ASSUME t = u PROVE p = q
  <2>1. Len(p) = Len(q)
    BY <1>3, <1>4, <1>5, <1>11
  <2>2. AtOrAbove(p, q)
    BY <1>9, <1>11 DEF AtOrAbove
  <2>3. QED BY <1>5, <1>7, <2>1, <2>2, SeqEqual DEF Names
<1>12. QED BY <1>1, <1>2, <1>9, <1>10, <1>11

LEMMA RebasedAppend ==
  ASSUME NEW src \in Names, NEW dst \in Names, NEW q \in Names, AtOrAbove(src, q), NEW n \in Name
  PROVE  Append(Rebased(q, src, dst), n) = Rebased(Append(q, n), src, dst)
<1>1. PICK t : t = Rebased(q, src, dst)
  OBVIOUS
<1>2. PICK x \in Names : x = Append(q, n) /\ AtOrAbove(src, x)
  BY EntryBelow, AboveTransitive
<1>3. PICK u : u = Rebased(x, src, dst)
  OBVIOUS
<1>4. PICK v : v = Append(t, n)
  OBVIOUS
<1>5. /\ t \in Names /\ Len(t) = Len(dst) + (Len(q) - Len(src)) /\ Len(src) <= Len(q)
      /\ \A i \in 1..Len(dst) : t[i] = dst[i]
      /\ \A i \in 1..(Len(q) - Len(src)) : t[Len(dst) + i] = q[Len(src) + i]
  <2>1. IsRebased(t, q, src, dst)
    BY <1>1, RebasedNames
  <2>2. QED BY <2>1 DEF IsRebased
<1>6. /\ u \in Names /\ Len(u) = Len(dst) + (Len(x) - Len(src)) /\ Len(src) <= Len(x)
      /\ \A i \in 1..Len(dst) : u[i] = dst[i]
      /\ \A i \in 1..(Len(x) - Len(src)) : u[Len(dst) + i] = x[Len(src) + i]
  <2>1. IsRebased(u, x, src, dst)
    BY <1>2, <1>3, RebasedNames
  <2>2. QED BY <2>1 DEF IsRebased
<1>7. /\ Len(src) \in Nat /\ Len(dst) \in Nat /\ Len(q) \in Nat
  BY DEF Names
<1>8. Len(x) = Len(q) + 1 /\ x[Len(q) + 1] = n /\ \A i \in 1..Len(q) : x[i] = q[i]
  BY <1>2, AppendProperties DEF Names
<1>9. v \in Names /\ Len(v) = Len(t) + 1 /\ v[Len(t) + 1] = n /\ \A i \in 1..Len(t) : v[i] = t[i]
  BY <1>4, <1>5, AppendProperties DEF Names
<1>10. Len(v) = Len(u)
  BY <1>5, <1>6, <1>7, <1>8, <1>9
<1>11. ASSUME NEW i \in 1..Len(v) PROVE v[i] = u[i]
  <2>1. CASE i <= Len(dst)
    <3>1. i \in 1..Len(dst) /\ i \in 1..Len(t)
      BY <1>5, <1>7, <2>1
    <3>2. QED BY <1>5, <1>6, <1>9, <3>1
  <2>2. CASE i > Len(dst)
    <3>1. PICK k \in 1..(Len(x) - Len(src)) : i = Len(dst) + k
      <4>1. i - Len(dst) \in 1..(Len(x) - Len(src)) /\ i = Len(dst) + (i - Len(dst))
        BY <1>6, <1>7, <1>10, <2>2
      <4>2. QED BY <4>1
    <3>2. u[i] = x[Len(src) + k]
      BY <1>6, <3>1
    <3>3. CASE k = Len(x) - Len(src)
      <4>1. Len(src) + k = Len(q) + 1 /\ i = Len(t) + 1
        BY <1>5, <1>6, <1>7, <1>8, <3>1, <3>3
      <4>2. QED BY <1>8, <1>9, <3>2, <4>1
    <3>4. CASE k # Len(x) - Len(src)
      <4>1. k \in 1..(Len(q) - Len(src)) /\ Len(src) + k \in 1..Len(q) /\ i \in 1..Len(t)
        BY <1>5, <1>6, <1>7, <1>8, <3>1, <3>4
      <4>2. QED BY <1>5, <1>8, <1>9, <3>1, <3>2, <4>1
    <3>5. QED BY <3>3, <3>4
  <2>3. QED BY <1>7, <1>10, <2>1, <2>2
<1>12. v = u
  BY <1>6, <1>9, <1>10, <1>11, SeqEqual DEF Names
<1>13. QED BY <1>1, <1>2, <1>3, <1>4, <1>12

----------------------------------------------------------------------------
(* What lies above and below an entry. *)

LEMMA AboveIsShorter ==
  ASSUME NEW p \in Names, NEW q \in Names
  PROVE  IsAbove(p, q) <=> AtOrAbove(p, q) /\ p # q
<1>1. Len(p) \in Nat /\ Len(q) \in Nat
  BY DEF Names
<1>2. QED BY <1>1 DEF AtOrAbove, IsAbove

LEMMA AboveBoth ==
  ASSUME NEW p \in Names, NEW q \in Names, AtOrAbove(p, q), AtOrAbove(q, p)
  PROVE  p = q
<1>1. Len(p) \in Nat /\ Len(q) \in Nat
  BY DEF Names
<1>2. QED BY <1>1 DEF AtOrAbove, IsAbove

\* The entry of p that leads to q.
LEMMA NextEntry ==
  ASSUME NEW p \in Names, NEW q \in Path, AtOrAbove(p, q), p # q
  PROVE  \E n \in Name : Append(p, n) \in Path /\ AtOrAbove(Append(p, n), q)
<1>1. q \in Names /\ Len(q) \in Nat /\ Len(q) <= MaxDepth /\ Len(p) \in Nat
  BY PathIsNames DEF Names
<1>2. Len(p) < Len(q) /\ \A i \in 1..Len(p) : p[i] = q[i]
  BY <1>1, AboveByNames DEF AtOrAbove, IsAbove
<1>3. Len(p) + 1 \in 1..Len(q)
  BY <1>1, <1>2
<1>4. PICK n \in Name : n = q[Len(p) + 1]
  BY <1>1, <1>3 DEF Names
<1>5. PICK x \in Names : x = Append(p, n)
  BY EntryBelow
<1>6. Len(x) = Len(p) + 1 /\ x[Len(p) + 1] = n /\ \A i \in 1..Len(p) : x[i] = p[i]
  BY <1>5, AppendProperties DEF Names
<1>7. Len(x) <= Len(q) /\ Len(x) <= MaxDepth
  BY <1>1, <1>2, <1>6, TreeAssumption
<1>8. ASSUME NEW i \in 1..Len(x) PROVE x[i] = q[i]
  BY <1>1, <1>2, <1>4, <1>6
<1>9. x \in Path /\ AtOrAbove(x, q)
  BY <1>1, <1>7, <1>8, AboveByNames, NamesAsPath
<1>10. QED BY <1>5, <1>9

\* What is above an entry of q is above q, or the entry.
LEMMA AboveEntry ==
  ASSUME NEW p \in Names, NEW q \in Names, NEW n \in Name, AtOrAbove(p, Append(q, n))
  PROVE  p = Append(q, n) \/ AtOrAbove(p, q)
<1>1. PICK x \in Names : x = Append(q, n)
  BY EntryBelow
<1>2. Len(x) = Len(q) + 1 /\ \A i \in 1..Len(q) : x[i] = q[i]
  BY <1>1, AppendProperties DEF Names
<1>3. Len(p) \in Nat /\ Len(q) \in Nat /\ Len(x) \in Nat
  BY DEF Names
<1>4. Len(p) <= Len(x) /\ \A i \in 1..Len(p) : p[i] = x[i]
  BY <1>1, AboveByNames
<1>5. CASE Len(p) = Len(x)
  BY <1>1, <1>4, <1>5, SeqEqual DEF Names
<1>6. CASE Len(p) # Len(x)
  <2>1. Len(p) <= Len(q)
    BY <1>2, <1>3, <1>4, <1>6
  <2>2. \A i \in 1..Len(p) : p[i] = q[i]
    BY <1>2, <1>3, <1>4, <2>1
  <2>3. QED BY <2>1, <2>2, AboveByNames
<1>7. QED BY <1>5, <1>6

\* The entries of q are the paths with the parent q.
LEMMA ParentOfEntry ==
  ASSUME NEW q \in Names, NEW x \in Path
  PROVE  /\ x # Root /\ ParentPath(x) = q => PathName(x) \in Name /\ x = Append(q, PathName(x))
         /\ \A n \in Name : x = Append(q, n) => x # Root /\ ParentPath(x) = q /\ PathName(x) = n
<1>1. x \in Names /\ Len(x) \in Nat /\ Len(q) \in Nat
  BY PathIsNames DEF Names
<1>2. PICK y : y = ParentPath(x)
  OBVIOUS
<1>3. x # Root => Len(x) # 0
  BY <1>1, EmptySeq DEF Root, Names
<1>4. ASSUME Len(x) # 0
      PROVE  y \in Names /\ Len(y) = Len(x) - 1 /\ \A i \in 1..(Len(x) - 1) : y[i] = x[i]
  <2>1. \A i \in 1..(Len(x) - 1) : x[i] \in Name
    BY <1>1 DEF Names
  <2>2. /\ y \in Seq(Name)
        /\ Len(y) = IF 1 <= Len(x) - 1 THEN (Len(x) - 1) - 1 + 1 ELSE 0
        /\ \A i \in 1..((Len(x) - 1) - 1 + 1) : y[i] = x[1 + i - 1]
    BY <1>1, <1>2, <2>1, SubSeqProperties DEF ParentPath
  <2>3. Len(y) = Len(x) - 1
    <3>1. CASE 1 <= Len(x) - 1
      <4>1. Len(y) = (Len(x) - 1) - 1 + 1
        BY <2>2, <3>1
      <4>2. QED BY <1>1, <4>1
    <3>2. CASE ~(1 <= Len(x) - 1)
      <4>1. Len(y) = 0
        BY <2>2, <3>2
      <4>2. \A n \in Nat : n # 0 /\ ~(1 <= n - 1) => n - 1 = 0
        OBVIOUS
      <4>3. Len(x) - 1 = 0
        BY <1>1, <1>4, <3>2, <4>2
      <4>4. QED BY <4>1, <4>3
    <3>3. QED BY <3>1, <3>2
  <2>4. ASSUME NEW i \in 1..(Len(x) - 1) PROVE y[i] = x[i]
    <3>1. i \in 1..((Len(x) - 1) - 1 + 1) /\ 1 + i - 1 = i
      BY <1>1
    <3>2. QED BY <2>2, <3>1
  <2>5. QED BY <2>2, <2>3, <2>4 DEF Names
<1>5. ASSUME x # Root, y = q PROVE PathName(x) \in Name /\ x = Append(q, PathName(x))
  <2>1. PICK n \in Name : n = PathName(x)
    BY <1>5, NameOfPath
  <2>2. PICK z \in Names : z = Append(q, n)
    BY EntryBelow
  <2>3. Len(z) = Len(q) + 1 /\ z[Len(q) + 1] = n /\ \A i \in 1..Len(q) : z[i] = q[i]
    BY <2>2, AppendProperties DEF Names
  <2>4. Len(q) = Len(x) - 1 /\ \A i \in 1..Len(q) : q[i] = x[i]
    BY <1>3, <1>4, <1>5
  <2>5. n = x[Len(x)]
    BY <2>1 DEF PathName
  <2>6. Len(z) = Len(x) /\ \A i \in 1..Len(z) : z[i] = x[i]
    BY <1>1, <2>3, <2>4, <2>5
  <2>7. QED BY <1>1, <2>1, <2>2, <2>6, SeqEqual DEF Names
<1>6. ASSUME NEW n \in Name, x = Append(q, n)
      PROVE  x # Root /\ y = q /\ PathName(x) = n
  <2>1. Len(x) = Len(q) + 1 /\ x[Len(q) + 1] = n /\ x # <<>> /\ \A i \in 1..Len(q) : x[i] = q[i]
    BY <1>6, AppendProperties DEF Names
  <2>2. y \in Names /\ Len(y) = Len(q) /\ \A i \in 1..Len(q) : y[i] = q[i]
    BY <1>1, <1>4, <2>1
  <2>3. y = q
    BY <2>2, SeqEqual DEF Names
  <2>4. QED BY <2>1, <2>3 DEF PathName, Root
<1>7. QED BY <1>2, <1>5, <1>6

----------------------------------------------------------------------------
(* The entries a copy reaches. *)

LEMMA ReachedItself ==
  ASSUME NEW tree, NEW src \in Path, tree[src] # NoRow
  PROVE  src \in ReachedFrom(tree, src)
<1>1. src \in Names /\ AtOrAbove(src, src)
  BY PathIsNames DEF AtOrAbove
<1>2. ASSUME NEW a \in Path, AtOrAbove(src, a), IsAbove(a, src) PROVE FALSE
  <2>1. a \in Names
    BY PathIsNames
  <2>2. QED BY <1>1, <1>2, <2>1, AboveIsShorter, AboveBoth
<1>3. QED BY <1>1, <1>2 DEF ReachedFrom

LEMMA ReachedUp ==
  ASSUME NEW tree, NEW src \in Names, NEW q \in ReachedFrom(tree, src),
         NEW p \in Path, AtOrAbove(src, p), AtOrAbove(p, q), p # q
  PROVE  p \in ReachedFrom(tree, src) /\ tree[p].type = "directory"
<1>1. p \in Names /\ q \in Path /\ q \in Names
  BY PathIsNames DEF ReachedFrom
<1>2. \A a \in Path : AtOrAbove(src, a) /\ IsAbove(a, q) => tree[a] # NoRow /\ tree[a].type = "directory"
  BY DEF ReachedFrom
<1>3. ASSUME NEW a \in Path, AtOrAbove(src, a), AtOrAbove(a, p)
      PROVE  tree[a] # NoRow /\ tree[a].type = "directory"
  <2>1. a \in Names
    BY PathIsNames
  <2>2. AtOrAbove(a, q) /\ a # q
    BY <1>1, <1>3, <2>1, AboveTransitive, AboveBoth
  <2>3. QED BY <1>1, <1>2, <1>3, <2>1, <2>2, AboveIsShorter
<1>4. tree[p] # NoRow /\ tree[p].type = "directory"
  BY <1>3 DEF AtOrAbove
<1>5. \A a \in Path : AtOrAbove(src, a) /\ IsAbove(a, p) => tree[a] # NoRow /\ tree[a].type = "directory"
  BY <1>3 DEF AtOrAbove
<1>6. QED BY <1>4, <1>5 DEF ReachedFrom

LEMMA ReachedDown ==
  ASSUME NEW tree, NEW src \in Names, NEW q \in ReachedFrom(tree, src), tree[q].type = "directory",
         NEW n \in Name, Append(q, n) \in Path, tree[Append(q, n)] # NoRow
  PROVE  Append(q, n) \in ReachedFrom(tree, src)
<1>1. /\ q \in Path /\ q \in Names /\ AtOrAbove(src, q) /\ tree[q] # NoRow
      /\ \A a \in Path : AtOrAbove(src, a) /\ IsAbove(a, q) => tree[a] # NoRow /\ tree[a].type = "directory"
  BY PathIsNames DEF ReachedFrom
<1>2. PICK x \in Path : x = Append(q, n) /\ x \in Names
  BY PathIsNames
<1>3. AtOrAbove(q, x) /\ AtOrAbove(src, x)
  BY <1>1, <1>2, EntryBelow, AboveTransitive
<1>4. ASSUME NEW a \in Path, AtOrAbove(src, a), IsAbove(a, x)
      PROVE  tree[a] # NoRow /\ tree[a].type = "directory"
  <2>1. a \in Names
    BY PathIsNames
  <2>2. AtOrAbove(a, x) /\ a # x
    BY <1>2, <1>4, <2>1, AboveIsShorter
  <2>3. AtOrAbove(a, q)
    BY <1>1, <1>2, <2>1, <2>2, AboveEntry
  <2>4. a = q \/ IsAbove(a, q)
    BY <2>3 DEF AtOrAbove
  <2>5. QED BY <1>1, <1>4, <2>4
<1>5. x \in ReachedFrom(tree, src)
  BY <1>2, <1>3, <1>4 DEF ReachedFrom
<1>6. QED BY <1>2, <1>5

----------------------------------------------------------------------------
(* Stacks of jobs. *)

Elements(js) == {js[i] : i \in DOMAIN js}

LEMMA ElementsMore ==
  ASSUME NEW S, NEW s \in Seq(S), NEW x \in S
  PROVE  Elements(<<x>> \o s) = {x} \cup Elements(s)
<1>1. PICK u : u = <<x>> \o s
  OBVIOUS
<1>2. <<x>> \in Seq(S) /\ Len(<<x>>) = 1 /\ <<x>>[1] = x /\ Len(s) \in Nat /\ DOMAIN s = 1..Len(s)
  OBVIOUS
<1>3. /\ u \in Seq(S) /\ Len(u) = 1 + Len(s)
      /\ \A i \in 1..(1 + Len(s)) : u[i] = IF i <= 1 THEN <<x>>[i] ELSE s[i - 1]
  BY <1>1, <1>2, ConcatProperties
<1>4. DOMAIN u = 1..(1 + Len(s))
  BY <1>3
<1>5. u[1] = x /\ \A i \in 1..Len(s) : i + 1 \in DOMAIN u /\ u[i + 1] = s[i]
  BY <1>2, <1>3, <1>4
<1>6. \A i \in DOMAIN u : i = 1 \/ (i - 1 \in 1..Len(s) /\ u[i] = s[i - 1])
  BY <1>2, <1>3, <1>4
<1>7. 1 \in DOMAIN u
  BY <1>2, <1>4
<1>8. ASSUME NEW y PROVE y \in Elements(u) <=> y = x \/ y \in Elements(s)
  BY <1>2, <1>5, <1>6, <1>7 DEF Elements
<1>9. QED BY <1>1, <1>8

LEMMA ElementsLeft ==
  ASSUME NEW S, NEW s \in Seq(S), s # <<>>
  PROVE  Elements(s) = {Head(s)} \cup Elements(Tail(s))
<1>1. PICK t \in Seq(S) : t = Tail(s) /\ Len(t) = Len(s) - 1 /\ \A i \in 1..Len(t) : t[i] = s[i + 1]
  BY HeadTailProperties
<1>2. Len(s) \in Nat /\ Len(s) # 0 /\ DOMAIN s = 1..Len(s) /\ DOMAIN t = 1..Len(t) /\ Head(s) = s[1]
  BY EmptySeq
<1>3. /\ 1 \in DOMAIN s
      /\ \A i \in DOMAIN s : i = 1 \/ (i - 1 \in DOMAIN t /\ s[i] = t[i - 1])
      /\ \A i \in DOMAIN t : i + 1 \in DOMAIN s /\ t[i] = s[i + 1]
  BY <1>1, <1>2
<1>4. ASSUME NEW y PROVE y \in Elements(s) <=> y = Head(s) \/ y \in Elements(t)
  BY <1>2, <1>3 DEF Elements
<1>5. QED BY <1>1, <1>4

LEMMA ElementsNone == Elements(<<>>) = {}
BY DEF Elements

----------------------------------------------------------------------------
(* What is true of a copy. Its jobs name entries that are reached and the  *)
(* places where these go; what is not there yet is covered by a job; the   *)
(* source is left alone until it is removed.                               *)

\* Where the entry q of the source goes.
To(r, q) == Rebased(q, call[r].src, call[r].dst)

\* There is something to copy, and its place is free.
Fresh(r) ==
  /\ Apart(call[r].src, call[r].dst)
  /\ before[r][call[r].src] # NoRow
  /\ \A p \in Path : AtOrAbove(call[r].dst, p) => before[r][p] = NoRow

Reached(r) == ReachedFrom(before[r], call[r].src)

Done(r, q) == Now(To(r, q)) = before[r][q]

LinkEntry(tgt) == [type |-> "symlink", target |-> tgt, bytes |-> {}]
DirEntry == [type |-> "directory", target |-> NoTarget, bytes |-> {}]

\* The job j is to see to the place p.
Covers(j, p) ==
  \/ j.do \in {"cp", "mv"} /\ AtOrAbove(j.dst, p)
  \/ j.do = "entries" /\ \E n \in j.names : AtOrAbove(Append(j.dst, n), p)
  \/ j.do \in {"fetch", "write", "symlink"} /\ p = j.dst

\* What j has in hand is an entry of the source, as it was.
JobOk(r, j) ==
  /\ j.do \in {"cp", "entries", "fetch"} => j.src \in Reached(r) /\ j.dst = To(r, j.src)
  /\ j.do = "fetch" => j.data = {} /\ before[r][j.src].type = "file"
  /\ j.do = "entries" => /\ before[r][j.src].type = "directory"
                         /\ \A n \in j.names : Append(j.src, n) \in Reached(r)
  /\ j.do = "write" =>
       \E q \in Reached(r) : j.dst = To(r, q) /\ before[r][q] = FileEntry(j.data)
  /\ j.do = "symlink" =>
       \E q \in Reached(r) : j.dst = To(r, q) /\ before[r][q] = LinkEntry(j.target)
  /\ j.do = "rows" => Reached(r) \subseteq j.paths

SourceKept(r) ==
  \A q \in Path : AtOrAbove(call[r].src, q) /\ ~AtOrAbove(call[r].dst, q) =>
    Now(q) = before[r][q] \/ (before[r][q] = NoRow /\ q \in DirsAbove(call[r].dst))

\* What is at a place already is of the kind that goes there.
Typed(r) ==
  \A q \in Reached(r) : Now(To(r, q)) = NoRow \/ Now(To(r, q)).type = before[r][q].type

CopyState(r, js) ==
  /\ \A j \in Elements(js) : JobOk(r, j)
  /\ \A q \in Reached(r) : Done(r, q) \/ \E j \in Elements(js) : Covers(j, To(r, q))
  /\ Typed(r)

WaitOk(r) ==
  LET w == await[r]
      j == Head(jobs[r])
  IN
  w # NoAwait =>
    /\ w.op = "get" => w.key = j.src /\ InR2(rows, j.src) /\ (w.landed => w.data = objects[j.src])
    /\ w.op = "put" => (w.landed => objects[j.dst] = j.data)
    /\ w.op = "drop" => Now(j.dst) = FileEntry(j.data) /\ ~InR2(rows, j.dst)

\* The copy, and with mv the removal after it.
CopyInv(r) ==
  status[r] # "idle" /\ call[r].do \in {"cp", "mv"} =>
    /\ status[r] = "failed" => SourceKept(r)
    /\ status[r] = "running" /\ Head(jobs[r]).do # "rows" =>
         SourceKept(r) /\ (Fresh(r) => CopyState(r, jobs[r]) /\ WaitOk(r))
    /\ status[r] = "running" /\ Head(jobs[r]).do = "rows" /\ Fresh(r) =>
         \A q \in Reached(r) : Done(r, q) /\ (q \in Head(jobs[r]).paths \/ Now(q) = NoRow)
    /\ status[r] = "ok" /\ Fresh(r) =>
         \A q \in Reached(r) :
           Done(r, q) /\ Now(q) = IF call[r].do = "mv" THEN NoRow ELSE before[r][q]

\* An entry that is reached, and its place.
LEMMA ReachedFacts ==
  ASSUME NEW r \in Request, call[r] \in Call, call[r].do \in {"cp", "mv"}, NEW q \in Reached(r)
  PROVE  /\ call[r].src \in Path /\ call[r].dst \in Path
         /\ call[r].src \in Names /\ call[r].dst \in Names
         /\ q \in Path /\ q \in Names /\ AtOrAbove(call[r].src, q) /\ before[r][q] # NoRow
         /\ To(r, q) \in Names /\ AtOrAbove(call[r].dst, To(r, q))
<1>1. PICK src \in Path, dst \in Path : src = call[r].src /\ dst = call[r].dst
  BY CallPaths
<1>2. src \in Names /\ dst \in Names
  BY PathIsNames
<1>3. q \in Path /\ q \in Names /\ AtOrAbove(src, q) /\ before[r][q] # NoRow
  BY <1>1, PathIsNames DEF Reached, ReachedFrom
<1>4. PICK t : t = Rebased(q, src, dst)
  OBVIOUS
<1>5. IsRebased(t, q, src, dst) /\ AtOrAbove(dst, t)
  BY <1>2, <1>3, <1>4, RebasedNames, RebasedBelow
<1>6. t \in Names /\ t = To(r, q)
  BY <1>1, <1>4, <1>5 DEF IsRebased, To
<1>7. QED BY <1>1, <1>2, <1>3, <1>5, <1>6

\* Where anything is reached, the source is there.
LEMMA ReachedRoot ==
  ASSUME NEW r \in Request, call[r] \in Call, call[r].do \in {"cp", "mv"}, NEW q \in Reached(r)
  PROVE  before[r][call[r].src] # NoRow
<1>1. /\ call[r].src \in Path /\ call[r].src \in Names /\ AtOrAbove(call[r].src, q)
      /\ AtOrAbove(call[r].src, call[r].src) /\ before[r][q] # NoRow
  BY ReachedFacts DEF AtOrAbove
<1>2. CASE q = call[r].src
  BY <1>1, <1>2
<1>3. CASE q # call[r].src
  <2>1. call[r].src \in Reached(r)
    BY <1>1, <1>3, ReachedUp DEF Reached
  <2>2. QED BY <2>1, ReachedFacts
<1>4. QED BY <1>2, <1>3

LEMMA PlacesApart ==
  ASSUME NEW r \in Request, call[r] \in Call, call[r].do \in {"cp", "mv"},
         NEW p \in Reached(r), NEW q \in Reached(r)
  PROVE  /\ AtOrAbove(To(r, p), To(r, q)) <=> AtOrAbove(p, q)
         /\ To(r, p) = To(r, q) <=> p = q
<1>1. PICK src \in Names, dst \in Names : src = call[r].src /\ dst = call[r].dst
  BY ReachedFacts
<1>2. p \in Names /\ q \in Names /\ AtOrAbove(src, p) /\ AtOrAbove(src, q)
  BY <1>1, ReachedFacts
<1>3. /\ AtOrAbove(Rebased(p, src, dst), Rebased(q, src, dst)) <=> AtOrAbove(p, q)
      /\ Rebased(p, src, dst) = Rebased(q, src, dst) <=> p = q
  BY <1>2, RebasedOrder
<1>4. QED BY <1>1, <1>3 DEF To

\* The source itself is reached, and its place is the destination.
LEMMA SourceReached ==
  ASSUME NEW r \in Request, call[r] \in Call, call[r].do \in {"cp", "mv"}, Fresh(r)
  PROVE  call[r].src \in Reached(r) /\ To(r, call[r].src) = call[r].dst
<1>1. PICK src \in Path, dst \in Path : src = call[r].src /\ dst = call[r].dst
  BY CallPaths
<1>2. src \in Names /\ dst \in Names
  BY PathIsNames
<1>3. src \in Reached(r)
  BY <1>1, ReachedItself DEF Reached, Fresh
<1>4. QED BY <1>1, <1>2, <1>3, RebasedSrc DEF To

\* The entries of a directory go to the entries of its place.
LEMMA EntryPlaces ==
  ASSUME NEW r \in Request, call[r] \in Call, call[r].do \in {"cp", "mv"}, NEW q \in Reached(r),
         NEW n \in Name, Append(q, n) \in Reached(r)
  PROVE  Append(To(r, q), n) = To(r, Append(q, n))
<1>1. PICK src \in Names, dst \in Names : src = call[r].src /\ dst = call[r].dst
  BY ReachedFacts
<1>2. q \in Names /\ AtOrAbove(src, q)
  BY <1>1, ReachedFacts
<1>3. Append(Rebased(q, src, dst), n) = Rebased(Append(q, n), src, dst)
  BY <1>2, RebasedAppend
<1>4. QED BY <1>1, <1>3 DEF To

\* Nothing of the source is on the way to the destination.
LEMMA SourceNow ==
  ASSUME NEW r \in Request, call[r] \in Call, call[r].do \in {"cp", "mv"}, Fresh(r), SourceKept(r),
         NEW q \in Path, AtOrAbove(call[r].src, q)
  PROVE  Now(q) = before[r][q] /\ ~AtOrAbove(call[r].dst, q)
<1>1. PICK src \in Path, dst \in Path : src = call[r].src /\ dst = call[r].dst
  BY CallPaths
<1>2. src \in Names /\ dst \in Names /\ q \in Names /\ Apart(src, dst)
  BY <1>1, PathIsNames DEF Fresh
<1>3. ~AtOrAbove(dst, q)
  BY <1>1, <1>2, AboveLinear DEF Apart
<1>4. q \notin DirsAbove(dst)
  <2>1. q \in DirsAbove(dst) => AtOrAbove(q, dst)
    BY DirsArePaths
  <2>2. QED BY <1>1, <1>2, <2>1, AboveTransitive DEF Apart
<1>5. QED BY <1>1, <1>3, <1>4 DEF SourceKept

----------------------------------------------------------------------------
(* Steps that make entries. *)

\* A step makes y and free directories above it, and leaves every other place.
Grows(y) ==
  \A p \in Path \ {y} :
    Kept(p) \/ (p \in DirsAbove(y) /\ rows[p] = NoRow /\ rows'[p] = DirRow)

LEMMA KeptNow ==
  ASSUME NEW p, Kept(p)
  PROVE  Now(p)' = Now(p) /\ TypeOf(rows, p)' = TypeOf(rows, p) /\ InR2(rows, p)' = InR2(rows, p)
BY EntrySame DEF Kept, Now, TypeOf, InR2, Has

\* The call, and what it is to copy, do not change while it is served.
LEMMA SameNames ==
  ASSUME NEW r \in Request, call'[r] = call[r], before'[r] = before[r]
  PROVE  /\ Reached(r)' = Reached(r) /\ (Fresh(r)' <=> Fresh(r))
         /\ \A q : To(r, q)' = To(r, q)
         /\ \A j : JobOk(r, j)' <=> JobOk(r, j)
BY DEF Reached, Fresh, To, JobOk

\* What is made below the destination is none of the source.
LEMMA GrowsKeepsSource ==
  ASSUME NEW r \in Request, call[r] \in Call, call[r].do \in {"cp", "mv"},
         call'[r] = call[r], before'[r] = before[r], SourceKept(r), before[r] \in Trees,
         NEW y \in Path, AtOrAbove(call[r].dst, y), Grows(y)
  PROVE  SourceKept(r)'
<1>1. PICK src \in Path, dst \in Path : src = call[r].src /\ dst = call[r].dst
  BY CallPaths
<1>2. ASSUME NEW q \in Path, AtOrAbove(src, q), ~AtOrAbove(dst, q)
      PROVE  Now(q)' = before[r][q] \/ (before[r][q] = NoRow /\ q \in DirsAbove(dst))
  <2>1. Now(q) = before[r][q] \/ (before[r][q] = NoRow /\ q \in DirsAbove(dst))
    BY <1>1, <1>2 DEF SourceKept
  <2>2. q # y
    BY <1>1, <1>2
  <2>3. CASE Kept(q)
    BY <2>1, <2>3, KeptNow
  <2>4. CASE q \in DirsAbove(y) /\ rows[q] = NoRow
    <3>1. q \in DirsAbove(dst)
      BY <1>1, <1>2, <2>4, DirsOfBelow
    <3>2. Now(q) = NoRow
      BY <2>4 DEF Now, Entry, Has
    <3>3. QED BY <2>1, <3>1, <3>2
  <2>5. QED BY <2>2, <2>3, <2>4 DEF Grows
<1>3. QED BY <1>1, <1>2 DEF SourceKept

LEMMA SourceOffWay ==
  ASSUME NEW r \in Request, call[r] \in Call, call[r].do \in {"cp", "mv"}, Fresh(r),
         NEW q \in Path, AtOrAbove(call[r].src, q)
  PROVE  /\ ~AtOrAbove(call[r].dst, q) /\ q \notin DirsAbove(call[r].dst)
         /\ \A y \in Path : AtOrAbove(call[r].dst, y) => ~AtOrAbove(q, y)
<1>1. PICK src \in Path, dst \in Path : src = call[r].src /\ dst = call[r].dst
  BY CallPaths
<1>2. src \in Names /\ dst \in Names /\ q \in Names /\ Apart(src, dst)
  BY <1>1, PathIsNames DEF Fresh
<1>3. ~AtOrAbove(dst, q)
  BY <1>1, <1>2, AboveLinear DEF Apart
<1>4. q \notin DirsAbove(dst)
  <2>1. q \in DirsAbove(dst) => AtOrAbove(q, dst)
    BY DirsArePaths
  <2>2. QED BY <1>1, <1>2, <2>1, AboveTransitive DEF Apart
<1>5. ASSUME NEW y \in Path, AtOrAbove(dst, y), AtOrAbove(q, y) PROVE FALSE
  <2>1. y \in Names
    BY PathIsNames
  <2>2. AtOrAbove(src, y)
    BY <1>1, <1>2, <1>5, <2>1, AboveTransitive
  <2>3. QED BY <1>2, <1>5, <2>1, <2>2, AboveLinear DEF Apart
<1>6. QED BY <1>1, <1>3, <1>4, <1>5

\* A step that makes the place of q0 and the directories above it, and goes on with jobs that
\* cover what is still to be made.
LEMMA CopyStateStep ==
  ASSUME NEW r \in Request, call[r] \in Call, call[r].do \in {"cp", "mv"},
         call'[r] = call[r], before'[r] = before[r], rows \in Table,
         NEW js0, CopyState(r, js0), NEW js1,
         NEW q0 \in Reached(r), NEW y, y = To(r, q0), Grows(y),
         Now(y)' = NoRow \/ Now(y)'.type = before[r][q0].type,
         \A j \in Elements(js1) : j \in Elements(js0) \/ JobOk(r, j),
         \A q \in Reached(r) : q # q0 /\ (\E j \in Elements(js0) : Covers(j, To(r, q))) =>
           Done(r, q) \/ \E j \in Elements(js1) : Covers(j, To(r, q)),
         Now(y)' = before[r][q0] \/ \E j \in Elements(js1) : Covers(j, y)
  PROVE  CopyState(r, js1)'
<1>1. /\ Reached(r)' = Reached(r)
      /\ \A q : To(r, q)' = To(r, q)
      /\ \A j : JobOk(r, j)' <=> JobOk(r, j)
  BY SameNames
<1>2. \A j \in Elements(js1) : JobOk(r, j)
  BY DEF CopyState
<1>3. ASSUME NEW q \in Reached(r), q # q0, NEW t, t = To(r, q)
      PROVE  \/ Kept(t) \/ t \notin Path
             \/ before[r][q].type = "directory" /\ rows[t] = NoRow /\ rows'[t] = DirRow
  <2>1. CASE t \in Path /\ t \in DirsAbove(y)
    <3>1. AtOrAbove(t, y)
      <4>1. PICK n \in Nat : t = SubSeq(y, 1, n) /\ n \in 1..(Len(y) - 1)
        BY <2>1 DEF DirsAbove
      <4>2. y \in Names
        BY ReachedFacts
      <4>3. Len(y) \in Nat /\ n < Len(y)
        BY <4>1, <4>2 DEF Names
      <4>4. Len(t) = n
        <5>1. \A i \in 1..n : y[i] \in Name
          BY <4>1, <4>2, <4>3 DEF Names
        <5>2. QED BY <4>1, <4>3, <5>1, SubSeqProperties
      <4>5. QED BY <4>1, <4>3, <4>4 DEF AtOrAbove, IsAbove
    <3>2. AtOrAbove(q, q0)
      BY <1>3, <3>1, PlacesApart
    <3>3. q \in Path /\ AtOrAbove(call[r].src, q) /\ call[r].src \in Names
      BY ReachedFacts
    <3>4. before[r][q].type = "directory"
      BY <1>3, <3>2, <3>3, ReachedUp DEF Reached
    <3>5. t # y
      BY <1>3, PlacesApart
    <3>6. QED BY <2>1, <3>4, <3>5 DEF Grows
  <2>2. CASE t \in Path /\ t \notin DirsAbove(y)
    <3>1. t # y
      BY <1>3, PlacesApart
    <3>2. QED BY <2>2, <3>1 DEF Grows
  <2>3. QED BY <2>1, <2>2
<1>4. ASSUME NEW t, t \notin Path PROVE Now(t) = NoRow /\ Now(t)' = NoRow
  BY <1>4 DEF Now, Entry, Has
<1>5. ASSUME NEW q \in Reached(r), q # q0, NEW t, t = To(r, q)
      PROVE  /\ Now(t) = before[r][q] => Now(t)' = before[r][q]
             /\ Now(t)' = NoRow \/ Now(t)'.type = before[r][q].type
  <2>1. before[r][q] # NoRow
    BY ReachedFacts
  <2>2. Now(t) = NoRow \/ Now(t).type = before[r][q].type
    BY <1>5 DEF CopyState, Typed
  <2>3. CASE Kept(t)
    BY <2>2, <2>3, KeptNow
  <2>4. CASE t \notin Path
    BY <1>4, <2>1, <2>4
  <2>5. CASE t \in Path /\ before[r][q].type = "directory" /\ rows[t] = NoRow /\ rows'[t] = DirRow
    <3>1. Now(t) = NoRow
      BY <2>5 DEF Now, Entry, Has
    <3>2. DirRow # NoRow
      BY RowsAreRows, SeedAssumption
    <3>3. Now(t)' = [type |-> "directory", target |-> NoTarget, bytes |-> {}]
      BY <2>5, <3>2 DEF Now, Entry, Has, DirRow
    <3>4. QED BY <2>1, <2>5, <3>1, <3>3
  <2>6. QED BY <1>3, <1>5, <2>3, <2>4, <2>5
<1>6. Typed(r)'
  <2>1. ASSUME NEW q \in Reached(r) PROVE Now(To(r, q))' = NoRow \/ Now(To(r, q))'.type = before[r][q].type
    <3>1. PICK t : t = To(r, q)
      OBVIOUS
    <3>2. Now(t)' = NoRow \/ Now(t)'.type = before[r][q].type
      BY <1>5, <3>1
    <3>3. Now(To(r, q))' = Now(t)'
      BY <1>1, <3>1
    <3>4. QED BY <3>2, <3>3
  <2>2. QED BY <1>1, <2>1 DEF Typed
<1>7. ASSUME NEW q \in Reached(r)
      PROVE  Done(r, q)' \/ \E j \in Elements(js1) : Covers(j, To(r, q)')
  <2>1. PICK t : t = To(r, q)
    OBVIOUS
  <2>2. Done(r, q)' <=> Now(t)' = before[r][q]
    BY <1>1, <2>1 DEF Done
  <2>3. CASE q = q0
    BY <1>1, <2>1, <2>2, <2>3
  <2>4. CASE q # q0
    <3>1. Done(r, q) \/ \E j \in Elements(js0) : Covers(j, t)
      BY <2>1 DEF CopyState
    <3>2. Done(r, q) \/ \E j \in Elements(js1) : Covers(j, t)
      BY <2>1, <2>4, <3>1
    <3>3. Done(r, q) => Done(r, q)'
      BY <1>5, <2>1, <2>2, <2>4 DEF Done
    <3>4. QED BY <1>1, <2>1, <3>2, <3>3
  <2>5. QED BY <2>3, <2>4
<1>8. QED BY <1>1, <1>2, <1>6, <1>7 DEF CopyState

\* A step that changes no entry.
LEMMA CopyStateSame ==
  ASSUME NEW r \in Request, call[r] \in Call, call[r].do \in {"cp", "mv"}, Fresh(r),
         call'[r] = call[r], before'[r] = before[r], rows \in Table,
         UNCHANGED <<rows, objects>>,
         NEW js0, CopyState(r, js0), NEW js1,
         \A j \in Elements(js1) : j \in Elements(js0) \/ JobOk(r, j),
         \A q \in Reached(r) : (\E j \in Elements(js0) : Covers(j, To(r, q))) =>
           Done(r, q) \/ \E j \in Elements(js1) : Covers(j, To(r, q))
  PROVE  CopyState(r, js1)'
<1>1. PICK q0 \in Reached(r) : q0 = call[r].src
  BY SourceReached
<1>2. PICK y : y = To(r, q0)
  OBVIOUS
<1>3. Now(y)' = Now(y) /\ Grows(y)
  BY DEF Now, Entry, Has, InR2, Grows, Kept
<1>4. Now(y) = NoRow \/ Now(y).type = before[r][q0].type
  BY <1>2 DEF CopyState, Typed
<1>5. Now(y) = before[r][q0] \/ \E j \in Elements(js1) : Covers(j, y)
  <2>1. Done(r, q0) \/ \E j \in Elements(js0) : Covers(j, To(r, q0))
    BY DEF CopyState
  <2>2. QED BY <1>2, <2>1 DEF Done
<1>6. QED BY <1>2, <1>3, <1>4, <1>5, CopyStateStep

\* The ways a copy goes on: it fails, has jobs left or none, waits for R2.
LEMMA CopyFails ==
  ASSUME TypeInv, NEW r \in Request, Stop(r), SourceKept(r)'
  PROVE  CopyInv(r)'
<1>1. status'[r] = "failed"
  BY Stops
<1>2. QED BY <1>1 DEF CopyInv

LEMMA CopyContinues ==
  ASSUME TypeInv, ShapeInv', NEW r \in Request, call[r] \in Call, call[r].do \in {"cp", "mv"},
         NEW js, Continue(r, js), SourceKept(r)',
         Fresh(r) => CopyState(r, js)' /\ (js = <<>> => call[r].do = "cp")
  PROVE  CopyInv(r)'
<1>1. /\ jobs'[r] = js /\ await'[r] = NoAwait /\ call'[r] = call[r] /\ before'[r] = before[r]
      /\ status'[r] = IF js = <<>> THEN "ok" ELSE "running"
  BY Continues DEF Alone
<1>2. /\ Reached(r)' = Reached(r) /\ (Fresh(r)' <=> Fresh(r))
      /\ \A q : To(r, q)' = To(r, q)
      /\ \A j : JobOk(r, j)' <=> JobOk(r, j)
  BY <1>1, SameNames
<1>3. CopyState(r, jobs[r])' <=> CopyState(r, js)'
  BY <1>1 DEF CopyState
<1>4. WaitOk(r)'
  BY <1>1 DEF WaitOk
<1>5. CASE js = <<>>
  <2>1. ASSUME Fresh(r), NEW q \in Reached(r)
        PROVE  Done(r, q)' /\ Now(q)' = IF call[r].do = "mv" THEN NoRow ELSE before[r][q]
    <3>1. CopyState(r, <<>>)' /\ call[r].do = "cp"
      BY <1>5, <2>1
    <3>2. Done(r, q)'
      BY <1>2, <3>1, ElementsNone DEF CopyState
    <3>3. q \in Path /\ AtOrAbove(call[r].src, q)
      BY ReachedFacts
    <3>4. ~AtOrAbove(call[r].dst, q) /\ q \notin DirsAbove(call[r].dst)
      BY <2>1, <3>3, SourceOffWay
    <3>5. Now(q)' = before[r][q]
      BY <1>1, <3>3, <3>4 DEF SourceKept
    <3>6. QED BY <3>1, <3>2, <3>5
  <2>2. status'[r] = "ok"
    BY <1>1, <1>5
  <2>3. QED BY <1>1, <1>2, <2>1, <2>2 DEF CopyInv
<1>6. CASE js # <<>> /\ Head(js).do # "rows"
  <2>1. status'[r] = "running" /\ Head(jobs'[r]).do # "rows"
    BY <1>1, <1>6
  <2>2. QED BY <1>2, <1>3, <1>4, <2>1 DEF CopyInv
<1>7. CASE js # <<>> /\ Head(js).do = "rows"
  <2>1. status'[r] = "running" /\ Head(jobs'[r]) = Head(js)
    BY <1>1, <1>7
  <2>2. js \in Stacks(call[r])
    BY <1>1, <2>1 DEF ShapeInv, Shape
  <2>3. Tail(js) = <<>>
    BY <1>7, <2>2, HeadIs
  <2>4. Elements(js) = {Head(js)}
    <3>1. js \in Seq(Job)
      BY <2>2 DEF Stacks
    <3>2. QED BY <1>7, <2>3, <3>1, ElementsLeft, ElementsNone
  <2>5. ASSUME Fresh(r), NEW q \in Reached(r) PROVE Done(r, q)' /\ q \in Head(js).paths
    <3>1. CopyState(r, js)'
      BY <2>5
    <3>2. \A p : ~Covers(Head(js), p)
      BY <1>7 DEF Covers
    <3>3. Done(r, q)' \/ \E j \in Elements(js) : Covers(j, To(r, q))
      BY <1>2, <3>1 DEF CopyState
    <3>4. JobOk(r, Head(js))
      BY <1>2, <2>4, <3>1 DEF CopyState
    <3>5. Reached(r) \subseteq Head(js).paths
      BY <1>7, <3>4 DEF JobOk
    <3>6. QED BY <2>4, <3>2, <3>3, <3>5
  <2>6. QED BY <1>1, <1>2, <1>7, <2>1, <2>5 DEF CopyInv
<1>8. QED BY <1>5, <1>6, <1>7

LEMMA CopyWaits ==
  ASSUME NEW r \in Request, status[r] = "running", Head(jobs[r]).do # "rows",
         Alone(r), jobs'[r] = jobs[r], status'[r] = status[r], SourceKept(r)',
         NEW js, js = jobs[r], Fresh(r) => CopyState(r, js)' /\ WaitOk(r)'
  PROVE  CopyInv(r)'
<1>1. call'[r] = call[r] /\ before'[r] = before[r]
  BY DEF Alone
<1>2. Fresh(r)' <=> Fresh(r)
  BY <1>1, SameNames
<1>3. CopyState(r, jobs[r])' <=> CopyState(r, js)'
  BY DEF CopyState
<1>4. QED BY <1>1, <1>2, <1>3 DEF CopyInv

\* What is true while the copy goes on.
Copying(r) ==
  /\ call[r] \in Call /\ call[r].do \in {"cp", "mv"} /\ status[r] = "running"
  /\ Head(jobs[r]).do # "rows"

LEMMA CopyRuns ==
  ASSUME StepsInv, NEW r \in Request, CopyInv(r), Copying(r), NEW j, j = Head(jobs[r])
  PROVE  /\ TypeInv /\ ShapeInv /\ TreeInv /\ rows \in Table /\ objects \in Stored
         /\ before[r] \in Trees /\ j \in Job /\ SourceKept(r)
         /\ jobs[r] \in Seq(Job) /\ jobs[r] # <<>> /\ Rest(r) = Tail(jobs[r]) /\ Rest(r) \in Seq(Job)
         /\ j \in Elements(jobs[r]) /\ Elements(jobs[r]) = {j} \cup Elements(Rest(r))
         /\ j.do \in CopyKinds => AtOrAbove(call[r].dst, j.dst)
         /\ j.do \in CopyKinds \cup {"mv", "rm"}
         /\ Fresh(r) => CopyState(r, jobs[r]) /\ WaitOk(r) /\ JobOk(r, j)
<1>1. /\ TypeInv /\ ShapeInv /\ TreeInv /\ rows \in Table /\ objects \in Stored /\ before[r] \in Trees
  BY StoresTable DEF StepsInv, TreeInv, CallInv, Copying
<1>2. /\ jobs[r] \in Stacks(call[r]) /\ jobs[r] # <<>> /\ j \in Job /\ Rest(r) = Tail(jobs[r])
  BY <1>1, ShapeRunning DEF Copying
<1>3. jobs[r] \in Seq(Job) /\ Tail(jobs[r]) \in Seq(Job)
  BY <1>2, HeadTailProperties DEF Stacks
<1>4. Elements(jobs[r]) = {j} \cup Elements(Tail(jobs[r]))
  BY <1>2, <1>3, ElementsLeft
<1>5. SourceKept(r) /\ (Fresh(r) => CopyState(r, jobs[r]) /\ WaitOk(r))
  BY DEF CopyInv, Copying
<1>6. JobOk(r, j) \/ ~Fresh(r)
  BY <1>4, <1>5 DEF CopyState
<1>7. /\ j.do \in CopyKinds => AtOrAbove(call[r].dst, j.dst)
      /\ j.do \in CopyKinds \cup {"mv", "rm"}
  <2>1. \/ j = call[r] \/ j \in Later(call[r]) \/ j \in Removals(call[r]) \/ j \in Copies(call[r])
    BY <1>2, Heads DEF Copying
  <2>2. j \in Later(call[r]) => FALSE
    BY DEF Later, Copying, RowsJob
  <2>3. j \in Removals(call[r]) => j.do \in {"rm", "rows"}
    BY DEF Removals, RmJob, RowsJob
  <2>4. j = call[r] => j.do \in {"cp", "mv"}
    BY DEF Copying
  <2>5. j.do \in CopyKinds => AtOrAbove(call[r].dst, j.dst)
    BY <1>2, HeadIs DEF Copying
  <2>6. j \in Copies(call[r]) => j.do \in CopyKinds
    BY DEF Copies
  <2>7. QED BY <2>1, <2>2, <2>3, <2>4, <2>5, <2>6 DEF Copying, CopyKinds
<1>8. QED BY <1>1, <1>2, <1>3, <1>4, <1>5, <1>6, <1>7

----------------------------------------------------------------------------
(* What the steps of a copy make. *)

LEMMA DirsGrow ==
  ASSUME TypeInv, NEW p \in Path, objects' = objects,
         \A q \in Path \ {p} : rows'[q] = WithDirs(rows, DirsAbove(p))[q]
  PROVE  Grows(p)
<1>1. rows \in Table
  BY StoresTable
<1>2. \A q \in Path : WithDirs(rows, DirsAbove(p))[q] =
                        IF q \in DirsAbove(p) /\ rows[q] = NoRow THEN DirRow ELSE rows[q]
  BY <1>1, WithDirsTyped
<1>3. QED BY <1>2 DEF Grows, Kept

LEMMA OnlyGrows ==
  ASSUME UNCHANGED rows, NEW p, \A q \in Path \ {p} : objects'[q] = objects[q]
  PROVE  Grows(p)
BY DEF Grows, Kept

LEMMA WriteDoes ==
  ASSUME TypeInv, NEW r \in Request, Write(r), NEW j, j = Head(jobs[r]), NEW p, p = j.dst
  PROVE  /\ p \in Path /\ Grows(p)
         /\ \/ Stop(r)
            \/ /\ Kept(p)
               /\ \E w \in Await : Wait(r, w) /\ w.op = "put" /\ w.landed = FALSE
            \/ /\ TypeOf(rows, p) \in {"none", "file"} =>
                    Now(p)' = FileEntry(j.data) /\ ~InR2(rows, p)'
               /\ \/ Continue(r, Rest(r))
                  \/ \E w \in Await : Wait(r, w) /\ w.op = "drop" /\ w.landed = FALSE
<1>1. /\ status[r] = "running" /\ j \in Job /\ j.do = "write" /\ p \in Path /\ j.data \in Content
      /\ rows \in Table /\ objects \in Stored
  BY Running, JobData, StoresTable DEF Write
<1>2. PICK t \in Table : t = WithDirs(rows, DirsAbove(p))
  BY <1>1, WithDirsTyped
<1>3. t[p] = rows[p] /\ TypeOf(t, p) = TypeOf(rows, p)
  <2>1. p \notin DirsAbove(p)
    BY <1>1, DirsArePaths
  <2>2. t[p] = rows[p]
    BY <1>1, <1>2, <2>1 DEF WithDirs
  <2>3. QED BY <2>2 DEF TypeOf, Has
<1>4. {} \in Content /\ \A x : Has(x, p) \in BOOLEAN
  BY DEF Content, Has
<1>5. CASE Stop(r) /\ NoChange
  BY <1>1, <1>5, OnlyGrows DEF NoChange
<1>6. ASSUME rows' = t, objects' = objects PROVE Grows(p) /\ Kept(p)
  BY <1>1, <1>2, <1>3, <1>6, DirsGrow DEF Kept
<1>7. CASE rows' = t /\ objects' = objects /\ Stop(r)
  BY <1>1, <1>6, <1>7
<1>8. ASSUME NEW e \in BOOLEAN, rows' = t, objects' = objects, Wait(r, AwaitOf("put", p, j.data, e))
      PROVE  /\ Grows(p) /\ Kept(p)
             /\ \E w \in Await : Wait(r, w) /\ w.op = "put" /\ w.landed = FALSE
  <2>1. PICK w : w = AwaitOf("put", p, j.data, e)
    OBVIOUS
  <2>2. w \in Await /\ w.op = "put" /\ w.landed = FALSE
    BY <1>1, <2>1 DEF AwaitOf, Await
  <2>3. QED BY <1>6, <1>8, <2>1, <2>2
<1>9. ASSUME rows' = Upsert(t, p, "inline", j.data), objects' = objects
      PROVE  /\ Grows(p)
             /\ TypeOf(rows, p) \in {"none", "file"} => Now(p)' = FileEntry(j.data) /\ ~InR2(rows, p)'
  <2>1. PICK u \in Table : u = Upsert(t, p, "inline", j.data)
    BY <1>1, UpsertTyped
  <2>2. \A q \in Path \ {p} : u[q] = t[q]
    BY <1>1, <2>1, UpsertTyped
  <2>3. Grows(p)
    BY <1>1, <1>2, <1>9, <2>1, <2>2, DirsGrow
  <2>4. Now(p)' = Entry(u, objects, p) /\ (InR2(rows, p)' <=> InR2(u, p))
    BY <1>9, <2>1 DEF Now, InR2, Has
  <2>5. ASSUME TypeOf(rows, p) \in {"none", "file"}
        PROVE  Entry(u, objects, p) = FileEntry(j.data) /\ ~InR2(u, p)
    BY <1>1, <1>3, <2>1, <2>5, UpsertMakesFile
  <2>6. QED BY <2>3, <2>4, <2>5
<1>10. CASE rows' = Upsert(t, p, "inline", j.data) /\ objects' = objects /\ Continue(r, Rest(r))
  BY <1>1, <1>9, <1>10
<1>11. ASSUME NEW e \in BOOLEAN, rows' = Upsert(t, p, "inline", j.data), objects' = objects,
              Wait(r, AwaitOf("drop", p, {}, e))
       PROVE  /\ Grows(p)
              /\ TypeOf(rows, p) \in {"none", "file"} => Now(p)' = FileEntry(j.data) /\ ~InR2(rows, p)'
              /\ \E w \in Await : Wait(r, w) /\ w.op = "drop" /\ w.landed = FALSE
  <2>1. PICK w : w = AwaitOf("drop", p, {}, e)
    OBVIOUS
  <2>2. w \in Await /\ w.op = "drop" /\ w.landed = FALSE
    BY <1>1, <1>4, <2>1 DEF AwaitOf, Await
  <2>3. QED BY <1>9, <1>11, <2>1, <2>2
<1>12. \/ Stop(r) /\ NoChange
       \/ rows' = t /\ objects' = objects /\ Stop(r)
       \/ \E e \in BOOLEAN : rows' = t /\ objects' = objects /\ Wait(r, AwaitOf("put", p, j.data, e))
       \/ rows' = Upsert(t, p, "inline", j.data) /\ objects' = objects /\ Continue(r, Rest(r))
       \/ \E e \in BOOLEAN : /\ rows' = Upsert(t, p, "inline", j.data) /\ objects' = objects
                             /\ Wait(r, AwaitOf("drop", p, {}, e))
  BY <1>2, <1>4 DEF Write
<1>13. QED BY <1>1, <1>5, <1>7, <1>8, <1>10, <1>11, <1>12

LEMMA SymlinkDoes ==
  ASSUME TypeInv, NEW r \in Request, Symlink(r), ~(Stop(r) /\ NoChange),
         NEW j, j = Head(jobs[r]), NEW p, p = j.dst
  PROVE  /\ p \in Path /\ Grows(p) /\ Continue(r, Rest(r))
         /\ TypeOf(rows, p) \in {"none", "symlink"} => Now(p)' = LinkEntry(j.target)
<1>1. /\ j \in Job /\ p \in Path /\ j.target \in Target \cup {NoTarget}
      /\ rows \in Table /\ objects \in Stored
  BY Running, JobData, StoresTable DEF Symlink
<1>2. PICK t \in Table : t = WithDirs(rows, DirsAbove(p))
  BY <1>1, WithDirsTyped
<1>3. PICK u \in Table : u = UpsertLink(t, p, j.target)
  BY <1>1, UpsertLinkTyped
<1>4. rows' = u /\ objects' = objects /\ Continue(r, Rest(r))
  BY <1>2, <1>3 DEF Symlink
<1>5. \A q \in Path \ {p} : u[q] = t[q]
  BY <1>1, <1>3, UpsertLinkTyped
<1>6. Grows(p)
  BY <1>1, <1>2, <1>4, <1>5, DirsGrow
<1>7. u[p] \in Row /\ u[p].type = "symlink" /\ u[p].target = j.target
  <2>1. u[p] \in Row
    BY <1>1, <1>3, UpsertLinkTyped
  <2>2. CASE Has(t, p)
    <3>1. t[p] \in Row
      BY <2>2 DEF Has, Table
    <3>2. u[p] = [t[p] EXCEPT !.type = "symlink", !.target = j.target]
      BY <1>1, <1>3, <2>2 DEF UpsertLink, Table
    <3>3. QED BY <2>1, <3>1, <3>2 DEF Row
  <2>3. CASE ~Has(t, p)
    <3>1. u[p] = LinkRow(j.target)
      BY <1>1, <1>3, <2>3 DEF UpsertLink, Table
    <3>2. QED BY <2>1, <3>1 DEF LinkRow
  <2>4. QED BY <2>2, <2>3
<1>8. Now(p)' = LinkEntry(j.target)
  <2>1. u[p] # NoRow
    BY <1>7, SeedAssumption
  <2>2. QED BY <1>1, <1>4, <1>7, <2>1 DEF Now, Entry, Has, LinkEntry
<1>9. QED BY <1>1, <1>4, <1>6, <1>8

----------------------------------------------------------------------------
(* The steps of a copy, one by one. *)

\* Below the copies of a mv is the removal.
LEMMA RestLeft ==
  ASSUME StepsInv, NEW r \in Request, CopyInv(r), Copying(r), Head(jobs[r]).do \in CopyKinds,
         Rest(r) = <<>>
  PROVE  call[r].do = "cp"
<1> SUFFICES ASSUME call[r].do = "mv" PROVE FALSE
  BY DEF Copying
<1>1. jobs[r] \in Stacks(call[r]) /\ jobs[r] # <<>> /\ call[r] \in Call
  BY ShapeRunning DEF Copying, StepsInv
<1>2. PICK cs \in Seq(Copies(call[r])), b \in Bases(call[r]) : Rest(r) = cs \o b
  BY <1>1, HeadIs DEF Rest
<1>3. PICK x \in Removals(call[r]) : b = <<x>>
  BY <1>1, <1>2, BasesAre
<1>4. cs \in Seq(Job) /\ b \in Seq(Job) /\ Len(b) = 1
  BY <1>1, <1>2, <1>3, BasesAreJobs, SeqMonotonic DEF Copies
<1>5. Len(cs \o b) = Len(cs) + 1
  <2>1. \A u, v \in Seq(Job) : Len(u \o v) = Len(u) + Len(v)
    BY ConcatProperties
  <2>2. QED BY <1>4, <2>1
<1>6. Len(cs \o b) = 0 /\ Len(cs) \in Nat
  BY <1>2, <1>4, EmptySeq
<1>7. QED BY <1>5, <1>6

\* The step makes what its job is to make.
LEMMA PlaceMade ==
  ASSUME StepsInv, ShapeInv', NEW r \in Request, CopyInv(r), Copying(r),
         NEW j, j = Head(jobs[r]), j.do \in {"write", "symlink"}, NEW p, p = j.dst, p \in Path,
         Grows(p), Continue(r, Rest(r)),
         Fresh(r) => \E q \in Reached(r) : p = To(r, q) /\ Now(p)' = before[r][q]
  PROVE  CopyInv(r)'
<1>1. call[r] \in Call /\ call[r].do \in {"cp", "mv"}
  BY DEF Copying
<1>2. /\ TypeInv /\ rows \in Table /\ before[r] \in Trees /\ SourceKept(r)
      /\ Elements(jobs[r]) = {j} \cup Elements(Rest(r))
      /\ AtOrAbove(call[r].dst, p)
      /\ Fresh(r) => CopyState(r, jobs[r])
  BY CopyRuns DEF CopyKinds
<1>3. call'[r] = call[r] /\ before'[r] = before[r]
  BY <1>2, Continues DEF Alone
<1>4. SourceKept(r)'
  BY <1>1, <1>2, <1>3, GrowsKeepsSource
<1>5. PICK js : js = Rest(r)
  OBVIOUS
<1>6. PICK js0 : js0 = jobs[r]
  OBVIOUS
<1>7. ASSUME Fresh(r) PROVE CopyState(r, js)'
  <2>1. PICK q0 \in Reached(r) : p = To(r, q0) /\ Now(p)' = before[r][q0]
    BY <1>7
  <2>2. CopyState(r, js0)
    BY <1>2, <1>6, <1>7
  <2>3. \A x \in Elements(js) : x \in Elements(js0) \/ JobOk(r, x)
    BY <1>2, <1>5, <1>6
  <2>4. ASSUME NEW q \in Reached(r), q # q0, NEW x \in Elements(js0), Covers(x, To(r, q))
        PROVE  x \in Elements(js)
    <3>1. To(r, q) # p
      BY <1>1, <2>1, <2>4, PlacesApart
    <3>2. ~Covers(j, To(r, q))
      BY <3>1 DEF Covers
    <3>3. QED BY <1>2, <1>5, <1>6, <2>4, <3>2
  <2>5. QED BY <1>1, <1>2, <1>3, <2>1, <2>2, <2>3, <2>4, CopyStateStep
<1>8. js = <<>> => call[r].do = "cp"
  BY <1>5, RestLeft DEF CopyKinds
<1>9. Continue(r, js)
  BY <1>5
<1>10. QED BY <1>1, <1>2, <1>4, <1>7, <1>8, <1>9, CopyContinues

\* The step waits for R2 to make what its job is to make.
LEMMA PlaceAwaited ==
  ASSUME StepsInv, NEW r \in Request, CopyInv(r), Copying(r),
         NEW j, j = Head(jobs[r]), j.do = "write", NEW p, p = j.dst, p \in Path, Grows(p),
         jobs'[r] = jobs[r], status'[r] = status[r], Alone(r),
         Fresh(r) => WaitOk(r)' /\ (Now(p)' = NoRow \/ Now(p)'.type = "file")
  PROVE  CopyInv(r)'
<1>1. call[r] \in Call /\ call[r].do \in {"cp", "mv"}
  BY DEF Copying
<1>2. /\ TypeInv /\ rows \in Table /\ before[r] \in Trees /\ SourceKept(r)
      /\ j \in Elements(jobs[r])
      /\ AtOrAbove(call[r].dst, p)
      /\ Fresh(r) => CopyState(r, jobs[r]) /\ JobOk(r, j)
  BY CopyRuns DEF CopyKinds
<1>3. call'[r] = call[r] /\ before'[r] = before[r]
  BY DEF Alone
<1>4. SourceKept(r)'
  BY <1>1, <1>2, <1>3, GrowsKeepsSource
<1>5. PICK js : js = jobs[r]
  OBVIOUS
<1>6. ASSUME Fresh(r) PROVE CopyState(r, js)'
  <2>1. PICK q0 \in Reached(r) : p = To(r, q0) /\ before[r][q0] = FileEntry(j.data)
    BY <1>2, <1>6 DEF JobOk
  <2>2. CopyState(r, js)
    BY <1>2, <1>5, <1>6
  <2>3. before[r][q0].type = "file"
    BY <2>1 DEF FileEntry
  <2>4. j \in Elements(js) /\ Covers(j, p)
    BY <1>2, <1>5 DEF Covers
  <2>5. QED BY <1>1, <1>2, <1>3, <1>6, <2>1, <2>2, <2>3, <2>4, CopyStateStep
<1>7. QED BY <1>4, <1>5, <1>6, CopyWaits DEF Copying

\* The step is over with an error.
LEMMA PlaceFails ==
  ASSUME StepsInv, NEW r \in Request, CopyInv(r), Copying(r), Stop(r),
         UNCHANGED <<rows, objects>> \/ \E p \in Path : AtOrAbove(call[r].dst, p) /\ Grows(p)
  PROVE  CopyInv(r)'
<1>1. call[r] \in Call /\ call[r].do \in {"cp", "mv"}
  BY DEF Copying
<1>2. TypeInv /\ before[r] \in Trees /\ SourceKept(r)
  BY CopyRuns
<1>3. call'[r] = call[r] /\ before'[r] = before[r]
  BY <1>2, Stops DEF Alone
<1>4. PICK p \in Path : AtOrAbove(call[r].dst, p) /\ Grows(p)
  <2>1. CASE UNCHANGED <<rows, objects>>
    <3>1. call[r].dst \in Path /\ AtOrAbove(call[r].dst, call[r].dst)
      BY <1>1, CallPaths DEF AtOrAbove
    <3>2. QED BY <2>1, <3>1 DEF Grows, Kept
  <2>2. QED BY <2>1
<1>5. SourceKept(r)'
  BY <1>1, <1>2, <1>3, <1>4, GrowsKeepsSource
<1>6. QED BY <1>2, <1>5, CopyFails

\* The step plans others, and changes no entry.
LEMMA CopyPlans ==
  ASSUME StepsInv, ShapeInv', NEW r \in Request, CopyInv(r), Copying(r),
         UNCHANGED <<rows, objects>>, NEW js, Continue(r, js),
         Fresh(r) =>
           /\ \A j \in Elements(js) : j \in Elements(jobs[r]) \/ JobOk(r, j)
           /\ \A q \in Reached(r) : (\E j \in Elements(jobs[r]) : Covers(j, To(r, q))) =>
                Done(r, q) \/ \E j \in Elements(js) : Covers(j, To(r, q))
           /\ js = <<>> => call[r].do = "cp"
  PROVE  CopyInv(r)'
<1>1. call[r] \in Call /\ call[r].do \in {"cp", "mv"}
  BY DEF Copying
<1>2. /\ TypeInv /\ rows \in Table /\ before[r] \in Trees /\ SourceKept(r)
      /\ Fresh(r) => CopyState(r, jobs[r])
  BY CopyRuns
<1>3. call'[r] = call[r] /\ before'[r] = before[r]
  BY <1>2, Continues DEF Alone
<1>4. SourceKept(r)'
  <2>1. call[r].dst \in Path /\ AtOrAbove(call[r].dst, call[r].dst)
    BY <1>1, CallPaths DEF AtOrAbove
  <2>2. Grows(call[r].dst)
    BY DEF Grows, Kept
  <2>3. QED BY <1>1, <1>2, <1>3, <2>1, <2>2, GrowsKeepsSource
<1>5. PICK js0 : js0 = jobs[r]
  OBVIOUS
<1>6. ASSUME Fresh(r) PROVE CopyState(r, js)'
  <2>1. CopyState(r, js0)
    BY <1>2, <1>5, <1>6
  <2>2. QED BY <1>1, <1>2, <1>3, <1>5, <1>6, <2>1, CopyStateSame
<1>7. QED BY <1>1, <1>2, <1>4, <1>6, CopyContinues

LEMMA CopyWrites ==
  ASSUME StepsInv, ShapeInv', NEW r \in Request, CopyInv(r), Copying(r), Write(r)
  PROVE  CopyInv(r)'
<1>1. call[r] \in Call /\ call[r].do \in {"cp", "mv"}
  BY DEF Copying
<1>2. PICK j : j = Head(jobs[r])
  OBVIOUS
<1>3. PICK p : p = j.dst
  OBVIOUS
<1>4. j.do = "write" /\ TypeInv
  BY <1>2 DEF Write, Runs, StepsInv, ShapeInv
<1>5. /\ rows \in Table /\ objects \in Stored
      /\ AtOrAbove(call[r].dst, p)
      /\ Fresh(r) => CopyState(r, jobs[r]) /\ JobOk(r, j)
  BY <1>2, <1>3, <1>4, CopyRuns DEF CopyKinds
<1>6. /\ p \in Path /\ Grows(p)
      /\ \/ Stop(r)
         \/ Kept(p) /\ \E w \in Await : Wait(r, w) /\ w.op = "put" /\ w.landed = FALSE
         \/ /\ TypeOf(rows, p) \in {"none", "file"} => Now(p)' = FileEntry(j.data) /\ ~InR2(rows, p)'
            /\ \/ Continue(r, Rest(r))
               \/ \E w \in Await : Wait(r, w) /\ w.op = "drop" /\ w.landed = FALSE
  BY <1>2, <1>3, <1>4, WriteDoes
<1>7. ASSUME Fresh(r)
      PROVE  /\ TypeOf(rows, p) \in {"none", "file"}
             /\ Now(p) = NoRow \/ Now(p).type = "file"
             /\ \E q \in Reached(r) : p = To(r, q) /\ before[r][q] = FileEntry(j.data)
  <2>1. PICK q \in Reached(r) : p = To(r, q) /\ before[r][q] = FileEntry(j.data)
    BY <1>3, <1>4, <1>5, <1>7 DEF JobOk
  <2>2. before[r][q].type = "file"
    BY <2>1 DEF FileEntry
  <2>3. Now(p) = NoRow \/ Now(p).type = "file"
    BY <1>5, <1>7, <2>1, <2>2 DEF CopyState, Typed
  <2>4. TypeOf(rows, p) \in {"none", "file"}
    BY <1>5, <1>6, <2>3, EntryFacts DEF Now, TypeOf
  <2>5. QED BY <2>1, <2>3, <2>4
<1>8. CASE Stop(r)
  BY <1>5, <1>6, <1>8, PlaceFails
<1>9. ASSUME NEW w \in Await, Wait(r, w), w.landed = FALSE, w.op \in {"put", "drop"},
             w.op = "drop" /\ Fresh(r) => Now(p)' = FileEntry(j.data) /\ ~InR2(rows, p)',
             w.op = "put" => Kept(p)
      PROVE  CopyInv(r)'
  <2>1. jobs'[r] = jobs[r] /\ await'[r] = w /\ status'[r] = status[r] /\ Alone(r)
    BY <1>4, <1>9, Waits
  <2>2. Head(jobs'[r]) = j
    BY <1>2, <2>1
  <2>3. Fresh(r) => WaitOk(r)'
    BY <1>3, <1>9, <2>1, <2>2 DEF WaitOk
  <2>4. ASSUME Fresh(r) PROVE Now(p)' = NoRow \/ Now(p)'.type = "file"
    <3>1. CASE w.op = "put"
      BY <1>7, <1>9, <2>4, <3>1, KeptNow
    <3>2. CASE w.op = "drop"
      BY <1>9, <2>4, <3>2 DEF FileEntry
    <3>3. QED BY <1>9, <3>1, <3>2
  <2>5. QED BY <1>2, <1>3, <1>4, <1>6, <2>1, <2>3, <2>4, PlaceAwaited
<1>10. CASE /\ TypeOf(rows, p) \in {"none", "file"} => Now(p)' = FileEntry(j.data) /\ ~InR2(rows, p)'
            /\ Continue(r, Rest(r))
  BY <1>2, <1>3, <1>4, <1>6, <1>7, <1>10, PlaceMade
<1>11. QED BY <1>6, <1>7, <1>8, <1>9, <1>10

LEMMA CopySymlinks ==
  ASSUME StepsInv, ShapeInv', NEW r \in Request, CopyInv(r), Copying(r), Symlink(r)
  PROVE  CopyInv(r)'
<1>1. PICK j : j = Head(jobs[r])
  OBVIOUS
<1>2. PICK p : p = j.dst
  OBVIOUS
<1>0. CASE Stop(r) /\ NoChange
  BY <1>0, PlaceFails DEF NoChange
<1> SUFFICES ASSUME ~(Stop(r) /\ NoChange) PROVE CopyInv(r)'
  BY <1>0
<1>3. j.do = "symlink" /\ TypeInv
  BY <1>1 DEF Symlink, Runs, StepsInv, ShapeInv
<1>4. /\ rows \in Table /\ objects \in Stored
      /\ Fresh(r) => CopyState(r, jobs[r]) /\ JobOk(r, j)
  BY <1>1, CopyRuns
<1>5. /\ p \in Path /\ Grows(p) /\ Continue(r, Rest(r))
      /\ TypeOf(rows, p) \in {"none", "symlink"} => Now(p)' = LinkEntry(j.target)
  BY <1>1, <1>2, <1>3, SymlinkDoes
<1>6. ASSUME Fresh(r) PROVE \E q \in Reached(r) : p = To(r, q) /\ Now(p)' = before[r][q]
  <2>1. PICK q \in Reached(r) : p = To(r, q) /\ before[r][q] = LinkEntry(j.target)
    BY <1>2, <1>3, <1>4, <1>6 DEF JobOk
  <2>2. before[r][q].type = "symlink"
    BY <2>1 DEF LinkEntry
  <2>3. Now(p) = NoRow \/ Now(p).type = "symlink"
    BY <1>4, <1>6, <2>1, <2>2 DEF CopyState, Typed
  <2>4. TypeOf(rows, p) \in {"none", "symlink"}
    BY <1>4, <1>5, <2>3, EntryFacts DEF Now, TypeOf
  <2>5. QED BY <1>5, <2>1, <2>4
<1>7. QED BY <1>1, <1>2, <1>3, <1>5, <1>6, PlaceMade

\* The stack with one more job.
LEMMA OneMoreJob ==
  ASSUME NEW rest \in Seq(Job), NEW x, NEW js, js = <<x>> \o rest
  PROVE  js # <<>> /\ Elements(js) = {x} \cup Elements(rest)
<1>1. rest \in Seq(Job \cup {x}) /\ x \in Job \cup {x}
  BY SeqMonotonic
<1>2. QED BY <1>1, Sequences1, ElementsMore

\* An entry of the source, as the copy finds it.
LEMMA SourceFound ==
  ASSUME StepsInv, NEW r \in Request, CopyInv(r), Copying(r), Fresh(r), NEW q \in Reached(r)
  PROVE  /\ q \in Path /\ Now(q) = before[r][q] /\ Has(rows, q)
         /\ rows[q] \in Row /\ TypeOf(rows, q) = before[r][q].type /\ rows[q].type = before[r][q].type
         /\ Under(call[r], q)
<1>1. call[r] \in Call /\ call[r].do \in {"cp", "mv"}
  BY DEF Copying
<1>2. q \in Path /\ AtOrAbove(call[r].src, q) /\ before[r][q] # NoRow
  BY <1>1, ReachedFacts
<1>3. rows \in Table /\ objects \in Stored /\ SourceKept(r)
  BY CopyRuns
<1>4. Now(q) = before[r][q]
  BY <1>1, <1>2, <1>3, SourceNow
<1>5. Has(rows, q) /\ rows[q] \in Row /\ TypeOf(rows, q) = Now(q).type /\ rows[q].type = Now(q).type
  BY <1>2, <1>3, <1>4, EntryFacts DEF Now
<1>6. Under(call[r], q)
  BY <1>1, <1>2 DEF Under, PathsOf
<1>7. QED BY <1>2, <1>4, <1>5, <1>6

LEMMA SourceFile ==
  ASSUME StepsInv, NEW r \in Request, CopyInv(r), Copying(r), Fresh(r), ~Changes(r),
         NEW q \in Reached(r), before[r][q].type = "file"
  PROVE  /\ Resolve(rows, q) = q /\ ReadOf(rows, objects, q) = before[r][q].bytes
         /\ InR2(rows, q) => objects[q] = before[r][q].bytes
         /\ before[r][q].bytes \in Content
         /\ before[r][q] = FileEntry(before[r][q].bytes)
<1>1. /\ q \in Path /\ Now(q) = before[r][q] /\ Has(rows, q) /\ rows[q] \in Row
      /\ TypeOf(rows, q) = "file" /\ rows[q].type = "file" /\ Under(call[r], q)
  BY SourceFound
<1>2. rows \in Table /\ objects \in Stored /\ TreeInv /\ status[r] = "running"
  BY CopyRuns DEF Copying
<1>3. Resolve(rows, q) = q /\ ReadOf(rows, objects, q) = Now(q).bytes
  BY <1>1, <1>2, ReadNoLink DEF Now
<1>4. Matches(q)
  <2>1. Reaches(call[r], q)
    BY <1>1 DEF Reaches, AtOrAbove
  <2>2. QED BY <1>1, <1>2, <2>1, ReachedSettled
<1>5. /\ Now(q) \in Entries /\ Now(q).type = "file" /\ Now(q).target = NoTarget
      /\ Now(q).bytes = IF rows[q].storage = "r2" THEN objects[q] ELSE rows[q].content
  BY <1>1, <1>2, EntryFacts DEF Now
<1>6. InR2(rows, q) <=> rows[q].storage = "r2"
  BY <1>1 DEF InR2
<1>7. Now(q).bytes \in Content
  <2>1. CASE rows[q].storage = "r2"
    BY <1>1, <1>2, <1>4, <1>5, <1>6, <2>1 DEF Matches, Stored
  <2>2. CASE rows[q].storage # "r2"
    BY <1>1, <1>5, <2>2 DEF Row
  <2>3. QED BY <2>1, <2>2
<1>8. Now(q) = FileEntry(Now(q).bytes)
  BY <1>5 DEF Entries, FileEntry
<1>9. QED BY <1>1, <1>3, <1>5, <1>6, <1>7, <1>8

\* What has been read of an entry goes to its place.
LEMMA CopyFetched ==
  ASSUME StepsInv, ShapeInv', NEW r \in Request, CopyInv(r), Copying(r), ~Changes(r),
         UNCHANGED <<rows, objects>>, NEW j, j = Head(jobs[r]), j.do = "fetch",
         NEW d, Fresh(r) => d = before[r][j.src].bytes,
         Continue(r, <<WriteJob(j.dst, OrEmpty(d) \cup j.data)>> \o Rest(r))
  PROVE  CopyInv(r)'
<1>1. call[r] \in Call /\ call[r].do \in {"cp", "mv"}
  BY DEF Copying
<1>2. PICK x : x = WriteJob(j.dst, OrEmpty(d) \cup j.data)
  OBVIOUS
<1>3. PICK js : js = <<x>> \o Rest(r)
  OBVIOUS
<1>4. /\ Rest(r) \in Seq(Job) /\ Elements(jobs[r]) = {j} \cup Elements(Rest(r))
      /\ Fresh(r) => JobOk(r, j)
  BY CopyRuns
<1>5. js # <<>> /\ Elements(js) = {x} \cup Elements(Rest(r))
  BY <1>3, <1>4, OneMoreJob
<1>6. x.do = "write" /\ x.dst = j.dst /\ x.data = OrEmpty(d) \cup j.data
  BY <1>2 DEF WriteJob
<1>7. ASSUME Fresh(r) PROVE JobOk(r, x) /\ \A p : Covers(j, p) => Covers(x, p)
  <2>1. /\ j.src \in Reached(r) /\ j.dst = To(r, j.src)
        /\ j.data = {} /\ before[r][j.src].type = "file"
    BY <1>4, <1>7 DEF JobOk
  <2>2. d \in Content /\ before[r][j.src] = FileEntry(d)
    BY <1>7, <2>1, SourceFile
  <2>3. OrEmpty(d) = d
    BY <2>2, SeedAssumption DEF OrEmpty
  <2>4. x.data = d
    BY <1>6, <2>1, <2>3
  <2>5. JobOk(r, x)
    BY <1>6, <2>1, <2>2, <2>4 DEF JobOk
  <2>6. \A p : Covers(j, p) => Covers(x, p)
    BY <1>6 DEF Covers
  <2>7. QED BY <2>5, <2>6
<1>8. Continue(r, js)
  BY <1>2, <1>3
<1>9. QED BY <1>4, <1>5, <1>7, <1>8, CopyPlans

LEMMA CopyFetches ==
  ASSUME StepsInv, ShapeInv', NEW r \in Request, CopyInv(r), Copying(r), Fetch(r)
  PROVE  CopyInv(r)'
<1>1. call[r] \in Call /\ call[r].do \in {"cp", "mv"}
  BY DEF Copying
<1>2. PICK j : j = Head(jobs[r])
  OBVIOUS
<1>3. j.do = "fetch" /\ TypeInv /\ await[r] = NoAwait /\ UNCHANGED <<rows, objects>>
  BY <1>2, Running DEF Fetch, StepsInv, ShapeInv, NoChange
<1>4. /\ Fresh(r) => CopyState(r, jobs[r]) /\ JobOk(r, j)
      /\ rows \in Table /\ SourceKept(r)
  BY <1>2, CopyRuns
<1>5. PICK v : v = ReadOf(rows, objects, j.src)
  OBVIOUS
<1>6. PICK q : q = Resolve(rows, j.src)
  OBVIOUS
<1>7. ~Changes(r)
  BY <1>3 DEF Changes
<1>8. Fresh(r) => q = j.src /\ v = before[r][j.src].bytes
  BY <1>3, <1>4, <1>5, <1>6, <1>7, SourceFile DEF JobOk
<1>9. CASE Stop(r)
  BY <1>3, <1>9, PlaceFails
<1>10. CASE Continue(r, <<WriteJob(j.dst, OrEmpty(v) \cup j.data)>> \o Rest(r))
  BY <1>2, <1>3, <1>7, <1>8, <1>10, CopyFetched
<1>11. CASE InR2(rows, q) /\ Wait(r, AwaitOf("get", q, {}, FALSE))
  <2>1. PICK w : w = AwaitOf("get", q, {}, FALSE)
    OBVIOUS
  <2>2. w.op = "get" /\ w.key = q /\ w.landed = FALSE
    BY <2>1 DEF AwaitOf
  <2>3. jobs'[r] = jobs[r] /\ await'[r] = w /\ status'[r] = status[r] /\ Alone(r)
    BY <1>3, <1>11, <2>1, Waits
  <2>4. InR2(rows, q)'
    BY <1>3, <1>11 DEF InR2, Has
  <2>5. Head(jobs'[r]) = j
    BY <1>2, <2>3
  <2>6. Fresh(r) => WaitOk(r)'
    BY <1>8, <2>2, <2>3, <2>4, <2>5 DEF WaitOk
  <2>7. PICK js : js = jobs[r]
    OBVIOUS
  <2>8. call'[r] = call[r] /\ before'[r] = before[r]
    BY <2>3 DEF Alone
  <2>9. Fresh(r) => CopyState(r, js)'
    BY <1>1, <1>3, <1>4, <2>7, <2>8, CopyStateSame
  <2>10. SourceKept(r)'
    BY <1>3, <1>4, <2>8 DEF SourceKept, Now, Entry, Has, InR2
  <2>11. QED BY <1>2, <1>3, <2>3, <2>6, <2>7, <2>9, <2>10, CopyWaits DEF Copying
<1>12. QED BY <1>2, <1>5, <1>6, <1>9, <1>10, <1>11 DEF Fetch

\* The entry of a directory.
LEMMA DirectoryEntry ==
  ASSUME NEW t, NEW objs, NEW p, Has(t, p), t[p].type = "directory"
  PROVE  Entry(t, objs, p) = DirEntry
BY DEF Entry, DirEntry

LEMMA CpDoes ==
  ASSUME TypeInv, NEW p \in Path, NEW S, S = DirsAbove(p) \cup ({p} \ {Root}),
         rows' = WithDirs(rows, S), objects' = objects
  PROVE  /\ Grows(p)
         /\ p # Root /\ TypeOf(rows, p) \in {"none", "directory"} => Now(p)' = DirEntry
<1>1. rows \in Table
  BY StoresTable
<1>2. \A q \in Path : /\ rows'[q] = IF q \in S /\ rows[q] = NoRow THEN DirRow ELSE rows[q]
                      /\ WithDirs(rows, DirsAbove(p))[q] =
                           IF q \in DirsAbove(p) /\ rows[q] = NoRow THEN DirRow ELSE rows[q]
  BY <1>1, WithDirsTyped
<1>3. Grows(p)
  BY <1>2, DirsGrow
<1>4. ASSUME p # Root, TypeOf(rows, p) \in {"none", "directory"}
      PROVE  Now(p)' = DirEntry
  <2>1. rows'[p] = IF rows[p] = NoRow THEN DirRow ELSE rows[p]
    BY <1>2, <1>4
  <2>2. rows[p] # NoRow => rows[p].type = "directory"
    <3>1. rows[p] # NoRow => rows[p] \in Row /\ TypeOf(rows, p) = rows[p].type
      BY <1>1 DEF Table, TypeOf, Has
    <3>2. rows[p] # NoRow => rows[p].type # "none"
      BY <3>1 DEF Row
    <3>3. QED BY <1>4, <3>1, <3>2
  <2>3. DirRow # NoRow /\ DirRow.type = "directory"
    BY RowsAreRows, SeedAssumption DEF DirRow
  <2>4. Has(rows', p) /\ rows'[p].type = "directory"
    BY <2>1, <2>2, <2>3 DEF Has
  <2>5. Entry(rows', objects', p) = DirEntry
    BY <2>4, DirectoryEntry
  <2>6. QED BY <2>5 DEF Now
<1>5. QED BY <1>3, <1>4

\* The listing of a directory of the source has its entries, and no others.
LEMMA CopyLists ==
  ASSUME StepsInv, NEW r \in Request, CopyInv(r), Copying(r), Fresh(r),
         NEW q0 \in Reached(r), before[r][q0].type = "directory",
         NEW p \in Path, AtOrAbove(call[r].dst, p),
         NEW S, S = DirsAbove(p) \cup ({p} \ {Root}),
         NEW kids, kids = {PathName(q) : q \in Children(WithDirs(rows, S), q0)}
  PROVE  /\ \A n \in kids : n \in Name /\ Append(q0, n) \in Reached(r)
         /\ \A x \in Reached(r) : AtOrAbove(q0, x) /\ x # q0 =>
              \E n \in kids : Append(q0, n) \in Reached(r) /\ AtOrAbove(Append(q0, n), x)
<1>1. call[r] \in Call /\ call[r].do \in {"cp", "mv"}
  BY DEF Copying
<1>2. /\ q0 \in Names /\ q0 \in Path /\ call[r].src \in Names /\ AtOrAbove(call[r].src, q0)
  BY <1>1, ReachedFacts
<1>3. rows \in Table /\ objects \in Stored /\ SourceKept(r)
  BY CopyRuns
<1>4. PICK t \in Table : t = WithDirs(rows, S)
  BY <1>3, WithDirsTyped
<1>5. \A q \in Path : t[q] = IF q \in S /\ rows[q] = NoRow THEN DirRow ELSE rows[q]
  BY <1>3, <1>4, WithDirsTyped
<1>6. ASSUME NEW x \in Path, AtOrAbove(q0, x)
      PROVE  AtOrAbove(call[r].src, x) /\ (Has(t, x) <=> before[r][x] # NoRow)
  <2>1. x \in Names
    BY PathIsNames
  <2>2. AtOrAbove(call[r].src, x)
    BY <1>2, <1>6, <2>1, AboveTransitive
  <2>3. Now(x) = before[r][x] /\ ~AtOrAbove(x, p)
    BY <1>1, <1>3, <2>2, SourceNow, SourceOffWay
  <2>4. x \notin S
    BY <2>3, DirsArePaths DEF AtOrAbove
  <2>5. t[x] = rows[x]
    BY <1>5, <2>4
  <2>6. Now(x) = NoRow <=> rows[x] = NoRow
    BY <1>3, EntryFacts DEF Now
  <2>7. QED BY <2>2, <2>3, <2>5, <2>6 DEF Has
<1>7. ASSUME NEW n \in kids PROVE n \in Name /\ Append(q0, n) \in Reached(r)
  <2>1. PICK x \in Path : n = PathName(x) /\ Has(t, x) /\ x # Root /\ ParentPath(x) = q0
    BY <1>4 DEF Children
  <2>2. n \in Name /\ x = Append(q0, n)
    BY <1>2, <2>1, ParentOfEntry
  <2>3. AtOrAbove(q0, x)
    BY <1>2, <2>2, EntryBelow
  <2>4. before[r][x] # NoRow
    BY <1>6, <2>1, <2>3
  <2>5. QED BY <1>2, <2>2, <2>4, ReachedDown DEF Reached
<1>8. ASSUME NEW x \in Reached(r), AtOrAbove(q0, x), x # q0
      PROVE  \E n \in kids : Append(q0, n) \in Reached(r) /\ AtOrAbove(Append(q0, n), x)
  <2>1. x \in Path
    BY <1>1, ReachedFacts
  <2>2. PICK n \in Name : Append(q0, n) \in Path /\ AtOrAbove(Append(q0, n), x)
    BY <1>2, <1>8, <2>1, NextEntry
  <2>3. PICK z \in Path : z = Append(q0, n)
    BY <2>2
  <2>4. AtOrAbove(q0, z) /\ AtOrAbove(call[r].src, z)
    BY <1>2, <1>6, <2>3, EntryBelow
  <2>5. z \in Reached(r)
    <3>1. CASE z = x
      BY <3>1
    <3>2. CASE z # x
      BY <1>2, <2>2, <2>3, <2>4, <3>2, ReachedUp DEF Reached
    <3>3. QED BY <3>1, <3>2
  <2>6. before[r][z] # NoRow
    BY <1>1, <2>5, ReachedFacts
  <2>7. Has(t, z)
    BY <1>6, <2>4, <2>6
  <2>8. z # Root /\ ParentPath(z) = q0 /\ PathName(z) = n
    BY <1>2, <2>3, ParentOfEntry
  <2>9. z \in Children(t, q0)
    BY <2>7, <2>8 DEF Children
  <2>10. n \in kids
    BY <1>4, <2>8, <2>9
  <2>11. QED BY <2>2, <2>3, <2>5, <2>10
<1>9. QED BY <1>7, <1>8

\* A job for a file or a link covers what the copy of it does.
LEMMA LeafCovers ==
  ASSUME NEW r \in Request, call[r] \in Call, call[r].do \in {"cp", "mv"},
         NEW q0 \in Reached(r), before[r][q0].type # "directory",
         NEW q \in Reached(r), AtOrAbove(To(r, q0), To(r, q))
  PROVE  q = q0
<1>1. AtOrAbove(q0, q)
  BY PlacesApart
<1>2. q0 \in Path /\ AtOrAbove(call[r].src, q0) /\ call[r].src \in Names
  BY ReachedFacts
<1>3. QED BY <1>1, <1>2, ReachedUp DEF Reached

\* The copy of a file or a link is left to one job.
LEMMA CopyLeaf ==
  ASSUME StepsInv, ShapeInv', NEW r \in Request, CopyInv(r), Copying(r),
         UNCHANGED <<rows, objects>>, NEW j, j = Head(jobs[r]), j.do = "cp",
         NEW x, Continue(r, <<x>> \o Rest(r)), x.do \in {"fetch", "symlink"}, x.dst = j.dst,
         Fresh(r) => JobOk(r, x) /\ before[r][j.src].type # "directory"
  PROVE  CopyInv(r)'
<1>1. call[r] \in Call /\ call[r].do \in {"cp", "mv"}
  BY DEF Copying
<1>2. PICK js : js = <<x>> \o Rest(r)
  OBVIOUS
<1>3. /\ Rest(r) \in Seq(Job) /\ Elements(jobs[r]) = {j} \cup Elements(Rest(r))
      /\ Fresh(r) => JobOk(r, j)
  BY CopyRuns
<1>4. js # <<>> /\ Elements(js) = {x} \cup Elements(Rest(r))
  BY <1>2, <1>3, OneMoreJob
<1>5. ASSUME Fresh(r), NEW q \in Reached(r), Covers(j, To(r, q)) PROVE Covers(x, To(r, q))
  <2>1. j.src \in Reached(r) /\ j.dst = To(r, j.src)
    BY <1>3, <1>5 DEF JobOk
  <2>2. AtOrAbove(To(r, j.src), To(r, q))
    BY <1>5, <2>1 DEF Covers
  <2>3. q = j.src
    BY <1>1, <1>5, <2>1, <2>2, LeafCovers
  <2>4. QED BY <2>1, <2>3 DEF Covers
<1>6. QED BY <1>2, <1>3, <1>4, <1>5, CopyPlans

LEMMA CopyDirectory ==
  ASSUME StepsInv, ShapeInv', NEW r \in Request, CopyInv(r), Copying(r),
         NEW j, j = Head(jobs[r]), j.do = "cp", NEW p, p = j.dst, p \in Path,
         TypeOf(rows, j.src) = "directory", NEW S, S = DirsAbove(p) \cup ({p} \ {Root}),
         rows' = WithDirs(rows, S), objects' = objects,
         NEW kids, kids = {PathName(q) : q \in Children(WithDirs(rows, S), j.src)},
         Continue(r, (IF kids = {} THEN <<>> ELSE <<EntriesJob(j.src, p, kids)>>) \o Rest(r))
  PROVE  CopyInv(r)'
<1>1. call[r] \in Call /\ call[r].do \in {"cp", "mv"}
  BY DEF Copying
<1>2. /\ TypeInv /\ rows \in Table /\ objects \in Stored /\ before[r] \in Trees /\ SourceKept(r)
      /\ Rest(r) \in Seq(Job) /\ Elements(jobs[r]) = {j} \cup Elements(Rest(r))
      /\ AtOrAbove(call[r].dst, p)
      /\ Fresh(r) => CopyState(r, jobs[r]) /\ JobOk(r, j)
  BY CopyRuns DEF CopyKinds
<1>3. call'[r] = call[r] /\ before'[r] = before[r]
  BY <1>2, Continues DEF Alone
<1>4. Grows(p) /\ (p # Root /\ TypeOf(rows, p) \in {"none", "directory"} => Now(p)' = DirEntry)
  BY <1>2, CpDoes
<1>5. SourceKept(r)'
  BY <1>1, <1>2, <1>3, <1>4, GrowsKeepsSource
<1>6. PICK x : x = EntriesJob(j.src, p, kids)
  OBVIOUS
<1>7. PICK js : js = (IF kids = {} THEN <<>> ELSE <<x>>) \o Rest(r)
  OBVIOUS
<1>8. /\ kids = {} => js = Rest(r)
      /\ kids # {} => js # <<>> /\ Elements(js) = {x} \cup Elements(Rest(r))
  <2>1. <<>> \o Rest(r) = Rest(r)
    BY <1>2, Sequences1
  <2>2. QED BY <1>2, <1>7, <2>1, OneMoreJob
<1>9. js = <<>> => call[r].do = "cp"
  BY <1>8, RestLeft DEF CopyKinds
<1>10. PICK js0 : js0 = jobs[r]
  OBVIOUS
<1>11. ASSUME Fresh(r) PROVE CopyState(r, js)'
  <2>1. PICK q0 \in Reached(r) : q0 = j.src /\ p = To(r, q0)
    BY <1>2, <1>11 DEF JobOk
  <2>2. before[r][q0].type = "directory" /\ Now(q0) = before[r][q0] /\ Has(rows, q0) /\ rows[q0].type = "directory"
    BY <1>11, <2>1, SourceFound
  <2>3. before[r][q0] = DirEntry
    BY <2>2, DirectoryEntry DEF Now
  <2>4. p # Root
    <3>1. PICK src \in Path, dst \in Path : src = call[r].src /\ dst = call[r].dst
      BY <1>1, CallPaths
    <3>2. src \in Names /\ Len(src) \in Nat
      BY PathIsNames
    <3>3. AtOrAbove(<<>>, src)
      <4>1. <<>> \in Names /\ Len(<<>>) = 0
        BY DEF Names
      <4>2. QED BY <3>2, <4>1, AboveByNames
    <3>4. AtOrAbove(src, src)
      BY DEF AtOrAbove
    <3>5. ~AtOrAbove(src, p)
      BY <1>1, <1>2, <1>11, <3>1, <3>4, SourceOffWay
    <3>6. p = Root => AtOrAbove(dst, src)
      BY <1>2, <3>1, <3>2, <3>3, AboveTransitive, PathIsNames DEF Root
    <3>7. ~AtOrAbove(dst, src)
      BY <1>11, <3>1 DEF Fresh, Apart
    <3>8. QED BY <3>6, <3>7
  <2>5. Now(p) = NoRow \/ Now(p).type = "directory"
    BY <1>2, <1>11, <2>1, <2>2 DEF CopyState, Typed
  <2>6. TypeOf(rows, p) \in {"none", "directory"}
    BY <1>2, <2>5, EntryFacts DEF Now, TypeOf
  <2>7. Now(p)' = before[r][q0] /\ Now(p)'.type = before[r][q0].type
    BY <1>4, <2>3, <2>4, <2>6
  <2>8. /\ \A n \in kids : n \in Name /\ Append(q0, n) \in Reached(r)
        /\ \A z \in Reached(r) : AtOrAbove(q0, z) /\ z # q0 =>
             \E n \in kids : Append(q0, n) \in Reached(r) /\ AtOrAbove(Append(q0, n), z)
    BY <1>2, <1>11, <2>1, <2>2, CopyLists
  <2>9. x.do = "entries" /\ x.src = q0 /\ x.dst = p /\ x.names = kids
    BY <1>6, <2>1 DEF EntriesJob
  <2>10. JobOk(r, x)
    BY <2>1, <2>2, <2>8, <2>9 DEF JobOk
  <2>11. CopyState(r, js0)
    BY <1>2, <1>10, <1>11
  <2>12. \A y \in Elements(js) : y \in Elements(js0) \/ JobOk(r, y)
    BY <1>2, <1>8, <1>10, <2>10
  <2>13. ASSUME NEW q \in Reached(r), q # q0, NEW y \in Elements(js0), Covers(y, To(r, q))
         PROVE  \E z \in Elements(js) : Covers(z, To(r, q))
    <3>1. CASE y = j
      <4>1. AtOrAbove(p, To(r, q))
        BY <2>13, <3>1 DEF Covers
      <4>2. AtOrAbove(q0, q)
        BY <1>1, <2>1, <4>1, PlacesApart
      <4>3. PICK n \in kids : Append(q0, n) \in Reached(r) /\ AtOrAbove(Append(q0, n), q) /\ n \in Name
        BY <2>8, <2>13, <4>2
      <4>4. AtOrAbove(To(r, Append(q0, n)), To(r, q))
        BY <1>1, <4>3, PlacesApart
      <4>5. Append(p, n) = To(r, Append(q0, n))
        BY <1>1, <2>1, <4>3, EntryPlaces
      <4>6. Covers(x, To(r, q))
        BY <2>9, <4>3, <4>4, <4>5 DEF Covers
      <4>7. x \in Elements(js)
        BY <1>8, <4>3
      <4>8. QED BY <4>6, <4>7
    <3>2. CASE y # j
      BY <1>2, <1>8, <1>10, <2>13, <3>2
    <3>3. QED BY <3>1, <3>2
  <2>14. QED BY <1>1, <1>2, <1>3, <1>4, <2>1, <2>7, <2>11, <2>12, <2>13, CopyStateStep
<1>12. Continue(r, js)
  BY <1>6, <1>7
<1>13. QED BY <1>1, <1>2, <1>5, <1>9, <1>11, <1>12, CopyContinues

LEMMA CopyCopies ==
  ASSUME StepsInv, ShapeInv', NEW r \in Request, CopyInv(r), Copying(r), Cp(r)
  PROVE  CopyInv(r)'
<1>1. PICK j : j = Head(jobs[r])
  OBVIOUS
<1>2. PICK p \in Path : p = j.dst /\ j.do = "cp"
  BY <1>1 DEF Cp, Runs
<1>3. /\ rows \in Table /\ objects \in Stored
      /\ Fresh(r) => CopyState(r, jobs[r]) /\ JobOk(r, j)
  BY <1>1, CopyRuns
<1>4. ASSUME Fresh(r)
      PROVE  /\ j.src \in Reached(r) /\ p = To(r, j.src) /\ j.src \in Path
             /\ Now(j.src) = before[r][j.src] /\ Has(rows, j.src) /\ rows[j.src] \in Row
             /\ TypeOf(rows, j.src) = before[r][j.src].type /\ rows[j.src].type = before[r][j.src].type
  <2>1. j.src \in Reached(r) /\ p = To(r, j.src)
    BY <1>2, <1>3, <1>4 DEF JobOk
  <2>2. QED BY <1>4, <2>1, SourceFound
<1>5. CASE Stop(r) /\ NoChange
  BY <1>5, PlaceFails DEF NoChange
<1>6. CASE /\ TypeOf(rows, j.src) = "file" /\ NoChange
           /\ Continue(r, <<FetchJob(j.src, p, {})>> \o Rest(r))
  <2>1. PICK x : x = FetchJob(j.src, p, {})
    OBVIOUS
  <2>2. x.do = "fetch" /\ x.src = j.src /\ x.dst = j.dst /\ x.data = {}
    BY <1>2, <2>1 DEF FetchJob
  <2>3. Fresh(r) => JobOk(r, x) /\ before[r][j.src].type # "directory"
    BY <1>2, <1>4, <1>6, <2>2 DEF JobOk
  <2>4. QED BY <1>1, <1>2, <1>6, <2>1, <2>2, <2>3, CopyLeaf DEF NoChange
<1>7. CASE /\ TypeOf(rows, j.src) = "symlink" /\ NoChange
           /\ Continue(r, <<[do |-> "symlink", dst |-> p, target |-> rows[j.src].target]>> \o Rest(r))
  <2>1. PICK x : x = [do |-> "symlink", dst |-> p, target |-> rows[j.src].target]
    OBVIOUS
  <2>2. x.do = "symlink" /\ x.dst = j.dst /\ x.target = rows[j.src].target
    BY <1>2, <2>1
  <2>3. ASSUME Fresh(r) PROVE before[r][j.src] = LinkEntry(x.target)
    <3>1. /\ Now(j.src) = before[r][j.src] /\ Has(rows, j.src) /\ rows[j.src].type = "symlink"
      BY <1>4, <1>7, <2>3
    <3>2. QED BY <2>2, <3>1 DEF Now, Entry, LinkEntry
  <2>4. Fresh(r) => JobOk(r, x) /\ before[r][j.src].type # "directory"
    BY <1>2, <1>4, <1>7, <2>2, <2>3 DEF JobOk
  <2>5. QED BY <1>1, <1>2, <1>7, <2>1, <2>2, <2>4, CopyLeaf DEF NoChange
<1>8. PICK S : S = DirsAbove(p) \cup ({p} \ {Root})
  OBVIOUS
<1>9. PICK kids : kids = {PathName(q) : q \in Children(WithDirs(rows, S), j.src)}
  OBVIOUS
<1>10. CASE /\ TypeOf(rows, j.src) = "directory" /\ rows' = WithDirs(rows, S) /\ objects' = objects
            /\ Continue(r, (IF kids = {} THEN <<>> ELSE <<EntriesJob(j.src, p, kids)>>) \o Rest(r))
  BY <1>1, <1>2, <1>8, <1>9, <1>10, CopyDirectory
<1>11. QED BY <1>1, <1>2, <1>5, <1>6, <1>7, <1>8, <1>9, <1>10 DEF Cp

\* The next entry is copied for itself, and the others are left.
LEMMA CopyEnters ==
  ASSUME StepsInv, ShapeInv', NEW r \in Request, CopyInv(r), Copying(r), CpEntry(r)
  PROVE  CopyInv(r)'
<1>1. call[r] \in Call /\ call[r].do \in {"cp", "mv"}
  BY DEF Copying
<1>2. PICK j : j = Head(jobs[r])
  OBVIOUS
<1>3. PICK n \in j.names :
        Continue(r, <<CpJob(Append(j.src, n), Append(j.dst, n), TRUE)>>
                    \o (IF j.names \ {n} = {} THEN <<>> ELSE <<EntriesJob(j.src, j.dst, j.names \ {n})>>)
                    \o Rest(r))
  BY <1>2 DEF CpEntry
<1>4. j.do = "entries" /\ UNCHANGED <<rows, objects>>
  BY <1>2 DEF CpEntry, Runs, NoChange
<1>5. /\ j \in Job /\ Rest(r) \in Seq(Job) /\ Elements(jobs[r]) = {j} \cup Elements(Rest(r))
      /\ Fresh(r) => JobOk(r, j)
  BY <1>2, CopyRuns
<1>6. PICK left : left = j.names \ {n}
  OBVIOUS
<1>7. PICK x : x = CpJob(Append(j.src, n), Append(j.dst, n), TRUE)
  OBVIOUS
<1>8. PICK y : y = EntriesJob(j.src, j.dst, left)
  OBVIOUS
<1>9. PICK js : js = <<x>> \o (IF left = {} THEN <<>> ELSE <<y>>) \o Rest(r)
  OBVIOUS
<1>10. /\ x.do = "cp" /\ x.src = Append(j.src, n) /\ x.dst = Append(j.dst, n)
       /\ y.do = "entries" /\ y.src = j.src /\ y.dst = j.dst /\ y.names = left
  BY <1>7, <1>8 DEF CpJob, EntriesJob
<1>11. /\ js # <<>>
       /\ Elements(js) = {x} \cup (IF left = {} THEN {} ELSE {y}) \cup Elements(Rest(r))
  <2>1. CASE left = {}
    <3>1. js = <<x>> \o Rest(r)
      <4>1. <<x>> \in Seq({x})
        OBVIOUS
      <4>2. <<x>> \o <<>> = <<x>>
        BY <4>1, ConcatEmptySeq
      <4>3. QED BY <1>9, <2>1, <4>2
    <3>2. js # <<>> /\ Elements(js) = {x} \cup Elements(Rest(r))
      BY <1>5, <3>1, OneMoreJob
    <3>3. QED BY <2>1, <3>2
  <2>2. CASE left # {}
    <3>0. PICK T : T = Job \cup {x, y}
      OBVIOUS
    <3>1. Rest(r) \in Seq(T) /\ <<x>> \in Seq(T) /\ <<y>> \in Seq(T) /\ x \in T /\ y \in T
      BY <1>5, <3>0, SeqMonotonic
    <3>2. (<<x>> \o <<y>>) \o Rest(r) = <<x>> \o (<<y>> \o Rest(r))
      BY <3>1, ConcatAssociative
    <3>3. <<y>> \o Rest(r) \in Seq(T)
      BY <3>1, ConcatProperties
    <3>4. js = <<x>> \o (<<y>> \o Rest(r))
      BY <1>9, <2>2, <3>2
    <3>5. Elements(<<y>> \o Rest(r)) = {y} \cup Elements(Rest(r))
      BY <3>1, ElementsMore
    <3>6. Elements(js) = {x} \cup Elements(<<y>> \o Rest(r))
      BY <3>1, <3>3, <3>4, ElementsMore
    <3>7. js # <<>>
      BY <3>1, <3>3, <3>4, Sequences1
    <3>8. QED BY <2>2, <3>5, <3>6, <3>7
  <2>3. QED BY <2>1, <2>2
<1>12. ASSUME Fresh(r) PROVE JobOk(r, x) /\ JobOk(r, y)
  <2>1. /\ j.src \in Reached(r) /\ j.dst = To(r, j.src) /\ before[r][j.src].type = "directory"
        /\ \A m \in j.names : Append(j.src, m) \in Reached(r)
    BY <1>4, <1>5, <1>12 DEF JobOk
  <2>2. n \in Name
    BY <1>3, <1>4, <1>5, JobData
  <2>3. Append(j.dst, n) = To(r, Append(j.src, n))
    BY <1>1, <1>3, <2>1, <2>2, EntryPlaces
  <2>4. JobOk(r, x)
    BY <1>3, <1>10, <2>1, <2>3 DEF JobOk
  <2>5. JobOk(r, y)
    BY <1>6, <1>10, <2>1 DEF JobOk
  <2>6. QED BY <2>4, <2>5
<1>13. ASSUME NEW p, Covers(j, p) PROVE Covers(x, p) \/ (left # {} /\ Covers(y, p))
  <2>1. PICK m \in j.names : AtOrAbove(Append(j.dst, m), p)
    BY <1>4, <1>13 DEF Covers
  <2>2. CASE m = n
    BY <1>10, <2>1, <2>2 DEF Covers
  <2>3. CASE m # n
    <3>1. m \in left
      BY <1>6, <2>3
    <3>2. QED BY <1>10, <2>1, <3>1 DEF Covers
  <2>4. QED BY <2>2, <2>3
<1>14. Continue(r, js)
  BY <1>3, <1>6, <1>7, <1>8, <1>9
<1>15. ASSUME Fresh(r)
       PROVE  /\ \A z \in Elements(js) : z \in Elements(jobs[r]) \/ JobOk(r, z)
              /\ \A q \in Reached(r) : (\E z \in Elements(jobs[r]) : Covers(z, To(r, q))) =>
                   \E z \in Elements(js) : Covers(z, To(r, q))
  <2>1. \A z \in Elements(js) : z \in Elements(jobs[r]) \/ JobOk(r, z)
    BY <1>5, <1>11, <1>12, <1>15
  <2>2. ASSUME NEW p, NEW z \in Elements(jobs[r]), Covers(z, p)
        PROVE  \E u \in Elements(js) : Covers(u, p)
    BY <1>5, <1>11, <1>13, <2>2
  <2>3. QED BY <2>1, <2>2
<1>16. QED BY <1>4, <1>11, <1>14, <1>15, CopyPlans

LEMMA CopyTooLong ==
  ASSUME StepsInv, NEW r \in Request, CopyInv(r), Copying(r), TooLong(r)
  PROVE  CopyInv(r)'
BY PlaceFails DEF TooLong, NoChange

\* A file or a link is all there is to copy.
LEMMA OnlyItself ==
  ASSUME NEW r \in Request, call[r] \in Call, call[r].do \in {"cp", "mv"},
         before[r][call[r].src].type # "directory", NEW q \in Reached(r)
  PROVE  q = call[r].src
<1>1. /\ call[r].src \in Path /\ call[r].src \in Names /\ AtOrAbove(call[r].src, q)
      /\ AtOrAbove(call[r].src, call[r].src)
  BY ReachedFacts DEF AtOrAbove
<1>2. QED BY <1>1, ReachedUp DEF Reached

\* mv plans the copy, and the removal after it.
LEMMA CopyMoves ==
  ASSUME StepsInv, ShapeInv', NEW r \in Request, CopyInv(r), Copying(r), Mv(r)
  PROVE  CopyInv(r)'
<1>1. call[r] \in Call /\ call[r].do \in {"cp", "mv"}
  BY DEF Copying
<1>2. PICK j : j = Head(jobs[r])
  OBVIOUS
<1>3. j.do = "mv" /\ UNCHANGED <<rows, objects>>
  BY <1>2 DEF Mv, Runs, NoChange
<1>4. Elements(jobs[r]) = {j} \cup Elements(Rest(r)) /\ jobs[r] # <<>>
  BY <1>2, CopyRuns
<1>5. j = call[r] /\ Rest(r) = <<>>
  <2>1. PICK c \in Call : c = call[r] /\ c.do \in {"cp", "mv"}
    BY <1>1
  <2>2. PICK js \in Stacks(c) : js = jobs[r] /\ js # <<>> /\ Rest(r) = Tail(js)
    BY <2>1, ShapeRunning DEF Copying, StepsInv
  <2>3. j = Head(js)
    BY <1>2, <2>2
  <2>4. j.do \in {"append", "mkdir", "mkdir_p", "delete_file", "mv"} => j = c /\ Tail(js) = <<>>
    BY <2>2, <2>3, HeadIs
  <2>5. QED BY <1>3, <2>1, <2>2, <2>4
<1>6. ASSUME NEW x, x.do = "cp", x.src = j.src, x.dst = j.dst, NEW y, Fresh(r) => JobOk(r, y),
             Continue(r, <<x, y>> \o Rest(r))
      PROVE  CopyInv(r)'
  <2>2. x.do = "cp" /\ x.src = call[r].src /\ x.dst = call[r].dst
    BY <1>5, <1>6
  <2>3. PICK js : js = <<x, y>>
    OBVIOUS
  <2>4. <<x, y>> \o Rest(r) = js
    <3>1. <<x, y>> \in Seq({x, y})
      OBVIOUS
    <3>2. QED BY <1>5, <2>3, <3>1, ConcatEmptySeq
  <2>5. js # <<>> /\ \A z : z \in Elements(js) <=> z = x \/ z = y
    BY <2>3 DEF Elements
  <2>6. Fresh(r) => JobOk(r, x)
    BY <1>1, <2>2, SourceReached DEF JobOk
  <2>7. \A p : Covers(j, p) => Covers(x, p)
    BY <1>3, <1>5, <2>2 DEF Covers
  <2>8. Elements(Rest(r)) = {}
    BY <1>5, ElementsNone
  <2>9. Continue(r, js)
    BY <1>6, <2>4
  <2>10. QED BY <1>3, <1>4, <1>6, <2>5, <2>6, <2>7, <2>8, <2>9, CopyPlans
<1>7. CASE Stop(r)
  BY <1>3, <1>7, PlaceFails
<1>8. CASE Continue(r, <<CpJob(j.src, j.dst, TRUE), RmJob(j.src)>> \o Rest(r))
  <2>0. PICK x : x = CpJob(j.src, j.dst, TRUE)
    OBVIOUS
  <2>1. PICK y : y = RmJob(j.src)
    OBVIOUS
  <2>2. y.do = "rm" /\ JobOk(r, y)
    BY <2>1 DEF RmJob, JobOk
  <2>3. Continue(r, <<x, y>> \o Rest(r))
    BY <1>8, <2>0, <2>1
  <2>4. x.do = "cp" /\ x.src = j.src /\ x.dst = j.dst
    BY <2>0 DEF CpJob
  <2>5. QED BY <1>6, <2>2, <2>3, <2>4
<1>9. CASE /\ TypeOf(rows, j.src) \in {"file", "symlink"}
           /\ Continue(r, <<CpJob(j.src, j.dst, FALSE), RowsJob({j.src})>> \o Rest(r))
  <2>0. PICK x : x = CpJob(j.src, j.dst, FALSE)
    OBVIOUS
  <2>1. PICK y : y = RowsJob({j.src})
    OBVIOUS
  <2>2. y.do = "rows" /\ y.paths = {call[r].src}
    BY <1>5, <2>1 DEF RowsJob
  <2>3. ASSUME Fresh(r) PROVE JobOk(r, y)
    <3>1. before[r][call[r].src].type = TypeOf(rows, call[r].src)
      BY <1>1, <2>3, SourceReached, SourceFound
    <3>2. before[r][call[r].src].type # "directory"
      BY <1>5, <1>9, <3>1
    <3>3. \A q \in Reached(r) : q = call[r].src
      BY <1>1, <3>2, OnlyItself
    <3>4. QED BY <2>2, <3>3 DEF JobOk
  <2>4. Continue(r, <<x, y>> \o Rest(r))
    BY <1>9, <2>0, <2>1
  <2>5. x.do = "cp" /\ x.src = j.src /\ x.dst = j.dst
    BY <2>0 DEF CpJob
  <2>6. QED BY <1>6, <2>3, <2>4, <2>5
<1>10. QED BY <1>2, <1>7, <1>8, <1>9 DEF Mv

\* The removal after the copy is of what the copy reached.
LEMMA CopyRemoves ==
  ASSUME StepsInv, ShapeInv', NEW r \in Request, CopyInv(r), Copying(r), Rm(r)
  PROVE  CopyInv(r)'
<1>1. call[r] \in Call /\ call[r].do \in {"cp", "mv"}
  BY DEF Copying
<1>2. PICK j : j = Head(jobs[r])
  OBVIOUS
<1>3. j.do = "rm" /\ UNCHANGED <<rows, objects>>
  BY <1>2 DEF Rm, Runs, NoChange
<1>4. /\ Elements(jobs[r]) = {j} \cup Elements(Rest(r)) /\ jobs[r] # <<>> /\ rows \in Table
      /\ Rest(r) \in Seq(Job)
  BY <1>2, CopyRuns
<1>5. j = RmJob(call[r].src) /\ Rest(r) = <<>>
  <2>1. PICK c \in Call : c = call[r] /\ c.do \in {"cp", "mv"}
    BY <1>1
  <2>2. PICK js \in Stacks(c) : js = jobs[r] /\ js # <<>> /\ Rest(r) = Tail(js)
    BY <2>1, ShapeRunning DEF Copying, StepsInv
  <2>3. j = Head(js)
    BY <1>2, <2>2
  <2>4. j.do = "rm" => Tail(js) = <<>> /\ (j = c \/ (c.do = "mv" /\ j = RmJob(c.src)))
    BY <2>2, <2>3, HeadIs, SMTT(30)
  <2>5. QED BY <1>3, <2>1, <2>2, <2>4
<1>6. PICK p \in Path : p = call[r].src /\ j.src = p
  BY <1>1, <1>5, CallPaths DEF RmJob
<1>7. Fresh(r) => Has(rows, p) /\ before[r][p].type = TypeOf(rows, p)
  BY <1>1, <1>6, SourceReached, SourceFound
<1>8. \A q : ~Covers(j, q)
  BY <1>3 DEF Covers
<1>9. ASSUME NEW S, Fresh(r) => Reached(r) \subseteq S, Continue(r, <<RowsJob(S)>> \o Rest(r))
      PROVE  CopyInv(r)'
  <2>1. PICK x : x = RowsJob(S)
    OBVIOUS
  <2>2. x.do = "rows" /\ x.paths = S
    BY <2>1 DEF RowsJob
  <2>3. PICK js : js = <<x>> \o Rest(r)
    OBVIOUS
  <2>4. js # <<>> /\ Elements(js) = {x} \cup Elements(Rest(r))
    BY <1>4, <2>3, OneMoreJob
  <2>5. Fresh(r) => JobOk(r, x)
    BY <1>9, <2>2 DEF JobOk
  <2>6. Continue(r, js)
    BY <1>9, <2>1, <2>3
  <2>7. QED BY <1>3, <1>4, <1>8, <2>4, <2>5, <2>6, CopyPlans
<1>10. CASE Stop(r)
  BY <1>3, <1>10, PlaceFails
<1>11. CASE ~Has(rows, p) /\ Continue(r, Rest(r))
  BY <1>3, <1>7, <1>11, CopyPlans
<1>12. CASE TypeOf(rows, p) \in {"file", "symlink"} /\ Continue(r, <<RowsJob({p})>> \o Rest(r))
  <2>1. Fresh(r) => before[r][call[r].src].type # "directory"
    BY <1>6, <1>7, <1>12
  <2>2. Fresh(r) => \A q \in Reached(r) : q = p
    BY <1>1, <1>6, <2>1, OnlyItself
  <2>3. QED BY <1>9, <1>12, <2>2
<1>13. PICK matched : matched = {q \in Path : Has(rows, q) /\ (q = p \/ IsLike(p, q))}
  OBVIOUS
<1>14. CASE Continue(r, <<RowsJob(matched)>> \o Rest(r))
  <2>1. ASSUME Fresh(r), NEW q \in Reached(r) PROVE q \in matched
    <3>1. q \in Path /\ Has(rows, q)
      BY <2>1, SourceFound
    <3>2. AtOrAbove(p, q)
      BY <1>1, <1>6, <2>1, ReachedFacts
    <3>3. q = p \/ IsLike(p, q)
      BY <3>1, <3>2, AboveIsLike DEF AtOrAbove
    <3>4. QED BY <1>13, <3>1, <3>3
  <2>2. QED BY <1>9, <1>14, <2>1
<1>15. QED BY <1>2, <1>6, <1>10, <1>11, <1>12, <1>13, <1>14 DEF Rm

----------------------------------------------------------------------------
(* R2 answers while the copy goes on. *)

\* The R2 call of a copy, and what is known of it.
LEMMA CopyAwaits ==
  ASSUME StepsInv, NEW r \in Request, CopyInv(r), Copying(r), await[r] # NoAwait
  PROVE  /\ await[r] \in Await
         /\ await[r].op \in {"put", "drop"} =>
              /\ Head(jobs[r]).do = "write" /\ await[r].key = Head(jobs[r]).dst
              /\ Head(jobs[r]).dst \in Path /\ AtOrAbove(call[r].dst, Head(jobs[r]).dst)
         /\ await[r].op = "put" => await[r].data = Head(jobs[r]).data
         /\ await[r].op = "get" => Head(jobs[r]).do = "fetch" /\ ~Changes(r)
         /\ await[r].op # "rmobj"
<1>1. PICK w : w = await[r]
  OBVIOUS
<1>2. PICK j : j = Head(jobs[r])
  OBVIOUS
<1>3. TypeInv /\ j \in Job /\ j.do # "rows" /\ (j.do \in CopyKinds => AtOrAbove(call[r].dst, j.dst))
  BY <1>2, CopyRuns DEF Copying
<1>4. /\ w.op \in {"put", "drop"} => j.do = "write" /\ w.key = j.dst
      /\ w.op = "put" => w.data = j.data
      /\ w.op = "rmobj" => j.do = "rows"
  <2>1. Linked(r)
    BY ShapeRunning DEF StepsInv, Copying
  <2>2. QED BY <1>1, <1>2, <2>1 DEF Linked
<1>5. w \in Await /\ (w.op = "get" => j.do = "fetch")
  BY <1>1, <1>2, <1>3 DEF TypeInv
<1>6. j.do = "write" => j.dst \in Path /\ AtOrAbove(call[r].dst, j.dst)
  BY <1>3, JobData DEF CopyKinds
<1>7. w.op = "get" => ~Changes(r)
  BY <1>1 DEF Changes
<1>8. QED BY <1>1, <1>2, <1>3, <1>4, <1>5, <1>6, <1>7

\* The kind of the entry that waits for its bytes does not change.
LEMMA SameKind ==
  ASSUME NEW p \in Path, rows \in Table, objects \in Stored, UNCHANGED rows,
         Now(p) = NoRow \/ Now(p).type = "file"
  PROVE  /\ Now(p)' = NoRow \/ Now(p)'.type = "file"
         /\ ~InR2(rows, p) => Now(p)' = Now(p) /\ ~InR2(rows, p)'
<1>1. Has(rows, p) => Now(p) # NoRow /\ Now(p).type = rows[p].type
  BY EntryFacts DEF Now
<1>2. Has(rows, p)' <=> Has(rows, p)
  BY DEF Has
<1>3. CASE ~Has(rows, p)
  BY <1>2, <1>3 DEF Now, Entry, InR2
<1>4. CASE Has(rows, p)
  <2>1. rows[p].type = "file"
    BY <1>1, <1>4
  <2>2. Now(p)'.type = "file"
    BY <1>2, <1>4, <2>1 DEF Now, Entry
  <2>3. ~InR2(rows, p) => Now(p)' = Now(p) /\ ~InR2(rows, p)'
    BY <1>2, <1>4 DEF Now, Entry, InR2
  <2>4. QED BY <2>2, <2>3
<1>5. QED BY <1>3, <1>4

\* A call that changes an object has been answered.
LEMMA CopyStored ==
  ASSUME StepsInv, NEW r \in Request, CopyInv(r), Copying(r), R2Lands(r) \/ R2DeleteFails(r),
         await[r].op \in {"put", "drop"}
  PROVE  CopyInv(r)'
<1>1. PICK w : w = await[r]
  OBVIOUS
<1>2. PICK x : x = await'[r]
  OBVIOUS
<1>3. PICK j : j = Head(jobs[r])
  OBVIOUS
<1>4. PICK p : p = j.dst
  OBVIOUS
<1>5. TypeInv /\ rows \in Table /\ objects \in Stored /\ (Fresh(r) => CopyState(r, jobs[r]) /\ WaitOk(r) /\ JobOk(r, j))
  BY <1>3, CopyRuns
<1>6. /\ status[r] = "running" /\ w # NoAwait
      /\ status'[r] = "running" /\ Alone(r) /\ jobs'[r] = jobs[r] /\ rows' = rows
      /\ x.op = w.op /\ x # NoAwait
      /\ w.op = "put" => objects'[w.key] = w.data
      /\ \A q \in Path \ {w.key} : objects'[q] = objects[q]
  BY <1>1, <1>2, <1>5, Answers
<1>7. /\ j.do = "write" /\ w.key = p /\ p \in Path /\ AtOrAbove(call[r].dst, p)
      /\ w.op = "put" => w.data = j.data
  BY <1>1, <1>3, <1>4, <1>6, CopyAwaits
<1>8. Grows(p)
  BY <1>6, <1>7, OnlyGrows
<1>9. ASSUME Fresh(r) PROVE WaitOk(r)' /\ (Now(p)' = NoRow \/ Now(p)'.type = "file")
  <2>1. PICK q \in Reached(r) : p = To(r, q) /\ before[r][q] = FileEntry(j.data)
    BY <1>4, <1>5, <1>7, <1>9 DEF JobOk
  <2>2. before[r][q].type = "file"
    BY <2>1 DEF FileEntry
  <2>3. Now(p) = NoRow \/ Now(p).type = "file"
    BY <1>5, <1>9, <2>1, <2>2 DEF CopyState, Typed
  <2>4. /\ Now(p)' = NoRow \/ Now(p)'.type = "file"
        /\ ~InR2(rows, p) => Now(p)' = Now(p) /\ ~InR2(rows, p)'
    BY <1>5, <1>6, <1>7, <2>3, SameKind
  <2>5. w.op = "drop" => Now(p) = FileEntry(j.data) /\ ~InR2(rows, p)
    BY <1>1, <1>3, <1>4, <1>5, <1>6, <1>9 DEF WaitOk
  <2>6. /\ w.op = "drop" => Now(p)' = FileEntry(j.data) /\ ~InR2(rows, p)'
        /\ w.op = "put" => objects'[p] = j.data
    BY <1>6, <1>7, <2>4, <2>5
  <2>7. Head(jobs'[r]) = j /\ x.op # "get"
    BY <1>1, <1>3, <1>6
  <2>8. WaitOk(r)'
    BY <1>2, <1>4, <1>6, <2>6, <2>7 DEF WaitOk
  <2>9. QED BY <2>4, <2>8
<1>10. status'[r] = status[r]
  BY <1>6
<1>11. QED BY <1>3, <1>4, <1>6, <1>7, <1>8, <1>9, <1>10, PlaceAwaited

\* The bytes of an entry of the source have come.
LEMMA CopyRead ==
  ASSUME StepsInv, NEW r \in Request, CopyInv(r), Copying(r), R2Lands(r), await[r].op = "get"
  PROVE  CopyInv(r)'
<1>1. PICK w : w = await[r]
  OBVIOUS
<1>2. PICK x : x = await'[r]
  OBVIOUS
<1>3. PICK j : j = Head(jobs[r])
  OBVIOUS
<1>4. /\ TypeInv /\ rows \in Table /\ objects \in Stored /\ SourceKept(r)
      /\ Fresh(r) => CopyState(r, jobs[r]) /\ WaitOk(r)
  BY <1>3, CopyRuns
<1>5. /\ status[r] = "running" /\ w # NoAwait
      /\ status'[r] = "running" /\ Alone(r) /\ jobs'[r] = jobs[r] /\ rows' = rows
      /\ x.op = w.op /\ x.key = w.key /\ x # NoAwait /\ x.data = objects[w.key]
  BY <1>1, <1>2, <1>4, Answers
<1>6. objects' = objects
  <2>1. objects' = [objects EXCEPT ![w.key] = objects[w.key]]
    BY <1>1 DEF R2Lands
  <2>2. QED BY <1>4, <2>1 DEF Stored
<1>7. call'[r] = call[r] /\ before'[r] = before[r]
  BY <1>5 DEF Alone
<1>8. SourceKept(r)'
  BY <1>4, <1>5, <1>6, <1>7 DEF SourceKept, Now, Entry, Has, InR2
<1>9. PICK js : js = jobs[r]
  OBVIOUS
<1>10. Fresh(r) => CopyState(r, js)'
  BY <1>4, <1>5, <1>6, <1>7, <1>9, CopyStateSame DEF Copying
<1>11. ASSUME Fresh(r) PROVE WaitOk(r)'
  <2>1. w.key = j.src /\ InR2(rows, j.src)
    BY <1>1, <1>3, <1>4, <1>5, <1>11 DEF WaitOk
  <2>2. InR2(rows, j.src)' /\ x.data = objects'[j.src]
    BY <1>5, <1>6, <2>1 DEF InR2, Has
  <2>3. Head(jobs'[r]) = j /\ x.op = "get"
    BY <1>1, <1>3, <1>5
  <2>4. QED BY <1>2, <1>5, <2>1, <2>2, <2>3 DEF WaitOk
<1>12. QED BY <1>5, <1>8, <1>9, <1>10, <1>11, CopyWaits DEF Copying

LEMMA CopyAnswered ==
  ASSUME StepsInv, NEW r \in Request, CopyInv(r), Copying(r), R2Lands(r) \/ R2DeleteFails(r)
  PROVE  CopyInv(r)'
<1>1. await[r] # NoAwait
  BY DEF R2Lands, R2DeleteFails
<1>2. await[r] \in Await /\ await[r].op # "rmobj"
  BY <1>1, CopyAwaits
<1>3. await[r].op \in {"get", "put", "drop"}
  BY <1>2 DEF Await
<1>4. R2DeleteFails(r) => await[r].op # "get"
  BY DEF R2DeleteFails
<1>5. QED BY <1>3, <1>4, CopyStored, CopyRead

LEMMA CopyR2Fails ==
  ASSUME StepsInv, NEW r \in Request, CopyInv(r), Copying(r), R2Fails(r)
  PROVE  CopyInv(r)'
<1>1. PICK w : w = await[r]
  OBVIOUS
<1>2. PICK p : p = Head(jobs[r]).dst
  OBVIOUS
<1>3. await[r] # NoAwait /\ Stop(r) /\ rows' = rows
  BY DEF R2Fails
<1>4. /\ w.op \in {"put", "drop"} => w.key = p /\ p \in Path /\ AtOrAbove(call[r].dst, p)
  BY <1>1, <1>2, <1>3, CopyAwaits
<1>5. objects \in Stored
  BY CopyRuns
<1>6. CASE objects' = objects
  BY <1>3, <1>6, PlaceFails
<1>7. CASE w.op = "put" /\ objects' = [objects EXCEPT ![w.key] = w.data]
  <2>1. \A q \in Path \ {p} : objects'[q] = objects[q]
    BY <1>4, <1>5, <1>7 DEF Stored
  <2>2. Grows(p)
    BY <1>3, <2>1, OnlyGrows
  <2>3. QED BY <1>3, <1>4, <1>7, <2>2, PlaceFails
<1>8. QED BY <1>1, <1>6, <1>7 DEF R2Fails

\* The request takes up the answer.
LEMMA CopyResumes ==
  ASSUME StepsInv, ShapeInv', NEW r \in Request, CopyInv(r), Copying(r), Resume(r)
  PROVE  CopyInv(r)'
<1>1. PICK w : w = await[r]
  OBVIOUS
<1>2. PICK j : j = Head(jobs[r])
  OBVIOUS
<1>3. PICK p : p = j.dst
  OBVIOUS
<1>4. await[r] # NoAwait /\ w.landed
  BY <1>1 DEF Resume
<1>5. /\ w \in Await /\ w.op # "rmobj"
      /\ w.op \in {"put", "drop"} => /\ j.do = "write" /\ w.key = p
                                     /\ p \in Path /\ AtOrAbove(call[r].dst, p)
      /\ w.op = "get" => j.do = "fetch" /\ ~Changes(r)
  BY <1>1, <1>2, <1>3, <1>4, CopyAwaits
<1>6. /\ TypeInv /\ rows \in Table /\ objects \in Stored /\ j \in Job
      /\ Fresh(r) => CopyState(r, jobs[r]) /\ WaitOk(r) /\ JobOk(r, j)
  BY <1>2, CopyRuns
<1>7. ASSUME Fresh(r), w.op \in {"put", "drop"}
      PROVE  /\ TypeOf(rows, p) \in {"none", "file"}
             /\ \E q \in Reached(r) : p = To(r, q) /\ before[r][q] = FileEntry(j.data)
             /\ w.op = "put" => objects[p] = j.data
             /\ w.op = "drop" => Now(p) = FileEntry(j.data)
  <2>1. PICK q \in Reached(r) : p = To(r, q) /\ before[r][q] = FileEntry(j.data)
    BY <1>3, <1>5, <1>6, <1>7 DEF JobOk
  <2>2. before[r][q].type = "file"
    BY <2>1 DEF FileEntry
  <2>3. Now(p) = NoRow \/ Now(p).type = "file"
    BY <1>6, <1>7, <2>1, <2>2 DEF CopyState, Typed
  <2>4. TypeOf(rows, p) \in {"none", "file"}
    BY <1>5, <1>6, <1>7, <2>3, EntryFacts DEF Now, TypeOf
  <2>5. /\ w.op = "put" => objects[p] = j.data
        /\ w.op = "drop" => Now(p) = FileEntry(j.data)
    BY <1>1, <1>2, <1>3, <1>4, <1>6, <1>7 DEF WaitOk
  <2>6. QED BY <2>1, <2>4, <2>5
<1>8. CASE /\ w.op = "get" /\ NoChange
           /\ Continue(r, <<WriteJob(j.dst, OrEmpty(w.data) \cup j.data)>> \o Rest(r))
  <2>1. ASSUME Fresh(r) PROVE w.data = before[r][j.src].bytes
    <3>1. InR2(rows, j.src) /\ w.data = objects[j.src]
      BY <1>1, <1>2, <1>4, <1>6, <1>8, <2>1 DEF WaitOk
    <3>2. j.src \in Reached(r) /\ before[r][j.src].type = "file"
      BY <1>5, <1>6, <1>8, <2>1 DEF JobOk
    <3>3. QED BY <1>5, <1>8, <2>1, <3>1, <3>2, SourceFile
  <2>2. PICK d : d = w.data
    OBVIOUS
  <2>3. Continue(r, <<WriteJob(j.dst, OrEmpty(d) \cup j.data)>> \o Rest(r))
    BY <1>8, <2>2
  <2>4. QED BY <1>2, <1>5, <1>8, <2>1, <2>2, <2>3, CopyFetched DEF NoChange
<1>9. CASE /\ w.op = "put" /\ rows' = Upsert(rows, w.key, "r2", {}) /\ objects' = objects
           /\ Continue(r, Rest(r))
  <2>1. {} \in Content
    BY DEF Content
  <2>2. w.key = p /\ p \in Path
    BY <1>5, <1>9
  <2>3. PICK u \in Table : u = Upsert(rows, p, "r2", {}) /\ rows' = u
    BY <1>6, <1>9, <2>1, <2>2, UpsertTyped
  <2>4. \A q \in Path \ {p} : u[q] = rows[q]
    BY <1>6, <2>1, <2>2, <2>3, UpsertTyped
  <2>5. Grows(p)
    BY <1>9, <2>3, <2>4 DEF Grows, Kept
  <2>6. Now(p)' = Entry(u, objects, p)
    BY <1>9, <2>3 DEF Now
  <2>7. ASSUME Fresh(r) PROVE \E q \in Reached(r) : p = To(r, q) /\ Now(p)' = before[r][q]
    <3>1. TypeOf(rows, p) \in {"none", "file"} /\ objects[p] = j.data
      BY <1>7, <1>9, <2>7
    <3>2. Entry(u, objects, p) = FileEntry(objects[p])
      BY <1>6, <2>1, <2>2, <2>3, <3>1, UpsertMakesFile
    <3>3. QED BY <1>7, <1>9, <2>6, <2>7, <3>1, <3>2
  <2>8. QED BY <1>2, <1>3, <1>5, <1>9, <2>2, <2>5, <2>7, PlaceMade
<1>10. CASE w.op = "drop" /\ UNCHANGED <<rows, objects>> /\ Continue(r, Rest(r))
  <2>1. Grows(p)
    BY <1>10 DEF Grows, Kept
  <2>2. Now(p)' = Now(p)
    BY <1>10 DEF Now, Entry, Has, InR2
  <2>3. Fresh(r) => \E q \in Reached(r) : p = To(r, q) /\ Now(p)' = before[r][q]
    BY <1>7, <1>10, <2>2
  <2>4. QED BY <1>2, <1>3, <1>5, <1>10, <2>1, <2>3, PlaceMade
<1>11. QED BY <1>1, <1>2, <1>5, <1>8, <1>9, <1>10 DEF Resume

----------------------------------------------------------------------------
(* The source of a mv is removed. *)

\* What is true while it is.
Removing(r) ==
  /\ call[r] \in Call /\ call[r].do \in {"cp", "mv"} /\ status[r] = "running"
  /\ Head(jobs[r]).do = "rows"

LEMMA RemovingIs ==
  ASSUME StepsInv, NEW r \in Request, CopyInv(r), Removing(r), NEW S, S = Head(jobs[r]).paths
  PROVE  /\ TypeInv /\ rows \in Table /\ objects \in Stored
         /\ call[r].do = "mv" /\ Rest(r) = <<>>
         /\ \A q \in S : q \in Path /\ AtOrAbove(call[r].src, q)
         /\ Fresh(r) => \A q \in Reached(r) : Done(r, q) /\ (q \in S \/ Now(q) = NoRow)
<1>1. TypeInv /\ rows \in Table /\ objects \in Stored
  BY StoresTable DEF StepsInv, TreeInv
<1>2. PICK c \in Call : c = call[r]
  BY DEF Removing
<1>3. PICK js \in Stacks(c) : js = jobs[r] /\ js # <<>> /\ Rest(r) = Tail(js)
  BY <1>2, ShapeRunning DEF Removing, StepsInv
<1>4. PICK j : j = Head(js)
  OBVIOUS
<1>5. j.do = "rows" => /\ Tail(js) = <<>> /\ c.do \in {"rm", "delete_file", "mv"}
                       /\ \A q \in j.paths : q \in Path /\ AtOrAbove(c.src, q) /\ Owns(c, q)
  BY <1>3, <1>4, HeadIs
<1>6. j.do = "rows" /\ c.do \in {"cp", "mv"} /\ S = j.paths
  BY <1>2, <1>3, <1>4 DEF Removing
<1>7. ASSUME Fresh(r), NEW q \in Reached(r) PROVE Done(r, q) /\ (q \in S \/ Now(q) = NoRow)
  BY <1>7 DEF CopyInv, Removing
<1>8. QED BY <1>1, <1>2, <1>3, <1>5, <1>6, <1>7

\* The removal touches none of the places of the copy.
LEMMA RemovingApart ==
  ASSUME NEW r \in Request, call[r] \in Call, call[r].do \in {"cp", "mv"}, Fresh(r),
         NEW p \in Path, AtOrAbove(call[r].src, p), NEW q \in Reached(r)
  PROVE  To(r, q) # p
BY SourceOffWay, ReachedFacts

LEMMA RemovingRow ==
  ASSUME StepsInv, NEW r \in Request, CopyInv(r), Removing(r), NEW S, S = Head(jobs[r]).paths,
         NEW p \in S, RowGone(r, p, S \ {p})
  PROVE  CopyInv(r)'
<1>1. /\ TypeInv /\ rows \in Table /\ objects \in Stored
      /\ call[r].do = "mv" /\ Rest(r) = <<>>
      /\ \A q \in S : q \in Path /\ AtOrAbove(call[r].src, q)
      /\ Fresh(r) => \A q \in Reached(r) : Done(r, q) /\ (q \in S \/ Now(q) = NoRow)
  BY RemovingIs
<1>2. PICK left : left = S \ {p}
  OBVIOUS
<1>3. p \in Path /\ AtOrAbove(call[r].src, p) /\ RowGone(r, p, left)
  BY <1>1, <1>2
<1>4. PICK js : js = (IF left = {} THEN <<>> ELSE <<RowsJob(left)>>) \o Rest(r)
  OBVIOUS
<1>5. Now(p)' = NoRow /\ (\A q \in Path \ {p} : Now(q)' = Now(q)) /\ Continue(r, js)
  BY <1>1, <1>3, <1>4, RowGoneNow
<1>6. (left = {} => js = <<>>) /\ (left # {} => js = <<RowsJob(left)>>)
  <2>1. <<RowsJob(left)>> \in Seq({RowsJob(left)}) /\ <<>> \in Seq({RowsJob(left)})
    OBVIOUS
  <2>2. QED BY <1>1, <1>4, <2>1, ConcatEmptySeq
<1>7. /\ jobs'[r] = js /\ call'[r] = call[r] /\ before'[r] = before[r]
      /\ status'[r] = IF js = <<>> THEN "ok" ELSE "running"
  BY <1>1, <1>5, Continues DEF Alone
<1>8. /\ Reached(r)' = Reached(r) /\ (Fresh(r)' <=> Fresh(r))
      /\ \A q : To(r, q)' = To(r, q)
  BY <1>7, SameNames
<1>9. ASSUME NEW t, t \notin Path PROVE Now(t) = NoRow /\ Now(t)' = NoRow
  BY <1>9 DEF Now, Entry, Has
<1>10. ASSUME Fresh(r), NEW q \in Reached(r)
       PROVE  Done(r, q)' /\ (q \in left \/ Now(q)' = NoRow)
  <2>1. PICK t : t = To(r, q)
    OBVIOUS
  <2>2. t # p /\ q \in Path
    BY <1>3, <1>10, <2>1, RemovingApart, ReachedFacts DEF Removing
  <2>3. Now(t)' = Now(t)
    BY <1>5, <1>9, <2>2
  <2>4. Now(t) = before[r][q] /\ (q \in S \/ Now(q) = NoRow)
    BY <1>1, <1>10, <2>1 DEF Done
  <2>5. q \in left \/ Now(q)' = NoRow
    BY <1>2, <1>5, <2>2, <2>4
  <2>6. Done(r, q)'
    BY <1>7, <1>8, <2>1, <2>3, <2>4 DEF Done
  <2>7. QED BY <2>5, <2>6
<1>11. CASE left = {}
  <2>1. status'[r] = "ok" /\ call'[r].do = "mv"
    BY <1>1, <1>6, <1>7, <1>11
  <2>2. QED BY <1>8, <1>10, <1>11, <2>1 DEF CopyInv
<1>12. CASE left # {}
  <2>1. PICK x : x = RowsJob(left)
    OBVIOUS
  <2>2. js = <<x>> /\ x.do = "rows" /\ x.paths = left
    BY <1>6, <1>12, <2>1 DEF RowsJob
  <2>3. js # <<>> /\ Head(js) = x
    BY <2>2
  <2>4. status'[r] = "running" /\ Head(jobs'[r]) = x
    BY <1>7, <2>3
  <2>5. QED BY <1>8, <1>10, <2>2, <2>4 DEF CopyInv
<1>13. QED BY <1>11, <1>12

LEMMA RemovingWaits ==
  ASSUME StepsInv, NEW r \in Request, CopyInv(r), Removing(r), NEW S, S = Head(jobs[r]).paths,
         rows' = rows, jobs'[r] = jobs[r], status'[r] = status[r], Alone(r),
         \A q \in Path \ S : objects'[q] = objects[q]
  PROVE  CopyInv(r)'
<1>1. /\ rows \in Table /\ objects \in Stored
      /\ \A q \in S : q \in Path /\ AtOrAbove(call[r].src, q)
      /\ Fresh(r) => \A q \in Reached(r) : Done(r, q) /\ (q \in S \/ Now(q) = NoRow)
  BY RemovingIs
<1>2. call'[r] = call[r] /\ before'[r] = before[r]
  BY DEF Alone
<1>3. /\ Reached(r)' = Reached(r) /\ (Fresh(r)' <=> Fresh(r))
      /\ \A q : To(r, q)' = To(r, q)
  BY <1>2, SameNames
<1>4. ASSUME Fresh(r), NEW q \in Reached(r)
      PROVE  Done(r, q)' /\ (q \in S \/ Now(q)' = NoRow)
  <2>1. PICK t : t = To(r, q)
    OBVIOUS
  <2>2. t \notin S /\ q \in Path
    BY <1>1, <1>4, <2>1, RemovingApart, ReachedFacts DEF Removing
  <2>3. Now(t)' = Now(t)
    BY <2>2 DEF Now, Entry, Has, InR2
  <2>4. Now(t) = before[r][q] /\ (q \in S \/ Now(q) = NoRow)
    BY <1>1, <1>4, <2>1 DEF Done
  <2>5. q \in S \/ Now(q)' = NoRow
    BY <2>2, <2>4 DEF Now, Entry, Has, InR2
  <2>6. Done(r, q)'
    BY <1>2, <1>3, <2>1, <2>3, <2>4 DEF Done
  <2>7. QED BY <2>5, <2>6
<1>5. status'[r] = "running" /\ Head(jobs'[r]) = Head(jobs[r]) /\ Head(jobs[r]).do = "rows"
  BY DEF Removing
<1>6. QED BY <1>3, <1>4, <1>5 DEF CopyInv

LEMMA CopyRemoving ==
  ASSUME StepsInv, NEW r \in Request, CopyInv(r), Removing(r), Acts(r)
  PROVE  CopyInv(r)'
<1>1. PICK S : S = Head(jobs[r]).paths
  OBVIOUS
<1>2. Head(jobs[r]).do = "rows" /\ TypeInv
  BY <1>1, RemovingIs DEF Removing
<1>3. ASSUME await[r] # NoAwait
      PROVE  await[r].op = "rmobj" /\ await[r].key \in S
  <2>1. Linked(r)
    BY ShapeRunning DEF StepsInv, Removing
  <2>2. await[r] \in Await /\ (await[r].op = "get" => Head(jobs[r]).do = "fetch")
    BY <1>2, <1>3 DEF TypeInv
  <2>3. await[r].op \in {"get", "put", "drop", "rmobj"}
    BY <2>2 DEF Await
  <2>4. QED BY <1>1, <1>2, <1>3, <2>1, <2>2, <2>3 DEF Linked
<1>4. ASSUME NEW p \in S, RowGone(r, p, S \ {p}) PROVE CopyInv(r)'
  BY <1>1, <1>4, RemovingRow
<1>5. CASE Work(r)
  <2>1. RmSingle(r)
    BY <1>2, <1>5 DEF Work, Runs, TooLong, Write, AppendFile, Fetch, Mkdir, Symlink, DeleteFile,
                      Rm, Cp, CpEntry, Mv
  <2>2. PICK p \in S : \/ NoChange /\ \E w : Wait(r, w)
                       \/ RowGone(r, p, S \ {p})
    BY <1>1, <2>1 DEF RmSingle
  <2>3. CASE NoChange /\ \E w : Wait(r, w)
    <3>1. jobs'[r] = jobs[r] /\ status'[r] = status[r] /\ Alone(r)
      BY <1>2, <2>3, Waits
    <3>2. QED BY <1>1, <2>3, <3>1, RemovingWaits DEF NoChange
  <2>4. QED BY <1>4, <2>2, <2>3
<1>6. CASE R2Lands(r) \/ R2DeleteFails(r)
  <2>1. /\ status[r] = "running" /\ await[r] # NoAwait
        /\ status'[r] = "running" /\ Alone(r) /\ jobs'[r] = jobs[r] /\ rows' = rows
        /\ \A q \in Path \ {await[r].key} : objects'[q] = objects[q]
    BY <1>2, <1>6, Answers
  <2>2. status'[r] = status[r] /\ \A q \in Path \ S : objects'[q] = objects[q]
    BY <1>3, <2>1
  <2>3. QED BY <1>1, <2>1, <2>2, RemovingWaits
<1>7. ~R2Fails(r)
  BY <1>3 DEF R2Fails
<1>8. CASE Resume(r)
  <2>1. await[r].op = "rmobj" /\ await[r].key \in S
    BY <1>3, <1>8 DEF Resume
  <2>2. RowGone(r, await[r].key, S \ {await[r].key})
    BY <1>1, <1>8, <2>1 DEF Resume
  <2>3. QED BY <1>4, <2>1, <2>2
<1>9. QED BY <1>5, <1>6, <1>7, <1>8 DEF Acts

----------------------------------------------------------------------------
(* Every step. *)

LEMMA CopyActs ==
  ASSUME StepsInv, ShapeInv', NEW r \in Request, CopyInv(r), Acts(r)
  PROVE  CopyInv(r)'
<1>1. TypeInv /\ status[r] = "running" /\ Alone(r)
  BY ActsLocal DEF StepsInv, ShapeInv
<1>2. call'[r] = call[r] /\ call[r] \in Call
  BY <1>1, ShapeRunning DEF Alone, StepsInv
<1>3. CASE call[r].do \notin {"cp", "mv"}
  BY <1>2, <1>3 DEF CopyInv
<1>4. CASE call[r].do \in {"cp", "mv"} /\ Head(jobs[r]).do = "rows"
  BY <1>1, <1>2, <1>4, CopyRemoving DEF Removing
<1>5. CASE Copying(r)
  <2>1. PICK j : j = Head(jobs[r])
    OBVIOUS
  <2>2. j.do \in CopyKinds \cup {"mv", "rm"}
    BY <1>5, <2>1, CopyRuns
  <2>3. ASSUME Work(r)
        PROVE  \/ TooLong(r) \/ Write(r) \/ Fetch(r) \/ Symlink(r)
               \/ Rm(r) \/ Cp(r) \/ CpEntry(r) \/ Mv(r)
    BY <2>1, <2>2, <2>3 DEF Work, Runs, AppendFile, Mkdir, DeleteFile, RmSingle, CopyKinds
  <2>4. CASE Work(r)
    BY <1>5, <2>3, <2>4, CopyTooLong, CopyWrites, CopyFetches, CopySymlinks, CopyRemoves, CopyCopies,
       CopyEnters, CopyMoves
  <2>5. CASE R2Lands(r) \/ R2DeleteFails(r)
    BY <1>5, <2>5, CopyAnswered
  <2>6. CASE R2Fails(r)
    BY <1>5, <2>6, CopyR2Fails
  <2>7. CASE Resume(r)
    BY <1>5, <2>7, CopyResumes
  <2>8. QED BY <2>4, <2>5, <2>6, <2>7 DEF Acts
<1>6. QED BY <1>1, <1>2, <1>3, <1>4, <1>5 DEF Copying

\* What others do does not touch the copy.
LEMMA CopyKept ==
  ASSUME StepsInv, NEW r \in Request, CopyInv(r), Idles(r),
         status[r] # "idle" => \A p \in Path : Under(call[r], p) => Kept(p)
  PROVE  CopyInv(r)'
<1>1. /\ status'[r] = status[r] /\ call'[r] = call[r] /\ before'[r] = before[r]
      /\ jobs'[r] = jobs[r] /\ await'[r] = await[r]
  BY DEF Idles
<1>2. CASE ~(status[r] # "idle" /\ call[r].do \in {"cp", "mv"})
  BY <1>1, <1>2 DEF CopyInv
<1>3. CASE status[r] # "idle" /\ call[r].do \in {"cp", "mv"}
  <2>1. call[r] \in Call
    BY <1>3 DEF StepsInv, CallInv
  <2>2. PICK src \in Path, dst \in Path : src = call[r].src /\ dst = call[r].dst
    BY <1>3, <2>1, CallPaths
  <2>3. ASSUME NEW p \in Path, AtOrAbove(src, p) \/ AtOrAbove(dst, p) PROVE Kept(p)
    <3>1. PathsOf(call[r]) = {src, dst}
      BY <1>3, <2>2 DEF PathsOf
    <3>2. Under(call[r], p)
      BY <2>3, <3>1 DEF Under
    <3>3. QED BY <1>3, <3>2
  <2>4. ASSUME NEW p, AtOrAbove(src, p) \/ AtOrAbove(dst, p)
        PROVE  Now(p)' = Now(p) /\ InR2(rows, p)' = InR2(rows, p)
    <3>1. CASE p \in Path
      BY <2>3, <2>4, <3>1, KeptNow
    <3>2. CASE p \notin Path
      BY <3>2 DEF Now, Entry, InR2, Has
    <3>3. QED BY <3>1, <3>2
  <2>5. /\ Reached(r)' = Reached(r) /\ (Fresh(r)' <=> Fresh(r))
        /\ \A q : To(r, q)' = To(r, q)
        /\ \A j : JobOk(r, j)' <=> JobOk(r, j)
    BY <1>1, SameNames
  <2>6. SourceKept(r) => SourceKept(r)'
    BY <1>1, <2>2, <2>4 DEF SourceKept
  <2>7. \A q \in Reached(r) : Now(To(r, q))' = Now(To(r, q)) /\ Now(q)' = Now(q)
    <3>1. ASSUME NEW q \in Reached(r) PROVE Now(To(r, q))' = Now(To(r, q)) /\ Now(q)' = Now(q)
      <4>1. AtOrAbove(src, q) /\ AtOrAbove(dst, To(r, q))
        BY <1>3, <2>1, <2>2, ReachedFacts
      <4>2. PICK t : t = To(r, q)
        OBVIOUS
      <4>3. Now(t)' = Now(t) /\ Now(q)' = Now(q)
        BY <2>4, <4>1, <4>2
      <4>4. Now(To(r, q))' = Now(t)'
        BY <2>5, <4>2
      <4>5. QED BY <4>2, <4>3, <4>4
    <3>2. QED BY <3>1
  <2>8. \A q \in Reached(r) : Done(r, q)' <=> Done(r, q)
    BY <1>1, <2>7 DEF Done
  <2>9. CopyState(r, jobs[r]) => CopyState(r, jobs[r])'
    BY <1>1, <2>5, <2>7, <2>8 DEF CopyState, Typed
  <2>10. ASSUME Copying(r), Fresh(r) PROVE WaitOk(r)'
    <3>1. PICK j : j = Head(jobs[r])
      OBVIOUS
    <3>2. PICK w : w = await[r]
      OBVIOUS
    <3>3. CopyState(r, jobs[r]) /\ WaitOk(r) /\ JobOk(r, j)
      BY <2>10, <3>1, CopyRuns
    <3>4. w # NoAwait =>
            /\ w.op \in {"put", "drop"} => j.dst \in Path /\ AtOrAbove(dst, j.dst)
            /\ w.op = "get" => j.do = "fetch"
      BY <2>2, <2>10, <3>1, <3>2, CopyAwaits
    <3>5. j.do = "fetch" => j.src \in Path /\ AtOrAbove(src, j.src)
      BY <1>3, <2>1, <2>2, <3>3, ReachedFacts DEF JobOk
    <3>6. \A p \in Path : AtOrAbove(src, p) \/ AtOrAbove(dst, p) =>
            /\ objects'[p] = objects[p] /\ Now(p)' = Now(p) /\ InR2(rows, p)' = InR2(rows, p)
      BY <2>3, <2>4 DEF Kept
    <3>7. Head(jobs'[r]) = j /\ await'[r] = w
      BY <1>1, <3>1, <3>2
    <3>8. w # NoAwait /\ w.op = "get" =>
            w.key = j.src /\ InR2(rows, j.src)' /\ (w.landed => w.data = objects'[j.src])
      BY <3>1, <3>2, <3>3, <3>4, <3>5, <3>6 DEF WaitOk
    <3>9. w # NoAwait /\ w.op = "put" => (w.landed => objects'[j.dst] = j.data)
      BY <3>1, <3>2, <3>3, <3>4, <3>6 DEF WaitOk
    <3>10. w # NoAwait /\ w.op = "drop" => Now(j.dst)' = FileEntry(j.data) /\ ~InR2(rows, j.dst)'
      BY <3>1, <3>2, <3>3, <3>4, <3>6 DEF WaitOk
    <3>11. QED BY <3>7, <3>8, <3>9, <3>10 DEF WaitOk
  <2>11. CASE status[r] = "failed"
    BY <1>1, <1>3, <2>6, <2>11 DEF CopyInv
  <2>12. CASE status[r] = "ok"
    BY <1>1, <1>3, <2>5, <2>7, <2>8, <2>12 DEF CopyInv
  <2>13. CASE status[r] = "running" /\ Head(jobs[r]).do = "rows"
    BY <1>1, <1>3, <2>5, <2>7, <2>8, <2>13 DEF CopyInv
  <2>14. CASE status[r] = "running" /\ Head(jobs[r]).do # "rows"
    <3>1. Copying(r)
      BY <1>3, <2>1, <2>14 DEF Copying
    <3>2. SourceKept(r) /\ (Fresh(r) => CopyState(r, jobs[r]))
      BY <1>3, <2>14 DEF CopyInv
    <3>3. SourceKept(r)' /\ (Fresh(r)' => CopyState(r, jobs[r])' /\ WaitOk(r)')
      BY <2>5, <2>6, <2>9, <2>10, <3>1, <3>2
    <3>4. QED BY <1>1, <1>3, <2>14, <3>3 DEF CopyInv
  <2>15. status[r] \in {"idle", "running", "ok", "failed"}
    BY DEF StepsInv, TreeInv, TypeInv, TypeOK
  <2>16. QED BY <1>3, <2>11, <2>12, <2>13, <2>14, <2>15
<1>4. QED BY <1>2, <1>3

LEMMA CopyArrives ==
  ASSUME TypeInv, CallInv, NEW r \in Request, NEW c \in Asked, Arrive(r, c)
  PROVE  CopyInv(r)'
<1>1. c \in Call
  BY CallAssumption
<1>2. /\ jobs'[r] = <<c>> /\ Head(jobs'[r]) = c /\ call'[r] = c /\ status'[r] = "running"
      /\ before'[r] = Tree(rows, objects) /\ rows' = rows /\ objects' = objects /\ await'[r] = NoAwait
  <2>1. jobs'[r] = <<c>> /\ call'[r] = c /\ status'[r] = "running" /\ await'[r] = NoAwait
    BY DEF Arrive, TypeInv, TypeOK
  <2>2. before'[r] = Tree(rows, objects) /\ rows' = rows /\ objects' = objects
    BY DEF Arrive, CallInv
  <2>3. QED BY <2>1, <2>2
<1>3. CASE c.do \notin {"cp", "mv"}
  BY <1>2, <1>3 DEF CopyInv
<1>4. CASE c.do \in {"cp", "mv"}
  <2>1. PICK src \in Path, dst \in Path : src = c.src /\ dst = c.dst
    BY <1>1, <1>4, CallPaths
  <2>2. src \in Names /\ dst \in Names
    BY PathIsNames
  <2>3. PICK tree : tree = before'[r]
    OBVIOUS
  <2>4. \A p \in Path : Now(p)' = tree[p]
    BY <1>2, <2>3 DEF Tree, Now, Entry, Has, InR2
  <2>5. SourceKept(r)'
    BY <2>3, <2>4 DEF SourceKept
  <2>6. Reached(r)' = ReachedFrom(tree, src) /\ \A q : To(r, q)' = Rebased(q, src, dst)
    BY <1>2, <2>1, <2>3 DEF Reached, To
  <2>7. ASSUME Fresh(r)' PROVE CopyState(r, <<c>>)'
    <3>1. tree[src] # NoRow /\ \A p \in Path : AtOrAbove(dst, p) => tree[p] = NoRow
      BY <1>2, <2>1, <2>3, <2>7 DEF Fresh
    <3>2. src \in Reached(r)' /\ To(r, src)' = dst
      BY <2>2, <2>6, <3>1, ReachedItself, RebasedSrc
    <3>3. ASSUME NEW q \in Reached(r)', NEW t, t = To(r, q)'
          PROVE  AtOrAbove(dst, t) /\ Now(t)' = NoRow
      <4>1. q \in Path /\ q \in Names /\ AtOrAbove(src, q)
        BY <2>6, PathIsNames DEF ReachedFrom
      <4>2. AtOrAbove(dst, t)
        BY <2>2, <2>6, <3>3, <4>1, RebasedBelow
      <4>3. CASE t \in Path
        BY <2>4, <3>1, <4>2, <4>3
      <4>4. CASE t \notin Path
        BY <4>2, <4>4 DEF Now, Entry, Has
      <4>5. QED BY <4>2, <4>3, <4>4
    <3>4. Elements(<<c>>) = {c}
      BY DEF Elements
    <3>5. JobOk(r, c)'
      BY <1>4, <2>1, <3>2 DEF JobOk
    <3>6. \A q \in Reached(r)' : Covers(c, To(r, q)')
      BY <1>4, <2>1, <3>3 DEF Covers
    <3>7. \A q \in Reached(r)' : Now(To(r, q))' = NoRow
      <4>1. ASSUME NEW q \in Reached(r)' PROVE Now(To(r, q))' = NoRow
        <5>1. PICK t : t = To(r, q)'
          OBVIOUS
        <5>2. Now(t)' = NoRow
          BY <3>3, <5>1
        <5>3. Now(To(r, q))' = Now(t)'
          BY <5>1
        <5>4. QED BY <5>2, <5>3
      <4>2. QED BY <4>1
    <3>8. QED BY <3>4, <3>5, <3>6, <3>7 DEF CopyState, Typed
  <2>8. WaitOk(r)'
    BY <1>2 DEF WaitOk
  <2>9. CopyState(r, <<c>>)' => CopyState(r, jobs[r])'
    BY <1>2 DEF CopyState
  <2>10. status'[r] = "running" /\ Head(jobs'[r]).do # "rows"
    BY <1>2, <1>4
  <2>11. QED BY <2>5, <2>7, <2>8, <2>9, <2>10 DEF CopyInv
<1>5. QED BY <1>3, <1>4

CopiesInv == StepsInv /\ \A r \in Request : CopyInv(r)

LEMMA CopiesInvInit == Init => CopiesInv
BY StepsInvInit DEF Init, CopiesInv, CopyInv

LEMMA CopiesInvStep ==
  ASSUME Serialize, LikeAlso = {}, CopiesInv, [Next]_vars
  PROVE  CopiesInv'
<1>1. StepsInv /\ StepsInv' /\ TypeInv /\ ShapeInv' /\ CallInv
  BY StepsInvStep DEF CopiesInv, StepsInv, TreeInv
<1>2. ASSUME NEW r \in Request PROVE CopyInv(r)'
  <2>1. CopyInv(r)
    BY DEF CopiesInv
  <2>2. CASE UNCHANGED <<rows, objects>> /\ Idles(r)
    <3>1. \A p \in Path : Kept(p)
      BY <2>2 DEF Kept
    <3>2. QED BY <1>1, <2>1, <2>2, <3>1, CopyKept
  <2>3. CASE \E c \in Asked : Arrive(r, c)
    BY <1>1, <2>3, CopyArrives
  <2>4. CASE status'[r] = "idle"
    BY <2>4 DEF CopyInv
  <2>5. CASE Acts(r)
    BY <1>1, <2>1, <2>5, CopyActs
  <2>6. ASSUME NEW s \in Request \ {r}, Acts(s), Idles(r) PROVE CopyInv(r)'
    <3>1. ASSUME status[r] # "idle", NEW p \in Path, Under(call[r], p) PROVE Kept(p)
      BY <1>1, <2>6, <3>1, OthersKept
    <3>2. QED BY <1>1, <2>1, <2>6, <3>1, CopyKept
  <2>7. QED BY <1>1, <2>2, <2>3, <2>4, <2>5, <2>6, StepCases
<1>3. QED BY <1>1, <1>2 DEF CopiesInv

\* A cp or mv to a free place that succeeds has every entry of its source there, as it was;
\* the source of the cp is as it was, that of the mv is gone.
THEOREM TreeCopyExact ==
  ASSUME Serialize, LikeAlso = {}
  PROVE  Spec => []CopyExact
<1>1. Init => CopiesInv
  BY CopiesInvInit
<1>2. CopiesInv /\ [Next]_vars => CopiesInv'
  BY CopiesInvStep
<1>3. ASSUME CopiesInv PROVE CopyExact
  <2>1. ASSUME NEW r \in Request, Succeeded(r, {"cp", "mv"}), Apart(call[r].src, call[r].dst),
               \A q \in Path : AtOrAbove(call[r].dst, q) => before[r][q] = NoRow,
               NEW q \in ReachedFrom(before[r], call[r].src)
        PROVE  /\ Now(Rebased(q, call[r].src, call[r].dst)) = before[r][q]
               /\ Now(q) = IF call[r].do = "mv" THEN NoRow ELSE before[r][q]
    <3>1. status[r] = "ok" /\ call[r].do \in {"cp", "mv"} /\ CopyInv(r)
      BY <1>3, <2>1 DEF CopiesInv, Succeeded
    <3>2. call[r] \in Call
      BY <1>3, <3>1 DEF CopiesInv, StepsInv, CallInv
    <3>3. q \in Reached(r)
      BY <2>1 DEF Reached
    <3>4. before[r][call[r].src] # NoRow
      BY <3>1, <3>2, <3>3, ReachedRoot
    <3>5. Fresh(r)
      BY <2>1, <3>4 DEF Fresh
    <3>6. QED BY <3>1, <3>3, <3>5 DEF CopyInv, Done, To
  <2>2. QED BY <2>1 DEF CopyExact, Now
<1>4. QED BY <1>1, <1>2, <1>3, PTL DEF Spec

\* Each entry of the source of a mv is as it was, until it is at its destination as it was; a
\* mv that has failed has not touched its source.
THEOREM TreeMvLosesNothing ==
  ASSUME Serialize, LikeAlso = {}
  PROVE  Spec => []MvLosesNothing
<1>1. Init => CopiesInv
  BY CopiesInvInit
<1>2. CopiesInv /\ [Next]_vars => CopiesInv'
  BY CopiesInvStep
<1>3. ASSUME CopiesInv PROVE MvLosesNothing
  <2>1. ASSUME NEW r \in Request, status[r] # "idle", call[r].do = "mv", NEW q \in Path,
               AtOrAbove(call[r].src, q), ~AtOrAbove(call[r].dst, q), before[r][q] # NoRow,
               status[r] = "failed" \/ MovesAway(r, q)
        PROVE  \/ Now(q) = before[r][q]
               \/ status[r] # "failed" /\ Now(Rebased(q, call[r].src, call[r].dst)) = before[r][q]
    <3>1. CopyInv(r) /\ call[r] \in Call
      BY <1>3, <2>1 DEF CopiesInv, StepsInv, CallInv
    <3>2. SourceKept(r) => Now(q) = before[r][q]
      BY <2>1 DEF SourceKept
    <3>3. CASE status[r] = "failed"
      BY <2>1, <3>1, <3>2, <3>3 DEF CopyInv
    <3>4. CASE status[r] = "running" /\ Head(jobs[r]).do # "rows"
      BY <2>1, <3>1, <3>2, <3>4 DEF CopyInv
    <3>5. ASSUME status[r] # "failed" PROVE Fresh(r) /\ q \in Reached(r)
      <4>1. MovesAway(r, q)
        BY <2>1, <3>5
      <4>2. q \in Reached(r)
        BY <4>1 DEF MovesAway, Reached
      <4>3. before[r][call[r].src] # NoRow
        BY <2>1, <3>1, <4>2, ReachedRoot
      <4>4. QED BY <4>1, <4>2, <4>3 DEF MovesAway, Fresh
    <3>6. ASSUME status[r] # "failed", Done(r, q) PROVE Now(Rebased(q, call[r].src, call[r].dst)) = before[r][q]
      BY <3>6 DEF Done, To
    <3>7. CASE status[r] = "running" /\ Head(jobs[r]).do = "rows"
      BY <2>1, <3>1, <3>5, <3>6, <3>7 DEF CopyInv
    <3>8. CASE status[r] = "ok"
      BY <2>1, <3>1, <3>5, <3>6, <3>8 DEF CopyInv
    <3>9. status[r] \in {"idle", "running", "ok", "failed"}
      BY <1>3 DEF CopiesInv, StepsInv, TreeInv, TypeInv, TypeOK
    <3>10. QED BY <2>1, <3>3, <3>4, <3>7, <3>8, <3>9
  <2>2. QED BY <2>1 DEF MvLosesNothing, Now
<1>4. QED BY <1>1, <1>2, <1>3, PTL DEF Spec
==============================================================================
