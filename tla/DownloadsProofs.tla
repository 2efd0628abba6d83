-------------------------- MODULE DownloadsProofs ---------------------------
(***************************************************************************)
(* Theorems about downloads, for any number of requests, keys and versions *)
(* and any bundle lengths: who is answered, with what, and that the bundle *)
(* cache keeps its accounts.  The first part is about running totals: how  *)
(* they change when entries are moved, dropped and added.                  *)
(***************************************************************************)
EXTENDS Downloads, TLAPS, WellFoundedInduction, SequenceTheorems

(* Every set of numbers has a least one, unless it is empty ...            *)
LEMMA LeastElement ==
    ASSUME NEW S, S \subseteq Nat, S # {}
    PROVE  \E least \in S : \A m \in S : ~(m < least)
<1>1. PICK less : less = {pair \in Nat \X Nat : pair[1] < pair[2]}
    OBVIOUS
<1>2. IsWellFoundedOn(less, Nat)
    BY <1>1, NatLessThanWellFounded DEF OpToRel
<1>3. PICK least \in S : \A m \in S : <<m, least>> \notin less
    BY <1>2, WFMin
<1> QED
    BY <1>1, <1>3

(* ... so that a set with 0 and with the successor of each of its members  *)
(* is Nat.                                                                 *)
LEMMA SetInduction ==
    ASSUME NEW T, T \subseteq Nat, 0 \in T, \A n \in T : n + 1 \in T
    PROVE  \A n \in Nat : n \in T
<1>1. PICK rest : rest = Nat \ T
    OBVIOUS
<1> SUFFICES ASSUME rest # {} PROVE FALSE
    BY <1>1
<1>2. PICK least \in rest : \A m \in rest : ~(m < least)
    BY <1>1, LeastElement
<1> QED
    BY <1>1, <1>2

----------------------------------------------------------------------------
(* Running totals *)

Bundles == [version : Nat, files : FileSets]

IsTotals(list, n, total) ==
    /\ total \in [0..n -> Nat]
    /\ total[0] = 0
    /\ \A m \in 1..n : total[m] = total[m - 1] + Length(list[m])

LEMMA LengthIsNat == \A b \in Bundles : Length(b) \in Nat
BY SizesAssumption DEF Length, Bundles

LEMMA TotalsExist ==
    ASSUME NEW list \in Seq(Bundles)
    PROVE  \A n \in 0..Len(list) : \E total : IsTotals(list, n, total)
<1>1. PICK T : T = {n \in Nat : n <= Len(list) => \E total : IsTotals(list, n, total)}
    OBVIOUS
<1>2. 0 \in T
  <2>1. IsTotals(list, 0, [m \in 0..0 |-> 0])
    BY DEF IsTotals
  <2> QED
    BY <1>1, <2>1
<1>3. ASSUME NEW n \in T PROVE n + 1 \in T
  <2> SUFFICES ASSUME n + 1 <= Len(list) PROVE \E total : IsTotals(list, n + 1, total)
    BY <1>1
  <2>1. n \in Nat /\ Len(list) \in Nat
    BY <1>1
  <2>2. PICK total : IsTotals(list, n, total)
    BY <1>1, <2>1
  <2>3. Length(list[n + 1]) \in Nat
    BY <2>1, LengthIsNat
  <2>4. PICK more : more = [m \in 0..(n + 1) |-> IF m <= n THEN total[m] ELSE total[n] + Length(list[n + 1])]
    OBVIOUS
  <2>5. more \in [0..(n + 1) -> Nat]
    BY <2>1, <2>2, <2>3, <2>4 DEF IsTotals
  <2>6. more[0] = 0
    BY <2>1, <2>2, <2>4 DEF IsTotals
  <2>7. \A m \in 1..(n + 1) : more[m] = more[m - 1] + Length(list[m])
    <3> TAKE m \in 1..(n + 1)
    <3>1. CASE m <= n
      <4>1. m \in 1..n /\ m \in 0..(n + 1) /\ m - 1 \in 0..(n + 1) /\ m - 1 <= n
        BY <2>1, <3>1
      <4>2. more[m] = total[m] /\ more[m - 1] = total[m - 1]
        BY <2>4, <3>1, <4>1
      <4> QED
        BY <2>2, <4>1, <4>2 DEF IsTotals
    <3>2. CASE m = n + 1
      <4>1. m - 1 = n /\ n \in 0..(n + 1) /\ m \in 0..(n + 1) /\ ~(m <= n) /\ n <= n
        BY <2>1, <3>2
      <4> QED
        BY <2>4, <3>2, <4>1
    <3> QED
      BY <2>1, <3>1, <3>2
  <2> QED
    BY <2>5, <2>6, <2>7 DEF IsTotals
<1> QED
  <2>1. \A n \in Nat : n \in T
    BY <1>1, <1>2, <1>3, SetInduction
  <2> QED
    BY <1>1, <2>1

LEMMA TotalsAre ==
    ASSUME NEW list \in Seq(Bundles)
    PROVE  IsTotals(list, Len(list), Totals(list))
<1>1. Len(list) \in Nat
    OBVIOUS
<1>2. PICK total : IsTotals(list, Len(list), total)
    BY <1>1, TotalsExist
<1>3. total = [n \in 0..Len(list) |-> IF n = 0 THEN 0 ELSE total[n - 1] + Length(list[n])]
    BY <1>1, <1>2 DEF IsTotals
<1>4. Totals(list) = [n \in 0..Len(list) |-> IF n = 0 THEN 0 ELSE Totals(list)[n - 1] + Length(list[n])]
    BY <1>3, Zenon DEF Totals
<1>5. PICK sum : sum = Totals(list)
    OBVIOUS
<1>6. \A n \in 0..Len(list) : sum[n] = IF n = 0 THEN 0 ELSE sum[n - 1] + Length(list[n])
    BY <1>4, <1>5
<1>7. \A n \in 0..Len(list) : sum[n] \in Nat
  <2>1. PICK T : T = {n \in Nat : n <= Len(list) => sum[n] \in Nat}
    OBVIOUS
  <2>2. 0 \in T
    BY <1>1, <1>6, <2>1
  <2>3. ASSUME NEW n \in T PROVE n + 1 \in T
    <3>1. n \in Nat
      BY <2>1
    <3> SUFFICES ASSUME n + 1 <= Len(list) PROVE sum[n + 1] \in Nat
      BY <2>1, <3>1
    <3>2. n + 1 \in 0..Len(list) /\ n + 1 # 0 /\ (n + 1) - 1 = n /\ n <= Len(list)
      BY <1>1, <3>1
    <3>3. sum[n + 1] = sum[n] + Length(list[n + 1])
      BY <1>6, <3>2
    <3>4. sum[n] \in Nat /\ Length(list[n + 1]) \in Nat
      BY <1>1, <2>1, <3>1, <3>2, LengthIsNat
    <3> QED
      BY <3>3, <3>4
  <2>4. \A n \in Nat : n \in T
    BY <2>1, <2>2, <2>3, SetInduction
  <2> QED
    BY <1>1, <2>1, <2>4
<1>8. sum \in [0..Len(list) -> Nat] /\ sum[0] = 0
    BY <1>1, <1>4, <1>5, <1>6, <1>7
<1>9. \A n \in 1..Len(list) : sum[n] = sum[n - 1] + Length(list[n])
    BY <1>1, <1>6
<1> QED
    BY <1>5, <1>8, <1>9 DEF IsTotals

(* The n entries after the first a of one list are those after the first c *)
(* of another: they add the same to both.                                  *)
SameStretch(s, a, t, c, n) ==
    /\ a + n <= Len(s) /\ c + n <= Len(t)
    /\ \A i \in 1..n : t[c + i] = s[a + i]

LEMMA StretchTotal ==
    ASSUME NEW s \in Seq(Bundles), NEW t \in Seq(Bundles),
           NEW a \in Nat, NEW c \in Nat, NEW n \in Nat, SameStretch(s, a, t, c, n)
    PROVE  Totals(t)[c + n] + Totals(s)[a] = Totals(s)[a + n] + Totals(t)[c]
<1>1. /\ Len(s) \in Nat /\ Len(t) \in Nat
      /\ a + n <= Len(s) /\ c + n <= Len(t) /\ \A i \in 1..n : t[c + i] = s[a + i]
    BY DEF SameStretch
<1>2. PICK f, g : f = Totals(s) /\ g = Totals(t)
    OBVIOUS
<1>3. IsTotals(s, Len(s), f) /\ IsTotals(t, Len(t), g)
    BY <1>2, TotalsAre
<1>4. (\A m \in 0..Len(s) : f[m] \in Nat) /\ (\A m \in 0..Len(t) : g[m] \in Nat)
    BY <1>3 DEF IsTotals
<1>5. PICK T : T = {m \in Nat : m <= n => g[c + m] + f[a] = f[a + m] + g[c]}
    OBVIOUS
<1>6. 0 \in T
  <2>1. a \in 0..Len(s) /\ c \in 0..Len(t) /\ a + 0 = a /\ c + 0 = c
    BY <1>1
  <2>2. g[c] \in Nat /\ f[a] \in Nat
    BY <1>4, <2>1
  <2> QED
    BY <1>5, <2>1, <2>2
<1>7. ASSUME NEW m \in T PROVE m + 1 \in T
  <2>1. m \in Nat
    BY <1>5
  <2> SUFFICES ASSUME m + 1 <= n PROVE g[c + (m + 1)] + f[a] = f[a + (m + 1)] + g[c]
    BY <1>5, <2>1
  <2>2. /\ a + (m + 1) \in 1..Len(s) /\ (a + (m + 1)) - 1 = a + m
        /\ c + (m + 1) \in 1..Len(t) /\ (c + (m + 1)) - 1 = c + m
        /\ a \in 0..Len(s) /\ a + m \in 0..Len(s) /\ c \in 0..Len(t) /\ c + m \in 0..Len(t)
        /\ m + 1 \in 1..n /\ m <= n
    <3>1. Len(s) \in Nat /\ Len(t) \in Nat /\ a + n <= Len(s) /\ c + n <= Len(t)
      BY <1>1
    <3> QED
      BY <2>1, <3>1
  <2>3. /\ f[a + (m + 1)] = f[a + m] + Length(s[a + (m + 1)])
        /\ g[c + (m + 1)] = g[c + m] + Length(t[c + (m + 1)])
    BY <1>3, <2>2 DEF IsTotals
  <2>4. t[c + (m + 1)] = s[a + (m + 1)] /\ Length(s[a + (m + 1)]) \in Nat
    <3>1. s[a + (m + 1)] \in Bundles
      BY <2>2
    <3>2. t[c + (m + 1)] = s[a + (m + 1)]
      BY <1>1, <2>2
    <3> QED
      BY <3>1, <3>2, LengthIsNat
  <2>5. g[c + m] + f[a] = f[a + m] + g[c]
    BY <1>5, <2>2
  <2>6. f[a] \in Nat /\ f[a + m] \in Nat /\ g[c] \in Nat /\ g[c + m] \in Nat
    BY <1>4, <2>2
  <2>7. PICK w \in Nat, x \in Nat, y \in Nat, z \in Nat, l \in Nat :
            w = f[a] /\ x = f[a + m] /\ y = g[c] /\ z = g[c + m] /\ l = Length(s[a + (m + 1)])
    BY <2>4, <2>6
  <2>8. z + w = x + y => (z + l) + w = (x + l) + y
    OBVIOUS
  <2> QED
    BY <2>3, <2>4, <2>5, <2>7, <2>8
<1>8. n \in T
    BY <1>5, <1>6, <1>7, SetInduction
<1> QED
    BY <1>2, <1>5, <1>8

(* Entries are dropped at the front and one is added at the end.           *)
LEMMA TotalOfEviction ==
    ASSUME NEW s \in Seq(Bundles), NEW n \in 0..Len(s), NEW b \in Bundles
    PROVE  LET t == Append(SubSeq(s, n + 1, Len(s)), b) IN
           /\ t \in Seq(Bundles) /\ Len(t) = Len(s) - n + 1
           /\ \A i \in 1..(Len(s) - n) : t[i] = s[n + i]
           /\ t[Len(s) - n + 1] = b
           /\ Totals(t)[Len(t)] = Totals(s)[Len(s)] - Totals(s)[n] + Length(b)
<1>1. Len(s) \in Nat /\ n \in Nat /\ n <= Len(s) /\ Length(b) \in Nat
    BY LengthIsNat
<1>2. PICK u : u = SubSeq(s, n + 1, Len(s))
    OBVIOUS
<1>3. \A i \in n + 1..Len(s) : s[i] \in Bundles
    BY <1>1
<1>4. /\ u \in Seq(Bundles) /\ Len(u) = Len(s) - n
      /\ \A i \in 1..(Len(s) - n) : u[i] = s[n + i]
  <2>1. /\ u \in Seq(Bundles) /\ Len(u) = IF n + 1 <= Len(s) THEN Len(s) - (n + 1) + 1 ELSE 0
        /\ \A i \in 1..(Len(s) - (n + 1) + 1) : u[i] = s[(n + 1) + i - 1]
    BY <1>1, <1>2, <1>3, SubSeqProperties
  <2>2. Len(s) - (n + 1) + 1 = Len(s) - n /\ \A i \in Int : (n + 1) + i - 1 = n + i
    BY <1>1
  <2>3. Len(u) = Len(s) - n
    BY <1>1, <2>1
  <2>4. ASSUME NEW i \in 1..(Len(s) - n) PROVE u[i] = s[n + i]
    <3>1. i \in 1..(Len(s) - (n + 1) + 1) /\ (n + 1) + i - 1 = n + i
      BY <1>1, <2>2
    <3> QED
      BY <2>1, <3>1
  <2> QED
    BY <2>1, <2>3, <2>4
<1>5. PICK t : t = Append(u, b)
    OBVIOUS
<1>6. /\ t \in Seq(Bundles) /\ Len(t) = Len(u) + 1
      /\ (\A i \in 1..Len(u) : t[i] = u[i]) /\ t[Len(u) + 1] = b
    BY <1>4, <1>5, AppendProperties
<1>7. PICK k \in Nat : k = Len(s) - n
    BY <1>1
<1>8. \A i \in 1..k : t[0 + i] = s[n + i]
    BY <1>4, <1>6, <1>7
<1>9. Totals(t)[0 + k] + Totals(s)[n] = Totals(s)[n + k] + Totals(t)[0]
  <2>1. PICK z \in Nat : z = 0
    OBVIOUS
  <2>2. SameStretch(s, n, t, z, k)
    BY <1>1, <1>4, <1>6, <1>7, <1>8, <2>1 DEF SameStretch
  <2>3. Totals(t)[z + k] + Totals(s)[n] = Totals(s)[n + k] + Totals(t)[z]
    BY <1>1, <1>6, <2>2, StretchTotal
  <2> QED
    BY <2>1, <2>3
<1>10. /\ Totals(t)[0] = 0 /\ Totals(t)[k + 1] = Totals(t)[k] + Length(b)
       /\ Totals(t)[k] \in Nat /\ Totals(s)[n] \in Nat /\ Totals(s)[Len(s)] \in Nat
  <2>1. IsTotals(t, Len(t), Totals(t)) /\ IsTotals(s, Len(s), Totals(s))
    BY <1>6, TotalsAre
  <2>2. k + 1 \in 1..Len(t) /\ (k + 1) - 1 = k /\ k \in 0..Len(t) /\ Len(s) \in 0..Len(s)
    BY <1>1, <1>4, <1>6, <1>7
  <2>3. t[k + 1] = b
    BY <1>4, <1>6, <1>7
  <2> QED
    BY <2>1, <2>2, <2>3 DEF IsTotals
<1>11. Totals(t)[Len(t)] = Totals(s)[Len(s)] - Totals(s)[n] + Length(b)
  <2>1. 0 + k = k /\ n + k = Len(s) /\ Len(t) = k + 1
    BY <1>1, <1>4, <1>6, <1>7
  <2>2. PICK w \in Nat, x \in Nat, y \in Nat, l \in Nat :
            w = Totals(t)[k] /\ x = Totals(s)[n] /\ y = Totals(s)[Len(s)] /\ l = Length(b)
    BY <1>1, <1>10
  <2>3. w + x = y + 0 => w + l = y - x + l
    OBVIOUS
  <2> QED
    BY <1>9, <1>10, <2>1, <2>2, <2>3
<1> QED
    BY <1>1, <1>2, <1>4, <1>5, <1>6, <1>11

(* An entry is moved to the end.                                           *)
LEMMA TotalOfMove ==
    ASSUME NEW s \in Seq(Bundles), NEW i \in 1..Len(s)
    PROVE  LET t == SubSeq(s, 1, i - 1) \o SubSeq(s, i + 1, Len(s)) \o <<s[i]>> IN
           /\ t \in Seq(Bundles) /\ Len(t) = Len(s)
           /\ \A j \in 1..Len(s) : t[j] = IF j < i THEN s[j] ELSE IF j = Len(s) THEN s[i] ELSE s[j + 1]
           /\ Totals(t)[Len(t)] = Totals(s)[Len(s)]
<1>1. Len(s) \in Nat /\ i \in Nat /\ 1 <= i /\ i <= Len(s) /\ s[i] \in Bundles
    OBVIOUS
<1>2. PICK u, v, w : u = SubSeq(s, 1, i - 1) /\ v = SubSeq(s, i + 1, Len(s)) /\ w = <<s[i]>>
    OBVIOUS
<1>3. u \in Seq(Bundles) /\ Len(u) = i - 1 /\ \A j \in 1..(i - 1) : u[j] = s[j]
  <2>1. \A j \in 1..(i - 1) : s[j] \in Bundles
    BY <1>1
  <2>2. /\ u \in Seq(Bundles) /\ Len(u) = IF 1 <= i - 1 THEN (i - 1) - 1 + 1 ELSE 0
        /\ \A j \in 1..((i - 1) - 1 + 1) : u[j] = s[1 + j - 1]
    BY <1>1, <1>2, <2>1, SubSeqProperties
  <2>3. Len(u) = i - 1
    BY <1>1, <2>2
  <2>4. ASSUME NEW j \in 1..(i - 1) PROVE u[j] = s[j]
    <3>1. j \in 1..((i - 1) - 1 + 1) /\ 1 + j - 1 = j
      BY <1>1
    <3> QED
      BY <2>2, <3>1
  <2> QED
    BY <2>2, <2>3, <2>4
<1>4. v \in Seq(Bundles) /\ Len(v) = Len(s) - i /\ \A j \in 1..(Len(s) - i) : v[j] = s[i + j]
  <2>1. \A j \in i + 1..Len(s) : s[j] \in Bundles
    BY <1>1
  <2>2. /\ v \in Seq(Bundles) /\ Len(v) = IF i + 1 <= Len(s) THEN Len(s) - (i + 1) + 1 ELSE 0
        /\ \A j \in 1..(Len(s) - (i + 1) + 1) : v[j] = s[(i + 1) + j - 1]
    BY <1>1, <1>2, <2>1, SubSeqProperties
  <2>3. Len(v) = Len(s) - i
    BY <1>1, <2>2
  <2>4. ASSUME NEW j \in 1..(Len(s) - i) PROVE v[j] = s[i + j]
    <3>1. j \in 1..(Len(s) - (i + 1) + 1) /\ (i + 1) + j - 1 = i + j
      BY <1>1
    <3> QED
      BY <2>2, <3>1
  <2> QED
    BY <2>2, <2>3, <2>4
<1>5. w \in Seq(Bundles) /\ Len(w) = 1 /\ w[1] = s[i]
    BY <1>1, <1>2
<1>6. PICK x : x = u \o v
    OBVIOUS
<1>7. /\ x \in Seq(Bundles) /\ Len(x) = Len(s) - 1
      /\ \A j \in 1..(Len(s) - 1) : x[j] = IF j < i THEN s[j] ELSE s[j + 1]
  <2>1. /\ x \in Seq(Bundles) /\ Len(x) = Len(u) + Len(v)
        /\ \A j \in 1..(Len(u) + Len(v)) : x[j] = IF j <= Len(u) THEN u[j] ELSE v[j - Len(u)]
    BY <1>3, <1>4, <1>6, ConcatProperties
  <2>2. Len(u) + Len(v) = Len(s) - 1
    BY <1>1, <1>3, <1>4
  <2>3. ASSUME NEW j \in 1..(Len(s) - 1) PROVE x[j] = IF j < i THEN s[j] ELSE s[j + 1]
    <3>1. CASE j < i
      BY <1>1, <1>3, <2>1, <2>2, <2>3, <3>1
    <3>2. CASE ~(j < i)
      <4>1. j - (i - 1) \in 1..(Len(s) - i) /\ i + (j - (i - 1)) = j + 1 /\ ~(j <= i - 1)
        BY <1>1, <2>3, <3>2
      <4> QED
        BY <1>3, <1>4, <2>1, <2>2, <3>2, <4>1
    <3> QED
      BY <3>1, <3>2
  <2> QED
    BY <2>1, <2>2, <2>3
<1>8. PICK t : t = x \o w
    OBVIOUS
<1>9. /\ t \in Seq(Bundles) /\ Len(t) = Len(s)
      /\ \A j \in 1..Len(s) : t[j] = IF j < i THEN s[j] ELSE IF j = Len(s) THEN s[i] ELSE s[j + 1]
  <2>1. /\ t \in Seq(Bundles) /\ Len(t) = Len(x) + Len(w)
        /\ \A j \in 1..(Len(x) + Len(w)) : t[j] = IF j <= Len(x) THEN x[j] ELSE w[j - Len(x)]
    BY <1>5, <1>7, <1>8, ConcatProperties
  <2>2. Len(x) + Len(w) = Len(s)
    BY <1>1, <1>5, <1>7
  <2>3. ASSUME NEW j \in 1..Len(s)
        PROVE  t[j] = IF j < i THEN s[j] ELSE IF j = Len(s) THEN s[i] ELSE s[j + 1]
    <3>1. CASE j = Len(s)
      <4>1. ~(j <= Len(x)) /\ j - Len(x) = 1 /\ ~(j < i)
        BY <1>1, <1>7, <3>1
      <4> QED
        BY <1>5, <2>1, <2>2, <2>3, <3>1, <4>1
    <3>2. CASE j # Len(s)
      <4>1. j <= Len(x) /\ j \in 1..(Len(s) - 1)
        BY <1>1, <1>7, <2>3, <3>2
      <4> QED
        BY <1>7, <2>1, <2>2, <2>3, <3>2, <4>1
    <3> QED
      BY <3>1, <3>2
  <2> QED
    BY <2>1, <2>2, <2>3
<1>10. Totals(t)[Len(t)] = Totals(s)[Len(s)]
  <2>1. PICK f, g : f = Totals(s) /\ g = Totals(t)
    OBVIOUS
  <2>2. PICK k \in Nat, l \in Nat : k = i - 1 /\ l = Len(s) - i
    <3>1. i - 1 \in Nat /\ Len(s) - i \in Nat
      BY <1>1
    <3> QED
      BY <3>1
  <2>3. IsTotals(s, Len(s), f) /\ IsTotals(t, Len(s), g)
    BY <1>9, <2>1, TotalsAre
  <2>4. g[0 + k] + f[0] = f[0 + k] + g[0]
    <3>1. \A j \in 1..k : t[0 + j] = s[0 + j]
      BY <1>1, <1>9, <2>2
    <3>2. PICK z \in Nat : z = 0
      OBVIOUS
    <3>3. SameStretch(s, z, t, z, k)
      BY <1>1, <1>9, <2>2, <3>1, <3>2 DEF SameStretch
    <3>4. Totals(t)[z + k] + Totals(s)[z] = Totals(s)[z + k] + Totals(t)[z]
      BY <1>9, <3>3, StretchTotal
    <3> QED
      BY <2>1, <3>2, <3>4
  <2>5. g[k + l] + f[i] = f[i + l] + g[k]
    <3>1. \A j \in 1..l : t[k + j] = s[i + j]
      <4> TAKE j \in 1..l
      <4>1. k + j \in 1..Len(s) /\ ~(k + j < i) /\ k + j # Len(s) /\ (k + j) + 1 = i + j
        BY <1>1, <2>2
      <4> QED
        BY <1>9, <4>1
    <3>2. SameStretch(s, i, t, k, l)
      BY <1>1, <1>9, <2>2, <3>1 DEF SameStretch
    <3>3. Totals(t)[k + l] + Totals(s)[i] = Totals(s)[i + l] + Totals(t)[k]
      BY <1>1, <1>9, <3>2, StretchTotal
    <3> QED
      BY <2>1, <3>3
  <2>6. f[i] = f[k] + Length(s[i]) /\ g[Len(s)] = g[k + l] + Length(s[i])
    <3>1. i - 1 = k /\ Len(s) \in 1..Len(s) /\ Len(s) - 1 = k + l /\ t[Len(s)] = s[i]
      BY <1>1, <1>9, <2>2
    <3> QED
      BY <2>3, <3>1 DEF IsTotals
  <2>7. f[0] = 0 /\ g[0] = 0 /\ \A j \in 0..Len(s) : f[j] \in Nat /\ g[j] \in Nat
    BY <2>3 DEF IsTotals
  <2>8. 0 + k = k /\ i + l = Len(s) /\ {k, i, k + l, Len(s)} \subseteq 0..Len(s)
    BY <1>1, <2>2
  <2>9. f[k] \in Nat /\ g[k] \in Nat /\ f[i] \in Nat /\ f[Len(s)] \in Nat /\ g[Len(s)] \in Nat
        /\ g[k + l] \in Nat /\ Length(s[i]) \in Nat
    BY <1>1, <2>7, <2>8, LengthIsNat
  <2>10. PICK gk \in Nat, fk \in Nat, gkl \in Nat, fi \in Nat, fs \in Nat, gs \in Nat, b \in Nat :
           /\ gk = g[k] /\ fk = f[k] /\ gkl = g[k + l] /\ fi = f[i]
           /\ fs = f[Len(s)] /\ gs = g[Len(s)] /\ b = Length(s[i])
    BY <2>9
  <2>11. gk + 0 = fk + 0 /\ gkl + fi = fs + gk /\ fi = fk + b /\ gs = gkl + b
    BY <2>4, <2>5, <2>6, <2>7, <2>8, <2>10
  <2>12. gs = fs
    BY <2>11
  <2> QED
    BY <1>9, <2>1, <2>10, <2>12
<1> QED
    BY <1>2, <1>6, <1>8, <1>9, <1>10

(* With the sizes accounted for, the loop that evicts stops: at the latest *)
(* when the cache is empty.                                                *)
LEMMA EvictionStops ==
    ASSUME entries \in Seq(Bundles), size = Totals(entries)[Len(entries)],
           NEW length \in Nat, length <= bundleCacheLimit
    PROVE  \E n \in 0..Len(entries) : Evicted(n, length)
<1>1. PICK f : f = Totals(entries)
    OBVIOUS
<1>2. Len(entries) \in Nat /\ bundleCacheLimit \in Nat /\ size = f[Len(entries)]
    BY <1>1, SizesAssumption
<1>3. \A n \in 0..Len(entries) : f[n] \in Nat
    BY <1>1, TotalsAre DEF IsTotals
<1>4. PICK T : T = {n \in 0..Len(entries) : size - f[n] + length <= bundleCacheLimit}
    OBVIOUS
<1>5. Len(entries) \in T
  <2>1. Len(entries) \in 0..Len(entries)
    BY <1>2
  <2>2. size \in Nat
    BY <1>2, <1>3, <2>1
  <2> QED
    BY <1>2, <1>4, <2>1, <2>2
<1>6. PICK n \in T : \A m \in T : ~(m < n)
  <2>1. T \subseteq Nat /\ T # {}
    BY <1>2, <1>4, <1>5
  <2> QED
    BY <2>1, LeastElement
<1>7. \A m \in 0..(n - 1) : m \in 0..Len(entries) /\ m < n
    BY <1>2, <1>4, <1>6
<1>8. size \in Nat
  <2>1. Len(entries) \in 0..Len(entries)
    BY <1>2
  <2> QED
    BY <1>2, <1>3, <2>1
<1>9. ASSUME NEW m \in 0..(n - 1) PROVE size - f[m] + length > bundleCacheLimit
  <2>1. m \in 0..Len(entries) /\ m \notin T
    BY <1>6, <1>7
  <2>2. f[m] \in Nat /\ ~(size - f[m] + length <= bundleCacheLimit)
    BY <1>3, <1>4, <2>1
  <2> QED
    BY <1>2, <1>8, <2>2
<1> QED
    BY <1>1, <1>4, <1>6, <1>9 DEF Evicted

----------------------------------------------------------------------------
(* The inductive invariant *)

Grants == {s.certificates : s \in Shapes} \cup {{}}

KeyRows == [status : {"active", "revoked", "deleted"}, shape : Shapes, grants : Grants,
            last : Nat \cup {Never}]

PCs == {"idle", "grants", "stamp", "find", "version", "read", "ok", "unmodified"}

Locals == [pc : PCs, key : Nat, cert : Certs \cup {""}, files : FileSets \cup {{}}, match : Nat,
           revoked : BOOLEAN, last : Nat \cup {Never}, grants : Grants, at : Nat, version : Nat,
           body : Bundles \cup {NoBody}, dead : BOOLEAN, shut : BOOLEAN, least : Nat]

DataOK ==
    /\ now \in Nat /\ count \in Nat
    /\ keys \in Seq(KeyRows)
    /\ enabled \in [Certs -> BOOLEAN]
    /\ versions \in Seq(Certs)
    /\ entries \in Seq(Bundles) /\ size \in Nat
    /\ req \in [Requests -> Locals]

(* The rows of a key's certificates are those it was created with, until   *)
(* the key is deleted.                                                     *)
GrantsAreCreated ==
    \A k \in DOMAIN keys :
        /\ keys[k].grants \subseteq keys[k].shape.certificates
        /\ keys[k].status # "deleted" => keys[k].grants = keys[k].shape.certificates

(* A certificate that has versions has a latest one.                       *)
LatestExists ==
    \A c \in Certs : VersionsOf(c) # {} => \E v \in VersionsOf(c) : \A w \in VersionsOf(c) : w <= v

(* What a request has learnt so far.  Until the grants are read, a dead    *)
(* key is one that the checks will refuse; past them it was alive.  Past   *)
(* findEnabledCertificate the certificate was enabled at some point, and   *)
(* the key allows what is asked.                                           *)
Entitled(q) ==
    LET shape == keys[q.key].shape IN
    /\ \A f \in q.files : {ScopeOf[f], "*"} \cap shape.scopes # {}
    /\ shape.all \/ q.cert \in shape.certificates

IsWellFormed(q) == q.key \in DOMAIN keys /\ q.cert \in Certs /\ q.files \in FileSets

IsAuthorized(q) ==
    /\ q.pc = "grants" /\ q.dead => q.revoked \/ Expired(keys[q.key].shape)
    /\ q.pc # "grants" => ~q.dead
    /\ q.shut => ~enabled[q.cert]
    /\ q.pc \in {"stamp", "find"} => q.grants \subseteq keys[q.key].shape.certificates
    /\ q.pc \in {"version", "read", "ok", "unmodified"} => ~q.shut /\ Entitled(q)

IsCurrent(q) ==
    /\ q.least = 0 \/ q.least \in VersionsOf(q.cert)
    /\ q.pc \in {"read", "ok", "unmodified"} =>
         q.version \in VersionsOf(q.cert) /\ q.least <= q.version
    /\ q.pc = "ok" => q.body = [version |-> q.version, files |-> q.files]

Sound(q) == q.pc # "idle" => IsWellFormed(q) /\ IsAuthorized(q) /\ IsCurrent(q)

CacheOK ==
    /\ \A i \in DOMAIN entries : entries[i].version \in DOMAIN versions
    /\ size = Totals(entries)[Len(entries)] /\ size <= bundleCacheLimit
    /\ \A i, j \in DOMAIN entries : entries[i] = entries[j] => i = j

DownloadsInv ==
    /\ DataOK /\ GrantsAreCreated /\ LatestExists
    /\ \A r \in Requests : Sound(req[r])
    /\ CacheOK

----------------------------------------------------------------------------
(* Requests *)

(* Keys keep their shape, versions their certificate, and time goes on.    *)
Grows ==
    /\ now <= now'
    /\ DOMAIN keys \subseteq DOMAIN keys' /\ \A k \in DOMAIN keys : keys'[k].shape = keys[k].shape
    /\ DOMAIN versions \subseteq DOMAIN versions' /\ \A v \in DOMAIN versions : versions'[v] = versions[v]

LEMMA KeyIsRow ==
    ASSUME DataOK, NEW k \in DOMAIN keys
    PROVE  /\ keys[k] \in KeyRows /\ keys[k].shape \in Shapes /\ keys[k].grants \in Grants
           /\ keys[k].last \in Nat \cup {Never} /\ keys[k].status \in {"active", "revoked", "deleted"}
<1>1. keys[k] \in KeyRows
    BY DEF DataOK
<1> QED
    BY <1>1 DEF KeyRows

LEMMA StaysSound ==
    ASSUME DataOK, now' \in Nat, Grows, NEW q \in Locals, Sound(q),
           q.pc # "idle" /\ q.shut => ~enabled'[q.cert]
    PROVE  Sound(q)'
<1> SUFFICES ASSUME q.pc # "idle"
             PROVE  (IsWellFormed(q) /\ IsAuthorized(q) /\ IsCurrent(q))'
    BY DEF Sound
<1>1. IsWellFormed(q) /\ IsAuthorized(q) /\ IsCurrent(q)
    BY DEF Sound
<1>2. IsWellFormed(q)'
    BY <1>1 DEF IsWellFormed, Grows
<1>3. keys'[q.key].shape = keys[q.key].shape /\ keys[q.key].shape \in Shapes
    BY <1>1, KeyIsRow DEF IsWellFormed, Grows
<1>4. Expired(keys[q.key].shape) => Expired(keys[q.key].shape)'
    BY <1>3, ShapesAssumption DEF Expired, Grows, DataOK
<1>5. Entitled(q) => Entitled(q)'
    BY <1>3 DEF Entitled
<1>6. IsAuthorized(q)'
    BY <1>1, <1>3, <1>4, <1>5 DEF IsAuthorized
<1>7. VersionsOf(q.cert) \subseteq VersionsOf(q.cert)'
    BY DEF VersionsOf, Grows
<1>8. IsCurrent(q)'
    BY <1>1, <1>7 DEF IsCurrent
<1> QED
    BY <1>2, <1>6, <1>8

(* A request that moves leaves the others sound, and itself when its new   *)
(* locals are.                                                             *)
LEMMA AllStaySound ==
    ASSUME DownloadsInv, now' \in Nat, Grows, enabled' = enabled,
           NEW r \in Requests, NEW q \in Locals, req' = [req EXCEPT ![r] = q], Sound(q)
    PROVE  req' \in [Requests -> Locals] /\ \A s \in Requests : Sound(req[s])'
<1>1. req \in [Requests -> Locals] /\ DataOK
    BY DEF DownloadsInv, DataOK
<1>2. req' \in [Requests -> Locals] /\ req'[r] = q /\ \A s \in Requests : s # r => req'[s] = req[s]
    BY <1>1
<1>3. ASSUME NEW s \in Requests PROVE Sound(req[s])'
  <2>1. PICK p \in Locals : p = req'[s]
    BY <1>2
  <2>2. Sound(p)
    BY <1>2, <2>1 DEF DownloadsInv
  <2>3. p.pc # "idle" /\ p.shut => ~enabled'[p.cert]
    BY <2>2 DEF Sound, IsAuthorized
  <2>4. Sound(p)'
    BY <1>1, <2>2, <2>3, StaysSound
  <2> QED
    BY <2>1, <2>4
<1> QED
    BY <1>2, <1>3

Moves(r, q) == req' = [req EXCEPT ![r] = q] /\ UNCHANGED <<now, keys, enabled, versions>>

LEMMA MoveKeeps ==
    ASSUME DownloadsInv, NEW r \in Requests, NEW q \in Locals, Moves(r, q), Sound(q)
    PROVE  /\ req' \in [Requests -> Locals]
           /\ \A s \in Requests : Sound(req[s])'
           /\ GrantsAreCreated' /\ LatestExists'
<1>1. now \in Nat /\ now' \in Nat /\ enabled' = enabled /\ req' = [req EXCEPT ![r] = q]
    BY DEF DownloadsInv, DataOK, Moves
<1>2. Grows
    BY <1>1 DEF Grows, Moves
<1>3. req' \in [Requests -> Locals] /\ \A s \in Requests : Sound(req[s])'
    BY <1>1, <1>2, AllStaySound
<1>4. GrantsAreCreated' /\ LatestExists'
    BY DEF Moves, DownloadsInv, GrantsAreCreated, LatestExists, VersionsOf
<1> QED
    BY <1>3, <1>4

LEMMA CacheKeeps ==
    ASSUME CacheOK, UNCHANGED cache, DOMAIN versions \subseteq DOMAIN versions'
    PROVE  CacheOK'
<1>1. entries' = entries /\ size' = size
    BY DEF cache
<1>2. Totals(entries)' = Totals(entries)
    BY <1>1 DEF Totals, Length
<1> QED
    BY <1>1, <1>2 DEF CacheOK

(* ... and the cache, when it leaves that alone.                           *)
LEMMA PlainMoveKeeps ==
    ASSUME DownloadsInv, NEW r \in Requests, NEW q \in Locals, Moves(r, q), Sound(q),
           UNCHANGED cache, count' \in Nat
    PROVE  DownloadsInv'
<1>1. /\ req' \in [Requests -> Locals]
      /\ \A s \in Requests : Sound(req[s])'
      /\ GrantsAreCreated' /\ LatestExists'
    BY MoveKeeps
<1>2. DataOK'
    BY <1>1 DEF DownloadsInv, DataOK, Moves, cache
<1>3. CacheOK'
    BY CacheKeeps DEF Moves, DownloadsInv
<1> QED
    BY <1>1, <1>2, <1>3 DEF DownloadsInv

LEMMA BlankIsSound == Blank \in Locals /\ Sound(Blank)
<1>1. Blank \in Locals
    BY DEF Blank, Locals, PCs, NoBody, Grants, Never
<1>2. Sound(Blank)
    BY DEF Sound, Blank
<1> QED
    BY <1>1, <1>2

LEMMA CurrentVersionIs ==
    ASSUME DownloadsInv, NEW c \in Certs
    PROVE  /\ CurrentVersion(c) \in Nat
           /\ CurrentVersion(c) = 0 \/ CurrentVersion(c) \in VersionsOf(c)
           /\ \A w \in VersionsOf(c) : w <= CurrentVersion(c)
           /\ CurrentVersion(c) = 0 <=> VersionsOf(c) = {}
<1>1. VersionsOf(c) \subseteq Nat \ {0}
    BY DEF DownloadsInv, DataOK, VersionsOf
<1>2. CASE VersionsOf(c) = {}
    BY <1>2 DEF CurrentVersion
<1>3. CASE VersionsOf(c) # {}
  <2>1. \E v \in VersionsOf(c) : \A w \in VersionsOf(c) : w <= v
    BY <1>3 DEF DownloadsInv, LatestExists
  <2>2. /\ CurrentVersion(c) \in VersionsOf(c)
        /\ \A w \in VersionsOf(c) : w <= CurrentVersion(c)
    BY <1>3, <2>1 DEF CurrentVersion
  <2> QED
    BY <1>1, <1>3, <2>2
<1> QED
    BY <1>2, <1>3

(* Refusals and failures.                                                  *)
LEMMA RefuseKeeps ==
    ASSUME DownloadsInv, NEW r \in Requests, Refuse(r), UNCHANGED <<now, keys, enabled, versions, cache, count>>
    PROVE  DownloadsInv'
<1>1. Moves(r, Blank) /\ UNCHANGED cache /\ count' \in Nat
    BY DEF Moves, Refuse, DownloadsInv, DataOK
<1> QED
    BY <1>1, BlankIsSound, PlainMoveKeeps

(* What the locals are after an assignment to some of them.                *)
LEMMA LocalsOf ==
    ASSUME DownloadsInv, NEW r \in Requests
    PROVE  /\ req[r] \in Locals /\ Sound(req[r])
           /\ req[r].pc # "idle" => /\ IsWellFormed(req[r]) /\ IsAuthorized(req[r]) /\ IsCurrent(req[r])
                                    /\ keys[req[r].key] \in KeyRows
<1>1. req[r] \in Locals /\ Sound(req[r]) /\ DataOK
    BY DEF DownloadsInv, DataOK
<1> QED
    BY <1>1, KeyIsRow DEF Sound, IsWellFormed

WithGrants(p, pc, grants, at) ==
    [p EXCEPT !.pc = pc, !.last = Never, !.grants = grants, !.at = at]

LEMMA WithGrantsIs ==
    ASSUME NEW p \in Locals, NEW pc \in PCs, NEW grants \in Grants, NEW at \in Nat,
           NEW q, q = WithGrants(p, pc, grants, at)
    PROVE  /\ q \in Locals
           /\ q.pc = pc /\ q.grants = grants /\ q.key = p.key /\ q.cert = p.cert /\ q.files = p.files
           /\ q.dead = p.dead /\ q.shut = p.shut /\ q.least = p.least
BY DEF Locals, WithGrants

LEMMA ArriveKeeps ==
    ASSUME DownloadsInv, NEW r \in Requests, Arrive(r)
    PROVE  DownloadsInv'
<1>1. PICK k \in DOMAIN keys, c \in Certs, fs \in FileSets : \E m \in {0, CurrentVersion(c)} :
         /\ keys[k].status # "deleted"
         /\ req' = [req EXCEPT ![r] =
                [Blank EXCEPT !.pc = "grants", !.key = k, !.cert = c, !.files = fs, !.match = m,
                              !.revoked = (keys[k].status = "revoked"),
                              !.last = keys[k].last,
                              !.dead = Dead(k), !.shut = ~enabled[c], !.least = CurrentVersion(c)]]
    BY DEF Arrive
<1>2. PICK m \in {0, CurrentVersion(c)} :
         /\ keys[k].status # "deleted"
         /\ req' = [req EXCEPT ![r] =
                [Blank EXCEPT !.pc = "grants", !.key = k, !.cert = c, !.files = fs, !.match = m,
                              !.revoked = (keys[k].status = "revoked"),
                              !.last = keys[k].last,
                              !.dead = Dead(k), !.shut = ~enabled[c], !.least = CurrentVersion(c)]]
    BY <1>1
<1>3. PICK q : q = [Blank EXCEPT !.pc = "grants", !.key = k, !.cert = c, !.files = fs, !.match = m,
                              !.revoked = (keys[k].status = "revoked"),
                              !.last = keys[k].last,
                              !.dead = Dead(k), !.shut = ~enabled[c], !.least = CurrentVersion(c)]
    OBVIOUS
<1>4. /\ DataOK /\ k \in Nat /\ keys[k].last \in Nat \cup {Never}
      /\ CurrentVersion(c) \in Nat /\ m \in Nat /\ enabled[c] \in BOOLEAN
      /\ keys[k].status \in {"active", "revoked", "deleted"}
    BY KeyIsRow, CurrentVersionIs DEF DownloadsInv, DataOK
<1>5. q = [pc |-> "grants", key |-> k, cert |-> c, files |-> fs, match |-> m,
           revoked |-> (keys[k].status = "revoked"), last |-> keys[k].last, grants |-> {}, at |-> 0,
           version |-> 0, body |-> NoBody, dead |-> Dead(k), shut |-> ~enabled[c],
           least |-> CurrentVersion(c)]
    BY <1>3 DEF Blank
<1>6. q \in Locals
    BY <1>4, <1>5 DEF Locals, PCs, Grants, Dead
<1>7. Sound(q)
  <2>1. IsWellFormed(q)
    BY <1>5 DEF IsWellFormed
  <2>2. IsAuthorized(q)
    BY <1>2, <1>4, <1>5 DEF IsAuthorized, Dead
  <2>3. IsCurrent(q)
    BY <1>5, CurrentVersionIs DEF IsCurrent
  <2> QED
    BY <2>1, <2>2, <2>3 DEF Sound
<1>8. Moves(r, q) /\ UNCHANGED cache /\ count' \in Nat
  <2>1. count' = count + 1 /\ count \in Nat /\ UNCHANGED <<now, keys, enabled, versions, cache>>
    BY DEF Arrive, DownloadsInv, DataOK
  <2> QED
    BY <1>2, <1>3, <2>1 DEF Moves
<1> QED
    BY <1>6, <1>7, <1>8, PlainMoveKeeps

LEMMA ReadGrantsKeeps ==
    ASSUME DownloadsInv, NEW r \in Requests, ReadGrants(r)
    PROVE  DownloadsInv'
<1>1. req[r].pc = "grants" /\ UNCHANGED <<now, keys, enabled, versions, cache, count>>
    BY DEF ReadGrants
<1>2. CASE req[r].revoked \/ Expired(keys[req[r].key].shape)
    BY <1>1, <1>2, RefuseKeeps DEF ReadGrants
<1>3. CASE ~(req[r].revoked \/ Expired(keys[req[r].key].shape))
  <2>1. PICK pc \in {"find", "stamp"}, at \in {0, now} :
            req' = [req EXCEPT ![r].pc = pc, ![r].last = Never,
                               ![r].grants = keys[req[r].key].grants, ![r].at = at]
    BY <1>3 DEF ReadGrants
  <2>2. PICK p \in Locals : p = req[r]
    BY LocalsOf
  <2>3. /\ p.pc = "grants" /\ IsWellFormed(p) /\ IsAuthorized(p) /\ IsCurrent(p) /\ DataOK
        /\ ~p.revoked /\ ~Expired(keys[p.key].shape)
    BY <1>1, <1>3, <2>2, LocalsOf DEF DownloadsInv
  <2>4. PICK g \in Grants : g = keys[p.key].grants /\ g \subseteq keys[p.key].shape.certificates
    BY <2>3, KeyIsRow DEF IsWellFormed, DownloadsInv, GrantsAreCreated
  <2>5. PICK q : q = WithGrants(p, pc, g, at)
    OBVIOUS
  <2>6. Moves(r, q) /\ UNCHANGED cache /\ count' \in Nat
    BY <1>1, <2>1, <2>2, <2>4, <2>5 DEF Moves, DownloadsInv, DataOK, WithGrants
  <2>7. /\ q \in Locals
        /\ q.pc = pc /\ q.grants = g /\ q.key = p.key /\ q.cert = p.cert /\ q.files = p.files
        /\ q.dead = p.dead /\ q.shut = p.shut /\ q.least = p.least
    <3>1. pc \in PCs /\ at \in Nat
      BY <2>3 DEF PCs, DataOK
    <3> QED
      BY <2>5, <3>1, WithGrantsIs
  <2>8. Sound(q)
    BY <2>3, <2>4, <2>7 DEF Sound, IsWellFormed, IsAuthorized, IsCurrent
  <2> QED
    BY <2>6, <2>7, <2>8, PlainMoveKeeps
<1> QED
    BY <1>2, <1>3

WithPc(p, pc) == [p EXCEPT !.pc = pc, !.at = 0]

LEMMA WithPcIs ==
    ASSUME NEW p \in Locals, NEW pc \in PCs, NEW q, q = WithPc(p, pc)
    PROVE  /\ q \in Locals
           /\ q.pc = pc /\ q.grants = p.grants /\ q.key = p.key /\ q.cert = p.cert /\ q.files = p.files
           /\ q.dead = p.dead /\ q.shut = p.shut /\ q.least = p.least
BY DEF Locals, WithPc

LEMMA StampedIsSound ==
    ASSUME DownloadsInv, NEW r \in Requests, req[r].pc = "stamp",
           req' = [req EXCEPT ![r].pc = "find", ![r].at = 0]
    PROVE  \E q \in Locals : req' = [req EXCEPT ![r] = q] /\ Sound(q)
<1>1. PICK p \in Locals : p = req[r]
    BY LocalsOf
<1>2. p.pc = "stamp" /\ IsWellFormed(p) /\ IsAuthorized(p) /\ IsCurrent(p)
    BY <1>1, LocalsOf
<1>3. PICK q : q = WithPc(p, "find")
    OBVIOUS
<1>4. /\ q \in Locals
      /\ q.pc = "find" /\ q.grants = p.grants /\ q.key = p.key /\ q.cert = p.cert /\ q.files = p.files
      /\ q.dead = p.dead /\ q.shut = p.shut /\ q.least = p.least
    BY <1>3, WithPcIs DEF PCs
<1>5. Sound(q)
    BY <1>2, <1>4 DEF Sound, IsWellFormed, IsAuthorized, IsCurrent
<1>6. req' = [req EXCEPT ![r] = q]
    BY <1>1, <1>3 DEF WithPc, DownloadsInv, DataOK
<1> QED
    BY <1>4, <1>5, <1>6

LEMMA StampFailsKeeps ==
    ASSUME DownloadsInv, NEW r \in Requests, StampFails(r)
    PROVE  DownloadsInv'
<1>1. PICK q \in Locals : req' = [req EXCEPT ![r] = q] /\ Sound(q)
    BY StampedIsSound DEF StampFails
<1>2. Moves(r, q) /\ UNCHANGED cache /\ count' \in Nat
    BY <1>1 DEF StampFails, Moves, DownloadsInv, DataOK
<1> QED
    BY <1>1, <1>2, PlainMoveKeeps

(* A row of api_keys changes, but not what it was created with.            *)
Rewritten(k, row) == keys' = [keys EXCEPT ![k] = row]

LEMMA RewriteKeeps ==
    ASSUME DownloadsInv, NEW k \in DOMAIN keys, NEW row \in KeyRows, Rewritten(k, row),
           row.shape = keys[k].shape, row.grants \subseteq row.shape.certificates,
           row.status # "deleted" => row.grants = row.shape.certificates
    PROVE  /\ keys' \in Seq(KeyRows) /\ DOMAIN keys' = DOMAIN keys
           /\ \A l \in DOMAIN keys : keys'[l].shape = keys[l].shape
           /\ keys'[k] = row /\ \A l \in DOMAIN keys : l # k => keys'[l] = keys[l]
           /\ GrantsAreCreated'
<1>1. keys \in Seq(KeyRows) /\ DOMAIN keys = 1..Len(keys)
    BY DEF DownloadsInv, DataOK
<1>2. /\ keys' \in Seq(KeyRows) /\ Len(keys') = Len(keys)
      /\ \A l \in 1..Len(keys) : keys'[l] = IF l = k THEN row ELSE keys[l]
    BY <1>1, ExceptSeq DEF Rewritten
<1>3. DOMAIN keys' = DOMAIN keys
    BY <1>1, <1>2
<1>4. GrantsAreCreated'
    BY <1>1, <1>2, <1>3 DEF GrantsAreCreated, DownloadsInv
<1> QED
    BY <1>1, <1>2, <1>3, <1>4

LEMMA StampKeeps ==
    ASSUME DownloadsInv, NEW r \in Requests, Stamp(r)
    PROVE  DownloadsInv'
<1>1. PICK q \in Locals : req' = [req EXCEPT ![r] = q] /\ Sound(q)
    BY StampedIsSound DEF Stamp
<1>2. UNCHANGED <<now, enabled, versions, cache, count>> /\ req[r].pc = "stamp"
    BY DEF Stamp
<1>3. PICK k, at : k = req[r].key /\ at = req[r].at
    OBVIOUS
<1>4. k \in DOMAIN keys /\ at \in Nat /\ DataOK
  <2>1. req[r] \in Locals /\ IsWellFormed(req[r])
    BY <1>2, LocalsOf
  <2>2. req[r].at \in Nat
    BY <2>1 DEF Locals
  <2> QED
    BY <1>3, <2>1, <2>2 DEF IsWellFormed, DownloadsInv
<1>5. /\ keys' \in Seq(KeyRows) /\ DOMAIN keys' = DOMAIN keys
      /\ \A l \in DOMAIN keys : keys'[l].shape = keys[l].shape
      /\ GrantsAreCreated'
  <2>1. CASE keys' = keys
    <3>1. GrantsAreCreated'
      BY <2>1 DEF DownloadsInv, GrantsAreCreated
    <3> QED
      BY <1>4, <2>1, <3>1 DEF DataOK
  <2>2. CASE keys' # keys
    <3>1. PICK row : row = [keys[k] EXCEPT !.last = at]
      OBVIOUS
    <3>2. row \in KeyRows /\ row.shape = keys[k].shape /\ row.grants = keys[k].grants
          /\ row.status = keys[k].status
      BY <1>4, <3>1, KeyIsRow DEF KeyRows
    <3>3. Rewritten(k, row)
      BY <1>3, <1>4, <2>2, <3>1 DEF Stamp, Rewritten, DataOK
    <3>4. /\ row.grants \subseteq row.shape.certificates
          /\ row.status # "deleted" => row.grants = row.shape.certificates
      BY <1>4, <3>2 DEF DownloadsInv, GrantsAreCreated
    <3> QED
      BY <1>4, <3>2, <3>3, <3>4, RewriteKeeps
  <2> QED
    BY <2>1, <2>2
<1>6. Grows /\ now' \in Nat
    BY <1>2, <1>4, <1>5 DEF Grows, DataOK
<1>7. req' \in [Requests -> Locals] /\ \A s \in Requests : Sound(req[s])'
    BY <1>1, <1>2, <1>6, AllStaySound
<1>8. LatestExists'
    BY <1>2 DEF DownloadsInv, LatestExists, VersionsOf
<1>9. DataOK'
    BY <1>2, <1>4, <1>5, <1>7 DEF DataOK, cache
<1>10. CacheOK'
    BY <1>2, CacheKeeps DEF DownloadsInv
<1> QED
    BY <1>5, <1>7, <1>8, <1>9, <1>10 DEF DownloadsInv

Found(p) == [p EXCEPT !.pc = "version", !.grants = {}]

LEMMA FoundIs ==
    ASSUME NEW p \in Locals, NEW q, q = Found(p)
    PROVE  /\ q \in Locals
           /\ q.pc = "version" /\ q.key = p.key /\ q.cert = p.cert /\ q.files = p.files
           /\ q.dead = p.dead /\ q.shut = p.shut /\ q.least = p.least
<1>1. {} \in Grants /\ "version" \in PCs
    BY DEF Grants, PCs
<1> QED
    BY <1>1 DEF Locals, Found

LEMMA FindCertificateKeeps ==
    ASSUME DownloadsInv, NEW r \in Requests, FindCertificate(r)
    PROVE  DownloadsInv'
<1>1. req[r].pc = "find" /\ UNCHANGED <<now, keys, enabled, versions, cache, count>>
    BY DEF FindCertificate
<1>2. CASE ~(Authorized(r) /\ enabled[req[r].cert])
    BY <1>1, <1>2, RefuseKeeps DEF FindCertificate
<1>3. CASE Authorized(r) /\ enabled[req[r].cert]
  <2>1. PICK p \in Locals : p = req[r]
    BY LocalsOf
  <2>2. p.pc = "find" /\ IsWellFormed(p) /\ IsAuthorized(p) /\ IsCurrent(p) /\ enabled[p.cert]
    BY <1>1, <1>3, <2>1, LocalsOf
  <2>3. PICK q : q = Found(p)
    OBVIOUS
  <2>4. Moves(r, q) /\ UNCHANGED cache /\ count' \in Nat
    BY <1>1, <1>3, <2>1, <2>3 DEF FindCertificate, Found, Moves, DownloadsInv, DataOK
  <2>5. /\ q \in Locals
        /\ q.pc = "version" /\ q.key = p.key /\ q.cert = p.cert /\ q.files = p.files
        /\ q.dead = p.dead /\ q.shut = p.shut /\ q.least = p.least
    BY <2>3, FoundIs
  <2>6. Entitled(p)
    <3>1. p.grants \subseteq keys[p.key].shape.certificates /\ p.files # {}
      BY <2>2 DEF IsAuthorized, IsWellFormed, FileSets
    <3>2. \A f \in p.files :
            /\ ScopeOf[f] \in keys[p.key].shape.scopes \/ "*" \in keys[p.key].shape.scopes
            /\ keys[p.key].shape.all \/ p.cert \in p.grants
      BY <1>3, <2>1 DEF Authorized, Allows
    <3> QED
      BY <3>1, <3>2 DEF Entitled
  <2>7. Entitled(q)
    BY <2>5, <2>6 DEF Entitled
  <2>8. Sound(q)
    BY <2>2, <2>5, <2>7 DEF Sound, IsWellFormed, IsAuthorized, IsCurrent
  <2> QED
    BY <2>4, <2>5, <2>8, PlainMoveKeeps
<1> QED
    BY <1>2, <1>3

WithVersion(p, v) == [p EXCEPT !.pc = "read", !.version = v, !.match = 0]

LEMMA WithVersionIs ==
    ASSUME NEW p \in Locals, NEW v \in Nat, NEW q, q = WithVersion(p, v)
    PROVE  /\ q \in Locals
           /\ q.pc = "read" /\ q.key = p.key /\ q.cert = p.cert /\ q.files = p.files
           /\ q.dead = p.dead /\ q.shut = p.shut /\ q.least = p.least /\ q.version = v
<1>1. "read" \in PCs
    BY DEF PCs
<1> QED
    BY <1>1 DEF Locals, WithVersion

WithAnswer(p, pc, v, body) == [p EXCEPT !.pc = pc, !.version = v, !.body = body, !.match = 0]

LEMMA WithAnswerIs ==
    ASSUME NEW p \in Locals, NEW pc \in {"ok", "unmodified"}, NEW v \in Nat,
           NEW body \in Bundles \cup {NoBody}, NEW q, q = WithAnswer(p, pc, v, body)
    PROVE  /\ q \in Locals
           /\ q.pc = pc /\ q.key = p.key /\ q.cert = p.cert /\ q.files = p.files
           /\ q.dead = p.dead /\ q.shut = p.shut /\ q.least = p.least
           /\ q.version = v /\ q.body = body
<1>1. pc \in PCs
    BY DEF PCs
<1> QED
    BY <1>1 DEF Locals, WithAnswer

LEMMA ResolveVersionKeeps ==
    ASSUME DownloadsInv, NEW r \in Requests, ResolveVersion(r)
    PROVE  DownloadsInv'
<1>1. req[r].pc = "version" /\ UNCHANGED <<now, keys, enabled, versions, cache, count>>
    BY DEF ResolveVersion
<1>2. PICK p \in Locals : p = req[r]
    BY LocalsOf
<1>3. p.pc = "version" /\ IsWellFormed(p) /\ IsAuthorized(p) /\ IsCurrent(p) /\ p.cert \in Certs
    BY <1>1, <1>2, LocalsOf DEF IsWellFormed
<1>4. PICK v : v = CurrentVersion(p.cert)
    OBVIOUS
<1>5. v \in Nat /\ (v # 0 => v \in VersionsOf(p.cert)) /\ \A w \in VersionsOf(p.cert) : w <= v
    BY <1>3, <1>4, CurrentVersionIs
<1>6. p.least <= v
    BY <1>3, <1>5 DEF IsCurrent
<1>7. CASE v = 0
    BY <1>1, <1>2, <1>4, <1>7, RefuseKeeps DEF ResolveVersion
<1>8. CASE v # 0 /\ p.match = v
  <2>1. PICK q : q = WithAnswer(p, "unmodified", v, NoBody)
    OBVIOUS
  <2>2. Moves(r, q) /\ UNCHANGED cache /\ count' \in Nat
    BY <1>1, <1>2, <1>4, <1>8, <2>1 DEF ResolveVersion, Answer, WithAnswer, Moves, DownloadsInv, DataOK
  <2>3. /\ q \in Locals
        /\ q.pc = "unmodified" /\ q.key = p.key /\ q.cert = p.cert /\ q.files = p.files
        /\ q.dead = p.dead /\ q.shut = p.shut /\ q.least = p.least /\ q.version = v
    BY <1>5, <2>1, WithAnswerIs
  <2>4. Sound(q)
    BY <1>3, <1>5, <1>6, <1>8, <2>3 DEF Sound, IsWellFormed, IsAuthorized, IsCurrent, Entitled
  <2> QED
    BY <2>2, <2>3, <2>4, PlainMoveKeeps
<1>9. CASE v # 0 /\ p.match # v
  <2>1. PICK q : q = WithVersion(p, v)
    OBVIOUS
  <2>2. Moves(r, q) /\ UNCHANGED cache /\ count' \in Nat
    BY <1>1, <1>2, <1>4, <1>9, <2>1 DEF ResolveVersion, WithVersion, Moves, DownloadsInv, DataOK
  <2>3. /\ q \in Locals
        /\ q.pc = "read" /\ q.key = p.key /\ q.cert = p.cert /\ q.files = p.files
        /\ q.dead = p.dead /\ q.shut = p.shut /\ q.least = p.least /\ q.version = v
    BY <1>5, <2>1, WithVersionIs
  <2>4. Sound(q)
    BY <1>3, <1>5, <1>6, <1>9, <2>3 DEF Sound, IsWellFormed, IsAuthorized, IsCurrent, Entitled
  <2> QED
    BY <2>2, <2>3, <2>4, PlainMoveKeeps
<1> QED
    BY <1>7, <1>8, <1>9

(* The bundle asked for, from the version resolved.                        *)
BundleOf(r) == [version |-> req[r].version, files |-> req[r].files]

LEMMA AnswerIsSound ==
    ASSUME DownloadsInv, NEW r \in Requests, req[r].pc = "read",
           Answer(r, "ok", req[r].version, BundleOf(r))
    PROVE  /\ BundleOf(r) \in Bundles /\ req[r].version \in DOMAIN versions
           /\ \E q \in Locals : req' = [req EXCEPT ![r] = q] /\ Sound(q)
<1>1. PICK p \in Locals : p = req[r]
    BY LocalsOf
<1>2. p.pc = "read" /\ IsWellFormed(p) /\ IsAuthorized(p) /\ IsCurrent(p)
    BY <1>1, LocalsOf
<1>3. PICK body : body = [version |-> p.version, files |-> p.files]
    OBVIOUS
<1>4. p.version \in Nat /\ p.files \in FileSets /\ body \in Bundles /\ body = BundleOf(r)
  <2>1. p.version \in Nat
    BY DEF Locals
  <2> QED
    BY <1>1, <1>2, <1>3, <2>1 DEF IsWellFormed, Bundles, BundleOf
<1>5. PICK q : q = WithAnswer(p, "ok", p.version, body)
    OBVIOUS
<1>6. /\ q \in Locals
      /\ q.pc = "ok" /\ q.key = p.key /\ q.cert = p.cert /\ q.files = p.files
      /\ q.dead = p.dead /\ q.shut = p.shut /\ q.least = p.least
      /\ q.version = p.version /\ q.body = body
    BY <1>4, <1>5, WithAnswerIs
<1>7. Sound(q)
    BY <1>2, <1>3, <1>6 DEF Sound, IsWellFormed, IsAuthorized, IsCurrent, Entitled
<1>8. req' = [req EXCEPT ![r] = q]
    BY <1>1, <1>3, <1>4, <1>5 DEF Answer, WithAnswer, DownloadsInv, DataOK
<1>9. p.version \in DOMAIN versions
    BY <1>2 DEF IsCurrent, VersionsOf
<1> QED
    BY <1>1, <1>4, <1>6, <1>7, <1>8, <1>9

LEMMA GetArtifactKeeps ==
    ASSUME DownloadsInv, NEW r \in Requests, GetArtifact(r)
    PROVE  DownloadsInv'
<1>1. PICK q \in Locals : req' = [req EXCEPT ![r] = q] /\ Sound(q)
    BY AnswerIsSound DEF GetArtifact, BundleOf
<1>2. Moves(r, q) /\ UNCHANGED cache /\ count' \in Nat
    BY <1>1 DEF GetArtifact, Moves, DownloadsInv, DataOK
<1> QED
    BY <1>1, <1>2, PlainMoveKeeps

LEMMA FailsKeeps ==
    ASSUME DownloadsInv, NEW r \in Requests, Fails(r)
    PROVE  DownloadsInv'
BY RefuseKeeps DEF Fails

----------------------------------------------------------------------------
(* The cache *)

(* A request is answered and the list changes.                             *)
LEMMA ServedKeeps ==
    ASSUME DownloadsInv, NEW r \in Requests, req[r].pc = "read",
           Answer(r, "ok", req[r].version, BundleOf(r)),
           UNCHANGED <<now, keys, enabled, versions, count>>,
           entries' \in Seq(Bundles), size' \in Nat, CacheOK'
    PROVE  DownloadsInv'
<1>1. PICK q \in Locals : req' = [req EXCEPT ![r] = q] /\ Sound(q)
    BY AnswerIsSound
<1>2. Moves(r, q)
    BY <1>1 DEF Moves
<1>3. /\ req' \in [Requests -> Locals]
      /\ \A s \in Requests : Sound(req[s])'
      /\ GrantsAreCreated' /\ LatestExists'
    BY <1>1, <1>2, MoveKeeps
<1>4. DataOK'
    BY <1>3 DEF DownloadsInv, DataOK
<1> QED
    BY <1>3, <1>4 DEF DownloadsInv

(* An entry is the bundle it is looked up as.                              *)
LEMMA EntryIsBundle ==
    ASSUME DownloadsInv, NEW r \in Requests, NEW i \in DOMAIN entries
    PROVE  SameKey(entries[i], r) <=> entries[i] = BundleOf(r)
<1>1. entries[i] \in Bundles
    BY DEF DownloadsInv, DataOK
<1> QED
    BY <1>1 DEF SameKey, BundleOf, Bundles

LEMMA HitKeeps ==
    ASSUME DownloadsInv, NEW r \in Requests, Hit(r)
    PROVE  DownloadsInv'
<1>1. req[r].pc = "read" /\ UNCHANGED <<now, keys, enabled, versions, size, count>>
    BY DEF Hit
<1>2. PICK i \in DOMAIN entries :
         /\ SameKey(entries[i], r)
         /\ entries' = SubSeq(entries, 1, i - 1) \o SubSeq(entries, i + 1, Len(entries))
                         \o <<entries[i]>>
         /\ Answer(r, "ok", req[r].version, entries[i])
    BY DEF Hit
<1>3. Answer(r, "ok", req[r].version, BundleOf(r))
    BY <1>2, EntryIsBundle
<1>4. /\ entries \in Seq(Bundles) /\ DOMAIN entries = 1..Len(entries) /\ Len(entries) \in Nat
      /\ size \in Nat /\ CacheOK
    BY DEF DownloadsInv, DataOK
<1>5. PICK s, t : s = entries /\ t = entries'
    OBVIOUS
<1>6. s \in Seq(Bundles) /\ i \in 1..Len(s) /\ Len(s) \in Nat
      /\ t = SubSeq(s, 1, i - 1) \o SubSeq(s, i + 1, Len(s)) \o <<s[i]>>
    BY <1>2, <1>4, <1>5
<1>7. /\ t \in Seq(Bundles) /\ Len(t) = Len(s)
      /\ \A j \in 1..Len(s) : t[j] = IF j < i THEN s[j] ELSE IF j = Len(s) THEN s[i] ELSE s[j + 1]
      /\ Totals(t)[Len(t)] = Totals(s)[Len(s)]
    BY <1>6, TotalOfMove
<1>8. DOMAIN t = 1..Len(s)
    BY <1>7
<1>9. \A j \in 1..Len(s) : \E l \in 1..Len(s) :
          t[j] = s[l] /\ l = IF j < i THEN j ELSE IF j = Len(s) THEN i ELSE j + 1
  <2> TAKE j \in 1..Len(s)
  <2>1. CASE j < i
    BY <1>7, <2>1
  <2>2. CASE ~(j < i) /\ j = Len(s)
    BY <1>6, <1>7, <2>2
  <2>3. CASE ~(j < i) /\ j # Len(s)
    <3>1. j + 1 \in 1..Len(s)
      BY <1>6, <2>3
    <3> QED
      BY <1>7, <2>3, <3>1
  <2> QED
    BY <2>1, <2>2, <2>3
<1>10. CacheOK'
  <2>1. \A l \in 1..Len(s) : s[l].version \in DOMAIN versions
    BY <1>4, <1>5 DEF CacheOK
  <2>2. \A k, l \in 1..Len(s) : s[k] = s[l] => k = l
    BY <1>4, <1>5 DEF CacheOK
  <2>3. \A j \in 1..Len(s) : t[j].version \in DOMAIN versions
    BY <1>9, <2>1
  <2>4. ASSUME NEW j \in 1..Len(s), NEW k \in 1..Len(s), t[j] = t[k] PROVE j = k
    <3>1. PICK l \in 1..Len(s) : t[j] = s[l] /\ l = IF j < i THEN j ELSE IF j = Len(s) THEN i ELSE j + 1
      BY <1>9
    <3>2. PICK m \in 1..Len(s) : t[k] = s[m] /\ m = IF k < i THEN k ELSE IF k = Len(s) THEN i ELSE k + 1
      BY <1>9
    <3>3. l = m
      BY <2>2, <2>4, <3>1, <3>2
    <3> QED
      BY <1>6, <3>1, <3>2, <3>3
  <2>5. size' = Totals(t)[Len(t)] /\ size' <= bundleCacheLimit
    BY <1>1, <1>4, <1>5, <1>7 DEF CacheOK
  <2>6. Totals(entries)' = Totals(t)
    BY <1>5 DEF Totals, Length
  <2>7. size' = (Totals(entries)[Len(entries)])'
    BY <1>5, <2>5, <2>6
  <2> QED
    BY <1>1, <1>5, <1>8, <2>3, <2>4, <2>5, <2>7 DEF CacheOK
<1> QED
    BY <1>1, <1>3, <1>4, <1>5, <1>7, <1>10, ServedKeeps

LEMMA MissKeeps ==
    ASSUME DownloadsInv, NEW r \in Requests, Miss(r)
    PROVE  DownloadsInv'
<1>1. /\ req[r].pc = "read" /\ UNCHANGED <<now, keys, enabled, versions, count>>
      /\ Answer(r, "ok", req[r].version, BundleOf(r))
    BY DEF Miss, BundleOf
<1>2. /\ entries \in Seq(Bundles) /\ DOMAIN entries = 1..Len(entries) /\ Len(entries) \in Nat
      /\ size \in Nat /\ CacheOK /\ bundleCacheLimit \in Nat
    BY SizesAssumption DEF DownloadsInv, DataOK
<1>3. PICK b \in Bundles : b = BundleOf(r)
    BY <1>1, AnswerIsSound
<1>4. b.version \in DOMAIN versions /\ \A i \in 1..Len(entries) : entries[i] # b
  <2>1. req[r].version \in DOMAIN versions
    BY <1>1, AnswerIsSound
  <2>2. b.version = req[r].version
    BY <1>3 DEF BundleOf
  <2>3. \A i \in DOMAIN entries : ~SameKey(entries[i], r)
    BY DEF Miss
  <2> QED
    BY <1>2, <1>3, <2>1, <2>2, <2>3, EntryIsBundle
<1>5. CASE UNCHANGED cache
  <2>1. CacheOK'
    BY <1>1, <1>2, <1>5, CacheKeeps
  <2>2. entries' \in Seq(Bundles) /\ size' \in Nat
    BY <1>2, <1>5 DEF cache
  <2> QED
    BY <1>1, <2>1, <2>2, ServedKeeps
<1>6. ASSUME NEW n \in 0..Len(entries), Evicted(n, Length(b)),
             entries' = Append(SubSeq(entries, n + 1, Len(entries)), b),
             size' = size - Totals(entries)[n] + Length(b)
      PROVE  DownloadsInv'
  <2>1. PICK s, t : s = entries /\ t = entries'
    OBVIOUS
  <2>2. /\ s \in Seq(Bundles) /\ n \in 0..Len(s) /\ Len(s) \in Nat
        /\ t = Append(SubSeq(s, n + 1, Len(s)), b)
    BY <1>2, <1>6, <2>1
  <2>3. /\ t \in Seq(Bundles) /\ Len(t) = Len(s) - n + 1
        /\ \A i \in 1..(Len(s) - n) : t[i] = s[n + i]
        /\ t[Len(s) - n + 1] = b
        /\ Totals(t)[Len(t)] = Totals(s)[Len(s)] - Totals(s)[n] + Length(b)
    BY <2>2, TotalOfEviction
  <2>4. size' = Totals(t)[Len(t)]
    BY <1>2, <1>6, <2>1, <2>3 DEF CacheOK
  <2>5. size' \in Nat
    <3>1. IsTotals(t, Len(t), Totals(t))
      BY <2>3, TotalsAre
    <3>2. Len(t) \in 0..Len(t)
      BY <2>3
    <3> QED
      BY <2>4, <3>1, <3>2 DEF IsTotals
  <2>6. size' <= bundleCacheLimit
    BY <1>6 DEF Evicted
  <2>7. DOMAIN t = 1..(Len(s) - n + 1)
    BY <2>3
  <2>8. \A i \in 1..(Len(s) - n + 1) :
            \/ i = Len(s) - n + 1 /\ t[i] = b
            \/ i # Len(s) - n + 1 /\ n + i \in 1..Len(s) /\ t[i] = s[n + i]
    BY <2>2, <2>3
  <2>9. \A i \in DOMAIN t : t[i].version \in DOMAIN versions
    BY <1>2, <1>4, <2>1, <2>7, <2>8 DEF CacheOK
  <2>10. ASSUME NEW i \in DOMAIN t, NEW j \in DOMAIN t, t[i] = t[j] PROVE i = j
    <3>1. \A k, l \in 1..Len(s) : s[k] = s[l] => k = l
      BY <1>2, <2>1 DEF CacheOK
    <3>2. \A k \in 1..Len(s) : s[k] # b
      BY <1>4, <2>1
    <3>3. CASE i = Len(s) - n + 1
      BY <2>7, <2>8, <2>10, <3>2, <3>3
    <3>4. CASE j = Len(s) - n + 1
      BY <2>7, <2>8, <2>10, <3>2, <3>4
    <3>5. CASE i # Len(s) - n + 1 /\ j # Len(s) - n + 1
      <4>1. n + i \in 1..Len(s) /\ n + j \in 1..Len(s) /\ s[n + i] = s[n + j]
        BY <2>7, <2>8, <2>10, <3>5
      <4>2. n + i = n + j
        BY <3>1, <4>1
      <4> QED
        BY <2>2, <2>7, <2>10, <4>2
    <3> QED
      BY <3>3, <3>4, <3>5
  <2>11. CacheOK'
    <3>1. Totals(entries)' = Totals(t)
      BY <2>1 DEF Totals, Length
    <3>2. size' = (Totals(entries)[Len(entries)])'
      BY <2>1, <2>4, <3>1
    <3> QED
      BY <1>1, <2>1, <2>6, <2>9, <2>10, <3>2 DEF CacheOK
  <2>12. entries' \in Seq(Bundles)
    BY <2>1, <2>3
  <2> QED
    BY <1>1, <2>5, <2>11, <2>12, ServedKeeps
<1>7. \/ UNCHANGED cache
      \/ \E n \in 0..Len(entries) :
           /\ Evicted(n, Length(b))
           /\ entries' = Append(SubSeq(entries, n + 1, Len(entries)), b)
           /\ size' = size - Totals(entries)[n] + Length(b)
    BY <1>3 DEF Miss, BundleOf
<1> QED
    BY <1>5, <1>6, <1>7

----------------------------------------------------------------------------
(* Keys and surroundings *)

(* The requests and the cache stay as they are.                            *)
LEMMA SurroundingsKeep ==
    ASSUME DownloadsInv, now' \in Nat, Grows, enabled' = enabled, UNCHANGED <<cache, req, count>>,
           keys' \in Seq(KeyRows), versions' \in Seq(Certs), GrantsAreCreated', LatestExists'
    PROVE  DownloadsInv'
<1>1. DataOK /\ CacheOK /\ req \in [Requests -> Locals]
    BY DEF DownloadsInv, DataOK
<1>2. DataOK'
    BY <1>1 DEF DataOK, cache
<1>3. ASSUME NEW s \in Requests PROVE Sound(req[s])'
  <2>1. PICK p \in Locals : p = req[s]
    BY <1>1
  <2>2. Sound(p)
    BY <2>1 DEF DownloadsInv
  <2>3. p.pc # "idle" /\ p.shut => ~enabled'[p.cert]
    BY <2>2 DEF Sound, IsAuthorized
  <2>4. Sound(p)'
    BY <1>1, <2>2, <2>3, StaysSound
  <2> QED
    BY <2>1, <2>4
<1>4. CacheOK'
    BY <1>1, CacheKeeps DEF Grows
<1> QED
    BY <1>2, <1>3, <1>4 DEF DownloadsInv

LEMMA CreateKeeps ==
    ASSUME DownloadsInv, Create
    PROVE  DownloadsInv'
<1>1. PICK s \in Shapes :
         keys' = Append(keys, [status |-> "active", shape |-> s, grants |-> s.certificates, last |-> Never])
    BY DEF Create
<1>2. PICK row : row = [status |-> "active", shape |-> s, grants |-> s.certificates, last |-> Never]
    OBVIOUS
<1>3. row \in KeyRows
    BY <1>2 DEF KeyRows, Grants
<1>4. UNCHANGED <<now, enabled, versions, cache, req, count>> /\ DataOK
    BY DEF Create, DownloadsInv
<1>5. keys \in Seq(KeyRows) /\ DOMAIN keys = 1..Len(keys) /\ Len(keys) \in Nat
    BY <1>4 DEF DataOK
<1>6. /\ keys' \in Seq(KeyRows) /\ Len(keys') = Len(keys) + 1
      /\ (\A k \in 1..Len(keys) : keys'[k] = keys[k]) /\ keys'[Len(keys) + 1] = row
    BY <1>1, <1>2, <1>3, <1>5, AppendProperties
<1>7. DOMAIN keys' = 1..(Len(keys) + 1)
    BY <1>6
<1>8. Grows /\ now' \in Nat /\ versions' \in Seq(Certs)
    BY <1>4, <1>5, <1>6, <1>7 DEF Grows, DataOK
<1>9. GrantsAreCreated'
  <2> SUFFICES ASSUME NEW k \in 1..(Len(keys) + 1)
               PROVE  /\ keys'[k].grants \subseteq keys'[k].shape.certificates
                      /\ keys'[k].status # "deleted" => keys'[k].grants = keys'[k].shape.certificates
    BY <1>7 DEF GrantsAreCreated
  <2>1. CASE k \in 1..Len(keys)
    BY <1>5, <1>6, <2>1 DEF DownloadsInv, GrantsAreCreated
  <2>2. CASE k = Len(keys) + 1
    BY <1>2, <1>6, <2>2
  <2> QED
    BY <1>5, <2>1, <2>2
<1>10. LatestExists'
    BY <1>4 DEF DownloadsInv, LatestExists, VersionsOf
<1> QED
    BY <1>4, <1>6, <1>8, <1>9, <1>10, SurroundingsKeep

(* A key is revoked or deleted.                                            *)
LEMMA AdministrationKeeps ==
    ASSUME DownloadsInv, NEW k \in DOMAIN keys, NEW row \in KeyRows, Rewritten(k, row),
           row.shape = keys[k].shape, row.grants \subseteq row.shape.certificates,
           row.status # "deleted" => row.grants = row.shape.certificates,
           UNCHANGED <<now, enabled, versions, cache, req, count>>
    PROVE  DownloadsInv'
<1>1. /\ keys' \in Seq(KeyRows) /\ DOMAIN keys' = DOMAIN keys
      /\ \A l \in DOMAIN keys : keys'[l].shape = keys[l].shape
      /\ GrantsAreCreated'
    BY RewriteKeeps
<1>2. Grows /\ now' \in Nat /\ versions' \in Seq(Certs)
    BY <1>1 DEF Grows, DownloadsInv, DataOK
<1>3. LatestExists'
    BY DEF DownloadsInv, LatestExists, VersionsOf
<1> QED
    BY <1>1, <1>2, <1>3, SurroundingsKeep

LEMMA RevokeKeeps ==
    ASSUME DownloadsInv, NEW k \in DOMAIN keys, Revoke(k)
    PROVE  DownloadsInv'
<1>1. PICK row : row = [keys[k] EXCEPT !.status = "revoked"]
    OBVIOUS
<1>2. DataOK /\ keys[k] \in KeyRows
    BY KeyIsRow DEF DownloadsInv
<1>3. row \in KeyRows /\ row.shape = keys[k].shape /\ row.grants = keys[k].grants /\ row.status = "revoked"
    BY <1>1, <1>2 DEF KeyRows
<1>4. row.grants = row.shape.certificates
    BY <1>3 DEF Revoke, DownloadsInv, GrantsAreCreated
<1>5. Rewritten(k, row)
    BY <1>1 DEF Rewritten, Revoke
<1> QED
    BY <1>3, <1>4, <1>5, AdministrationKeeps DEF Revoke

LEMMA DeleteKeeps ==
    ASSUME DownloadsInv, NEW k \in DOMAIN keys, Delete(k)
    PROVE  DownloadsInv'
<1>1. PICK row : row = [keys[k] EXCEPT !.status = "deleted", !.grants = {}]
    OBVIOUS
<1>2. DataOK /\ keys[k] \in KeyRows
    BY KeyIsRow DEF DownloadsInv
<1>3. {} \in Grants
    BY DEF Grants
<1>4. row \in KeyRows /\ row.shape = keys[k].shape /\ row.grants = {} /\ row.status = "deleted"
    BY <1>1, <1>2, <1>3 DEF KeyRows
<1>5. Rewritten(k, row)
    BY <1>1, <1>2 DEF Rewritten, Delete, DataOK
<1> QED
    BY <1>4, <1>5, AdministrationKeeps DEF Delete

LEMMA TickKeeps ==
    ASSUME DownloadsInv, Tick
    PROVE  DownloadsInv'
<1>1. now' = now + 1 /\ now \in Nat /\ UNCHANGED <<keys, enabled, versions, cache, req, count>>
    BY DEF Tick, DownloadsInv, DataOK
<1>2. Grows /\ now' \in Nat
    BY <1>1 DEF Grows
<1>3. keys' \in Seq(KeyRows) /\ versions' \in Seq(Certs) /\ GrantsAreCreated' /\ LatestExists'
    BY <1>1 DEF DownloadsInv, DataOK, GrantsAreCreated, LatestExists, VersionsOf
<1> QED
    BY <1>1, <1>2, <1>3, SurroundingsKeep

LEMMA PublishKeeps ==
    ASSUME DownloadsInv, NEW c \in Certs, Publish(c)
    PROVE  DownloadsInv'
<1>1. versions' = Append(versions, c) /\ UNCHANGED <<now, keys, enabled, cache, req, count>>
    BY DEF Publish
<1>2. now \in Nat /\ keys \in Seq(KeyRows) /\ versions \in Seq(Certs)
    BY DEF DownloadsInv, DataOK
<1>3. /\ versions' \in Seq(Certs) /\ Len(versions) \in Nat
      /\ DOMAIN versions = 1..Len(versions) /\ DOMAIN versions' = 1..(Len(versions) + 1)
      /\ \A v \in 1..Len(versions) : versions'[v] = versions[v]
      /\ versions'[Len(versions) + 1] = c
    BY <1>1, <1>2
<1>4. Grows /\ now' \in Nat /\ keys' \in Seq(KeyRows)
    BY <1>1, <1>2, <1>3 DEF Grows
<1>5. GrantsAreCreated'
    BY <1>1 DEF DownloadsInv, GrantsAreCreated
<1>6. ASSUME NEW d \in Certs, VersionsOf(d)' # {}
      PROVE  \E v \in VersionsOf(d)' : \A w \in VersionsOf(d)' : w <= v
  <2>1. CASE d = c
    <3>1. Len(versions) + 1 \in VersionsOf(d)'
      BY <1>3, <2>1 DEF VersionsOf
    <3>2. \A w \in VersionsOf(d)' : w <= Len(versions) + 1
      BY <1>3 DEF VersionsOf
    <3> QED
      BY <3>1, <3>2
  <2>2. CASE d # c
    <3>1. VersionsOf(d)' = VersionsOf(d)
      BY <1>3, <2>2 DEF VersionsOf
    <3> QED
      BY <1>6, <3>1 DEF DownloadsInv, LatestExists
  <2> QED
    BY <2>1, <2>2
<1>7. LatestExists'
    BY <1>6 DEF LatestExists
<1> QED
    BY <1>1, <1>3, <1>4, <1>5, <1>7, SurroundingsKeep

LEMMA ShutAgain ==
    ASSUME NEW p \in Locals, NEW q, q = [p EXCEPT !.shut = FALSE]
    PROVE  /\ q \in Locals /\ q.pc = p.pc /\ q.key = p.key /\ q.cert = p.cert /\ q.files = p.files
           /\ q.revoked = p.revoked /\ q.dead = p.dead /\ q.grants = p.grants /\ q.least = p.least
           /\ q.version = p.version /\ q.body = p.body /\ q.shut = FALSE
BY DEF Locals

LEMMA SwitchCertificateKeeps ==
    ASSUME DownloadsInv, NEW c \in Certs, SwitchCertificate(c)
    PROVE  DownloadsInv'
<1>1. /\ enabled' = [enabled EXCEPT ![c] = ~@]
      /\ req' = [r \in Requests |->
                   IF req[r].cert = c /\ ~enabled[c] THEN [req[r] EXCEPT !.shut = FALSE] ELSE req[r]]
      /\ UNCHANGED <<now, keys, versions, cache, count>>
    BY DEF SwitchCertificate
<1>2. DataOK /\ enabled \in [Certs -> BOOLEAN] /\ req \in [Requests -> Locals] /\ now \in Nat
    BY DEF DownloadsInv, DataOK
<1>3. enabled' \in [Certs -> BOOLEAN] /\ (enabled'[c] <=> ~enabled[c])
      /\ \A d \in Certs : d # c => enabled'[d] = enabled[d]
    BY <1>1, <1>2
<1>4. Grows /\ now' \in Nat
    BY <1>1, <1>2 DEF Grows
<1>5. ASSUME NEW r \in Requests PROVE req'[r] \in Locals /\ Sound(req[r])'
  <2>1. PICK p \in Locals : p = req[r]
    BY <1>2
  <2>2. PICK q : q = IF p.cert = c /\ ~enabled[c] THEN [p EXCEPT !.shut = FALSE] ELSE p
    OBVIOUS
  <2>3. req'[r] = q
    BY <1>1, <2>1, <2>2
  <2>4. Sound(p)
    BY <2>1 DEF DownloadsInv
  <2>5. /\ q \in Locals /\ q.pc = p.pc /\ q.key = p.key /\ q.cert = p.cert /\ q.files = p.files
        /\ q.revoked = p.revoked /\ q.dead = p.dead /\ q.grants = p.grants /\ q.least = p.least
        /\ q.version = p.version /\ q.body = p.body
        /\ q.shut => p.shut /\ ~(p.cert = c /\ ~enabled[c])
    BY <2>2, ShutAgain
  <2>6. Sound(q)
    BY <2>4, <2>5 DEF Sound, IsWellFormed, IsAuthorized, IsCurrent, Entitled
  <2>7. q.pc # "idle" /\ q.shut => ~enabled'[q.cert]
    BY <1>3, <2>4, <2>5 DEF Sound, IsAuthorized, IsWellFormed
  <2>8. Sound(q)'
    BY <1>2, <1>4, <2>5, <2>6, <2>7, StaysSound
  <2> QED
    BY <2>3, <2>5, <2>8
<1>6. req' \in [Requests -> Locals]
    BY <1>1, <1>5
<1>7. DataOK'
    BY <1>1, <1>2, <1>3, <1>6 DEF DataOK, cache
<1>8. GrantsAreCreated' /\ LatestExists'
    BY <1>1 DEF DownloadsInv, GrantsAreCreated, LatestExists, VersionsOf
<1>9. CacheOK'
    BY <1>1, CacheKeeps DEF DownloadsInv
<1> QED
    BY <1>5, <1>7, <1>8, <1>9 DEF DownloadsInv

LEMMA EmptyCache ==
    ASSUME NEW list, list = <<>>
    PROVE  list \in Seq(Bundles) /\ Len(list) = 0 /\ DOMAIN list = {} /\ Totals(list)[Len(list)] = 0
<1>1. list \in Seq(Bundles) /\ Len(list) = 0 /\ DOMAIN list = {}
    OBVIOUS
<1>2. IsTotals(list, Len(list), Totals(list))
    BY <1>1, TotalsAre
<1> QED
    BY <1>1, <1>2 DEF IsTotals

LEMMA RestartKeeps ==
    ASSUME DownloadsInv, Restart
    PROVE  DownloadsInv'
<1>1. /\ entries' = <<>> /\ size' = 0 /\ req' = [r \in Requests |-> Blank]
      /\ UNCHANGED <<now, keys, enabled, versions, count>>
    BY DEF Restart
<1>2. req' \in [Requests -> Locals] /\ \A r \in Requests : Sound(req[r])'
    BY <1>1, BlankIsSound DEF Sound, Blank
<1>3. PICK list : list = entries'
    OBVIOUS
<1>4. list \in Seq(Bundles) /\ Len(list) = 0 /\ DOMAIN list = {} /\ Totals(list)[Len(list)] = 0
    BY <1>1, <1>3, EmptyCache
<1>5. DataOK'
    BY <1>1, <1>2, <1>3, <1>4 DEF DownloadsInv, DataOK
<1>6. GrantsAreCreated' /\ LatestExists'
    BY <1>1 DEF DownloadsInv, GrantsAreCreated, LatestExists, VersionsOf
<1>7. CacheOK'
  <2>1. Totals(entries)' = Totals(list)
    BY <1>3 DEF Totals, Length
  <2>2. size' = (Totals(entries)[Len(entries)])'
    BY <1>1, <1>3, <1>4, <2>1
  <2> QED
    BY <1>1, <1>3, <1>4, <2>2, SizesAssumption DEF CacheOK
<1> QED
    BY <1>2, <1>5, <1>6, <1>7 DEF DownloadsInv

LEMMA InitHolds == Init => DownloadsInv
<1> SUFFICES ASSUME Init PROVE DownloadsInv
    OBVIOUS
<1>1. /\ now = 0 /\ keys = <<>> /\ enabled = [c \in Certs |-> TRUE] /\ versions = <<>>
      /\ entries = <<>> /\ size = 0 /\ req = [r \in Requests |-> Blank] /\ count = 0
    BY DEF Init
<1>2. req \in [Requests -> Locals] /\ \A r \in Requests : Sound(req[r])
    BY <1>1, BlankIsSound
<1>3. entries \in Seq(Bundles) /\ Len(entries) = 0 /\ DOMAIN entries = {} /\ Totals(entries)[Len(entries)] = 0
    BY <1>1, EmptyCache
<1>4. keys \in Seq(KeyRows) /\ DOMAIN keys = {} /\ versions \in Seq(Certs) /\ DOMAIN versions = {}
    BY <1>1
<1>5. DataOK
    BY <1>1, <1>2, <1>3, <1>4 DEF DataOK
<1>6. GrantsAreCreated /\ LatestExists
    BY <1>4 DEF GrantsAreCreated, LatestExists, VersionsOf
<1>7. CacheOK
    BY <1>1, <1>3, SizesAssumption DEF CacheOK
<1> QED
    BY <1>2, <1>5, <1>6, <1>7 DEF DownloadsInv

----------------------------------------------------------------------------
(* Theorems *)

LEMMA NextKeeps == DownloadsInv /\ [Next]_vars => DownloadsInv'
<1> SUFFICES ASSUME DownloadsInv, [Next]_vars PROVE DownloadsInv'
    OBVIOUS
<1>1. CASE Create
    BY <1>1, CreateKeeps
<1>2. ASSUME NEW k \in DOMAIN keys, Revoke(k) \/ Delete(k) PROVE DownloadsInv'
    BY <1>2, RevokeKeeps, DeleteKeeps
<1>3. CASE Tick
    BY <1>3, TickKeeps
<1>4. CASE Restart
    BY <1>4, RestartKeeps
<1>5. ASSUME NEW c \in Certs, Publish(c) \/ SwitchCertificate(c) PROVE DownloadsInv'
    BY <1>5, PublishKeeps, SwitchCertificateKeeps
<1>6. ASSUME NEW r \in Requests, Arrive(r) \/ Handle(r) PROVE DownloadsInv'
    BY <1>6, ArriveKeeps, ReadGrantsKeeps, StampKeeps, StampFailsKeeps, FindCertificateKeeps,
       ResolveVersionKeeps, GetArtifactKeeps, HitKeeps, MissKeeps, FailsKeeps DEF Handle
<1>7. CASE UNCHANGED vars
  <2>1. now' \in Nat /\ Grows /\ enabled' = enabled /\ UNCHANGED <<cache, req, count>>
    BY <1>7 DEF vars, Grows, DownloadsInv, DataOK
  <2>2. keys' \in Seq(KeyRows) /\ versions' \in Seq(Certs) /\ GrantsAreCreated' /\ LatestExists'
    BY <1>7 DEF vars, DownloadsInv, DataOK, GrantsAreCreated, LatestExists, VersionsOf
  <2> QED
    BY <2>1, <2>2, SurroundingsKeep
<1> QED
    BY <1>1, <1>2, <1>3, <1>4, <1>5, <1>6, <1>7 DEF Next

LEMMA AlwaysSound == Spec => []DownloadsInv
BY InitHolds, NextKeeps, PTL DEF Spec

(* An answer, 304 included, is only given to a key that was alive when the *)
(* request arrived, for a certificate that was enabled meanwhile, within   *)
(* the scopes and certificates the key was created with: whatever number   *)
(* of requests, administrators and publications interleave with the steps  *)
(* of Authenticate and downloadBundle.                                     *)
THEOREM DownloadsAreAuthorized == Spec => []AnswerIsAuthorized
<1>1. DownloadsInv => AnswerIsAuthorized
  <2> SUFFICES ASSUME DownloadsInv, NEW r \in Requests, Answered(r)
               PROVE  LET shape == keys[req[r].key].shape IN
                      /\ ~req[r].dead /\ ~req[r].shut
                      /\ \A f \in req[r].files : {ScopeOf[f], "*"} \cap shape.scopes # {}
                      /\ shape.all \/ req[r].cert \in shape.certificates
    BY DEF AnswerIsAuthorized
  <2>1. req[r].pc \in {"ok", "unmodified"} /\ IsAuthorized(req[r])
    BY LocalsOf DEF Answered
  <2> QED
    BY <2>1 DEF IsAuthorized, Entitled
<1> QED
    BY <1>1, AlwaysSound, PTL

(* A body is the bundle asked for, of one version, and neither it nor a    *)
(* 304 is about a version older than the current one of the time when the  *)
(* request arrived.                                                        *)
THEOREM DownloadsAreCurrent == Spec => []AnswerIsCurrent
<1>1. DownloadsInv => AnswerIsCurrent
  <2> SUFFICES ASSUME DownloadsInv, NEW r \in Requests, Answered(r)
               PROVE  /\ req[r].version >= req[r].least
                      /\ versions[req[r].version] = req[r].cert
                      /\ req[r].pc = "ok" => req[r].body = [version |-> req[r].version, files |-> req[r].files]
    BY DEF AnswerIsCurrent
  <2>1. req[r].pc \in {"ok", "unmodified"} /\ IsCurrent(req[r]) /\ req[r] \in Locals
    BY LocalsOf DEF Answered
  <2>2. req[r].version \in Nat /\ req[r].least \in Nat
    BY <2>1 DEF Locals
  <2> QED
    BY <2>1, <2>2 DEF IsCurrent, VersionsOf
<1> QED
    BY <1>1, AlwaysSound, PTL

(* The bundle cache never exceeds its limit, whatever the lengths of the   *)
(* bundles: its size field is the sum of its entries through every hit and *)
(* eviction, and no bundle is kept twice.                                  *)
THEOREM CacheIsBounded == Spec => []CacheIsAccounted
<1>1. DownloadsInv => CacheIsAccounted
  <2> SUFFICES ASSUME DownloadsInv PROVE CacheIsAccounted
    OBVIOUS
  <2>1. DataOK /\ CacheOK
    BY DEF DownloadsInv
  <2>2. \A k \in DOMAIN keys :
          /\ keys[k].status \in {"active", "revoked", "deleted"}
          /\ keys[k].last \in Nat \cup {Never}
          /\ keys[k].status # "deleted" => keys[k].grants = keys[k].shape.certificates
    BY <2>1, KeyIsRow DEF DownloadsInv, GrantsAreCreated
  <2>3. ASSUME NEW i \in DOMAIN entries
        PROVE  entries[i].version \in DOMAIN versions /\ entries[i].files \in FileSets
    <3>1. entries[i] \in Bundles
      BY <2>1 DEF DataOK
    <3> QED
      BY <2>1, <3>1 DEF CacheOK, Bundles
  <2>4. \A r \in Requests : req[r].pc # "idle" =>
          req[r].key \in DOMAIN keys /\ req[r].cert \in Certs /\ req[r].files \in FileSets
    BY LocalsOf DEF IsWellFormed
  <2>5. TypeOK
    BY <2>1, <2>2, <2>3, <2>4 DEF TypeOK, DataOK
  <2> QED
    BY <2>1, <2>5 DEF CacheIsAccounted, CacheOK
<1> QED
    BY <1>1, AlwaysSound, PTL

(* Whenever a bundle is built that fits the cache, the eviction loop ends: *)
(* it makes room before it runs off the end of the list.                   *)
THEOREM EvictionEnds ==
    Spec => [](\A r \in Requests : req[r].pc = "read" /\ Length(BundleOf(r)) <= bundleCacheLimit
                 => \E n \in 0..Len(entries) : Evicted(n, Length(BundleOf(r))))
<1>1. ASSUME DownloadsInv, NEW r \in Requests, req[r].pc = "read", Length(BundleOf(r)) <= bundleCacheLimit
      PROVE  \E n \in 0..Len(entries) : Evicted(n, Length(BundleOf(r)))
  <2>1. BundleOf(r) \in Bundles
    <3>1. req[r] \in Locals /\ IsWellFormed(req[r])
      BY <1>1, LocalsOf
    <3>2. req[r].version \in Nat
      BY <3>1 DEF Locals
    <3> QED
      BY <3>1, <3>2 DEF IsWellFormed, BundleOf, Bundles
  <2>2. Length(BundleOf(r)) \in Nat
    BY <2>1, LengthIsNat
  <2>3. entries \in Seq(Bundles) /\ size = Totals(entries)[Len(entries)]
    BY <1>1 DEF DownloadsInv, DataOK, CacheOK
  <2> QED
    BY <1>1, <2>2, <2>3, EvictionStops
<1>2. DownloadsInv =>
        \A r \in Requests : req[r].pc = "read" /\ Length(BundleOf(r)) <= bundleCacheLimit
                 => \E n \in 0..Len(entries) : Evicted(n, Length(BundleOf(r)))
    BY <1>1
<1> QED
    BY <1>2, AlwaysSound, PTL

(* last_used_at moves forward, by a window or more each time, though many  *)
(* requests decide by a row they have read before others wrote it.         *)
THEOREM UsageSampling == Spec => UsageIsSampled
<1>1. ASSUME DownloadsInv, [Next]_vars, NEW k \in DOMAIN keys,
             keys'[k].last # keys[k].last, keys[k].last # Never
      PROVE  keys'[k].last >= keys[k].last + Window
  <2>1. DataOK /\ keys[k] \in KeyRows /\ keys[k].last \in Nat /\ Window \in Nat
    BY <1>1, KeyIsRow, SizesAssumption DEF DownloadsInv
  <2>2. keys \in Seq(KeyRows) /\ k \in 1..Len(keys) /\ Len(keys) \in Nat
    BY <1>1, <2>1 DEF DataOK
  <2>3. CASE UNCHANGED keys
    BY <1>1, <2>3
  <2>4. CASE Create
    BY <1>1, <2>2, <2>4 DEF Create
  <2>5. ASSUME NEW l \in DOMAIN keys, Revoke(l) \/ Delete(l) PROVE FALSE
    <3>1. keys[l] \in KeyRows
      BY <2>1, <2>5, KeyIsRow
    <3>2. keys'[k].last = keys[k].last
      BY <2>1, <2>2, <2>5, <3>1 DEF Revoke, Delete, KeyRows
    <3> QED
      BY <1>1, <3>2
  <2>6. ASSUME NEW r \in Requests, Stamp(r) PROVE keys'[k].last >= keys[k].last + Window
    <3>1. PICK l, at : l = req[r].key /\ at = req[r].at
      OBVIOUS
    <3>2. at \in Nat
      <4>1. req[r] \in Locals
        BY <1>1, LocalsOf
      <4> QED
        BY <3>1, <4>1 DEF Locals
    <3>3. keys' # keys
      BY <1>1
    <3>4. /\ keys[l].last = Never \/ keys[l].last <= at - Window
          /\ keys' = [keys EXCEPT ![l].last = at]
      BY <2>6, <3>1, <3>3 DEF Stamp
    <3>5. k = l /\ keys'[k].last = at
      BY <1>1, <2>1, <2>2, <3>4 DEF KeyRows
    <3> QED
      BY <1>1, <2>1, <3>2, <3>4, <3>5
  <2>7. \/ UNCHANGED keys \/ Create \/ \E l \in DOMAIN keys : Revoke(l) \/ Delete(l)
        \/ \E r \in Requests : Stamp(r)
    BY <1>1 DEF Next, vars, Tick, Restart, Publish, SwitchCertificate, Arrive, Handle, ReadGrants,
       StampFails, FindCertificate, ResolveVersion, GetArtifact, Hit, Miss, Fails
  <2> QED
    BY <2>3, <2>4, <2>5, <2>6, <2>7
<1>2. DownloadsInv /\ [Next]_vars =>
        [\A k \in DOMAIN keys :
          keys'[k].last # keys[k].last /\ keys[k].last # Never =>
              keys'[k].last >= keys[k].last + Window]_vars
    BY <1>1
<1> QED
    BY <1>2, AlwaysSound, PTL DEF Spec, UsageIsSampled

=============================================================================
