-------------------------- MODULE ClipboardProofs --------------------------
(***************************************************************************)
(* The clipboard channels answer a transfer at most once, leave nobody     *)
(* waiting for a buffer, and spread the bytes of a transfer over its       *)
(* formats exactly, for any number of channels, transfers, sizes and       *)
(* contents.  IInv is inductive, and SpreadInv beside it.                  *)
(***************************************************************************)
EXTENDS ClipboardChannel, FiniteSetTheorems, WellFoundedInduction, TLAPS

-----------------------------------------------------------------------------
(* How chunks are spread over the formats.                                 *)

\* A set of numbers that is not empty has a least one: what the proofs by induction
\* below rest on.
LEMMA Least ==
  ASSUME NEW T, T \subseteq Nat, T # {}
  PROVE  \E m \in T : \A k \in T : m <= k
<1> DEFINE R == OpToRel(<, Nat)
<1>1. IsWellFoundedOn(R, Nat)
  BY NatLessThanWellFounded
<1>2. \A x, y \in Nat : <<x, y>> \in R <=> x < y
  BY DEF OpToRel
<1> HIDE DEF R
<1>3. PICK x \in T : \A y \in T : ~(<<y, x>> \in R)
  BY <1>1, WFMin
<1>4. \A y \in T : ~(y < x)
  BY <1>2, <1>3
<1>5. \A y \in T : x <= y
  BY <1>4
<1>6. QED
  BY <1>5

\* Induction: a set of numbers with 0 and with each next one, up to a bound.
LEMMA Climb ==
  ASSUME NEW n \in Nat, NEW T, 0 \in T,
         \A k \in 0 .. n - 1 : k \in T => k + 1 \in T
  PROVE  0 .. n \subseteq T
<1> SUFFICES ASSUME ~(0 .. n \subseteq T) PROVE FALSE
  OBVIOUS
<1> DEFINE U == {k \in 0 .. n : k \notin T}
<1>1. PICK m \in U : \A k \in U : m <= k
  <2>1. U \subseteq Nat /\ U # {}
    OBVIOUS
  <2>2. QED
    BY ONLY <2>1, Least
<1>2. m # 0 /\ m - 1 \in 0 .. n - 1
  BY <1>1
<1>3. m - 1 \in T
  BY <1>1, <1>2
<1>4. m \in T
  BY <1>2, <1>3
<1>5. QED
  BY <1>1, <1>4

\* The sums of the sizes are what Before takes them for.
Sums(sizes, f) == f = [k \in 0 .. Len(sizes) |-> IF k = 0 THEN 0 ELSE f[k - 1] + sizes[k]]
Sum(sizes) == CHOOSE f : Sums(sizes, f)

LEMMA SumsExist ==
  ASSUME NEW sizes \in Seq(Nat)
  PROVE  Sums(sizes, Sum(sizes)) /\ Sum(sizes) \in [0 .. Len(sizes) -> Nat]
<1> DEFINE n == Len(sizes)
           To(m, f) == \A k \in 0 .. m : f[k] = IF k = 0 THEN 0 ELSE f[k - 1] + sizes[k]
           T == {m \in 0 .. n : \E f \in [0 .. n -> Nat] : To(m, f)}
<1>1. n \in Nat /\ \A k \in 1 .. n : sizes[k] \in Nat
  OBVIOUS
<1>2. 0 \in T
  <2> DEFINE z == [k \in 0 .. n |-> 0]
  <2>1. z \in [0 .. n -> Nat] /\ z[0] = 0
    BY <1>1
  <2> HIDE DEF z
  <2>2. To(0, z)
    BY <2>1
  <2>3. QED
    BY <1>1, <2>1, <2>2
<1>3. ASSUME NEW k \in 0 .. n - 1, k \in T PROVE k + 1 \in T
  <2>1. PICK f \in [0 .. n -> Nat] : To(k, f)
    BY <1>3
  <2>2. k \in 0 .. n /\ k + 1 \in 1 .. n /\ f[k] + sizes[k + 1] \in Nat
    <3>1. k \in 0 .. n /\ k + 1 \in 1 .. n
      BY <1>1
    <3>2. f[k] \in Nat /\ sizes[k + 1] \in Nat
      BY <1>1, <3>1
    <3>3. QED
      BY <3>1, <3>2
  <2> DEFINE g == [f EXCEPT ![k + 1] = f[k] + sizes[k + 1]]
  <2>3. /\ g \in [0 .. n -> Nat] /\ g[k + 1] = f[k] + sizes[k + 1]
        /\ \A j \in 0 .. n : j # k + 1 => g[j] = f[j]
    BY <1>1, <2>1, <2>2
  <2> HIDE DEF g
  <2>4. ASSUME NEW j \in 0 .. k + 1
        PROVE  g[j] = IF j = 0 THEN 0 ELSE g[j - 1] + sizes[j]
    <3>1. CASE j = k + 1
      BY <1>1, <2>2, <2>3, <3>1
    <3>2. CASE j \in 0 .. k
      <4>1. f[j] = IF j = 0 THEN 0 ELSE f[j - 1] + sizes[j]
        BY <2>1, <3>2
      <4>2. g[j] = f[j] /\ (j # 0 => g[j - 1] = f[j - 1])
        BY <1>1, <2>2, <2>3, <3>2
      <4>3. QED
        BY <4>1, <4>2
    <3>3. QED
      BY <2>2, <3>1, <3>2
  <2>5. To(k + 1, g)
    BY <2>4
  <2>6. k + 1 \in 0 .. n
    BY <1>1, <2>2
  <2> HIDE DEF To
  <2>7. QED
    BY <2>3, <2>5, <2>6
<1>4. n \in T
  <2> HIDE DEF T
  <2>1. 0 .. n \subseteq T
    BY <1>1, <1>2, <1>3, Climb
  <2>2. QED
    BY <1>1, <2>1
<1>5. PICK f \in [0 .. n -> Nat] : To(n, f)
  BY <1>4
<1>6. Sums(sizes, f)
  BY <1>1, <1>5 DEF Sums
<1>7. Sums(sizes, Sum(sizes))
  BY <1>6 DEF Sum
<1>8. Sum(sizes) \in [0 .. n -> Nat]
  <2> DEFINE s == Sum(sizes)
             V == {k \in 0 .. n : s[k] \in Nat}
  <2>1. s = [k \in 0 .. n |-> IF k = 0 THEN 0 ELSE s[k - 1] + sizes[k]]
    BY <1>7 DEF Sums
  <2> HIDE DEF s
  <2>2. s[0] = 0 /\ \A k \in 0 .. n - 1 : s[k + 1] = s[k] + sizes[k + 1]
    BY <1>1, <2>1
  <2>3. 0 \in V
    BY <1>1, <2>2
  <2>a. ASSUME NEW k \in 0 .. n - 1, k \in V PROVE k + 1 \in V
    <3>1. s[k] \in Nat /\ sizes[k + 1] \in Nat /\ k + 1 \in 0 .. n
      BY <1>1, <2>a
    <3>2. s[k + 1] = s[k] + sizes[k + 1]
      BY <2>2
    <3>3. QED
      BY <3>1, <3>2
  <2>4. 0 .. n \subseteq V
    <3> HIDE DEF V
    <3>1. QED
      BY <1>1, <2>3, <2>a, Climb
  <2>5. QED
    BY <2>1, <2>4 DEF s
<1>9. QED
  BY <1>7, <1>8

LEMMA BeforeIs ==
  ASSUME NEW sizes \in Seq(Nat)
  PROVE  /\ Before(sizes, 1) = 0
         /\ \A i \in 1 .. Len(sizes) + 1 : Before(sizes, i) \in Nat
         /\ \A i \in 1 .. Len(sizes) : Before(sizes, i + 1) = Before(sizes, i) + sizes[i]
<1>1. \A i : Before(sizes, i) = Sum(sizes)[i - 1]
  BY DEF Before, Sum, Sums
<1>2. Sums(sizes, Sum(sizes)) /\ Sum(sizes) \in [0 .. Len(sizes) -> Nat]
  BY SumsExist
<1> DEFINE s == Sum(sizes)
<1>3. s = [k \in 0 .. Len(sizes) |-> IF k = 0 THEN 0 ELSE s[k - 1] + sizes[k]]
  BY <1>2 DEF Sums
<1>4. s \in [0 .. Len(sizes) -> Nat] /\ Len(sizes) \in Nat
  BY <1>2
<1>5. \A i : Before(sizes, i) = s[i - 1]
  BY <1>1
<1> HIDE DEF s
<1>6. s[0] = 0 /\ \A i \in 1 .. Len(sizes) : s[i] = s[i - 1] + sizes[i]
  BY <1>3, <1>4
<1>7. Before(sizes, 1) = 0
  BY <1>5, <1>6
<1>8. \A i \in 1 .. Len(sizes) + 1 : Before(sizes, i) \in Nat
  BY <1>4, <1>5
<1>9. ASSUME NEW i \in 1 .. Len(sizes) PROVE Before(sizes, i + 1) = Before(sizes, i) + sizes[i]
  <2>1. (i + 1) - 1 = i
    OBVIOUS
  <2>2. QED
    BY <1>5, <1>6, <2>1
<1>10. QED
  BY <1>7, <1>8, <1>9

\* A later format begins later.
LEMMA BeforeGrows ==
  ASSUME NEW sizes \in Seq(Nat), NEW i \in 1 .. Len(sizes) + 1
  PROVE  \A j \in i .. Len(sizes) + 1 : Before(sizes, i) <= Before(sizes, j)
<1> DEFINE n == Len(sizes) + 1 - i
           T == {k \in 0 .. n : Before(sizes, i) <= Before(sizes, i + k)}
<1>1. Len(sizes) \in Nat /\ n \in Nat /\ (\A k \in 1 .. Len(sizes) : sizes[k] \in Nat)
  OBVIOUS
<1>2. 0 \in T
  <2>1. i + 0 = i /\ Before(sizes, i) \in Nat
    BY BeforeIs
  <2>2. QED
    BY <1>1, <2>1
<1>3. ASSUME NEW k \in 0 .. n - 1, k \in T PROVE k + 1 \in T
  <2>1. i + k \in 1 .. Len(sizes) /\ i + (k + 1) = (i + k) + 1 /\ k + 1 \in 0 .. n
    BY <1>1
  <2>2. /\ Before(sizes, (i + k) + 1) = Before(sizes, i + k) + sizes[i + k]
        /\ Before(sizes, i + k) \in Nat /\ sizes[i + k] \in Nat /\ Before(sizes, i) \in Nat
    BY <1>1, <2>1, BeforeIs
  <2>3. Before(sizes, i) <= Before(sizes, i + k)
    BY <1>3
  <2>4. Before(sizes, i) <= Before(sizes, (i + k) + 1)
    BY <2>2, <2>3
  <2>5. QED
    BY <2>1, <2>4
<1>4. 0 .. n \subseteq T
  <2> HIDE DEF T
  <2>1. QED
    BY <1>1, <1>2, <1>3, Climb
<1>5. ASSUME NEW j \in i .. Len(sizes) + 1 PROVE Before(sizes, i) <= Before(sizes, j)
  <2>1. j - i \in 0 .. n /\ i + (j - i) = j
    BY <1>1
  <2>2. j - i \in T
    BY <1>4, <2>1
  <2>3. QED
    BY <2>1, <2>2
<1>6. QED
  BY <1>5

\* The next format is found, and those that are skipped are empty.
LEMMA NextFormatIs ==
  ASSUME NEW sizes \in Seq(Nat), NEW from \in 1 .. Len(sizes) + 1
  PROVE  LET i == NextFormat(sizes, from) IN
         /\ i \in from .. Len(sizes) + 1 /\ (i # Len(sizes) + 1 => sizes[i] > 0)
         /\ \A j \in from .. i - 1 : sizes[j] = 0
<1> DEFINE n == Len(sizes)
           Takes(i) == i = n + 1 \/ sizes[i] > 0
           T == {i \in from .. n + 1 : Takes(i)}
<1>1. n \in Nat /\ \A k \in 1 .. n : sizes[k] \in Nat
  OBVIOUS
<1>2. PICK m \in T : \A k \in T : m <= k
  <2>1. T \subseteq Nat /\ n + 1 \in T
    BY <1>1
  <2>2. QED
    BY ONLY <2>1, Least
<1>3. ASSUME NEW j \in from .. m - 1 PROVE sizes[j] = 0
  <2>1. j \in 1 .. n /\ j \in from .. n + 1 /\ ~(m <= j) /\ j # n + 1
    BY <1>1, <1>2
  <2>2. j \notin T
    BY <1>2, <2>1
  <2>3. QED
    BY <1>1, <2>1, <2>2
<1>4. \E i \in from .. n + 1 : /\ i = n + 1 \/ sizes[i] > 0
                               /\ \A j \in from .. i - 1 : sizes[j] = 0
  BY <1>2, <1>3
<1>5. QED
  BY <1>4 DEF NextFormat

\* So skipping them passes no byte.
LEMMA NextFormatSkips ==
  ASSUME NEW sizes \in Seq(Nat), NEW from \in 1 .. Len(sizes) + 1
  PROVE  \A j \in from .. NextFormat(sizes, from) : Before(sizes, j) = Before(sizes, from)
<1> DEFINE i == NextFormat(sizes, from)
           n == i - from
           T == {k \in 0 .. n : Before(sizes, from + k) = Before(sizes, from)}
<1>1. i \in from .. Len(sizes) + 1 /\ \A j \in from .. i - 1 : sizes[j] = 0
  BY NextFormatIs
<1> HIDE DEF i
<1>2. Len(sizes) \in Nat /\ n \in Nat /\ i \in Nat
  BY <1>1
<1>3. 0 \in T
  <2>1. from + 0 = from
    OBVIOUS
  <2>2. QED
    BY <1>2, <2>1
<1>4. ASSUME NEW k \in 0 .. n - 1, k \in T PROVE k + 1 \in T
  <2>1. /\ from + k \in 1 .. Len(sizes) /\ from + (k + 1) = (from + k) + 1
        /\ k + 1 \in 0 .. n /\ from + k \in from .. i - 1
    BY <1>1, <1>2
  <2>2. sizes[from + k] = 0
    BY <1>1, <2>1
  <2>3. Before(sizes, (from + k) + 1) = Before(sizes, from + k) + sizes[from + k]
        /\ Before(sizes, from + k) \in Nat
    BY <2>1, BeforeIs
  <2>4. Before(sizes, (from + k) + 1) = Before(sizes, from)
    BY <1>4, <2>2, <2>3
  <2>5. QED
    BY <2>1, <2>4
<1>5. 0 .. n \subseteq T
  <2> HIDE DEF T
  <2>1. QED
    BY <1>2, <1>3, <1>4, Climb
<1>6. ASSUME NEW j \in from .. i PROVE Before(sizes, j) = Before(sizes, from)
  <2>1. j - from \in 0 .. n /\ from + (j - from) = j
    BY <1>1, <1>2
  <2>2. j - from \in T
    BY <1>5, <2>1
  <2>3. QED
    BY <2>1, <2>2
<1>7. QED
  BY <1>6 DEF i

\* The fields of a transfer and of a handler, by name.
LEMMA Fields ==
  /\ DOMAIN NoReceive = {"id", "sizes", "index", "written", "data", "arrived", "activity"}
  /\ DOMAIN Idle = {"at", "receive"}
  /\ NoReceive.id = 0 /\ NoReceive.activity = 0 /\ Idle.receive = NoReceive
  BY DEF NoReceive, Idle

\* A transfer is spread as the fields say that the loops of the handler work with.
LEMMA SameSpread ==
  ASSUME NEW r, NEW q, q.sizes = r.sizes, q.index = r.index, q.written = r.written,
         q.data = r.data, q.arrived = r.arrived
  PROVE  (Spread(q) <=> Spread(r)) /\ (Complete(q) <=> Complete(r))
  BY DEF Spread, Complete, Filled

\* The numbers of the bytes of a format, one more each time.
LEMMA NoBytes ==
  ASSUME NEW b \in Nat
  PROVE  [k \in 1 .. 0 |-> b + k] = <<>>
  OBVIOUS

LEMMA OneMore ==
  ASSUME NEW n \in Nat, NEW b \in Nat
  PROVE  Append([k \in 1 .. n |-> b + k], b + n + 1) = [k \in 1 .. n + 1 |-> b + k]
<1> DEFINE s == [k \in 1 .. n |-> b + k]
<1>1. s \in Seq(Nat) /\ Len(s) = n
  OBVIOUS
<1>2. Append(s, b + n + 1) = [k \in 1 .. Len(s) + 1 |-> IF k = Len(s) + 1 THEN b + n + 1 ELSE s[k]]
  <2> HIDE DEF s
  <2>1. QED
    BY <1>1
<1>3. QED
  BY <1>1, <1>2

\* The formats of a transfer that begins are empty.
LEMMA NewSpread ==
  ASSUME NEW id, NEW sizes \in Seq(Nat)
  PROVE  /\ Spread(NewReceive(id, sizes))
         /\ DOMAIN NewReceive(id, sizes) = DOMAIN NoReceive
<1> DEFINE r == NewReceive(id, sizes)
<1>1. /\ DOMAIN r = DOMAIN NoReceive
      /\ r.sizes = sizes /\ r.index = NextFormat(sizes, 1) /\ r.written = 0 /\ r.arrived = 0
      /\ r.data = [i \in 1 .. Len(sizes) |-> <<>>]
  BY DEF NewReceive, NoReceive
<1> HIDE DEF r
<1>2. /\ 1 \in 1 .. Len(sizes) + 1 /\ Len(sizes) \in Nat
      /\ \A i \in 1 .. Len(sizes) : sizes[i] \in Nat
  OBVIOUS
<1>3. /\ r.index \in 1 .. Len(sizes) + 1
      /\ r.index # Len(sizes) + 1 => sizes[r.index] > 0
      /\ \A j \in 1 .. r.index - 1 : sizes[j] = 0
  BY <1>1, <1>2, NextFormatIs
<1>4. Before(sizes, r.index) = 0
  <2>1. r.index \in 1 .. r.index
    BY <1>3
  <2>2. Before(sizes, r.index) = Before(sizes, 1)
    BY <1>1, <1>2, <2>1, NextFormatSkips
  <2>3. QED
    BY <2>2, BeforeIs
<1>5. \A i \in 1 .. Len(sizes) : Filled(r, i) = 0
  BY <1>1, <1>2, <1>3 DEF Filled
<1>6. ASSUME NEW i \in 1 .. Len(sizes)
      PROVE  r.data[i] = [k \in 1 .. Filled(r, i) |-> Before(sizes, i) + k]
  <2>1. Before(sizes, i) \in Nat
    BY <1>2, BeforeIs
  <2>2. r.data[i] = <<>>
    BY <1>1
  <2>3. QED
    BY <1>5, <2>1, <2>2, NoBytes
<1>7. Spread(r)
  BY <1>1, <1>2, <1>3, <1>4, <1>6 DEF Spread, Complete
<1>8. QED
  BY <1>1, <1>7 DEF r

\* One byte goes where it belongs.
LEMMA PutByteSpread ==
  ASSUME NEW r, Spread(r), DOMAIN r = DOMAIN NoReceive, ~Complete(r)
  PROVE  LET q == PutByte(r) IN
         Spread(q) /\ DOMAIN q = DOMAIN NoReceive /\ q.sizes = r.sizes
<1> DEFINE q == PutByte(r)
           s == r.sizes
           n == Len(s)
           j == r.index
           w == r.written
           b == Before(s, j)
<1>1. /\ DOMAIN q = DOMAIN NoReceive
      /\ q.sizes = s /\ q.arrived = r.arrived + 1
      /\ q.written = IF w + 1 = s[j] THEN 0 ELSE w + 1
      /\ q.index = IF w + 1 = s[j] THEN NextFormat(s, j + 1) ELSE j
      /\ q.data = [r.data EXCEPT ![j] = Append(r.data[j], r.arrived + 1)]
  BY Fields DEF PutByte
<1> HIDE DEF q
<1>2. /\ s \in Seq(Nat) /\ n \in Nat /\ n = Len(s) /\ j \in 1 .. n /\ s[j] \in Nat
      /\ w \in Nat /\ w < s[j]
  BY DEF Spread, Complete
<1>a. r.arrived = b + w
  BY DEF Spread
<1>b. /\ DOMAIN r.data = 1 .. n
      /\ \A i \in 1 .. n : r.data[i] = [k \in 1 .. Filled(r, i) |-> Before(s, i) + k]
      /\ \A i \in 1 .. n : Filled(r, i) = IF i < j THEN s[i] ELSE IF i = j THEN w ELSE 0
  BY DEF Spread, Filled
<1>3. b \in Nat /\ Before(s, j + 1) = b + s[j] /\ b = Before(s, j)
  BY <1>2, BeforeIs
<1> HIDE DEF s, n, j, w, b
<1>4. DOMAIN q.data = 1 .. n /\ (\A i \in 1 .. n : i # j => q.data[i] = r.data[i])
  BY <1>1, <1>2, <1>b
<1>5. q.data[j] = [k \in 1 .. w + 1 |-> b + k]
  <2>1. r.data[j] = [k \in 1 .. w |-> b + k]
    <3>1. r.data[j] = [k \in 1 .. Filled(r, j) |-> Before(s, j) + k] /\ Filled(r, j) = w
      BY <1>2, <1>b
    <3>2. QED
      BY <1>3, <3>1
  <2>2. q.data[j] = Append(r.data[j], b + w + 1)
    BY <1>1, <1>2, <1>a, <1>b
  <2>3. Append([k \in 1 .. w |-> b + k], b + w + 1) = [k \in 1 .. w + 1 |-> b + k]
    BY <1>2, <1>3, OneMore
  <2>4. QED
    BY <2>1, <2>2, <2>3
<1>c. q.sizes = s /\ s \in Seq(Nat) /\ n = Len(s)
  BY <1>1, <1>2
<1>6. ASSUME \A i \in 1 .. n : Filled(q, i) = IF i = j THEN w + 1 ELSE Filled(r, i)
      PROVE  \A i \in 1 .. n : q.data[i] = [k \in 1 .. Filled(q, i) |-> Before(s, i) + k]
  <2>1. ASSUME NEW i \in 1 .. n, i # j
        PROVE  q.data[i] = [k \in 1 .. Filled(q, i) |-> Before(s, i) + k]
    <3>1. q.data[i] = r.data[i] /\ Filled(q, i) = Filled(r, i)
      BY <1>4, <1>6, <2>1
    <3>2. QED
      BY <1>b, <3>1
  <2>2. q.data[j] = [k \in 1 .. Filled(q, j) |-> Before(s, j) + k]
    <3>1. Filled(q, j) = w + 1
      BY <1>2, <1>6
    <3>2. QED
      BY <1>3, <1>5, <3>1
  <2>3. QED
    BY <2>1, <2>2
<1>7. CASE w + 1 # s[j]
  <2>1. q.index = j /\ q.written = w + 1
    BY <1>1, <1>7
  <2>2. \A i \in 1 .. n : Filled(q, i) = IF i = j THEN w + 1 ELSE Filled(r, i)
    BY <1>1, <1>2, <1>b, <2>1 DEF Filled
  <2>3. w + 1 < s[j] /\ j \in 1 .. n + 1 /\ w + 1 \in Nat
    BY <1>2, <1>7
  <2>4. r.arrived + 1 = b + (w + 1)
    BY <1>2, <1>3, <1>a
  <2>5. ~Complete(q)
    BY <1>1, <1>2, <2>1 DEF Complete
  <2>6. \A i \in 1 .. n : q.data[i] = [k \in 1 .. Filled(q, i) |-> Before(s, i) + k]
    BY <1>6, <2>2
  <2>7. q.arrived = Before(s, q.index) + q.written
    BY <1>1, <1>3, <2>1, <2>4
  <2>8. q.index \in 1 .. n + 1 /\ q.written \in Nat /\ q.written < s[q.index]
    BY <2>1, <2>3
  <2>9. Spread(q)
    BY ONLY <1>c, <1>4, <2>5, <2>6, <2>7, <2>8 DEF Spread
  <2>10. QED
    BY <1>1, <2>9 DEF q, s
<1>8. CASE w + 1 = s[j]
  <2>1. q.index = NextFormat(s, j + 1) /\ q.written = 0
    BY <1>1, <1>8
  <2>2. s \in Seq(Nat) /\ j + 1 \in 1 .. Len(s) + 1
    BY <1>2
  <2>3. /\ q.index \in j + 1 .. Len(s) + 1
        /\ q.index # Len(s) + 1 => s[q.index] > 0
        /\ \A i \in j + 1 .. q.index - 1 : s[i] = 0
    BY ONLY <2>1, <2>2, NextFormatIs
  <2>4. Before(s, q.index) = Before(s, j + 1)
    <3>1. q.index \in j + 1 .. q.index
      BY <1>2, <2>3
    <3>2. QED
      BY ONLY <2>1, <2>2, <3>1, NextFormatSkips
  <2>5. q.arrived = Before(s, q.index) + q.written
    BY <1>1, <1>2, <1>3, <1>a, <1>8, <2>1, <2>4
  <2>6. \A i \in 1 .. n : Filled(q, i) = IF i = j THEN w + 1 ELSE Filled(r, i)
    <3>1. ASSUME NEW i \in 1 .. n
          PROVE  Filled(q, i) = IF i = j THEN w + 1 ELSE Filled(r, i)
      <4>1. CASE i <= j
        BY <1>1, <1>2, <1>b, <1>8, <2>1, <2>3, <4>1 DEF Filled
      <4>2. CASE i > j
        <5>1. Filled(r, i) = 0
          BY <1>2, <1>b, <4>2
        <5>2. i < q.index => s[i] = 0
          BY <1>2, <2>3, <4>2
        <5>3. Filled(q, i) = 0
          BY <1>1, <2>1, <5>2 DEF Filled
        <5>4. QED
          BY <1>2, <4>2, <5>1, <5>3
      <4>3. QED
        BY <1>2, <4>1, <4>2
    <3>2. QED
      BY <3>1
  <2>7. IF Complete(q) THEN q.written = 0 ELSE q.written < q.sizes[q.index]
    BY <1>1, <1>2, <2>1, <2>3 DEF Complete
  <2>8. q.index \in 1 .. Len(s) + 1
    BY <1>2, <2>3
  <2>9. \A i \in 1 .. n : q.data[i] = [k \in 1 .. Filled(q, i) |-> Before(s, i) + k]
    BY <1>6, <2>6
  <2>10. q.written \in Nat
    BY <2>1
  <2>11. Spread(q)
    BY ONLY <1>c, <1>4, <2>5, <2>7, <2>8, <2>9, <2>10 DEF Spread
  <2>12. QED
    BY <1>1, <2>11 DEF q, s
<1>9. QED
  BY <1>1, <1>7, <1>8 DEF q, s

\* A chunk is spread byte by byte.
Steps(r, length, f) ==
  f = [n \in 0 .. length |->
         IF n = 0 THEN r ELSE IF Complete(f[n - 1]) THEN f[n - 1] ELSE PutByte(f[n - 1])]
Stepped(r, length) == CHOOSE f : Steps(r, length, f)

LEMMA StepsExist ==
  ASSUME NEW r, NEW length \in Nat
  PROVE  Steps(r, length, Stepped(r, length))
<1> DEFINE Then(q) == IF Complete(q) THEN q ELSE PutByte(q)
           To(m, f) == \A k \in 0 .. m : f[k] = IF k = 0 THEN r ELSE Then(f[k - 1])
           T == {m \in 0 .. length : \E f : To(m, f)}
<1> HIDE DEF Then
<1>1. 0 \in T
  <2> DEFINE z == [k \in 0 .. length |-> r]
  <2>1. z[0] = r
    OBVIOUS
  <2> HIDE DEF z
  <2>2. To(0, z)
    BY <2>1
  <2>3. QED
    BY <2>2
<1>2. ASSUME NEW k \in 0 .. length - 1, k \in T PROVE k + 1 \in T
  <2>1. PICK f : To(k, f)
    BY <1>2
  <2> DEFINE g == [j \in 0 .. length |-> IF j = k + 1 THEN Then(f[k]) ELSE f[j]]
  <2>2. /\ g[k + 1] = Then(f[k])
        /\ \A j \in 0 .. length : j # k + 1 => g[j] = f[j]
    OBVIOUS
  <2> HIDE DEF g
  <2>3. ASSUME NEW j \in 0 .. k + 1
        PROVE  g[j] = IF j = 0 THEN r ELSE Then(g[j - 1])
    <3>1. CASE j = k + 1
      BY <2>2, <3>1
    <3>2. CASE j \in 0 .. k
      <4>1. f[j] = IF j = 0 THEN r ELSE Then(f[j - 1])
        BY <2>1, <3>2
      <4>2. g[j] = f[j] /\ (j # 0 => g[j - 1] = f[j - 1])
        BY <2>2, <3>2
      <4>3. QED
        BY <4>1, <4>2
    <3>3. QED
      BY <3>1, <3>2
  <2>4. To(k + 1, g)
    BY <2>3
  <2>5. k + 1 \in 0 .. length
    OBVIOUS
  <2> HIDE DEF To
  <2>6. QED
    BY <2>4, <2>5
<1>3. length \in T
  <2> HIDE DEF T
  <2>1. 0 .. length \subseteq T
    BY <1>1, <1>2, Climb
  <2>2. QED
    BY <2>1
<1>4. PICK f : To(length, f)
  BY <1>3
<1> DEFINE h == [k \in 0 .. length |-> f[k]]
<1>5. h = [n \in 0 .. length |-> IF n = 0 THEN r ELSE Then(h[n - 1])]
  BY <1>4
<1>6. Steps(r, length, h)
  <2> HIDE DEF h
  <2>1. QED
    BY <1>5 DEF Steps, Then
<1>7. QED
  BY <1>6 DEF Stepped

LEMMA FillSpread ==
  ASSUME NEW r, Spread(r), DOMAIN r = DOMAIN NoReceive, NEW length \in Nat
  PROVE  LET q == Fill(r, length) IN
         Spread(q) /\ DOMAIN q = DOMAIN NoReceive /\ q.sizes = r.sizes
<1> DEFINE f == Stepped(r, length)
           Good(q) == Spread(q) /\ DOMAIN q = DOMAIN NoReceive /\ q.sizes = r.sizes
           T == {k \in 0 .. length : Good(f[k])}
<1>1. Fill(r, length) = f[length]
  BY DEF Fill, Stepped, Steps
<1>2. f = [n \in 0 .. length |->
             IF n = 0 THEN r ELSE IF Complete(f[n - 1]) THEN f[n - 1] ELSE PutByte(f[n - 1])]
  BY StepsExist DEF Steps
<1> HIDE DEF f
<1>3. f[0] = r /\ \A k \in 0 .. length - 1 :
        f[k + 1] = IF Complete(f[k]) THEN f[k] ELSE PutByte(f[k])
  BY <1>2
<1>4. 0 \in T
  BY <1>3
<1>5. ASSUME NEW k \in 0 .. length - 1, k \in T PROVE k + 1 \in T
  <2>1. Good(f[k]) /\ k + 1 \in 0 .. length
    BY <1>5
  <2>2. Good(f[k + 1])
    <3>1. CASE Complete(f[k])
      BY <1>3, <2>1, <3>1
    <3>2. CASE ~Complete(f[k])
      <4>1. Good(PutByte(f[k]))
        BY <2>1, <3>2, PutByteSpread
      <4>2. f[k + 1] = PutByte(f[k])
        BY <1>3, <3>2
      <4> HIDE DEF Good
      <4>3. QED
        BY <4>1, <4>2
    <3>3. QED
      BY <3>1, <3>2
  <2> HIDE DEF Good
  <2>3. QED
    BY <2>1, <2>2
<1>6. length \in T
  <2> HIDE DEF T
  <2>1. 0 .. length \subseteq T
    BY <1>4, <1>5, Climb
  <2>2. QED
    BY <2>1
<1>7. QED
  BY <1>1, <1>6

\* What is spread so is what the declaration says.
LEMMA SpreadExact ==
  ASSUME NEW r, Spread(r)
  PROVE  /\ \A i \in 1 .. Len(r.sizes) :
              r.data[i] = [k \in 1 .. Part(r, i) |-> Before(r.sizes, i) + k]
         /\ Complete(r) => r.arrived = Before(r.sizes, Len(r.sizes) + 1)
<1> DEFINE s == r.sizes
           n == Len(s)
           j == r.index
           w == r.written
           a == r.arrived
<1>1. /\ s \in Seq(Nat) /\ n \in Nat /\ n = Len(s) /\ j \in 1 .. n + 1
      /\ w \in Nat /\ a = Before(s, j) + w
      /\ (j = n + 1 => w = 0) /\ (j # n + 1 => w < s[j])
  BY DEF Spread, Complete
<1>2. /\ \A i \in 1 .. n + 1 : Before(s, i) \in Nat
      /\ \A i \in 1 .. n : s[i] \in Nat
      /\ \A i \in 1 .. n : Before(s, i + 1) = Before(s, i) + s[i]
      /\ \A i \in 1 .. n + 1 : \A k \in i .. n + 1 : Before(s, i) <= Before(s, k)
  <2>1. s \in Seq(Nat) /\ n = Len(s)
    BY <1>1
  <2> HIDE DEF s, n
  <2>2. \A i \in 1 .. n : s[i] \in Nat
    BY <2>1
  <2>3. /\ \A i \in 1 .. n + 1 : Before(s, i) \in Nat
        /\ \A i \in 1 .. n : Before(s, i + 1) = Before(s, i) + s[i]
    BY ONLY <2>1, BeforeIs
  <2>4. \A i \in 1 .. n + 1 : \A k \in i .. n + 1 : Before(s, i) <= Before(s, k)
    BY ONLY <2>1, BeforeGrows
  <2>5. QED
    BY <2>2, <2>3, <2>4
<1>3. \A i : /\ Filled(r, i) = IF i < j THEN s[i] ELSE IF i = j THEN w ELSE 0
            /\ Part(r, i) = IF a - Before(s, i) < 0 THEN 0
                            ELSE IF a - Before(s, i) > s[i] THEN s[i] ELSE a - Before(s, i)
  BY DEF Filled, Part
<1> HIDE DEF s, n, j, w, a
<1>4. ASSUME NEW i \in 1 .. n PROVE Filled(r, i) = Part(r, i)
  <2>1. /\ i \in 1 .. n + 1 /\ i + 1 \in 1 .. n + 1 /\ i \in Nat
    BY <1>1
  <2>2. /\ Before(s, i) \in Nat /\ Before(s, j) \in Nat /\ s[i] \in Nat
        /\ Before(s, i + 1) = Before(s, i) + s[i]
    BY <1>1, <1>2, <2>1
  <2>3. CASE i < j
    <3>1. j \in i + 1 .. n + 1
      BY <1>1, <2>1, <2>3
    <3>2. Before(s, i + 1) <= Before(s, j)
      BY <1>2, <2>1, <3>1
    <3>3. a - Before(s, i) >= s[i] /\ a - Before(s, i) \in Int
      <4>1. a = Before(s, j) + w /\ w \in Nat
        BY <1>1
      <4>2. QED
        BY ONLY <2>2, <3>2, <4>1
    <3>4. Part(r, i) = s[i]
      BY <1>3, <2>2, <3>3
    <3>5. QED
      BY <1>3, <2>3, <3>4
  <2>4. CASE i = j
    <3>1. a - Before(s, i) = w /\ w < s[i]
      BY <1>1, <2>1, <2>2, <2>4
    <3>2. Part(r, i) = w
      <4>1. ~(w < 0) /\ ~(w > s[i])
        <5>1. w \in Nat
          BY <1>1
        <5>2. QED
          BY ONLY <2>2, <3>1, <5>1
      <4>2. QED
        BY <1>3, <3>1, <4>1
    <3>3. QED
      BY <1>1, <1>3, <2>4, <3>2
  <2>5. CASE i > j
    <3>1. j \in 1 .. n /\ j + 1 \in 1 .. n + 1 /\ i \in j + 1 .. n + 1 /\ j # n + 1
      BY <1>1, <2>1, <2>5
    <3>2. Before(s, j + 1) <= Before(s, i) /\ Before(s, j + 1) = Before(s, j) + s[j]
          /\ s[j] \in Nat /\ w < s[j]
      BY <1>1, <1>2, <3>1
    <3>3. a - Before(s, i) < 0
      <4>1. a = Before(s, j) + w /\ w \in Nat
        BY <1>1
      <4>2. QED
        BY ONLY <2>2, <3>2, <4>1
    <3>4. Part(r, i) = 0
      BY <1>3, <3>3
    <3>5. QED
      BY <1>1, <1>3, <2>1, <2>5, <3>4
  <2>6. QED
    BY <1>1, <2>1, <2>3, <2>4, <2>5
<1>5. \A i \in 1 .. Len(r.sizes) :
        r.data[i] = [k \in 1 .. Part(r, i) |-> Before(r.sizes, i) + k]
  <2>1. \A i \in 1 .. Len(r.sizes) : Filled(r, i) = Part(r, i)
    BY <1>4 DEF n, s
  <2>2. QED
    BY <2>1 DEF Spread
<1>6. Complete(r) => r.arrived = Before(r.sizes, Len(r.sizes) + 1)
  <2> SUFFICES ASSUME Complete(r) PROVE a = Before(s, n + 1)
    BY DEF a, s, n
  <2>1. j > n
    BY DEF Complete, j, n, s
  <2>2. j = n + 1
    BY <1>1, <2>1
  <2>3. Before(s, n + 1) \in Nat /\ w = 0
    BY <1>1, <1>2, <2>2
  <2>4. QED
    BY <1>1, <2>2, <2>3
<1>7. QED
  BY <1>5, <1>6

-----------------------------------------------------------------------------
(* Who holds a transfer.                                                   *)

USE ChannelAssumption
USE DEF receiveVars, channelVars, sendVars

Fewer(id) ==
  /\ Receiving(id)' \subseteq Receiving(id)
  /\ Handling(id)' \subseteq Handling(id)
  /\ Expired(id)' \subseteq Expired(id)

\* Nobody new holds a transfer that goes on.
LEMMA FewerHolders ==
  ASSUME NEW id \in 1 .. MaxHeaders, HeldOnce(id), Fewer(id), answers'[id] = answers[id],
         headers \in Nat, headers' \in Nat, headers <= headers'
  PROVE  HeldOnce(id)'
  BY DEF HeldOnce, Fewer

\* What no step about transfers has changed.
LEMMA SameTransfers ==
  ASSUME ReceiveTypes, OneHolder, UNCHANGED receiveVars
  PROVE  ReceiveTypes' /\ OneHolder'
<1>1. ReceiveTypes'
  BY DEF ReceiveTypes, Transfer
<1>2. \A id \in 1 .. MaxHeaders : Fewer(id)
  BY DEF Fewer, Receiving, Handling, Expired
<1>3. OneHolder'
  BY <1>2, FewerHolders DEF OneHolder, ReceiveTypes
<1>4. QED
  BY <1>1, <1>3

\* A timer that starts again has not expired.
LEMMA ArmedTimers ==
  ASSUME ReceiveTypes, NEW c \in Channels, NEW r, Transfer(r)
  PROVE  /\ Armed(c, r) \subseteq [channel : Channels, id : 0 .. headers, activity : Nat,
                                   at : TimerSteps]
         /\ \A t \in Armed(c, r) : t.at = "answer" => t \in timers
  BY DEF Armed, Stopped, Transfer, ReceiveTypes, TimerSteps

-----------------------------------------------------------------------------
(* The timer.                                                              *)

\* A timer that fires holds nothing yet.
LEMMA TimerFiresKeeps ==
  ASSUME ReceiveTypes, OneHolder, NEW t, TimerFires(t)
  PROVE  ReceiveTypes' /\ OneHolder'
<1>1. timers' \subseteq [channel : Channels, id : 0 .. headers, activity : Nat, at : TimerSteps]
  BY DEF TimerFires, TimerAt, ReceiveTypes, TimerSteps
<1>2. ReceiveTypes'
  BY <1>1 DEF TimerFires, ReceiveTypes, Transfer
<1>3. [t EXCEPT !.at = "fired"].at = "fired"
  BY DEF TimerFires, ReceiveTypes
<1>4. \A id \in 1 .. MaxHeaders : Fewer(id)
  BY <1>3 DEF TimerFires, TimerAt, Fewer, Receiving, Handling, Expired
<1>5. OneHolder'
  BY <1>2, <1>4, FewerHolders DEF OneHolder, ReceiveTypes, TimerFires
<1>6. QED
  BY <1>2, <1>5

\* A transfer that is given up passes from its channel to the timer.
LEMMA TimerRunsKeeps ==
  ASSUME ReceiveTypes, OneHolder, NEW t, TimerRuns(t)
  PROVE  ReceiveTypes' /\ OneHolder'
<1>1. /\ t \in timers /\ t \in [channel : Channels, id : 0 .. headers, activity : Nat,
                                at : TimerSteps]
      /\ UNCHANGED <<handler, headers, answers>>
  BY DEF TimerRuns, ReceiveTypes
<1>2. CASE TimerExpires(t)
  <2> DEFINE u == [t EXCEPT !.at = "answer"]
             c == t.channel
  <2>1. /\ timers' = (timers \ {t}) \cup {u}
        /\ receive' = [receive EXCEPT ![c] = NoReceive] /\ receive[c].id = t.id
    BY <1>2 DEF TimerRuns, TimerAt, TimerExpires
  <2>2. /\ u \in [channel : Channels, id : 0 .. headers, activity : Nat, at : TimerSteps]
        /\ u.at = "answer" /\ u.id = t.id
    BY <1>1 DEF TimerSteps
  <2>3. /\ DOMAIN receive' = Channels /\ receive'[c] = NoReceive
        /\ \A d \in Channels \ {c} : receive'[d] = receive[d]
    BY <1>1, <2>1 DEF ReceiveTypes
  <2>4. ReceiveTypes'
    <3>1. timers' \subseteq [channel : Channels, id : 0 .. headers, activity : Nat,
                             at : TimerSteps]
      BY <2>1, <2>2 DEF ReceiveTypes
    <3>2. \A d \in Channels \ {c} : Transfer(receive'[d])
      BY <2>3 DEF ReceiveTypes
    <3>3. Transfer(NoReceive)
      BY Fields DEF ReceiveTypes, Transfer
    <3>4. \A d \in Channels : Transfer(receive'[d])
      BY <2>3, <3>2, <3>3
    <3>5. QED
      BY <1>1, <2>3, <3>1, <3>4 DEF ReceiveTypes, Transfer
  <2>5. ASSUME NEW id \in 1 .. MaxHeaders
        PROVE  HeldOnce(id)'
    <3>1. HeldOnce(id)
      BY DEF OneHolder
    <3>2. Receiving(id)' \subseteq Receiving(id) \ {c} /\ Handling(id)' = Handling(id)
      BY <1>1, <2>3, Fields DEF Receiving, Handling
    <3>3. CASE id # t.id
      <4>1. Expired(id)' \subseteq Expired(id)
        BY <2>1, <2>2, <3>3 DEF Expired
      <4>2. QED
        BY <1>1, <3>1, <3>2, <4>1, FewerHolders DEF Fewer, ReceiveTypes
    <3>4. CASE id = t.id
      <4>1. c \in Receiving(id)
        BY <1>1, <2>1, <3>4 DEF Receiving
      <4>2. Handling(id) = {} /\ Expired(id) = {} /\ Receiving(id)' = {}
        BY <3>1, <3>2, <4>1 DEF HeldOnce
      <4>3. Expired(id)' \subseteq {u}
        BY <2>1, <4>2 DEF Expired
      <4>4. ~(answers[id] = 1) /\ ~(id > headers)
        BY <3>1, <4>1 DEF HeldOnce
      <4>5. QED
        BY <1>1, <3>2, <4>2, <4>3, <4>4 DEF HeldOnce
    <3>5. QED
      BY <3>3, <3>4
  <2>6. QED
    BY <2>4, <2>5 DEF OneHolder
<1>3. CASE ~TimerExpires(t)
  <2>1. timers' = timers \ {t} /\ receive' = receive
    BY <1>3 DEF TimerRuns
  <2>2. ReceiveTypes'
    BY <1>1, <2>1 DEF ReceiveTypes, Transfer
  <2>3. \A id \in 1 .. MaxHeaders : Fewer(id)
    BY <1>1, <2>1 DEF Fewer, Receiving, Handling, Expired
  <2>4. OneHolder'
    BY <1>1, <2>2, <2>3, FewerHolders DEF OneHolder, ReceiveTypes
  <2>5. QED
    BY <2>2, <2>4
<1>4. QED
  BY <1>2, <1>3

\* The timer answers for the transfer that it has given up, once.
LEMMA TimerAnswersKeeps ==
  ASSUME ReceiveTypes, OneHolder, NEW t, TimerAnswers(t)
  PROVE  ReceiveTypes' /\ OneHolder'
<1>1. /\ t \in timers /\ t.at = "answer" /\ timers' = timers \ {t}
      /\ UNCHANGED <<receive, handler, headers>>
      /\ answers' = [answers EXCEPT ![t.id] = @ + 1]
  BY DEF TimerAnswers
<1>2. ASSUME NEW id \in 1 .. MaxHeaders
      PROVE  HeldOnce(id)' /\ answers'[id] \in {0, 1}
  <2>1. HeldOnce(id) /\ answers[id] \in {0, 1}
    BY DEF OneHolder, ReceiveTypes
  <2>2. Fewer(id)
    BY <1>1 DEF Fewer, Receiving, Handling, Expired
  <2>3. CASE id # t.id
    BY <1>1, <2>1, <2>2, <2>3, FewerHolders DEF ReceiveTypes
  <2>4. CASE id = t.id
    <3>1. t \in Expired(id)
      BY <1>1, <2>4 DEF Expired
    <3>2. answers[id] = 0 /\ ~(id > headers) /\ Receiving(id) = {} /\ Handling(id) = {}
          /\ \A s \in Expired(id) : s = t
      BY <2>1, <3>1 DEF HeldOnce
    <3>3. Expired(id)' = {} /\ answers'[id] = 1
      BY <1>1, <2>4, <3>2 DEF Expired, ReceiveTypes
    <3>4. QED
      BY <1>1, <2>2, <3>2, <3>3 DEF HeldOnce, Fewer
  <2>5. QED
    BY <2>3, <2>4
<1>3. answers' \in [1 .. MaxHeaders -> {0, 1}]
  <2>1. answers' = [id \in 1 .. MaxHeaders |-> answers'[id]]
    BY <1>1 DEF ReceiveTypes
  <2>2. QED
    BY <1>2, <2>1
<1>4. ReceiveTypes'
  BY <1>1, <1>3 DEF ReceiveTypes, Transfer
<1>5. QED
  BY <1>2, <1>4 DEF OneHolder

-----------------------------------------------------------------------------
(* The handler of a channel.                                               *)

\* In a step of one channel, its handler has h and its transfer is r.
ChannelStep(c, h, r) ==
  /\ DOMAIN handler' = Channels /\ handler'[c] = h
  /\ DOMAIN receive' = Channels /\ receive'[c] = r
  /\ \A d \in Channels \ {c} : handler'[d] = handler[d] /\ receive'[d] = receive[d]
  /\ UNCHANGED answers

\* The transfers of the channel were its own, or one of them is new.
Passes(c, h, r) ==
  /\ r.id \in {0, receive[c].id, handler[c].receive.id}
  /\ \/ h.receive.id \in {0, receive[c].id, handler[c].receive.id}
     \/ h.receive.id = headers' /\ headers' > headers
  /\ \/ r.id = 0 \/ h.receive.id # r.id
     \/ r.id = receive[c].id /\ h.receive.id = handler[c].receive.id

\* A transfer, and the timers, as a step leaves them.
Shape(r) == DOMAIN r = DOMAIN NoReceive /\ r.id \in 0 .. headers' /\ r.activity \in Nat
TimersStep ==
  /\ timers' \subseteq [channel : Channels, id : 0 .. headers, activity : Nat, at : TimerSteps]
  /\ \A t \in timers' : t.at = "answer" => t \in timers

\* A step of one channel that passes a transfer on, or begins a new one, leaves one holder
\* to each.
LEMMA ChannelStepKeeps ==
  ASSUME ReceiveTypes, OneHolder, NEW c \in Channels, NEW h, NEW r, ChannelStep(c, h, r),
         Passes(c, h, r),
         DOMAIN h = DOMAIN Idle, headers' \in 0 .. MaxHeaders, headers <= headers',
         Shape(r), Shape(h.receive), TimersStep
  PROVE  ReceiveTypes' /\ OneHolder'
<1>1. ReceiveTypes'
  <2>1. \A d \in Channels : /\ Transfer(receive[d])' /\ Transfer(handler[d].receive)'
                            /\ DOMAIN handler'[d] = DOMAIN Idle
    <3>1. \A d \in Channels \ {c} : /\ Transfer(receive[d])' /\ Transfer(handler[d].receive)'
                                     /\ DOMAIN handler'[d] = DOMAIN Idle
      <4>1. headers \in Nat /\ 0 .. headers \subseteq 0 .. headers'
        BY DEF ReceiveTypes
      <4>2. QED
        BY <4>1 DEF ChannelStep, ReceiveTypes, Transfer
    <3>2. Transfer(receive[c])' /\ Transfer(handler[c].receive)' /\ DOMAIN handler'[c] = DOMAIN Idle
      BY DEF ChannelStep, Transfer, Shape
    <3>3. QED
      BY <3>1, <3>2
  <2>2. timers' \subseteq [channel : Channels, id : 0 .. headers', activity : Nat,
                           at : TimerSteps]
    BY DEF ReceiveTypes, TimersStep
  <2>3. QED
    BY <2>1, <2>2 DEF ChannelStep, ReceiveTypes
<1>2. ASSUME NEW id \in 1 .. MaxHeaders
      PROVE  HeldOnce(id)'
  <2>1. HeldOnce(id)
    BY DEF OneHolder
  <2>2. Expired(id)' \subseteq Expired(id)
    BY DEF Expired, TimersStep
  <2>3. /\ Receiving(id) \ {c} = Receiving(id)' \ {c}
        /\ Handling(id) \ {c} = Handling(id)' \ {c}
    BY DEF Receiving, Handling, ChannelStep
  <2>4. CASE receive[c].id = id
    <3>1. /\ Handling(id) = {} /\ Expired(id) = {} /\ Receiving(id) = {c}
          /\ answers[id] # 1 /\ ~(id > headers)
      BY <2>1, <2>4 DEF HeldOnce, Receiving
    <3>2. Receiving(id)' \subseteq {c} /\ Handling(id)' \subseteq {c} /\ Expired(id)' = {}
      BY <2>2, <2>3, <3>1
    <3>3. Receiving(id)' = {} \/ Handling(id)' = {}
      <4>1. handler[c].receive.id # id
        BY <3>1 DEF Handling
      <4>2. r.id # id \/ h.receive.id # id
        BY <2>4, <4>1 DEF Passes
      <4>3. r.id # id => Receiving(id)' = {}
        BY <3>2 DEF Receiving, ChannelStep
      <4>4. h.receive.id # id => Handling(id)' = {}
        BY <3>2 DEF Handling, ChannelStep
      <4>5. QED
        BY <4>2, <4>3, <4>4
    <3>4. answers'[id] # 1 /\ ~(id > headers')
      BY <3>1 DEF ChannelStep, ReceiveTypes
    <3>5. QED
      BY <3>2, <3>3, <3>4 DEF HeldOnce
  <2>5. CASE handler[c].receive.id = id
    <3>1. /\ Receiving(id) = {} /\ Expired(id) = {} /\ Handling(id) = {c}
          /\ answers[id] # 1 /\ ~(id > headers)
      BY <2>1, <2>5 DEF HeldOnce, Handling
    <3>2. Receiving(id)' \subseteq {c} /\ Handling(id)' \subseteq {c} /\ Expired(id)' = {}
      BY <2>2, <2>3, <3>1
    <3>3. Receiving(id)' = {} \/ Handling(id)' = {}
      <4>1. receive[c].id # id
        BY <3>1 DEF Receiving
      <4>2. r.id # id \/ h.receive.id # id
        BY <2>5, <4>1 DEF Passes
      <4>3. r.id # id => Receiving(id)' = {}
        BY <3>2 DEF Receiving, ChannelStep
      <4>4. h.receive.id # id => Handling(id)' = {}
        BY <3>2 DEF Handling, ChannelStep
      <4>5. QED
        BY <4>2, <4>3, <4>4
    <3>4. answers'[id] # 1 /\ ~(id > headers')
      BY <3>1 DEF ChannelStep, ReceiveTypes
    <3>5. QED
      BY <3>2, <3>3, <3>4 DEF HeldOnce
  <2>6. CASE receive[c].id # id /\ handler[c].receive.id # id
    <3>1. r.id # id
      BY <2>6 DEF Passes
    <3>2. Receiving(id)' = Receiving(id)
      BY <2>6, <3>1 DEF Receiving, ChannelStep
    <3>3. CASE h.receive.id # id
      <4>1. Handling(id)' = Handling(id)
        BY <2>6, <3>3 DEF Handling, ChannelStep
      <4>2. Fewer(id)
        BY <2>2, <3>2, <4>1 DEF Fewer
      <4>3. QED
        BY <2>1, <4>2, FewerHolders DEF ChannelStep, ReceiveTypes
    <3>4. CASE h.receive.id = id
      <4>1. id = headers' /\ headers' > headers
        BY <2>6, <3>4 DEF Passes
      <4>2. Receiving(id) = {} /\ Handling(id) = {} /\ Expired(id) = {} /\ answers[id] = 0
        BY <2>1, <4>1 DEF HeldOnce
      <4>3. Receiving(id)' = {} /\ Expired(id)' = {} /\ Handling(id)' \subseteq {c}
        BY <2>2, <2>3, <3>2, <4>2
      <4>4. answers'[id] = 0 /\ ~(id > headers')
        BY <4>1, <4>2 DEF ChannelStep, ReceiveTypes
      <4>5. QED
        BY <4>3, <4>4 DEF HeldOnce
    <3>5. QED
      BY <3>3, <3>4
  <2>7. QED
    BY <2>4, <2>5, <2>6
<1>3. QED
  BY <1>1, <1>2 DEF OneHolder

\* The timers of a step that arms or stops one.
LEMMA StoppedTimers ==
  ASSUME ReceiveTypes, NEW c \in Channels, NEW r
  PROVE  timers' \in {timers, timers \ Stopped(c, r)} => TimersStep
  BY DEF ReceiveTypes, TimersStep

\* A header begins a transfer, or is refused.
LEMMA HeaderKeeps ==
  ASSUME ReceiveTypes, OneHolder, NEW c \in Channels,
         HeaderRefused(c) \/ \E sizes \in Declared : HeaderReserves(c, sizes)
  PROVE  ReceiveTypes' /\ OneHolder'
<1>1. /\ headers' = headers + 1 /\ headers' \in 0 .. MaxHeaders /\ headers \in Nat
      /\ UNCHANGED <<receive, timers, answers>>
  BY DEF HeaderRefused, HeaderReserves, ReceiveTypes
<1>2. PICK h : /\ handler' = [handler EXCEPT ![c] = h] /\ DOMAIN h = DOMAIN Idle
               /\ DOMAIN h.receive = DOMAIN NoReceive /\ h.receive.id = headers + 1
               /\ h.receive.activity = 0
  <2>1. CASE HeaderRefused(c)
    <3> DEFINE g == [at |-> "answer", receive |-> [NoReceive EXCEPT !.id = headers + 1]]
    <3>1. /\ DOMAIN g = DOMAIN Idle /\ DOMAIN g.receive = DOMAIN NoReceive
          /\ g.receive.id = headers + 1 /\ g.receive.activity = 0
      BY Fields
    <3>2. handler' = [handler EXCEPT ![c] = g]
      BY <2>1 DEF HeaderRefused, Answering
    <3>3. QED
      BY <3>1, <3>2
  <2>2. ASSUME NEW sizes \in Declared, HeaderReserves(c, sizes)
        PROVE  \E h : /\ handler' = [handler EXCEPT ![c] = h] /\ DOMAIN h = DOMAIN Idle
                      /\ DOMAIN h.receive = DOMAIN NoReceive /\ h.receive.id = headers + 1
                      /\ h.receive.activity = 0
    <3> DEFINE g == [at |-> "install", receive |-> NewReceive(headers + 1, sizes)]
    <3>1. /\ DOMAIN NewReceive(headers + 1, sizes) = DOMAIN NoReceive
          /\ NewReceive(headers + 1, sizes).id = headers + 1
          /\ NewReceive(headers + 1, sizes).activity = 0
      BY Fields DEF NewReceive
    <3>2. DOMAIN g = DOMAIN Idle /\ g.receive = NewReceive(headers + 1, sizes)
      BY Fields
    <3>3. handler' = [handler EXCEPT ![c] = g]
      BY <2>2 DEF HeaderReserves
    <3>4. QED
      BY <3>1, <3>2, <3>3
  <2>3. QED
    BY <2>1, <2>2
<1>3. ChannelStep(c, h, receive[c])
  BY <1>1, <1>2 DEF ChannelStep, ReceiveTypes
<1>4. Passes(c, h, receive[c])
  BY <1>1, <1>2 DEF Passes, ReceiveTypes, Transfer
<1>5. Shape(receive[c]) /\ Shape(h.receive) /\ headers <= headers'
  BY <1>1, <1>2 DEF ReceiveTypes, Transfer, Shape
<1>6. QED
  BY <1>1, <1>2, <1>3, <1>4, <1>5, StoppedTimers, ChannelStepKeeps

\* What a step that begins no transfer finds in a channel.
LEMMA ChannelShape ==
  ASSUME ReceiveTypes, NEW c \in Channels, UNCHANGED headers
  PROVE  /\ Shape(receive[c]) /\ Shape(handler[c].receive) /\ Shape(NoReceive)
         /\ DOMAIN handler[c] = DOMAIN Idle /\ Shape(Idle.receive)
         /\ headers' \in 0 .. MaxHeaders /\ headers <= headers'
  BY Fields DEF ReceiveTypes, Transfer, Shape

\* The handler of a channel alone goes on, with what it had in hand or nothing.
LEMMA HandlerStepKeeps ==
  ASSUME ReceiveTypes, OneHolder, NEW c \in Channels, NEW h,
         handler' = [handler EXCEPT ![c] = h], DOMAIN h = DOMAIN Idle,
         h.receive \in {NoReceive, handler[c].receive},
         UNCHANGED <<receive, timers, headers, answers>>
  PROVE  ReceiveTypes' /\ OneHolder'
<1>1. ChannelStep(c, h, receive[c])
  BY DEF ChannelStep, ReceiveTypes
<1>2. Passes(c, h, receive[c])
  BY Fields DEF Passes
<1>3. Shape(receive[c]) /\ Shape(h.receive) /\ headers' \in 0 .. MaxHeaders
      /\ headers <= headers'
  BY ChannelShape
<1>4. TimersStep
  BY StoppedTimers
<1>5. QED
  BY <1>1, <1>2, <1>3, <1>4, ChannelStepKeeps

\* The reserved transfer begins, ends at once, or is dropped with its channel.
LEMMA InstallKeeps ==
  ASSUME ReceiveTypes, OneHolder, NEW c \in Channels, HeaderInstalls(c)
  PROVE  ReceiveTypes' /\ OneHolder'
<1> DEFINE q == handler[c].receive
           n == [q EXCEPT !.activity = 1]
<1>1. UNCHANGED <<headers, answers>>
  BY DEF HeaderInstalls
<1>2. Shape(n) /\ n.id = q.id /\ Transfer(n)
  BY <1>1, ChannelShape, Fields DEF Shape, Transfer
<1>3. DOMAIN Idle = DOMAIN Idle /\ Idle.receive = NoReceive
  BY Fields
<1> HIDE DEF n
<1>4. CASE handler' = [handler EXCEPT ![c] = Idle] /\ UNCHANGED <<receive, timers>>
  BY <1>1, <1>3, <1>4, HandlerStepKeeps
<1>5. CASE handler' = [handler EXCEPT ![c].at = "finish"] /\ UNCHANGED <<receive, timers>>
  <2> DEFINE h == [handler[c] EXCEPT !.at = "finish"]
  <2>1. DOMAIN h = DOMAIN Idle /\ h.receive = q
    BY Fields DEF ReceiveTypes
  <2>2. handler' = [handler EXCEPT ![c] = h]
    BY <1>5
  <2> HIDE DEF h
  <2>3. QED
    BY <1>1, <1>5, <2>1, <2>2, HandlerStepKeeps
<1>6. CASE /\ handler' = [handler EXCEPT ![c] = Idle]
           /\ receive' = [receive EXCEPT ![c] = n] /\ timers' = Armed(c, n)
  <2>1. ChannelStep(c, Idle, n)
    BY <1>1, <1>6 DEF ChannelStep, ReceiveTypes
  <2>2. Passes(c, Idle, n)
    BY <1>2, Fields DEF Passes
  <2>3. TimersStep
    BY <1>2, <1>6, ArmedTimers DEF TimersStep
  <2>4. Shape(Idle.receive) /\ headers' \in 0 .. MaxHeaders /\ headers <= headers'
    BY <1>1, ChannelShape
  <2>5. QED
    BY <1>2, <2>1, <2>2, <2>3, <2>4, ChannelStepKeeps
<1>7. QED
  BY <1>4, <1>5, <1>6 DEF HeaderInstalls, n

\* A chunk leaves the transfer with its channel, or passes it to the handler.
LEMMA ChunkKeeps ==
  ASSUME ReceiveTypes, OneHolder, NEW c \in Channels, NEW length, Chunk(c, length)
  PROVE  ReceiveTypes' /\ OneHolder'
<1> DEFINE q == receive[c]
           filled == Fill(q, length)
           n == [q EXCEPT !.index = filled.index, !.written = filled.written,
                          !.data = filled.data, !.arrived = filled.arrived,
                          !.activity = @ + 1]
<1>1. UNCHANGED <<headers, answers>>
  BY DEF Chunk
<1>2. Shape(q) /\ Shape(handler[c].receive) /\ Shape(NoReceive)
      /\ DOMAIN handler[c] = DOMAIN Idle
      /\ headers' \in 0 .. MaxHeaders /\ headers <= headers'
  BY <1>1, ChannelShape
<1>3. Shape(n) /\ n.id = q.id /\ Transfer(n)
  <2> HIDE DEF filled
  <2> QED
    BY <1>1, <1>2, Fields DEF Shape, Transfer
<1> HIDE DEF n
<1>4. ASSUME NEW where, handler' = [handler EXCEPT ![c] = [at |-> where, receive |-> n]],
             receive' = [receive EXCEPT ![c] = NoReceive], timers' = timers \ Stopped(c, n)
      PROVE  ReceiveTypes' /\ OneHolder'
  <2> DEFINE h == [at |-> where, receive |-> n]
  <2>1. DOMAIN h = DOMAIN Idle /\ h.receive = n
    BY Fields
  <2>2. ChannelStep(c, h, NoReceive)
    BY <1>1, <1>4 DEF ChannelStep, ReceiveTypes
  <2>3. Passes(c, h, NoReceive)
    BY <1>3, <2>1, Fields DEF Passes
  <2>4. TimersStep
    BY <1>4, StoppedTimers
  <2> HIDE DEF h
  <2>5. QED
    BY <1>2, <1>3, <2>1, <2>2, <2>3, <2>4, ChannelStepKeeps
<1>5. ASSUME UNCHANGED handler, receive' = [receive EXCEPT ![c] = n], timers' = Armed(c, n)
      PROVE  ReceiveTypes' /\ OneHolder'
  <2>1. ChannelStep(c, handler[c], n)
    BY <1>1, <1>5 DEF ChannelStep, ReceiveTypes
  <2>2. Passes(c, handler[c], n)
    BY <1>3 DEF Passes
  <2>3. TimersStep
    BY <1>3, <1>5, ArmedTimers DEF TimersStep
  <2>4. QED
    BY <1>2, <1>3, <2>1, <2>2, <2>3, ChannelStepKeeps
<1>6. QED
  BY <1>4, <1>5 DEF Chunk, Answering, n, filled

\* A channel lets go of what it receives; its handler keeps what it has, or has nothing.
LEMMA LetsGo ==
  ASSUME ReceiveTypes, OneHolder, NEW c \in Channels, NEW h, DOMAIN h = DOMAIN Idle,
         h.receive \in {NoReceive, handler[c].receive},
         handler' = [handler EXCEPT ![c] = h] \/ (handler' = handler /\ h = handler[c]),
         receive' = [receive EXCEPT ![c] = NoReceive],
         timers' = timers \ Stopped(c, receive[c]), UNCHANGED <<headers, answers>>
  PROVE  ReceiveTypes' /\ OneHolder'
<1>1. ChannelStep(c, h, NoReceive)
  BY DEF ChannelStep, ReceiveTypes
<1>2. Passes(c, h, NoReceive)
  BY Fields DEF Passes
<1>3. Shape(NoReceive) /\ Shape(h.receive) /\ headers' \in 0 .. MaxHeaders
      /\ headers <= headers'
  BY ChannelShape
<1>4. TimersStep
  BY StoppedTimers
<1>5. QED
  BY <1>1, <1>2, <1>3, <1>4, ChannelStepKeeps

\* The other steps of the handler drop a transfer, or keep it in hand.
LEMMA HandKeeps ==
  ASSUME ReceiveTypes, OneHolder, NEW c \in Channels,
         ChunkRefused(c) \/ FinishChecks(c) \/ SetReturns(c)
  PROVE  ReceiveTypes' /\ OneHolder'
<1> DEFINE q == handler[c].receive
<1>1. CASE ChunkRefused(c)
  <2> DEFINE h == [at |-> "answer", receive |-> NoReceive]
  <2>1. DOMAIN h = DOMAIN Idle /\ h.receive = NoReceive
    BY Fields
  <2>2. /\ handler' = [handler EXCEPT ![c] = h] /\ receive' = [receive EXCEPT ![c] = NoReceive]
        /\ timers' = timers \ Stopped(c, receive[c]) /\ UNCHANGED <<headers, answers>>
    BY <1>1 DEF ChunkRefused, Answering
  <2> HIDE DEF h
  <2>3. QED
    BY <2>1, <2>2, LetsGo
<1>2. CASE FinishChecks(c) \/ SetReturns(c)
  <2> DEFINE g == [at |-> "answer", receive |-> q]
             k == [handler[c] EXCEPT !.at = "set"]
  <2>1. DOMAIN g = DOMAIN Idle /\ g.receive = q /\ DOMAIN k = DOMAIN Idle /\ k.receive = q
        /\ Idle.receive = NoReceive
    BY Fields DEF ReceiveTypes
  <2>2. \/ handler' = [handler EXCEPT ![c] = g] \/ handler' = [handler EXCEPT ![c] = k]
        \/ handler' = [handler EXCEPT ![c] = Idle]
    BY <1>2 DEF FinishChecks, SetReturns, Answering
  <2>3. UNCHANGED <<receive, timers, headers, answers>>
    BY <1>2 DEF FinishChecks, SetReturns
  <2> HIDE DEF g, k
  <2>4. QED
    BY <2>1, <2>2, <2>3, HandlerStepKeeps
<1>3. QED
  BY <1>1, <1>2

\* The handler answers, and has nothing in hand any more.
LEMMA AnswerKeeps ==
  ASSUME ReceiveTypes, OneHolder, NEW c \in Channels, Answer(c)
  PROVE  ReceiveTypes' /\ OneHolder'
<1>1. /\ handler' = [handler EXCEPT ![c] = Idle] /\ UNCHANGED <<receive, timers, headers>>
      /\ answers' = [id \in 1 .. MaxHeaders |->
                       IF id = handler[c].receive.id THEN answers[id] + 1 ELSE answers[id]]
  BY DEF Answer, ReceiveTypes
<1>2. ASSUME NEW id \in 1 .. MaxHeaders
      PROVE  HeldOnce(id)' /\ answers'[id] \in {0, 1}
  <2>1. HeldOnce(id) /\ answers[id] \in {0, 1}
    BY DEF OneHolder, ReceiveTypes
  <2>2. Handling(id)' = Handling(id) \ {c}
    BY <1>1, Fields DEF Handling, ReceiveTypes
  <2>3. Receiving(id)' = Receiving(id) /\ Expired(id)' = Expired(id)
    BY <1>1 DEF Receiving, Expired
  <2>4. CASE handler[c].receive.id # id
    <3>1. answers'[id] = answers[id]
      BY <1>1, <2>4
    <3>2. QED
      BY <1>1, <2>1, <2>2, <2>3, <3>1, FewerHolders DEF Fewer, ReceiveTypes
  <2>5. CASE handler[c].receive.id = id
    <3>1. c \in Handling(id)
      BY <2>5 DEF Handling
    <3>2. /\ Receiving(id) = {} /\ Expired(id) = {} /\ Handling(id) = {c}
          /\ answers[id] = 0 /\ ~(id > headers)
      BY <2>1, <3>1 DEF HeldOnce
    <3>3. answers'[id] = 1
      BY <1>1, <2>5, <3>2
    <3>4. QED
      BY <1>1, <2>2, <2>3, <3>2, <3>3 DEF HeldOnce
  <2>6. QED
    BY <2>4, <2>5
<1>3. ReceiveTypes'
  <2>1. answers' \in [1 .. MaxHeaders -> {0, 1}]
    BY <1>1, <1>2
  <2>2. DOMAIN handler' = Channels /\ handler'[c] = Idle
        /\ \A d \in Channels \ {c} : handler'[d] = handler[d]
    BY <1>1 DEF ReceiveTypes
  <2>3. \A d \in Channels : Transfer(handler[d].receive)' /\ DOMAIN handler'[d] = DOMAIN Idle
    BY <1>1, <2>2, Fields DEF ReceiveTypes, Transfer
  <2>4. QED
    BY <1>1, <2>1, <2>2, <2>3 DEF ReceiveTypes, Transfer
<1>4. QED
  BY <1>2, <1>3 DEF OneHolder

\* A channel goes down with its transfer.
LEMMA DropKeeps ==
  ASSUME ReceiveTypes, OneHolder, NEW c \in Channels, DropTransfer(c),
         UNCHANGED <<handler, headers, answers>>
  PROVE  ReceiveTypes' /\ OneHolder'
<1>1. DOMAIN handler[c] = DOMAIN Idle
  BY DEF ReceiveTypes
<1>2. QED
  BY <1>1, LetsGo DEF DropTransfer

-----------------------------------------------------------------------------
(* The goroutines that send.                                               *)

\* A waiting sender is the one that has the mutex, and its channel is one.
Sending == SendTypes /\ OneSender /\ WriterReleased

\* Every sender is a channel or the one beside them, and no channel is "none".
LEMMA WritersAre ==
  /\ Channels \subseteq Writers /\ "acquired" \in Writers /\ "none" \notin Writers
  /\ "none" \notin Channels /\ "acquired" \notin Channels
  BY DEF Writers

\* A sender moves while the channels stay as they are.
SenderStep(w, where, channel) ==
  /\ writers' = [writers EXCEPT ![w] = [at |-> where, channel |-> channel]]
  /\ UNCHANGED channelVars

\* A sender that moves keeps its channel.
LEMMA SenderMoves ==
  ASSUME SendTypes, NEW w \in Writers, NEW where \in WriterSteps, WriterAt(w, where),
         UNCHANGED channelVars
  PROVE  SenderStep(w, where, writers[w].channel)
<1>1. writers[w] \in [at : WriterSteps, channel : Channels \cup {"none"}]
  BY DEF SendTypes
<1>2. [writers[w] EXCEPT !.at = where] = [at |-> where, channel |-> writers[w].channel]
  BY <1>1
<1>3. writers' = [writers EXCEPT ![w] = [writers[w] EXCEPT !.at = where]]
  BY DEF WriterAt
<1>4. QED
  BY <1>2, <1>3 DEF SenderStep, SendTypes

\* The types of the senders are kept, and the others stay where they are.
LEMMA SenderTypes ==
  ASSUME SendTypes, NEW w \in Writers, NEW where \in WriterSteps,
         NEW channel \in Channels \cup {"none"}, SenderStep(w, where, channel)
  PROVE  /\ SendTypes' /\ writers'[w].at = where /\ writers'[w].channel = channel
         /\ \A v \in Writers \ {w} : writers'[v] = writers[v]
  BY DEF SenderStep, SendTypes

\* The channels and the buffers change under the senders.
LEMMA ChannelsKeep ==
  ASSUME Sending, UNCHANGED <<writers, sends, sendMu>>,
         \/ \E c \in Channels : OpenSwaps(c) \/ Closes(c) \/ ClosesCurrent(c) \/ Drains(c)
         \/ OpenCancels \/ OpenClears
  PROVE  Sending'
<1>1. SendTypes' /\ OneSender'
  BY DEF Sending, SendTypes, OneSender, OpenSwaps, Closes, ClosesCurrent, Drains, OpenCancels,
         OpenClears
<1>2. WriterReleased'
  BY DEF Sending, SendTypes, OneSender, WriterReleased, OpenSwaps, Closes, ClosesCurrent,
         Drains, OpenCancels, OpenClears
<1>3. QED
  BY <1>1, <1>2 DEF Sending

\* A content is there to be sent.
LEMMA ReceivesKeep ==
  ASSUME Sending, sendLatestClipboard \/ \E c \in Channels : WriterReceives(c)
  PROVE  Sending'
<1>1. ASSUME NEW w \in Writers, NEW channel \in Channels, SenderStep(w, "write", channel),
             UNCHANGED <<sendMu, high, low>>
      PROVE  Sending'
  <2>1. SendTypes' /\ writers'[w].at = "write" /\ \A v \in Writers \ {w} : writers'[v] = writers[v]
    BY <1>1, SenderTypes DEF Sending, WriterSteps
  <2>2. OneSender'
    BY <1>1, <2>1 DEF Sending, OneSender, SenderStep
  <2>3. WriterReleased'
    BY <1>1, <2>1 DEF Sending, WriterReleased, SenderStep
  <2>4. QED
    BY <2>1, <2>2, <2>3 DEF Sending
<1>2. ASSUME sendLatestClipboard
      PROVE  current \in Channels /\ SenderStep("acquired", "write", current)
  BY <1>2 DEF sendLatestClipboard, SenderStep, Sending, SendTypes
<1>3. ASSUME NEW c \in Channels, WriterReceives(c)
      PROVE  SenderStep(c, "write", c)
  BY <1>3 DEF WriterReceives, SenderStep
<1>4. QED
  BY <1>1, <1>2, <1>3, WritersAre DEF sendLatestClipboard, WriterReceives

\* A content is sent: of two senders, the one without the mutex does nothing.
LEMMA SendersKeep ==
  ASSUME Sending, NEW w \in Writers,
         WriteHeader(w) \/ WriteWaits(w) \/ WriteChunk(w) \/ WriteAborts(w)
  PROVE  Sending'
<1> DEFINE c == writers[w].channel
<1>1. c \in Channels \cup {"none"} /\ writers[w].at \in WriterSteps
  BY DEF Sending, SendTypes
<1>2. w # "none" /\ "none" \notin Channels
  BY WritersAre
<1>3. CASE WriteHeader(w)
  <2>1. SenderStep(w, "chunk", c) /\ sendMu' = w /\ sendMu = "none" /\ UNCHANGED <<high, low>>
    BY <1>3, SenderMoves DEF WriteHeader, Sending, WriterSteps
  <2>2. /\ SendTypes' /\ writers'[w].at = "chunk" /\ writers'[w].channel = c
        /\ \A v \in Writers \ {w} : writers'[v] = writers[v]
    BY <1>1, <2>1, SenderTypes DEF Sending, WriterSteps
  <2>3. c \in Channels
    BY <1>3 DEF WriteHeader, Sending, OneSender
  <2>4. \A v \in Writers : writers[v].at \notin {"chunk", "wait"}
    BY <2>1, WritersAre DEF Sending, OneSender
  <2>5. OneSender'
    BY <2>1, <2>2, <2>3, <2>4 DEF Sending, OneSender
  <2>6. WriterReleased'
    BY <2>2, <2>4 DEF WriterReleased
  <2>7. QED
    BY <2>2, <2>5, <2>6 DEF Sending
<1>4. CASE WriteWaits(w)
  <2>1. SenderStep(w, "wait", c) /\ UNCHANGED <<sendMu, high, low>>
    BY <1>4, SenderMoves DEF WriteWaits, Sending, WriterSteps
  <2>2. /\ SendTypes' /\ writers'[w].at = "wait" /\ writers'[w].channel = c
        /\ \A v \in Writers \ {w} : writers'[v] = writers[v]
    BY <1>1, <2>1, SenderTypes DEF Sending, WriterSteps
  <2>3. sendMu = w /\ c \in Channels /\ current = c /\ c \in high
    BY <1>4 DEF WriteWaits, clipboardCurrent, Sending, OneSender
  <2>4. OneSender' /\ WriterReleased'
    BY <2>1, <2>2, <2>3 DEF Sending, OneSender, WriterReleased, SenderStep
  <2>5. QED
    BY <2>2, <2>4 DEF Sending
<1>5. CASE WriteChunk(w)
  <2>1. /\ writers[w].at \in {"chunk", "wait"}
        /\ low \ {c} \subseteq low' /\ high \subseteq high' /\ UNCHANGED channelVars
    BY <1>5 DEF WriteChunk
  <2>2. sendMu = w /\ c \in Channels /\ \A v \in Writers \ {w} : writers[v].at \notin {"chunk", "wait"}
    BY <2>1 DEF Sending, OneSender
  <2>3. PICK where \in {"chunk", "idle"} :
          WriterAt(w, where) /\ (where = "chunk" => sendMu' = sendMu)
    BY <1>5 DEF WriteChunk
  <2>4. SenderStep(w, where, c)
    BY <2>1, <2>3, SenderMoves DEF Sending, WriterSteps
  <2>5. /\ SendTypes' /\ writers'[w].at = where /\ writers'[w].channel = c
        /\ \A v \in Writers \ {w} : writers'[v] = writers[v]
    BY <1>1, <2>4, SenderTypes DEF Sending, WriterSteps
  <2>6. OneSender'
    BY <2>2, <2>3, <2>5 DEF Sending, OneSender
  <2>7. WriterReleased'
    BY <2>2, <2>3, <2>5 DEF WriterReleased
  <2>8. QED
    BY <2>5, <2>6, <2>7 DEF Sending
<1>6. CASE WriteAborts(w)
  <2>1. PICK where \in {"done", "idle"} : WriterAt(w, where)
    BY <1>6 DEF WriteAborts
  <2>2. /\ sendMu' = IF sendMu = w THEN "none" ELSE sendMu
        /\ UNCHANGED <<high, low>> /\ UNCHANGED channelVars
    BY <1>6 DEF WriteAborts
  <2>3. SenderStep(w, where, c)
    BY <2>1, <2>2, SenderMoves DEF Sending, WriterSteps
  <2>4. /\ SendTypes' /\ writers'[w].at = where
        /\ \A v \in Writers \ {w} : writers'[v] = writers[v]
    BY <1>1, <2>3, SenderTypes DEF Sending, WriterSteps
  <2>5. OneSender'
    BY <2>2, <2>4 DEF Sending, OneSender
  <2>6. WriterReleased'
    BY <2>2, <2>4 DEF Sending, WriterReleased
  <2>7. QED
    BY <2>4, <2>5, <2>6 DEF Sending
<1>7. QED
  BY <1>3, <1>4, <1>5, <1>6

-----------------------------------------------------------------------------
(* IInv is inductive.                                                      *)

\* Nothing is received and nothing is sent at first.
LEMMA InitIInv == Init => IInv
<1> SUFFICES ASSUME Init PROVE IInv
  OBVIOUS
<1>1. ReceiveTypes
  BY Fields DEF Init, ReceiveTypes, Transfer
<1>2. ASSUME NEW id \in 1 .. MaxHeaders
      PROVE  HeldOnce(id)
  <2>1. Receiving(id) = {} /\ Handling(id) = {} /\ Expired(id) = {}
    BY Fields DEF Init, Receiving, Handling, Expired
  <2>2. answers[id] = 0
    BY DEF Init
  <2>3. QED
    BY <2>1, <2>2 DEF HeldOnce
<1>3. SendTypes /\ OneSender /\ WriterReleased
  BY DEF Init, SendTypes, OneSender, WriterReleased, WriterSteps
<1>4. QED
  BY <1>1, <1>2, <1>3 DEF IInv, TypeOK, OneHolder

\* A step about transfers leaves the senders alone.
LEMMA SendersStay ==
  ASSUME Sending, UNCHANGED <<channelVars, sendVars>>
  PROVE  Sending'
  BY DEF Sending, SendTypes, OneSender, WriterReleased

\* Every step preserves the invariant.
LEMMA NextIInv == IInv /\ [Next]_vars => IInv'
<1> SUFFICES ASSUME ReceiveTypes /\ OneHolder /\ Sending, [Next]_vars
             PROVE  (ReceiveTypes /\ OneHolder)' /\ Sending'
  BY DEF IInv, TypeOK, Sending
<1>1. ASSUME NEW c \in Channels,
             \/ HeaderRefused(c) \/ HeaderInstalls(c) \/ ChunkRefused(c)
             \/ \E sizes \in Declared : HeaderReserves(c, sizes)
             \/ \E length \in 1 .. ChunkBytes : Chunk(c, length)
             \/ FinishChecks(c) \/ SetReturns(c) \/ Answer(c)
      PROVE  (ReceiveTypes /\ OneHolder)' /\ Sending'
  <2>1. UNCHANGED <<channelVars, sendVars>>
    BY <1>1 DEF HeaderRefused, HeaderInstalls, ChunkRefused, HeaderReserves, Chunk,
                FinishChecks, SetReturns, Answer
  <2>2. ReceiveTypes' /\ OneHolder'
    BY <1>1, HeaderKeeps, InstallKeeps, ChunkKeeps, HandKeeps, AnswerKeeps
  <2>3. QED
    BY <2>1, <2>2, SendersStay
<1>2. ASSUME NEW t \in timers, TimerFires(t) \/ TimerRuns(t) \/ TimerAnswers(t)
      PROVE  (ReceiveTypes /\ OneHolder)' /\ Sending'
  <2>1. UNCHANGED <<channelVars, sendVars>>
    BY <1>2 DEF TimerFires, TimerRuns, TimerAnswers
  <2>2. ReceiveTypes' /\ OneHolder'
    BY <1>2, TimerFiresKeeps, TimerRunsKeeps, TimerAnswersKeeps
  <2>3. QED
    BY <2>1, <2>2, SendersStay
<1>3. ASSUME \/ OpenCancels
             \/ \E c \in Channels : OpenSwaps(c) \/ Closes(c) \/ Drains(c)
      PROVE  (ReceiveTypes /\ OneHolder)' /\ Sending'
  <2>1. UNCHANGED <<receiveVars, writers, sends, sendMu>>
    BY <1>3 DEF OpenCancels, OpenSwaps, Closes, Drains
  <2>2. QED
    BY <1>3, <2>1, SameTransfers, ChannelsKeep
<1>4. ASSUME OpenClears
      PROVE  (ReceiveTypes /\ OneHolder)' /\ Sending'
  <2>1. replaced \in Channels
    BY <1>4, WritersAre DEF OpenClears, Sending, SendTypes
  <2>2. UNCHANGED <<handler, headers, answers, writers, sends, sendMu>>
        /\ DropTransfer(replaced)
    BY <1>4 DEF OpenClears
  <2>3. QED
    BY <1>4, <2>1, <2>2, DropKeeps, ChannelsKeep
<1>5. ASSUME NEW c \in Channels, ClosesCurrent(c)
      PROVE  (ReceiveTypes /\ OneHolder)' /\ Sending'
  <2>1. UNCHANGED <<handler, headers, answers, writers, sends, sendMu>> /\ DropTransfer(c)
    BY <1>5 DEF ClosesCurrent
  <2>2. QED
    BY <1>5, <2>1, DropKeeps, ChannelsKeep
<1>6. ASSUME sendLatestClipboard \/ \E c \in Channels : WriterReceives(c)
      PROVE  (ReceiveTypes /\ OneHolder)' /\ Sending'
  <2>1. UNCHANGED receiveVars
    BY <1>6 DEF sendLatestClipboard, WriterReceives
  <2>2. QED
    BY <1>6, <2>1, SameTransfers, ReceivesKeep
<1>7. ASSUME NEW w \in Writers,
             WriteHeader(w) \/ WriteWaits(w) \/ WriteChunk(w) \/ WriteAborts(w)
      PROVE  (ReceiveTypes /\ OneHolder)' /\ Sending'
  <2>1. UNCHANGED receiveVars
    BY <1>7 DEF WriteHeader, WriteWaits, WriteChunk, WriteAborts
  <2>2. QED
    BY <1>7, <2>1, SameTransfers, SendersKeep
<1>8. CASE UNCHANGED vars
  BY <1>8, SameTransfers, SendersStay DEF vars
<1>9. QED
  BY <1>1, <1>2, <1>3, <1>4, <1>5, <1>6, <1>7, <1>8 DEF Next, Browser

-----------------------------------------------------------------------------
(* What follows.                                                           *)

\* The transfers of the clipboard channels have at most one holder each, and a sender
\* that waits has the mutex (webrtc/clipboard.go).
THEOREM ClipboardInvariant == Spec => []IInv
<1>1. Init => IInv
  BY InitIInv
<1>2. IInv /\ [Next]_vars => IInv'
  BY NextIInv
<1>3. QED
  BY <1>1, <1>2, PTL DEF Spec

\* One holder, or none if the answer was given, is what is counted.
LEMMA HoldersCounted ==
  ASSUME IInv
  PROVE  AnsweredOnce
<1> SUFFICES ASSUME NEW id \in 1 .. MaxHeaders
             PROVE  answers[id] + Cardinality(Holders(id)) <= 1
  BY DEF AnsweredOnce
<1>1. HeldOnce(id) /\ answers[id] \in {0, 1}
  BY DEF IInv, TypeOK, ReceiveTypes, OneHolder
<1>2. CASE Holders(id) = {}
  <2>1. Cardinality(Holders(id)) = 0
    BY <1>2, FS_EmptySet
  <2>2. QED
    BY <1>1, <2>1
<1>3. CASE Holders(id) # {}
  <2>1. PICK x : x \in Holders(id)
    BY <1>3
  <2>2. Holders(id) = {x}
    BY <1>1, <2>1 DEF HeldOnce, Holders
  <2>3. Cardinality(Holders(id)) = 1
    BY <2>2, FS_Singleton
  <2>4. answers[id] = 0
    BY <1>1, <2>1 DEF HeldOnce, Holders
  <2>5. QED
    BY <2>3, <2>4
<1>4. QED
  BY <1>2, <1>3

\* A transfer is answered at most once, by its handler, its timer or nobody, however
\* these and the end of the channel interleave.
THEOREM TransfersAnsweredOnce == Spec => []AnsweredOnce
<1>1. IInv => AnsweredOnce
  BY HoldersCounted
<1>2. QED
  BY <1>1, ClipboardInvariant, PTL

\* A goroutine that waits for a buffer with clipboardWriteMu held is always released.
THEOREM SendersReleased == Spec => []WriterReleased
<1>1. IInv => WriterReleased
  BY DEF IInv
<1>2. QED
  BY <1>1, ClipboardInvariant, PTL

-----------------------------------------------------------------------------
(* SpreadInv is inductive beside IInv.                                     *)

\* What a channel receives, and what its handler has in hand, is spread.
Received(r) == r = NoReceive \/ Spread(r)
InHand(h) ==
  /\ h.receive.sizes = <<>> \/ Spread(h.receive)
  /\ h.at = "install" => Spread(h.receive)
  /\ h.at \in {"finish", "set"} => Spread(h.receive) /\ Complete(h.receive)

LEMMA SpreadInvIs ==
  SpreadInv <=> \A c \in Channels : Received(receive[c]) /\ InHand(handler[c])
  BY DEF SpreadInv, Received, InHand

\* Only one channel moves in a step.
LEMMA OneMoves ==
  ASSUME SpreadInv, NEW c \in Channels,
         \A d \in Channels \ {c} : handler'[d] = handler[d] /\ receive'[d] = receive[d],
         Received(receive'[c]), InHand(handler'[c])
  PROVE  SpreadInv'
<1>1. \A d \in Channels : Received(receive[d]) /\ InHand(handler[d])
  BY SpreadInvIs
<1>2. \A d \in Channels : Received(receive'[d]) /\ InHand(handler'[d])
  <2>1. \A d \in Channels \ {c} : Received(receive'[d]) /\ InHand(handler'[d])
    BY <1>1
  <2>2. QED
    BY <2>1
<1>3. QED
  BY <1>2 DEF SpreadInv, Received, InHand

\* Nothing in hand, and nothing received.
LEMMA Nothing ==
  /\ Received(NoReceive) /\ InHand(Idle) /\ NoReceive.sizes = <<>>
  /\ InHand([at |-> "answer", receive |-> NoReceive])
  BY DEF Received, InHand, Idle, NoReceive

\* A header begins a transfer, or is refused.
LEMMA HeaderSpreads ==
  ASSUME ReceiveTypes, SpreadInv, NEW c \in Channels,
         HeaderRefused(c) \/ \E sizes \in Declared : HeaderReserves(c, sizes)
  PROVE  SpreadInv'
<1>1. Received(receive[c]) /\ UNCHANGED receive
  BY SpreadInvIs DEF HeaderRefused, HeaderReserves
<1>2. PICK h : handler' = [handler EXCEPT ![c] = h] /\ InHand(h)
  <2>1. CASE HeaderRefused(c)
    <3> DEFINE r == [NoReceive EXCEPT !.id = headers + 1]
               h == [at |-> "answer", receive |-> r]
    <3>1. handler' = [handler EXCEPT ![c] = h]
      BY <2>1 DEF HeaderRefused, Answering
    <3>2. r.sizes = <<>>
      BY DEF NoReceive
    <3> HIDE DEF r
    <3>3. InHand(h)
      BY <3>2 DEF InHand
    <3>4. QED
      BY <3>1, <3>3
  <2>2. ASSUME NEW sizes \in Declared, HeaderReserves(c, sizes)
        PROVE  \E h : handler' = [handler EXCEPT ![c] = h] /\ InHand(h)
    <3> DEFINE r == NewReceive(headers + 1, sizes)
               h == [at |-> "install", receive |-> r]
    <3>1. handler' = [handler EXCEPT ![c] = h]
      BY <2>2 DEF HeaderReserves
    <3>2. sizes \in Seq(Nat)
      OBVIOUS
    <3>3. Spread(r)
      BY <3>2, NewSpread
    <3> HIDE DEF r
    <3>4. InHand(h)
      BY <3>3 DEF InHand
    <3>5. QED
      BY <3>1, <3>4
  <2>3. QED
    BY <2>1, <2>2
<1>3. handler'[c] = h /\ \A d \in Channels \ {c} : handler'[d] = handler[d]
  BY <1>2 DEF ReceiveTypes
<1>4. QED
  BY <1>1, <1>2, <1>3, OneMoves

\* The timer counts another message: the bytes stay where they are.
LEMMA InstallSpreads ==
  ASSUME ReceiveTypes, SpreadInv, NEW c \in Channels, HeaderInstalls(c)
  PROVE  SpreadInv'
<1> DEFINE q == handler[c].receive
           r == [q EXCEPT !.activity = 1]
<1>1. Received(receive[c]) /\ InHand(handler[c]) /\ handler[c].at = "install"
  BY SpreadInvIs DEF HeaderInstalls
<1>2. Spread(q) /\ DOMAIN q = DOMAIN NoReceive
  BY <1>1 DEF InHand, ReceiveTypes, Transfer
<1>3. /\ r.sizes = q.sizes /\ r.index = q.index /\ r.written = q.written
      /\ r.data = q.data /\ r.arrived = q.arrived
  BY <1>2, Fields
<1> HIDE DEF r
<1>4. Spread(r) /\ (Complete(r) <=> Complete(q))
  <2> HIDE DEF q
  <2>1. QED
    BY <1>2, <1>3, SameSpread
<1>5. /\ DOMAIN handler = Channels /\ DOMAIN receive = Channels
      /\ DOMAIN handler[c] = DOMAIN Idle
  BY DEF ReceiveTypes
<1>6. CASE handler' = [handler EXCEPT ![c] = Idle] /\ UNCHANGED receive
  BY <1>1, <1>5, <1>6, Nothing, OneMoves
<1>7. CASE Complete(r) /\ handler' = [handler EXCEPT ![c].at = "finish"] /\ UNCHANGED receive
  <2>1. handler'[c].receive = q /\ handler'[c].at = "finish"
        /\ \A d \in Channels \ {c} : handler'[d] = handler[d]
    BY <1>5, <1>7, Fields
  <2>2. InHand(handler'[c])
    BY <1>2, <1>4, <1>7, <2>1 DEF InHand
  <2>3. QED
    BY <1>1, <1>7, <2>1, <2>2, OneMoves
<1>8. CASE handler' = [handler EXCEPT ![c] = Idle] /\ receive' = [receive EXCEPT ![c] = r]
  <2>1. Received(r)
    BY <1>4 DEF Received
  <2>2. handler'[c] = Idle /\ receive'[c] = r
        /\ \A d \in Channels \ {c} : handler'[d] = handler[d] /\ receive'[d] = receive[d]
    BY <1>5, <1>8
  <2>3. QED
    BY <2>1, <2>2, Nothing, OneMoves
<1>9. QED
  BY <1>6, <1>7, <1>8 DEF HeaderInstalls, r

\* A chunk is spread over the formats of its transfer.
LEMMA ChunkSpreads ==
  ASSUME ReceiveTypes, SpreadInv, NEW c \in Channels, NEW length \in Nat, Chunk(c, length)
  PROVE  SpreadInv'
<1> DEFINE q == receive[c]
           filled == Fill(q, length)
           r == [q EXCEPT !.index = filled.index, !.written = filled.written,
                          !.data = filled.data, !.arrived = filled.arrived,
                          !.activity = @ + 1]
<1>1. Received(q) /\ q # NoReceive /\ DOMAIN q = DOMAIN NoReceive /\ InHand(handler[c])
  BY SpreadInvIs DEF Chunk, ReceiveTypes, Transfer
<1>2. Spread(q)
  BY <1>1 DEF Received
<1>3. Spread(filled) /\ filled.sizes = q.sizes
  <2> HIDE DEF q
  <2>1. QED
    BY <1>1, <1>2, FillSpread
<1>4. /\ r.sizes = q.sizes /\ r.index = filled.index /\ r.written = filled.written
      /\ r.data = filled.data /\ r.arrived = filled.arrived
  <2> HIDE DEF filled
  <2>1. QED
    BY <1>1, Fields
<1>5. \/ \E where \in {"answer", "finish"} :
           /\ where = "finish" => Complete(r)
           /\ handler' = [handler EXCEPT ![c] = [at |-> where, receive |-> r]]
           /\ receive' = [receive EXCEPT ![c] = NoReceive]
      \/ UNCHANGED handler /\ receive' = [receive EXCEPT ![c] = r]
  BY DEF Chunk, Answering
<1> HIDE DEF r, filled
<1>6. Spread(r)
  BY <1>3, <1>4, SameSpread
<1>7. DOMAIN handler = Channels /\ DOMAIN receive = Channels
  BY DEF ReceiveTypes
<1>8. ASSUME NEW where \in {"answer", "finish"}, where = "finish" => Complete(r),
             handler' = [handler EXCEPT ![c] = [at |-> where, receive |-> r]],
             receive' = [receive EXCEPT ![c] = NoReceive]
      PROVE  SpreadInv'
  <2>1. InHand([at |-> where, receive |-> r])
    BY <1>6, <1>8 DEF InHand
  <2>2. handler'[c] = [at |-> where, receive |-> r] /\ receive'[c] = NoReceive
        /\ \A d \in Channels \ {c} : handler'[d] = handler[d] /\ receive'[d] = receive[d]
    BY <1>7, <1>8
  <2>3. QED
    BY <2>1, <2>2, Nothing, OneMoves
<1>9. ASSUME UNCHANGED handler, receive' = [receive EXCEPT ![c] = r]
      PROVE  SpreadInv'
  <2>1. receive'[c] = r /\ \A d \in Channels \ {c} : receive'[d] = receive[d]
    BY <1>7, <1>9
  <2>2. Received(r)
    BY <1>6 DEF Received
  <2>3. QED
    BY <1>1, <1>9, <2>1, <2>2, OneMoves
<1>10. QED
  BY <1>5, <1>8, <1>9

\* The other steps of the handler drop a transfer, or keep it in hand.
LEMMA HandSpreads ==
  ASSUME ReceiveTypes, SpreadInv, NEW c \in Channels,
         ChunkRefused(c) \/ FinishChecks(c) \/ SetReturns(c) \/ Answer(c)
  PROVE  SpreadInv'
<1> DEFINE q == handler[c].receive
<1>1. /\ Received(receive[c]) /\ InHand(handler[c]) /\ DOMAIN handler[c] = DOMAIN Idle
      /\ DOMAIN handler = Channels /\ DOMAIN receive = Channels
  BY SpreadInvIs DEF ReceiveTypes
<1>2. CASE ChunkRefused(c)
  <2>1. /\ handler'[c] = [at |-> "answer", receive |-> NoReceive] /\ receive'[c] = NoReceive
        /\ \A d \in Channels \ {c} : handler'[d] = handler[d] /\ receive'[d] = receive[d]
    BY <1>1, <1>2 DEF ChunkRefused, Answering
  <2>2. QED
    BY <2>1, Nothing, OneMoves
<1>3. CASE FinishChecks(c) \/ SetReturns(c) \/ Answer(c)
  <2> DEFINE g == [at |-> "answer", receive |-> q]
             k == [handler[c] EXCEPT !.at = "set"]
  <2>1. UNCHANGED receive
    BY <1>3 DEF FinishChecks, SetReturns, Answer
  <2>2. InHand(g)
    BY <1>1 DEF InHand
  <2>3. handler[c].at = "finish" => InHand(k)
    <3>1. k.at = "set" /\ k.receive = q
      BY <1>1, Fields
    <3> HIDE DEF k
    <3>2. QED
      BY <1>1, <3>1 DEF InHand
  <2>4. \/ handler' = [handler EXCEPT ![c] = g]
        \/ handler[c].at = "finish" /\ handler' = [handler EXCEPT ![c] = k]
        \/ handler' = [handler EXCEPT ![c] = Idle]
    BY <1>3 DEF FinishChecks, SetReturns, Answering, Answer
  <2> HIDE DEF g, k
  <2>5. InHand(handler'[c]) /\ \A d \in Channels \ {c} : handler'[d] = handler[d]
    BY <1>1, <2>2, <2>3, <2>4, Nothing
  <2>6. QED
    BY <1>1, <2>1, <2>5, OneMoves
<1>4. QED
  BY <1>2, <1>3

\* A transfer that is dropped, by its timer or with its channel.
LEMMA DropSpreads ==
  ASSUME ReceiveTypes, SpreadInv, NEW c \in Channels, UNCHANGED handler,
         receive' = [receive EXCEPT ![c] = NoReceive]
  PROVE  SpreadInv'
<1>1. InHand(handler[c]) /\ DOMAIN receive = Channels
  BY SpreadInvIs DEF ReceiveTypes
<1>2. receive'[c] = NoReceive /\ \A d \in Channels \ {c} : receive'[d] = receive[d]
  BY <1>1
<1>3. QED
  BY <1>1, <1>2, Nothing, OneMoves

\* What no step about transfers has changed.
LEMMA SpreadStays ==
  ASSUME SpreadInv, UNCHANGED <<handler, receive>>
  PROVE  SpreadInv'
  BY DEF SpreadInv

\* Nothing is received at first.
LEMMA InitSpread == Init => SpreadInv
<1> SUFFICES ASSUME Init PROVE SpreadInv
  OBVIOUS
<1>1. \A c \in Channels : receive[c] = NoReceive /\ handler[c] = Idle
  BY DEF Init
<1>2. QED
  BY <1>1, Nothing, SpreadInvIs

\* Every step preserves it.
LEMMA NextSpread == IInv /\ SpreadInv /\ [Next]_vars => SpreadInv'
<1> SUFFICES ASSUME IInv, SpreadInv, [Next]_vars PROVE SpreadInv'
  OBVIOUS
<1>1. ReceiveTypes /\ SendTypes
  BY DEF IInv, TypeOK
<1>2. ASSUME NEW c \in Channels,
             \/ HeaderRefused(c) \/ HeaderInstalls(c) \/ ChunkRefused(c)
             \/ \E sizes \in Declared : HeaderReserves(c, sizes)
             \/ \E length \in 1 .. ChunkBytes : Chunk(c, length)
             \/ FinishChecks(c) \/ SetReturns(c) \/ Answer(c)
      PROVE  SpreadInv'
  <2>1. 1 .. ChunkBytes \subseteq Nat
    OBVIOUS
  <2>2. QED
    BY <1>1, <1>2, <2>1, HeaderSpreads, InstallSpreads, ChunkSpreads, HandSpreads
<1>3. ASSUME NEW t \in timers, TimerFires(t) \/ TimerRuns(t) \/ TimerAnswers(t)
      PROVE  SpreadInv'
  <2>1. UNCHANGED handler /\ t.channel \in Channels
    BY <1>1, <1>3 DEF TimerFires, TimerRuns, TimerAnswers, ReceiveTypes
  <2>2. UNCHANGED receive \/ receive' = [receive EXCEPT ![t.channel] = NoReceive]
    BY <1>3 DEF TimerFires, TimerRuns, TimerAnswers
  <2>3. QED
    BY <1>1, <2>1, <2>2, DropSpreads, SpreadStays
<1>4. ASSUME OpenClears
      PROVE  SpreadInv'
  <2>1. replaced \in Channels /\ UNCHANGED handler
        /\ receive' = [receive EXCEPT ![replaced] = NoReceive]
    BY <1>1, <1>4, WritersAre DEF OpenClears, DropTransfer, SendTypes
  <2>2. QED
    BY <1>1, <2>1, DropSpreads
<1>5. ASSUME NEW c \in Channels, ClosesCurrent(c)
      PROVE  SpreadInv'
  BY <1>1, <1>5, DropSpreads DEF ClosesCurrent, DropTransfer
<1>6. ASSUME \/ OpenCancels \/ sendLatestClipboard \/ UNCHANGED vars
             \/ \E c \in Channels : OpenSwaps(c) \/ Closes(c) \/ Drains(c) \/ WriterReceives(c)
             \/ \E w \in Writers :
                  WriteHeader(w) \/ WriteWaits(w) \/ WriteChunk(w) \/ WriteAborts(w)
      PROVE  SpreadInv'
  <2>1. UNCHANGED <<handler, receive>>
    BY <1>6 DEF OpenCancels, sendLatestClipboard, OpenSwaps, Closes, Drains, WriterReceives,
                WriteHeader, WriteWaits, WriteChunk, WriteAborts, vars
  <2>2. QED
    BY <2>1, SpreadStays
<1>7. QED
  BY <1>2, <1>3, <1>4, <1>5, <1>6 DEF Next, Browser

\* Every transfer that is received or in hand is spread byte by byte over the formats in
\* their order (webrtc/clipboard.go, the loops over receive.index).
THEOREM SpreadInvariant == Spec => [](IInv /\ SpreadInv)
<1>1. Init => IInv /\ SpreadInv
  BY InitIInv, InitSpread
<1>2. (IInv /\ SpreadInv) /\ [Next]_vars => (IInv /\ SpreadInv)'
  BY NextIInv, NextSpread
<1>3. QED
  BY <1>1, <1>2, PTL DEF Spec

\* For any sizes, empty formats among them, and any cuts into chunks: each format has the
\* bytes declared for it as far as they have arrived, and a transfer that is set has all
\* (webrtc/clipboard.go, handleClipboardMessage and finishClipboardReceive).
THEOREM FormatsAreExact == Spec => []FormatsExact
<1>1. SpreadInv => FormatsExact
  <2> SUFFICES ASSUME SpreadInv PROVE FormatsExact
    OBVIOUS
  <2>1. \A c \in Channels : Received(receive[c]) /\ InHand(handler[c])
    BY SpreadInvIs
  <2>2. ASSUME NEW c \in Channels, handler[c].at \in {"finish", "set"}
        PROVE  LET r == handler[c].receive IN r.arrived = Before(r.sizes, Len(r.sizes) + 1)
    BY <2>1, <2>2, SpreadExact DEF InHand
  <2>3. ASSUME NEW r \in {receive[c] : c \in Channels} \cup
                         {handler[c].receive : c \in Channels},
               NEW i \in 1 .. Len(r.sizes)
        PROVE  r.data[i] = [k \in 1 .. Part(r, i) |-> Before(r.sizes, i) + k]
    <3>1. r.sizes = <<>> \/ Spread(r)
      BY <2>1, Nothing DEF Received, InHand
    <3>2. CASE r.sizes = <<>>
      BY <3>2
    <3>3. CASE Spread(r)
      BY <3>3, SpreadExact
    <3>4. QED
      BY <3>1, <3>2, <3>3
  <2>4. QED
    BY <2>2, <2>3 DEF FormatsExact
<1>2. QED
  BY <1>1, SpreadInvariant, PTL
=============================================================================
