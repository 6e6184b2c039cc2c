------------------------- MODULE AuditWriter_proofs -------------------------
(***************************************************************************)
(* Proofs about AuditWriter, for any number of tenants, any capacity of    *)
(* the channel, any size of a batch and any number of entries and          *)
(* handlers, whether the database fails or not.                            *)
(***************************************************************************)
EXTENDS AuditWriter, FiniteSetTheorems, WellFoundedInduction, TLAPS

-----------------------------------------------------------------------------
(* Only, by induction over the sequence.                                   *)

LEMMA LeastIndex ==
    ASSUME NEW S, S \subseteq Nat, S # {}
    PROVE  \E i \in S : \A j \in S : i <= j
<1>1. PICK i \in S : \A j \in S : ~ (<<j, i>> \in OpToRel(<, Nat))
  BY WFMin, NatLessThanWellFounded
<1>2. ASSUME NEW j \in Nat, j < i PROVE <<j, i>> \in OpToRel(<, Nat)
  BY <1>2 DEF OpToRel
<1>3. \A j \in S : ~ (j < i)
  BY <1>1, <1>2
<1> QED
  BY <1>3

\* A set that has 0 and with a number the next one has all of them up to n.
LEMMA Induction ==
    ASSUME NEW n \in Nat, NEW S, 0 \in S, \A i \in 0..n - 1 : i \in S => i + 1 \in S
    PROVE  0..n \subseteq S
<1> DEFINE D == {i \in 0..n : i \notin S}
<1> SUFFICES ASSUME D # {} PROVE FALSE
  OBVIOUS
<1>1. D \subseteq Nat
  OBVIOUS
<1>2. PICK i \in D : \A j \in D : i <= j
  BY <1>1, LeastIndex
<1>3. i - 1 \in 0..n - 1 /\ i - 1 + 1 = i
  BY <1>2
<1>4. i - 1 \notin D
  BY <1>2
<1> QED
  BY <1>2, <1>3, <1>4

\* What a step of the recursive function in Only makes of the value before.
Continued(s, S, g, i) ==
    IF i = 0 THEN <<>> ELSE IF s[i] \in S THEN Append(g[i - 1], s[i]) ELSE g[i - 1]

PrefixesOfALog(s, S) == CHOOSE g : g = [i \in 0..Len(s) |-> Continued(s, S, g, i)]

LEMMA OnlyIsItsValue ==
    ASSUME NEW s, NEW S
    PROVE  Only(s, S) = PrefixesOfALog(s, S)[Len(s)]
BY DEF Only, PrefixesOfALog, Continued

\* That function exists: it can be continued by one more value.
LEMMA PrefixesExist ==
    ASSUME NEW s, Len(s) \in Nat, NEW S
    PROVE  PrefixesOfALog(s, S) = [i \in 0..Len(s) |-> Continued(s, S, PrefixesOfALog(s, S), i)]
<1> DEFINE n == Len(s)
           G == {m \in 0..n : \E g : g = [i \in 0..m |-> Continued(s, S, g, i)]}
<1>1. 0 \in G
  <2> DEFINE g == [i \in 0..0 |-> <<>>]
  <2>1. g = [i \in 0..0 |-> Continued(s, S, g, i)]
    BY DEF Continued
  <2> QED
    BY <2>1
<1>2. ASSUME NEW m \in 0..n - 1, m \in G PROVE m + 1 \in G
  <2>1. PICK g : g = [i \in 0..m |-> Continued(s, S, g, i)]
    BY <1>2
  <2> DEFINE h == [i \in 0..m + 1 |-> IF i = m + 1 THEN Continued(s, S, g, i) ELSE g[i]]
  <2>2. ASSUME NEW i \in 0..m + 1 PROVE h[i] = Continued(s, S, h, i)
    <3>1. CASE i = 0
      BY <2>1, <3>1 DEF Continued
    <3>2. CASE i # 0
      <4>1. i - 1 \in 0..m /\ i - 1 # m + 1
        BY <3>2
      <4>2. h[i - 1] = g[i - 1]
        BY <4>1
      <4>3. h[i] = Continued(s, S, g, i)
        BY <2>1
      <4> QED
        BY <4>2, <4>3, <3>2 DEF Continued
    <3> QED
      BY <3>1, <3>2
  <2>3. h = [i \in 0..m + 1 |-> Continued(s, S, h, i)]
    BY <2>2
  <2>4. \E f : f = [i \in 0..m + 1 |-> Continued(s, S, f, i)]
    BY <2>3
  <2>5. m + 1 \in 0..n
    OBVIOUS
  <2> QED
    BY <2>4, <2>5
<1>3. n \in G
  <2> HIDE DEF G
  <2>1. 0..n \subseteq G
    BY <1>1, <1>2, Induction
  <2> QED
    BY <2>1
<1>4. \E g : g = [i \in 0..n |-> Continued(s, S, g, i)]
  BY <1>3
<1> QED
  BY <1>4 DEF PrefixesOfALog

-----------------------------------------------------------------------------
(* Order.                                                                  *)

\* Two entries may be logged in this order.
Precedes(x, y) == x.n # y.n /\ (x.tenant = y.tenant => x.n < y.n)

Ordered(s) == \A i, j \in DOMAIN s : i < j => Precedes(s[i], s[j])

Ahead(S, T) == \A x \in S, y \in T : Precedes(x, y)

LEMMA AppendOrdered ==
    ASSUME NEW R, NEW s \in Seq(R), NEW e \in R
    PROVE  /\ Append(s, e) \in Seq(R)
           /\ ToSet(Append(s, e)) = ToSet(s) \union {e}
           /\ Ordered(s) /\ Ahead(ToSet(s), {e}) => Ordered(Append(s, e))
<1>1. /\ Append(s, e) \in Seq(R)
      /\ DOMAIN Append(s, e) = 1..Len(s) + 1
      /\ DOMAIN s = 1..Len(s)
      /\ Append(s, e)[Len(s) + 1] = e
      /\ \A i \in 1..Len(s) : Append(s, e)[i] = s[i]
  OBVIOUS
<1>2. ToSet(Append(s, e)) = ToSet(s) \union {e}
  BY <1>1 DEF ToSet
<1>3. ASSUME Ordered(s), Ahead(ToSet(s), {e}) PROVE Ordered(Append(s, e))
  <2> SUFFICES ASSUME NEW i \in 1..Len(s) + 1, NEW j \in 1..Len(s) + 1, i < j
               PROVE  Precedes(Append(s, e)[i], Append(s, e)[j])
    BY <1>1 DEF Ordered
  <2>1. i \in 1..Len(s) /\ s[i] \in ToSet(s)
    BY <1>1 DEF ToSet
  <2>2. CASE j = Len(s) + 1
    BY <1>1, <1>3, <2>1, <2>2 DEF Ahead
  <2>3. CASE j # Len(s) + 1
    BY <1>1, <1>3, <2>1, <2>3 DEF Ordered
  <2> QED
    BY <2>2, <2>3
<1> QED
  BY <1>1, <1>2, <1>3

LEMMA TailOrdered ==
    ASSUME NEW R, NEW s \in Seq(R), s # <<>>
    PROVE  /\ Head(s) \in R
           /\ Tail(s) \in Seq(R)
           /\ Len(Tail(s)) = Len(s) - 1
           /\ ToSet(s) = {Head(s)} \union ToSet(Tail(s))
           /\ Ordered(s) => Ordered(Tail(s)) /\ Ahead({Head(s)}, ToSet(Tail(s)))
<1>1. /\ Head(s) \in R /\ Head(s) = s[1]
      /\ Tail(s) \in Seq(R)
      /\ Len(s) \in Nat \ {0}
      /\ Len(Tail(s)) = Len(s) - 1
      /\ DOMAIN Tail(s) = 1..Len(s) - 1
      /\ DOMAIN s = 1..Len(s)
      /\ \A i \in 1..Len(s) - 1 : Tail(s)[i] = s[i + 1]
  OBVIOUS
<1>2. ToSet(s) = {Head(s)} \union ToSet(Tail(s))
  <2>1. ASSUME NEW i \in 1..Len(s) PROVE s[i] \in {Head(s)} \union ToSet(Tail(s))
    <3>1. CASE i = 1
      BY <1>1, <3>1
    <3>2. CASE i # 1
      <4>1. i - 1 \in 1..Len(s) - 1 /\ i - 1 + 1 = i
        BY <1>1, <3>2
      <4> QED
        BY <1>1, <4>1 DEF ToSet
    <3> QED
      BY <3>1, <3>2
  <2>2. Head(s) \in ToSet(s)
    BY <1>1 DEF ToSet
  <2>3. ASSUME NEW i \in 1..Len(s) - 1 PROVE Tail(s)[i] \in ToSet(s)
    <3>1. i + 1 \in 1..Len(s)
      BY <1>1
    <3> QED
      BY <1>1, <3>1 DEF ToSet
  <2> QED
    BY <1>1, <2>1, <2>2, <2>3 DEF ToSet
<1>3. ASSUME Ordered(s) PROVE Ordered(Tail(s))
  <2> SUFFICES ASSUME NEW i \in 1..Len(s) - 1, NEW j \in 1..Len(s) - 1, i < j
               PROVE  Precedes(Tail(s)[i], Tail(s)[j])
    BY <1>1 DEF Ordered
  <2>1. i + 1 \in 1..Len(s) /\ j + 1 \in 1..Len(s) /\ i + 1 < j + 1
    BY <1>1
  <2> QED
    BY <1>1, <1>3, <2>1 DEF Ordered
<1>4. ASSUME Ordered(s) PROVE Ahead({Head(s)}, ToSet(Tail(s)))
  <2> SUFFICES ASSUME NEW j \in 1..Len(s) - 1 PROVE Precedes(Head(s), Tail(s)[j])
    BY <1>1 DEF Ahead, ToSet
  <2>1. 1 \in 1..Len(s) /\ j + 1 \in 1..Len(s) /\ 1 < j + 1
    BY <1>1
  <2> QED
    BY <1>1, <1>4, <2>1 DEF Ordered
<1> QED
  BY <1>1, <1>2, <1>3, <1>4

LEMMA ConcatOrdered ==
    ASSUME NEW R, NEW s \in Seq(R), NEW t \in Seq(R)
    PROVE  /\ s \o t \in Seq(R)
           /\ ToSet(s \o t) = ToSet(s) \union ToSet(t)
           /\ Ordered(s) /\ Ordered(t) /\ Ahead(ToSet(s), ToSet(t)) => Ordered(s \o t)
<1>1. /\ s \o t \in Seq(R)
      /\ Len(s) \in Nat /\ Len(t) \in Nat
      /\ DOMAIN (s \o t) = 1..Len(s) + Len(t)
      /\ DOMAIN s = 1..Len(s) /\ DOMAIN t = 1..Len(t)
      /\ \A i \in 1..Len(s) : (s \o t)[i] = s[i]
      /\ \A i \in 1..Len(s) + Len(t) : i > Len(s) => (s \o t)[i] = t[i - Len(s)]
  OBVIOUS
<1>2. \A i \in 1..Len(s) + Len(t) : i > Len(s) => i - Len(s) \in 1..Len(t)
  BY <1>1
<1>3. ToSet(s \o t) = ToSet(s) \union ToSet(t)
  <2>1. ASSUME NEW i \in 1..Len(s) + Len(t) PROVE (s \o t)[i] \in ToSet(s) \union ToSet(t)
    <3>1. CASE i <= Len(s)
      BY <1>1, <3>1 DEF ToSet
    <3>2. CASE i > Len(s)
      BY <1>1, <1>2, <3>2 DEF ToSet
    <3> QED
      BY <1>1, <3>1, <3>2
  <2>2. ASSUME NEW i \in 1..Len(s) PROVE s[i] \in ToSet(s \o t)
    <3>1. i \in 1..Len(s) + Len(t)
      BY <1>1
    <3> QED
      BY <1>1, <3>1 DEF ToSet
  <2>3. ASSUME NEW i \in 1..Len(t) PROVE t[i] \in ToSet(s \o t)
    <3>1. i + Len(s) \in 1..Len(s) + Len(t) /\ i + Len(s) > Len(s) /\ i + Len(s) - Len(s) = i
      BY <1>1
    <3> QED
      BY <1>1, <3>1 DEF ToSet
  <2>4. ToSet(s \o t) \subseteq ToSet(s) \union ToSet(t)
    BY <1>1, <2>1 DEF ToSet
  <2>5. ToSet(s) \subseteq ToSet(s \o t)
    BY <1>1, <2>2 DEF ToSet
  <2>6. ToSet(t) \subseteq ToSet(s \o t)
    BY <1>1, <2>3 DEF ToSet
  <2> QED
    BY <2>4, <2>5, <2>6
<1>4. ASSUME Ordered(s), Ordered(t), Ahead(ToSet(s), ToSet(t)) PROVE Ordered(s \o t)
  <2> SUFFICES ASSUME NEW i \in 1..Len(s) + Len(t), NEW j \in 1..Len(s) + Len(t), i < j
               PROVE  Precedes((s \o t)[i], (s \o t)[j])
    BY <1>1 DEF Ordered
  <2>1. CASE j <= Len(s)
    BY <1>1, <1>4, <2>1 DEF Ordered
  <2>2. CASE i <= Len(s) /\ j > Len(s)
    <3>1. (s \o t)[i] \in ToSet(s)
      BY <1>1, <2>2 DEF ToSet
    <3>2. (s \o t)[j] \in ToSet(t)
      BY <1>1, <1>2, <2>2 DEF ToSet
    <3> QED
      BY <1>4, <3>1, <3>2 DEF Ahead
  <2>3. CASE i > Len(s)
    <3>1. /\ i - Len(s) \in 1..Len(t) /\ j - Len(s) \in 1..Len(t)
          /\ i - Len(s) < j - Len(s) /\ j > Len(s)
      BY <1>1, <1>2, <2>3
    <3> QED
      BY <1>1, <1>4, <2>3, <3>1 DEF Ordered
  <2>4. j <= Len(s) \/ (i <= Len(s) /\ j > Len(s)) \/ i > Len(s)
    BY <1>1
  <2> QED
    BY <2>1, <2>2, <2>3, <2>4
<1> QED
  BY <1>1, <1>3, <1>4

\* Only keeps the order, of exactly the elements in S.
LEMMA OnlyOrdered ==
    ASSUME NEW R, NEW s \in Seq(R), NEW S, Ordered(s)
    PROVE  /\ Only(s, S) \in Seq(R)
           /\ ToSet(Only(s, S)) = ToSet(s) \intersect S
           /\ Ordered(Only(s, S))
<1> DEFINE n == Len(s)
           g == PrefixesOfALog(s, S)
           Before(m) == {s[i] : i \in 1..m}
           Fits(m) == /\ g[m] \in Seq(R)
                      /\ ToSet(g[m]) = Before(m) \intersect S
                      /\ Ordered(g[m])
           Good == {m \in 0..n : Fits(m)}
<1>1. n \in Nat /\ DOMAIN s = 1..n
  OBVIOUS
<1>2. \A i \in 0..n : g[i] = Continued(s, S, g, i)
  BY <1>1, PrefixesExist
<1> HIDE DEF g
<1>3. Fits(0)
  <2>1. g[0] = <<>>
    BY <1>1, <1>2 DEF Continued
  <2>2. <<>> \in Seq(R) /\ ToSet(<<>>) = {} /\ Ordered(<<>>)
    BY DEF ToSet, Ordered
  <2>3. Before(0) = {}
    OBVIOUS
  <2> QED
    BY <2>1, <2>2, <2>3
<1>4. ASSUME NEW m \in 0..n - 1, Fits(m) PROVE Fits(m + 1)
  <2>1. /\ m + 1 \in 1..n
        /\ g[m + 1] = IF s[m + 1] \in S THEN Append(g[m], s[m + 1]) ELSE g[m]
    BY <1>1, <1>2 DEF Continued
  <2>2. Before(m + 1) = Before(m) \union {s[m + 1]}
    BY <1>1
  <2>3. CASE s[m + 1] \notin S
    <3>1. g[m + 1] = g[m]
      BY <2>1, <2>3
    <3>2. Before(m + 1) \intersect S = Before(m) \intersect S
      BY <2>2, <2>3
    <3> HIDE DEF Before
    <3> QED
      BY <1>4, <3>1, <3>2
  <2>4. CASE s[m + 1] \in S
    <3>1. s[m + 1] \in R
      BY <2>1
    <3>2. Ahead(ToSet(g[m]), {s[m + 1]})
      BY <1>1, <1>4, <2>1 DEF Ahead, Ordered
    <3>3. /\ Append(g[m], s[m + 1]) \in Seq(R)
          /\ ToSet(Append(g[m], s[m + 1])) = ToSet(g[m]) \union {s[m + 1]}
          /\ Ordered(Append(g[m], s[m + 1]))
      <4>1. g[m] \in Seq(R) /\ Ordered(g[m])
        BY <1>4
      <4> QED
        BY <3>1, <3>2, <4>1, AppendOrdered
    <3>4. g[m + 1] = Append(g[m], s[m + 1])
      BY <2>1, <2>4
    <3> HIDE DEF Before
    <3>5. ToSet(g[m + 1]) = Before(m + 1) \intersect S
      BY <1>4, <2>2, <2>4, <3>3, <3>4
    <3> QED
      BY <3>3, <3>4, <3>5
  <2> QED
    BY <2>3, <2>4
<1>5. Fits(n)
  <2> HIDE DEF Fits
  <2>1. 0 \in Good /\ \A m \in 0..n - 1 : m \in Good => m + 1 \in Good
    BY <1>1, <1>3, <1>4
  <2> HIDE DEF Good
  <2>2. 0..n \subseteq Good
    BY <1>1, <2>1, Induction
  <2> QED
    BY <1>1, <2>2 DEF Good
<1>6. ToSet(s) = Before(n)
  BY <1>1 DEF ToSet
<1> QED
  BY <1>5, <1>6, OnlyIsItsValue DEF g

\* Entries of an ordered sequence are told apart by their numbers.
LEMMA OrderedIsDistinct ==
    ASSUME NEW R, NEW s \in Seq(R), Ordered(s)
    PROVE  \A x, y \in ToSet(s) : x.n = y.n => x = y
<1> SUFFICES ASSUME NEW i \in 1..Len(s), NEW j \in 1..Len(s), s[i].n = s[j].n
             PROVE  s[i] = s[j]
  BY DOMAIN s = 1..Len(s) DEF ToSet
<1>1. CASE i = j
  BY <1>1
<1>2. CASE i < j
  BY <1>2 DEF Ordered, Precedes
<1>3. CASE j < i
  BY <1>3 DEF Ordered, Precedes
<1> QED
  BY <1>1, <1>2, <1>3

-----------------------------------------------------------------------------
(* The invariant: entries move from the channel to the batch and on to the *)
(* tables without overtaking another one of their tenant.                  *)

OnTheWay == ToSet(written) \union ToSet(batch) \union ToSet(entries)

InOrder ==
    /\ Ordered(written) /\ Ordered(batch) /\ Ordered(entries)
    /\ Ahead(ToSet(written), ToSet(batch) \union ToSet(entries))
    /\ Ahead(ToSet(batch), ToSet(entries))

Accounted ==
    /\ Numbers(OnTheWay) \intersect lost = {}
    /\ Numbers(OnTheWay) \union lost = 1..logged

WriterInv == TypeOK /\ InOrder /\ Accounted

LEMMA EntryFields ==
    ASSUME NEW e \in Entry
    PROVE  e.n \in 1..MaxEntries /\ e.tenant \in Tenants \union {NoTenant}
BY DEF Entry

LEMMA WriterInit == Init => WriterInv
<1> SUFFICES ASSUME Init PROVE WriterInv
  OBVIOUS
<1>1. TypeOK
  <2>1. <<>> \in Seq(Entry) /\ Len(<<>>) <= BufferSize
    BY ConstantsAssumption
  <2>2. 0 \in 0..MaxActive /\ 0 \in 0..MaxEntries
    BY ConstantsAssumption
  <2> QED
    BY <2>1, <2>2 DEF Init, TypeOK
<1>2. ToSet(<<>>) = {}
  BY DEF ToSet
<1>3. InOrder
  BY <1>2 DEF Init, InOrder, Ordered, Ahead
<1>4. Accounted
  BY <1>2 DEF Init, Accounted, OnTheWay, Numbers
<1> QED
  BY <1>1, <1>3, <1>4 DEF WriterInv

LEMMA LogTypes ==
    ASSUME TypeOK, NEW t \in Tenants \union {NoTenant}, Log(t)
    PROVE  TypeOK'
<1> DEFINE e == [n |-> logged + 1, tenant |-> t]
<1>1. e \in Entry /\ e.n \in 1..MaxEntries /\ logged + 1 \in 0..MaxEntries
  BY ConstantsAssumption DEF Log, Entry, TypeOK
<1>2. active - 1 \in 0..MaxActive
  BY ConstantsAssumption DEF Log, TypeOK
<1>3. entries' \in Seq(Entry) /\ Len(entries') <= BufferSize
  <2>1. CASE entries' = entries
    BY <2>1 DEF TypeOK
  <2>2. CASE entries' = Append(entries, e) /\ ~Full
    <3>1. Append(entries, e) \in Seq(Entry) /\ Len(Append(entries, e)) = Len(entries) + 1
      BY <1>1 DEF TypeOK
    <3>2. Len(entries) \in Nat /\ Len(entries) < BufferSize
      BY <2>2, ConstantsAssumption DEF TypeOK, Full
    <3> QED
      BY <2>2, <3>1, <3>2, ConstantsAssumption
  <2> QED
    BY <2>1, <2>2 DEF Log
<1> QED
  BY <1>1, <1>2, <1>3 DEF Log, TypeOK, goroutine

LEMMA TakeTypes ==
    ASSUME TypeOK, Take, UNCHANGED <<process, written>>,
           writer' \in {"select", "drain", "flush", "done"}, resume' \in {"select", "done"}
    PROVE  TypeOK'
<1>1. /\ Tail(entries) \in Seq(Entry)
      /\ Len(Tail(entries)) = Len(entries) - 1
      /\ Append(batch, Head(entries)) \in Seq(Entry)
  BY TailOrdered, AppendOrdered DEF Take, TypeOK
<1>2. Len(entries) \in Nat
  BY DEF TypeOK
<1> QED
  BY <1>1, <1>2, ConstantsAssumption DEF Take, TypeOK, process

LEMMA WriteTenantTypes ==
    ASSUME TypeOK, Ordered(batch), NEW t \in Tenants \union {NoTenant}, WriteTenant(t)
    PROVE  TypeOK'
<1>1. PICK S \in SUBSET Of(t) : /\ written' = written \o Only(batch, S)
                                /\ lost' = lost \union Numbers(Of(t) \ S)
  BY DEF WriteTenant
<1>2. Only(batch, S) \in Seq(Entry) /\ batch' \in Seq(Entry)
  BY OnlyOrdered DEF TypeOK, WriteTenant
<1>3. written' \in Seq(Entry)
  BY <1>1, <1>2, ConcatOrdered DEF TypeOK
<1>4. Of(t) \subseteq Entry
  BY DEF Of, ToSet, TypeOK
<1>5. Numbers(Of(t) \ S) \subseteq 1..MaxEntries
  BY <1>4, EntryFields DEF Numbers
<1>6. lost' \in SUBSET (1..MaxEntries)
  BY <1>1, <1>5 DEF TypeOK
<1>7. UNCHANGED <<server, active, logged, entries, closed, panicked, early, writer, resume>>
  BY DEF WriteTenant, process
<1> QED
  BY <1>2, <1>3, <1>6, <1>7 DEF TypeOK

LEMMA WriterTypeStep == TypeOK /\ Ordered(batch) /\ [Next]_vars => TypeOK'
<1> SUFFICES ASSUME TypeOK, Ordered(batch), [Next]_vars PROVE TypeOK'
  OBVIOUS
<1> USE DEF process, channel, goroutine
<1>1. CASE StartRequest \/ EndRequest
  <2>1. active' \in 0..MaxActive
    BY <1>1, ConstantsAssumption DEF StartRequest, EndRequest, TypeOK
  <2>2. UNCHANGED <<server, channel, goroutine, written>>
    BY <1>1 DEF StartRequest, EndRequest
  <2> QED
    BY <2>1, <2>2 DEF TypeOK
<1>2. CASE ReceiveEntry \/ DrainEntry
  <2>1. writer' \in {"select", "drain", "flush", "done"} /\ resume' \in {"select", "done"}
    BY <1>2 DEF ReceiveEntry, DrainEntry, FlushThen, TypeOK
  <2> QED
    BY <1>2, <2>1, TakeTypes DEF ReceiveEntry, DrainEntry
<1>3. CASE Ticker \/ ContextDone \/ Drained \/ ChannelClosed \/ EndFlush
  <2>1. CASE Ticker
    BY <2>1 DEF Ticker, FlushThen, TypeOK
  <2>2. CASE ContextDone
    BY <2>2 DEF ContextDone, TypeOK
  <2>3. CASE Drained
    BY <2>3 DEF Drained, FlushThen, TypeOK
  <2>4. CASE ChannelClosed
    BY <2>4 DEF ChannelClosed, FlushThen, TypeOK
  <2>5. CASE EndFlush
    BY <2>5 DEF EndFlush, TypeOK
  <2> QED
    BY <1>3, <2>1, <2>2, <2>3, <2>4, <2>5
<1>4. CASE Cancel \/ ShutdownReturns \/ CloseReturns
  BY <1>4 DEF Cancel, ShutdownReturns, CloseReturns, TypeOK
<1>5. CASE UNCHANGED vars
  BY <1>5 DEF vars, TypeOK
<1> QED
  BY <1>1, <1>2, <1>3, <1>4, <1>5, LogTypes, WriteTenantTypes DEF Next, Writing

-----------------------------------------------------------------------------
(* No entry is overtaken, none disappears.                                 *)

\* What is logged has a number above all others, and goes last or is given up.
LEMMA LogKeeps ==
    ASSUME WriterInv, NEW t \in Tenants \union {NoTenant}, Log(t)
    PROVE  InOrder' /\ Accounted'
<1> DEFINE e == [n |-> logged + 1, tenant |-> t]
<1> USE DEF WriterInv
<1>1. /\ e \in Entry /\ e.n = logged + 1 /\ e.n \notin 1..logged /\ logged' = logged + 1
      /\ 1..logged' = 1..logged \union {e.n}
  <2>1. logged' = logged + 1 /\ logged < MaxEntries
    BY DEF Log
  <2>2. logged \in Nat /\ logged + 1 \in 1..MaxEntries
    BY <2>1, ConstantsAssumption DEF TypeOK
  <2>3. e \in Entry
    BY <2>2 DEF Entry
  <2> QED
    BY <2>1, <2>2, <2>3
<1>2. ASSUME NEW x \in OnTheWay PROVE Precedes(x, e)
  <2>1. x.n \in 1..logged
    BY DEF Accounted, Numbers
  <2> QED
    BY <1>1, <2>1 DEF Precedes, TypeOK
<1>3. e.n \notin lost /\ e.n \notin Numbers(OnTheWay)
  BY <1>1 DEF Accounted
<1> HIDE DEF e
<1>4. CASE entries' = entries /\ lost' = lost \union {e.n}
  <2>1. OnTheWay' = OnTheWay /\ Numbers(OnTheWay)' = Numbers(OnTheWay)
    BY <1>4 DEF OnTheWay, Log, goroutine, ToSet, Numbers
  <2>2. Accounted'
    BY <1>1, <1>3, <1>4, <2>1 DEF Accounted
  <2>3. InOrder'
    BY <1>4 DEF InOrder, Log, goroutine, Ordered, Ahead, Precedes, ToSet
  <2> QED
    BY <2>2, <2>3
<1>5. CASE entries' = Append(entries, e) /\ lost' = lost
  <2>0. batch' = batch /\ written' = written
    BY DEF Log, goroutine
  <2>1. Ahead(ToSet(entries), {e}) /\ Ahead(ToSet(batch), {e}) /\ Ahead(ToSet(written), {e})
    BY <1>2 DEF Ahead, OnTheWay
  <2>2. ToSet(entries') = ToSet(entries) \union {e} /\ Ordered(entries')
    BY <1>1, <1>5, <2>1, AppendOrdered DEF TypeOK, InOrder
  <2>3. InOrder'
    BY <2>0, <2>1, <2>2 DEF InOrder, Ahead
  <2>4. OnTheWay' = OnTheWay \union {e}
    BY <2>0, <2>2 DEF OnTheWay
  <2>5. Numbers(OnTheWay)' = Numbers(OnTheWay) \union {e.n}
    BY <2>4 DEF Numbers
  <2>6. Accounted'
    BY <1>1, <1>3, <1>5, <2>5 DEF Accounted
  <2> QED
    BY <2>3, <2>6
<1> QED
  BY <1>4, <1>5 DEF Log, e

\* The head of the channel precedes what stays there, and goes behind the batch.
LEMMA TakeKeeps ==
    ASSUME WriterInv, Take, UNCHANGED <<process, written>>
    PROVE  InOrder' /\ Accounted'
<1> DEFINE e == Head(entries)
<1> USE DEF WriterInv
<1>1. /\ e \in Entry
      /\ ToSet(entries) = {e} \union ToSet(entries')
      /\ Ordered(entries')
      /\ Ahead({e}, ToSet(entries'))
  BY TailOrdered DEF Take, TypeOK, InOrder
<1> HIDE DEF e
<1>2. Ahead(ToSet(batch), {e})
  BY <1>1 DEF InOrder, Ahead
<1>3. ToSet(batch') = ToSet(batch) \union {e} /\ Ordered(batch')
  BY <1>1, <1>2, AppendOrdered DEF Take, TypeOK, InOrder, e
<1>4. InOrder'
  BY <1>1, <1>3 DEF InOrder, Ahead
<1>5. OnTheWay' = OnTheWay
  BY <1>1, <1>3 DEF OnTheWay
<1>6. Accounted'
  BY <1>5 DEF Accounted, Take, Numbers
<1> QED
  BY <1>4, <1>6

\* The entries of one tenant leave the batch, to its table or for good.
LEMMA WriteTenantKeeps ==
    ASSUME WriterInv, NEW t \in Tenants \union {NoTenant}, WriteTenant(t)
    PROVE  InOrder' /\ Accounted'
<1> USE DEF WriterInv
<1>1. PICK S \in SUBSET Of(t) : /\ written' = written \o Only(batch, S)
                                /\ lost' = lost \union Numbers(Of(t) \ S)
  BY DEF WriteTenant
<1>2. batch' = Only(batch, ToSet(batch) \ Of(t)) /\ UNCHANGED <<entries, logged>>
  BY DEF WriteTenant
<1>3. Of(t) \subseteq ToSet(batch) /\ \A x \in ToSet(batch) : x \in Of(t) <=> x.tenant = t
  BY DEF Of
<1>4. ToSet(Only(batch, S)) = S /\ Ordered(Only(batch, S)) /\ Only(batch, S) \in Seq(Entry)
  <2>1. ToSet(batch) \intersect S = S
    BY <1>3
  <2> QED
    BY <2>1, OnlyOrdered DEF TypeOK, InOrder
<1>5. ToSet(batch') = ToSet(batch) \ Of(t) /\ Ordered(batch')
  <2>1. ToSet(batch) \intersect (ToSet(batch) \ Of(t)) = ToSet(batch) \ Of(t)
    OBVIOUS
  <2> QED
    BY <1>2, <2>1, OnlyOrdered DEF TypeOK, InOrder
<1>6. \A x, y \in ToSet(batch) : x.n = y.n => x = y
  BY OrderedIsDistinct DEF TypeOK, InOrder
<1>7. Ahead(ToSet(written), S)
  BY <1>3 DEF InOrder, Ahead
<1>8. ToSet(written') = ToSet(written) \union S /\ Ordered(written')
  BY <1>1, <1>4, <1>7, ConcatOrdered DEF TypeOK, InOrder
<1>9. InOrder'
  <2>1. Ahead(S, ToSet(batch'))
    BY <1>3, <1>5, <1>6 DEF Ahead, Precedes
  <2> QED
    BY <1>2, <1>3, <1>5, <1>8, <2>1 DEF InOrder, Ahead
<1>10. OnTheWay' = OnTheWay \ (Of(t) \ S)
  <2>1. \A x \in Of(t) : x \notin ToSet(written) /\ x \notin ToSet(entries)
    BY <1>3 DEF InOrder, Ahead, Precedes
  <2> QED
    BY <1>2, <1>3, <1>5, <1>8, <2>1 DEF OnTheWay
<1>11. \A x \in OnTheWay, y \in Of(t) : x.n = y.n => x = y
  BY <1>3, <1>6 DEF OnTheWay, InOrder, Ahead, Precedes
<1>12. Numbers(OnTheWay)' = Numbers(OnTheWay) \ Numbers(Of(t) \ S)
  BY <1>10, <1>11 DEF Numbers
<1>13. Numbers(Of(t) \ S) \subseteq Numbers(OnTheWay)
  BY <1>3 DEF Numbers, OnTheWay
<1>14. Accounted'
  BY <1>1, <1>2, <1>12, <1>13 DEF Accounted
<1> QED
  BY <1>9, <1>14

LEMMA WriterUntouched ==
    ASSUME WriterInv, UNCHANGED <<entries, batch, written, lost, logged>>
    PROVE  InOrder' /\ Accounted'
BY DEF WriterInv, InOrder, Accounted, OnTheWay, Ordered, Ahead, Precedes, ToSet, Numbers

LEMMA WriterStep == WriterInv /\ [Next]_vars => WriterInv'
<1> SUFFICES ASSUME WriterInv, [Next]_vars PROVE WriterInv'
  OBVIOUS
<1> USE DEF process, channel, goroutine
<1>1. TypeOK'
  BY WriterTypeStep DEF WriterInv, InOrder
<1>2. CASE ReceiveEntry \/ DrainEntry
  BY <1>1, <1>2, TakeKeeps DEF ReceiveEntry, DrainEntry, WriterInv
<1>3. CASE StartRequest \/ EndRequest \/ Ticker \/ ContextDone \/ Drained \/ ChannelClosed \/ EndFlush
           \/ Cancel \/ ShutdownReturns \/ CloseReturns \/ UNCHANGED vars
  <2>1. UNCHANGED <<entries, batch, written, lost, logged>>
    BY <1>3 DEF StartRequest, EndRequest, Ticker, ContextDone, Drained, ChannelClosed, EndFlush,
                Cancel, ShutdownReturns, CloseReturns, vars
  <2> QED
    BY <1>1, <2>1, WriterUntouched DEF WriterInv
<1>4. ASSUME NEW t \in Tenants \union {NoTenant}, Log(t) \/ WriteTenant(t) PROVE WriterInv'
  BY <1>1, <1>4, LogKeeps, WriteTenantKeeps DEF WriterInv
<1> QED
  BY <1>2, <1>3, <1>4 DEF Next, Writing

LEMMA WriterInvariant == Spec => []WriterInv
BY WriterInit, WriterStep, PTL DEF Spec

-----------------------------------------------------------------------------
(* The results.                                                            *)

(***************************************************************************)
(* The types of the channel, the batch and the tables; the channel is      *)
(* never over its capacity (audit.go, Log).                                *)
(***************************************************************************)
THEOREM TypeCorrect == Spec => []TypeOK
<1>1. WriterInv => TypeOK
  BY DEF WriterInv
<1> QED
  BY <1>1, WriterInvariant, PTL

\* A sequence without repeated numbers has as many numbers as entries.
LEMMA NumbersOfOrdered ==
    ASSUME NEW s \in Seq(Entry), Ordered(s)
    PROVE  Cardinality({s[i].n : i \in DOMAIN s}) = Len(s)
<1> DEFINE N == {s[i].n : i \in DOMAIN s}
           f == [i \in 1..Len(s) |-> s[i].n]
<1>1. Len(s) \in Nat /\ DOMAIN s = 1..Len(s)
  OBVIOUS
<1>2. f \in [1..Len(s) -> N] /\ \A k \in N : \E i \in 1..Len(s) : f[i] = k
  BY <1>1
<1>3. ASSUME NEW i \in 1..Len(s), NEW j \in 1..Len(s), f[i] = f[j] PROVE i = j
  <2>1. ~(i < j) /\ ~(j < i)
    BY <1>1, <1>3 DEF Ordered, Precedes
  <2> QED
    BY <2>1
<1>4. f \in Bijection(1..Len(s), N)
  BY <1>2, <1>3 DEF Bijection, Injection, Surjection, IsInjective
<1>5. IsFiniteSet(1..Len(s)) /\ Cardinality(1..Len(s)) = Len(s)
  BY <1>1, FS_Interval
<1> HIDE DEF N, f
<1>6. Cardinality(N) = Len(s)
  BY <1>4, <1>5, FS_Bijection DEF ExistsBijection
<1> QED
  BY <1>6 DEF N

(***************************************************************************)
(* No entry disappears or is written twice between the channel, the batch  *)
(* and the tables, whatever fails and whenever the shutdown comes          *)
(* (audit.go, Log, run and flush).                                         *)
(***************************************************************************)
THEOREM EveryEntryAccountedForCorrect == Spec => []EveryEntryAccountedFor
<1>1. ASSUME WriterInv PROVE EveryEntryAccountedFor
  <2> DEFINE moved == written \o batch
             places == moved \o entries
             numbers == {places[i].n : i \in DOMAIN places}
  <2>1. /\ moved \in Seq(Entry)
        /\ ToSet(moved) = ToSet(written) \union ToSet(batch)
        /\ Ordered(moved)
    BY <1>1, ConcatOrdered DEF WriterInv, TypeOK, InOrder, Ahead
  <2> HIDE DEF moved
  <2>2. Ahead(ToSet(moved), ToSet(entries))
    BY <1>1, <2>1 DEF WriterInv, InOrder, Ahead
  <2>3. places \in Seq(Entry) /\ ToSet(places) = OnTheWay /\ Ordered(places)
    <3>1. entries \in Seq(Entry) /\ Ordered(entries)
      BY <1>1 DEF WriterInv, TypeOK, InOrder
    <3>2. places \in Seq(Entry)
      BY <2>1, <3>1
    <3>3. ToSet(places) = ToSet(moved) \union ToSet(entries)
      BY <2>1, <3>1, ConcatOrdered
    <3>4. Ordered(places)
      BY <2>1, <2>2, <3>1, ConcatOrdered
    <3> QED
      BY <2>1, <3>2, <3>3, <3>4 DEF OnTheWay
  <2>4. numbers = Numbers(OnTheWay)
    <3>1. numbers = Numbers(ToSet(places))
      BY DEF Numbers, ToSet
    <3> QED
      BY <2>3, <3>1
  <2>5. Cardinality(numbers) = Len(places)
    BY <2>3, NumbersOfOrdered
  <2> QED
    BY <1>1, <2>4, <2>5 DEF moved, EveryEntryAccountedFor, WriterInv, Accounted
<1> QED
  BY <1>1, WriterInvariant, PTL

(***************************************************************************)
(* The audit log of every tenant is in the order of logging, over batches, *)
(* failures and the final drain (audit.go, run and flush).                 *)
(***************************************************************************)
THEOREM TenantLogInOrderCorrect == Spec => []TenantLogInOrder
<1>1. WriterInv => TenantLogInOrder
  BY DEF WriterInv, InOrder, Ordered, Precedes, TenantLogInOrder
<1> QED
  BY <1>1, WriterInvariant, PTL
=============================================================================
