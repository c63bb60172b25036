------------------------------ MODULE SignalProofs ------------------------------
(***************************************************************************)
(* Proofs about SignalContainer, the pool it implements, and               *)
(* SignalPipeline, in four parts: induction on the natural numbers and     *)
(* what Without does to a queue; what the operations of SignalStore do to  *)
(* a store that agrees with its index; the container; the pipeline.        *)
(***************************************************************************)
EXTENDS SignalContainer, SignalPipeline,
        NaturalsInduction, WellFoundedInduction, FiniteSetTheorems, TLAPS

-----------------------------------------------------------------------------
(* Part 1. Induction, in a form without an operator parameter: every       *)
(* non-empty set of natural numbers has a least element.                   *)
Below == {p \in Nat \X Nat : p[1] < p[2]}

LEMMA BelowIsWellFounded == IsWellFoundedOn(Below, Nat)
BY NatLessThanWellFounded, Zenon DEF OpToRel, Below

LEMMA LeastNumber ==
  ASSUME NEW T, T \subseteq Nat, T # {}
  PROVE  \E n \in T : \A m \in T : n <= m
<1>1. PICK n \in T : \A m \in T : ~ (<<m, n>> \in Below)
  BY BelowIsWellFounded, WFMin, Zenon
<1>2. \A m \in T : <<m, n>> \in Nat \X Nat /\ <<m, n>>[1] = m /\ <<m, n>>[2] = n
  OBVIOUS
<1>3. \A m \in T : ~ (m < n)
  BY <1>1, <1>2, Zenon DEF Below
<1> QED BY <1>3

(* A set that holds 0 and, with a number, the next one holds them all.     *)
LEMMA InductiveSet ==
  ASSUME NEW T, 0 \in T, \A n \in Nat : n \in T => n + 1 \in T
  PROVE  Nat \subseteq T
<1> SUFFICES ASSUME Nat \ T # {} PROVE FALSE
  OBVIOUS
<1>1. PICK n \in Nat \ T : \A m \in Nat \ T : n <= m
  BY LeastNumber
<1>2. n # 0 /\ n - 1 \in Nat
  BY <1>1
<1>3. n - 1 \in T
  BY <1>1, <1>2
<1> QED BY <1>1, <1>2, <1>3

(* The function Without is defined by, up to the m-th signal of q.         *)
KeptUpTo(q, ids, kept, m) ==
  /\ kept[0] = <<>>
  /\ \A n \in 1..m :
       kept[n] = IF q[n].id \in ids THEN kept[n - 1] ELSE Append(kept[n - 1], q[n])
IsKept(q, ids, kept) ==
  kept = [n \in 0..Len(q) |->
            IF n = 0 THEN <<>>
            ELSE IF q[n].id \in ids THEN kept[n - 1] ELSE Append(kept[n - 1], q[n])]

(* There is such a function, by induction on m.                            *)
LEMMA KeptExists ==
  ASSUME NEW S, NEW q \in Seq(S), NEW ids, NEW m \in Nat, m <= Len(q)
  PROVE  \E kept \in [0..m -> Seq(S)] : KeptUpTo(q, ids, kept, m)
<1> DEFINE T == {n \in Nat : n <= Len(q) =>
                   \E kept \in [0..n -> Seq(S)] : KeptUpTo(q, ids, kept, n)}
<1>1. 0 \in T
  <2>1. [n \in 0..0 |-> <<>>] \in [0..0 -> Seq(S)]
    OBVIOUS
  <2>2. KeptUpTo(q, ids, [n \in 0..0 |-> <<>>], 0)
    BY DEF KeptUpTo
  <2> QED BY <2>1, <2>2
<1>2. ASSUME NEW n \in Nat, n \in T PROVE n + 1 \in T
  <2> SUFFICES ASSUME n + 1 <= Len(q)
               PROVE  \E kept \in [0..(n + 1) -> Seq(S)] : KeptUpTo(q, ids, kept, n + 1)
    OBVIOUS
  <2>1. PICK kept \in [0..n -> Seq(S)] : KeptUpTo(q, ids, kept, n)
    BY <1>2
  <2>2. q[n + 1] \in S /\ kept[n] \in Seq(S)
    OBVIOUS
  <2> DEFINE last == IF q[n + 1].id \in ids THEN kept[n] ELSE Append(kept[n], q[n + 1])
             more == [i \in 0..(n + 1) |-> IF i = n + 1 THEN last ELSE kept[i]]
  <2>3. last \in Seq(S)
    BY <2>2
  <2>4. more \in [0..(n + 1) -> Seq(S)]
    BY <2>3
  <2>5. KeptUpTo(q, ids, more, n + 1)
    <3>1. more[0] = <<>>
      BY <2>1 DEF KeptUpTo
    <3>2. ASSUME NEW i \in 1..(n + 1)
          PROVE  more[i] = IF q[i].id \in ids THEN more[i - 1]
                                              ELSE Append(more[i - 1], q[i])
      <4>1. more[i - 1] = kept[i - 1]
        OBVIOUS
      <4>2. CASE i = n + 1
        BY <4>1, <4>2
      <4>3. CASE i # n + 1
        <5>1. i \in 1..n /\ more[i] = kept[i]
          BY <4>3
        <5> QED BY <4>1, <5>1, <2>1 DEF KeptUpTo
      <4> QED BY <4>2, <4>3
    <3> QED BY <3>1, <3>2 DEF KeptUpTo
  <2> QED BY <2>4, <2>5
<1>3. Nat \subseteq T
  <2>1. \A n \in Nat : n \in T => n + 1 \in T
    BY <1>2
  <2> HIDE DEF T
  <2> QED BY <1>1, <2>1, InductiveSet
<1> QED BY <1>3

LEMMA WithoutIsKept ==
  ASSUME NEW S, NEW q \in Seq(S), NEW ids
  PROVE  \E kept : KeptUpTo(q, ids, kept, Len(q)) /\ Without(q, ids) = kept[Len(q)]
<1> DEFINE k == CHOOSE kept : IsKept(q, ids, kept)
<1>1. Without(q, ids) = k[Len(q)]
  BY Zenon DEF Without, IsKept
<1>2. PICK f \in [0..Len(q) -> Seq(S)] : KeptUpTo(q, ids, f, Len(q))
  <2>1. Len(q) \in Nat /\ Len(q) <= Len(q)
    OBVIOUS
  <2> QED BY <2>1, KeptExists
<1>3. IsKept(q, ids, f)
  <2>1. f = [n \in 0..Len(q) |-> f[n]]
    OBVIOUS
  <2>2. ASSUME NEW n \in 0..Len(q)
        PROVE  f[n] = IF n = 0 THEN <<>>
                      ELSE IF q[n].id \in ids THEN f[n - 1] ELSE Append(f[n - 1], q[n])
    <3>1. n = 0 \/ n \in 1..Len(q)
      OBVIOUS
    <3> QED BY <1>2, <3>1 DEF KeptUpTo
  <2> QED BY <2>1, <2>2 DEF IsKept
<1>4. IsKept(q, ids, k)
  BY <1>3, Zenon
<1>5. KeptUpTo(q, ids, k, Len(q))
  <2> HIDE DEF k
  <2>1. Len(q) \in Nat
    OBVIOUS
  <2>2. k[0] = <<>>
    BY <1>4, <2>1 DEF IsKept
  <2>3. ASSUME NEW n \in 1..Len(q)
        PROVE  k[n] = IF q[n].id \in ids THEN k[n - 1] ELSE Append(k[n - 1], q[n])
    <3>1. n \in 0..Len(q) /\ n # 0
      OBVIOUS
    <3> QED BY <1>4, <3>1 DEF IsKept
  <2> QED BY <2>2, <2>3 DEF KeptUpTo
<1> QED BY <1>1, <1>5, Zenon

(* No id comes twice in a queue.                                           *)
Distinct(q) == \A m, n \in DOMAIN q : q[m].id = q[n].id => m = n

LEMMA AppendElements ==
  ASSUME NEW S, NEW q \in Seq(S), NEW s \in S
  PROVE  /\ Append(q, s) \in Seq(S)
         /\ Elements(Append(q, s)) = Elements(q) \cup {s}
         /\ Distinct(q) /\ s.id \notin IdsOf(q) => Distinct(Append(q, s))
<1> DEFINE r == Append(q, s)
<1>1. /\ r \in Seq(S) /\ DOMAIN r = 1..(Len(q) + 1) /\ DOMAIN q = 1..Len(q) /\ Len(q) \in Nat
      /\ \A n \in 1..Len(q) : r[n] = q[n]
      /\ r[Len(q) + 1] = s
  OBVIOUS
<1> HIDE DEF r
<1>2. Elements(r) = Elements(q) \cup {s}
  <2>1. ASSUME NEW x \in Elements(r) PROVE x \in Elements(q) \cup {s}
    <3>1. PICK n \in 1..(Len(q) + 1) : x = r[n]
      BY <1>1 DEF Elements
    <3>2. n \in 1..Len(q) \/ n = Len(q) + 1
      BY <1>1
    <3> QED BY <1>1, <3>1, <3>2 DEF Elements
  <2>2. ASSUME NEW x \in Elements(q) PROVE x \in Elements(r)
    <3>1. PICK n \in 1..Len(q) : x = q[n]
      BY <1>1 DEF Elements
    <3>2. n \in 1..(Len(q) + 1)
      BY <1>1
    <3> QED BY <1>1, <3>1, <3>2 DEF Elements
  <2>3. Len(q) + 1 \in 1..(Len(q) + 1)
    BY <1>1
  <2>4. s \in Elements(r)
    BY <1>1, <2>3 DEF Elements
  <2> QED BY <2>1, <2>2, <2>4
<1>3. ASSUME Distinct(q), s.id \notin IdsOf(q) PROVE Distinct(r)
  <2>1. \A n \in 1..Len(q) : q[n].id # s.id
    BY <1>1, <1>3 DEF IdsOf, Elements
  <2>2. \A n \in 1..(Len(q) + 1) : n \in 1..Len(q) \/ n = Len(q) + 1
    BY <1>1
  <2> QED BY <1>1, <1>3, <2>1, <2>2 DEF Distinct
<1> QED BY <1>1, <1>2, <1>3 DEF r

(* The signals that stay are those with other ids, once and in the order   *)
(* they had; a queue that has none of the ids stays as it is.              *)
LEMMA WithoutProperties ==
  ASSUME NEW S, NEW q \in Seq(S), NEW ids
  PROVE  /\ Without(q, ids) \in Seq(S)
         /\ Elements(Without(q, ids)) = {s \in Elements(q) : s.id \notin ids}
         /\ Distinct(q) => Distinct(Without(q, ids))
         /\ (\A s \in Elements(q) : s.id \notin ids) => Without(q, ids) = q
<1>1. PICK k : KeptUpTo(q, ids, k, Len(q)) /\ Without(q, ids) = k[Len(q)]
  BY WithoutIsKept
<1>2. Len(q) \in Nat /\ DOMAIN q = 1..Len(q) /\ \A n \in 1..Len(q) : q[n] \in S
  OBVIOUS
<1> DEFINE Stays(n) == {q[i] : i \in {j \in 1..n : q[j].id \notin ids}}
           All == \A s \in Elements(q) : s.id \notin ids
           P(n) == /\ k[n] \in Seq(S)
                   /\ Elements(k[n]) = Stays(n)
                   /\ Distinct(q) => Distinct(k[n])
                   /\ All => Len(k[n]) = n /\ \A i \in 1..n : k[n][i] = q[i]
           T == {n \in Nat : n <= Len(q) => P(n)}
<1>3. 0 \in T
  <2>1. k[0] = <<>>
    BY <1>1 DEF KeptUpTo
  <2>2. /\ <<>> \in Seq(S) /\ Elements(<<>>) = {} /\ Distinct(<<>>) /\ Len(<<>>) = 0
    BY DEF Elements, Distinct
  <2>3. Stays(0) = {}
    OBVIOUS
  <2>4. P(0)
    <3> HIDE DEF Stays, All
    <3>1. k[0] \in Seq(S) /\ Elements(k[0]) = Stays(0)
      BY <2>1, <2>2, <2>3
    <3>2. Distinct(k[0])
      BY <2>1, <2>2
    <3>3. Len(k[0]) = 0 /\ \A i \in 1..0 : k[0][i] = q[i]
      BY <2>1
    <3> QED BY <3>1, <3>2, <3>3
  <2> HIDE DEF P
  <2> QED BY <2>4
<1>4. ASSUME NEW n \in Nat, n \in T PROVE n + 1 \in T
  <2> SUFFICES ASSUME n + 1 <= Len(q) PROVE P(n + 1)
    OBVIOUS
  <2>1. P(n)
    BY <1>2, <1>4
  <2>2. n + 1 \in 1..Len(q) /\ q[n + 1] \in S /\ (n + 1) - 1 = n
    BY <1>2
  <2>3. k[n + 1] = IF q[n + 1].id \in ids THEN k[n] ELSE Append(k[n], q[n + 1])
    BY <1>1, <2>2 DEF KeptUpTo
  <2>4. q[n + 1] \in Elements(q)
    BY <1>2, <2>2 DEF Elements
  <2>5. \A i \in 1..(n + 1) : i \in 1..n \/ i = n + 1
    OBVIOUS
  <2>6. CASE q[n + 1].id \in ids
    <3>1. Stays(n + 1) = Stays(n)
      BY <2>5, <2>6
    <3>2. ~All
      BY <2>4, <2>6
    <3>3. k[n + 1] = k[n]
      BY <2>3, <2>6
    <3> HIDE DEF Stays, All
    <3> QED BY <2>1, <3>1, <3>2, <3>3
  <2>7. CASE q[n + 1].id \notin ids
    <3>1. Stays(n + 1) = Stays(n) \cup {q[n + 1]}
      BY <2>5, <2>7
    <3>2. k[n + 1] = Append(k[n], q[n + 1])
      BY <2>3, <2>7
    <3>3. Distinct(q) => q[n + 1].id \notin IdsOf(k[n])
      <4> SUFFICES ASSUME Distinct(q), q[n + 1].id \in IdsOf(k[n]) PROVE FALSE
        OBVIOUS
      <4>1. PICK s \in Stays(n) : q[n + 1].id = s.id
        BY <2>1 DEF IdsOf
      <4>2. PICK i \in 1..n : s = q[i]
        BY <4>1
      <4>3. i \in DOMAIN q /\ n + 1 \in DOMAIN q /\ i # n + 1
        BY <1>2, <2>2
      <4> QED BY <4>1, <4>2, <4>3 DEF Distinct
    <3>4. /\ k[n + 1] \in Seq(S)
          /\ Elements(k[n + 1]) = Stays(n + 1)
          /\ Distinct(q) => Distinct(k[n + 1])
      <4>1. k[n] \in Seq(S) /\ Elements(k[n]) = Stays(n) /\ (Distinct(q) => Distinct(k[n]))
        BY <2>1
      <4> DEFINE r == Append(k[n], q[n + 1])
      <4>2. /\ r \in Seq(S) /\ Elements(r) = Elements(k[n]) \cup {q[n + 1]}
            /\ Distinct(k[n]) /\ q[n + 1].id \notin IdsOf(k[n]) => Distinct(r)
        BY <2>2, <4>1, AppendElements
      <4> HIDE DEF Stays, r
      <4>3. k[n + 1] = r
        BY <3>2 DEF r
      <4> QED BY <3>1, <3>3, <4>1, <4>2, <4>3
    <3>5. ASSUME All
          PROVE  Len(k[n + 1]) = n + 1 /\ \A i \in 1..(n + 1) : k[n + 1][i] = q[i]
      <4>1. k[n] \in Seq(S) /\ Len(k[n]) = n /\ \A i \in 1..n : k[n][i] = q[i]
        BY <2>1, <3>5
      <4> QED BY <2>2, <2>5, <3>2, <4>1
    <3> QED BY <3>4, <3>5
  <2> QED BY <2>6, <2>7
<1>5. Nat \subseteq T
  <2>1. \A n \in Nat : n \in T => n + 1 \in T
    BY <1>4
  <2> HIDE DEF T
  <2> QED BY <1>3, <2>1, InductiveSet
<1>6. P(Len(q))
  <2>1. Len(q) <= Len(q)
    BY <1>2
  <2> HIDE DEF P
  <2> QED BY <1>2, <1>5, <2>1
<1>7. Stays(Len(q)) = {s \in Elements(q) : s.id \notin ids}
  BY <1>2 DEF Elements
<1>8. All => k[Len(q)] = q
  <2> SUFFICES ASSUME All PROVE k[Len(q)] = q
    OBVIOUS
  <2>1. k[Len(q)] \in Seq(S) /\ Len(k[Len(q)]) = Len(q)
        /\ \A i \in 1..Len(q) : k[Len(q)][i] = q[i]
    BY <1>6
  <2> QED BY <2>1
<1> HIDE DEF Stays, All
<1>9. /\ k[Len(q)] \in Seq(S) /\ Elements(k[Len(q)]) = {s \in Elements(q) : s.id \notin ids}
      /\ Distinct(q) => Distinct(k[Len(q)])
  BY <1>6, <1>7
<1> QED BY <1>1, <1>8, <1>9 DEF All

-----------------------------------------------------------------------------
(* Part 2. A store whose index lists what is queued, each signal once and  *)
(* under its own key; S is the set of signals there may be.                *)
StoreOK(st, S) ==
  /\ st.queues \in [SignalKeys -> Seq(S)]
  /\ \A k \in SignalKeys : Distinct(st.queues[k])
  /\ \A k \in SignalKeys : \A s \in Elements(st.queues[k]) : s.signalKey = k
  /\ DOMAIN st.byId = {s.id : s \in Queued(st)}
  /\ \A s \in Queued(st) : st.byId[s.id] = s

LEMMA EmptyStoreOK ==
  ASSUME NEW S
  PROVE  StoreOK(EmptyStore, S) /\ Queued(EmptyStore) = {}
<1>1. \A k \in SignalKeys : EmptyStore.queues[k] = <<>>
  BY DEF EmptyStore
<1>2. Elements(<<>>) = {} /\ Distinct(<<>>) /\ <<>> \in Seq(S)
  BY DEF Elements, Distinct
<1>3. EmptyStore.queues \in [SignalKeys -> Seq(S)]
  BY <1>2 DEF EmptyStore
<1>4. Queued(EmptyStore) = {}
  BY <1>1, <1>2 DEF Queued
<1>5. DOMAIN EmptyStore.byId = {}
  BY DEF EmptyStore
<1> QED BY <1>1, <1>2, <1>3, <1>4, <1>5 DEF StoreOK

LEMMA QueuedIs ==
  ASSUME NEW st, NEW s
  PROVE  s \in Queued(st) <=> \E k \in SignalKeys : s \in Elements(st.queues[k])
BY DEF Queued

(* A signal that is queued has its own id, in its own queue.               *)
LEMMA QueuedInOnePlace ==
  ASSUME NEW S, NEW st, StoreOK(st, S)
  PROVE  /\ \A s \in Queued(st) : /\ s \in S /\ s.signalKey \in SignalKeys
                                  /\ s \in Elements(st.queues[s.signalKey])
                                  /\ s.id \in DOMAIN st.byId
         /\ \A s, t \in Queued(st) : s.id = t.id => s = t
<1>1. ASSUME NEW s \in Queued(st)
      PROVE  /\ s \in S /\ s.signalKey \in SignalKeys
             /\ s \in Elements(st.queues[s.signalKey]) /\ s.id \in DOMAIN st.byId
  <2>1. PICK k \in SignalKeys : s \in Elements(st.queues[k])
    BY QueuedIs
  <2>2. s.signalKey = k /\ st.queues[k] \in Seq(S)
    BY <2>1 DEF StoreOK
  <2>3. s \in S
    BY <2>1, <2>2 DEF Elements
  <2>4. s.id \in DOMAIN st.byId
    BY DEF StoreOK
  <2> QED BY <2>1, <2>2, <2>3, <2>4
<1>2. ASSUME NEW s \in Queued(st), NEW t \in Queued(st), s.id = t.id PROVE s = t
  BY <1>2, Zenon DEF StoreOK
<1> QED BY <1>1, <1>2

(* What is left of a store when the signals with the ids of G are gone.    *)
Thinned(st, t, G, S) ==
  /\ t.queues \in [SignalKeys -> Seq(S)]
  /\ \A k \in SignalKeys :
       /\ Distinct(t.queues[k])
       /\ Elements(t.queues[k]) = {s \in Elements(st.queues[k]) : s.id \notin G}
  /\ t.byId = WithoutIds(st.byId, G)

LEMMA ThinnedStore ==
  ASSUME NEW S, NEW st, StoreOK(st, S), NEW t, NEW G, Thinned(st, t, G, S)
  PROVE  StoreOK(t, S) /\ Queued(t) = {s \in Queued(st) : s.id \notin G}
<1>1. Queued(t) = {s \in Queued(st) : s.id \notin G}
  BY DEF Queued, Thinned
<1>2. \A k \in SignalKeys : \A s \in Elements(t.queues[k]) : s.signalKey = k
  BY DEF StoreOK, Thinned
<1>3. DOMAIN t.byId = DOMAIN st.byId \ G
  BY DEF WithoutIds, Thinned
<1>4. DOMAIN st.byId \ G = {s.id : s \in Queued(t)}
  <2>1. DOMAIN st.byId = {s.id : s \in Queued(st)}
    BY DEF StoreOK
  <2> QED BY <1>1, <2>1
<1>5. ASSUME NEW s \in Queued(t) PROVE t.byId[s.id] = s
  <2>1. s \in Queued(st) /\ s.id \in DOMAIN st.byId \ G
    BY <1>1, <1>4
  <2>2. t.byId[s.id] = st.byId[s.id]
    BY <2>1 DEF WithoutIds, Thinned
  <2> QED BY <2>1, <2>2 DEF StoreOK
<1> QED BY <1>1, <1>2, <1>3, <1>4, <1>5 DEF StoreOK, Thinned

LEMMA AddSignalOK ==
  ASSUME NEW S, NEW st, StoreOK(st, S), NEW s \in S,
         s.signalKey \in SignalKeys, s.id \notin DOMAIN st.byId
  PROVE  /\ StoreOK(AddSignal(st, s), S)
         /\ Queued(AddSignal(st, s)) = Queued(st) \cup {s}
<1> DEFINE t == AddSignal(st, s)
           key == s.signalKey
<1>1. /\ t.queues = [st.queues EXCEPT ![key] = Append(st.queues[key], s)]
      /\ t.byId = [i \in DOMAIN st.byId \cup {s.id} |-> IF i = s.id THEN s ELSE st.byId[i]]
  BY DEF AddSignal
<1> HIDE DEF t
<1>2. st.queues \in [SignalKeys -> Seq(S)] /\ st.queues[key] \in Seq(S)
  BY DEF StoreOK
<1>3. s.id \notin IdsOf(st.queues[key])
  <2>1. \A x \in Elements(st.queues[key]) : x \in Queued(st)
    BY QueuedIs
  <2> QED BY <2>1, QueuedInOnePlace DEF IdsOf
<1> DEFINE r == Append(st.queues[key], s)
<1>4. r \in Seq(S) /\ Elements(r) = Elements(st.queues[key]) \cup {s} /\ Distinct(r)
  <2>1. Distinct(st.queues[key])
    BY DEF StoreOK
  <2> QED BY <1>2, <1>3, <2>1, AppendElements
<1> HIDE DEF r
<1>5. t.queues = [st.queues EXCEPT ![key] = r]
  BY <1>1 DEF r
<1>6. \A k \in SignalKeys : t.queues[k] = IF k = key THEN r ELSE st.queues[k]
  BY <1>2, <1>5
<1>7. t.queues \in [SignalKeys -> Seq(S)]
  BY <1>2, <1>4, <1>5
<1>8. \A k \in SignalKeys :
        /\ Distinct(t.queues[k])
        /\ Elements(t.queues[k]) = Elements(st.queues[k]) \cup (IF k = key THEN {s} ELSE {})
        /\ \A x \in Elements(t.queues[k]) : x.signalKey = k
  BY <1>4, <1>6 DEF StoreOK
<1>9. Queued(t) = Queued(st) \cup {s}
  BY <1>8 DEF Queued
<1>10. DOMAIN t.byId = {x.id : x \in Queued(t)}
  <2>1. DOMAIN t.byId = DOMAIN st.byId \cup {s.id} /\ DOMAIN st.byId = {x.id : x \in Queued(st)}
    BY <1>1 DEF StoreOK
  <2> QED BY <1>9, <2>1
<1>11. ASSUME NEW x \in Queued(t) PROVE t.byId[x.id] = x
  <2>1. CASE x = s
    BY <1>1, <2>1
  <2>2. CASE x \in Queued(st)
    <3>1. x.id \in DOMAIN st.byId /\ st.byId[x.id] = x
      BY <2>2 DEF StoreOK
    <3> QED BY <1>1, <3>1
  <2> QED BY <1>9, <2>1, <2>2
<1>12. StoreOK(t, S)
  BY <1>7, <1>8, <1>10, <1>11 DEF StoreOK
<1> QED BY <1>9, <1>12 DEF t

LEMMA FrontIsQueued ==
  ASSUME NEW S, NEW st, StoreOK(st, S), NEW k \in SignalKeys, HasSignal(st, k)
  PROVE  /\ FrontSignal(st, k) \in Elements(st.queues[k])
         /\ FrontSignal(st, k) \in Queued(st)
<1>1. st.queues[k] \in Seq(S) /\ st.queues[k] # <<>>
  BY DEF StoreOK, HasSignal
<1>2. Head(st.queues[k]) = st.queues[k][1] /\ 1 \in DOMAIN st.queues[k]
  BY <1>1
<1>3. FrontSignal(st, k) \in Elements(st.queues[k])
  BY <1>2 DEF FrontSignal, Elements
<1> QED BY <1>3, QueuedIs

LEMMA TailElements ==
  ASSUME NEW S, NEW q \in Seq(S), q # <<>>, Distinct(q)
  PROVE  /\ Tail(q) \in Seq(S) /\ Distinct(Tail(q))
         /\ Elements(Tail(q)) = {s \in Elements(q) : s.id # Head(q).id}
<1>1. /\ Len(q) \in Nat /\ Len(q) >= 1 /\ DOMAIN q = 1..Len(q)
      /\ Tail(q) \in Seq(S) /\ DOMAIN Tail(q) = 1..(Len(q) - 1)
      /\ \A n \in 1..(Len(q) - 1) : Tail(q)[n] = q[n + 1]
      /\ Head(q) = q[1]
  OBVIOUS
<1> DEFINE r == Tail(q)
           h == Head(q)
<1> HIDE DEF r, h
<1>2. /\ DOMAIN r = 1..(Len(q) - 1) /\ h = q[1]
      /\ \A n \in 1..(Len(q) - 1) : r[n] = q[n + 1]
  BY <1>1 DEF r, h
<1>3. Distinct(r)
  <2> SUFFICES ASSUME NEW m \in 1..(Len(q) - 1), NEW n \in 1..(Len(q) - 1), r[m].id = r[n].id
               PROVE  m = n
    BY <1>2 DEF Distinct
  <2>1. m + 1 \in DOMAIN q /\ n + 1 \in DOMAIN q /\ q[m + 1].id = q[n + 1].id
    BY <1>1, <1>2
  <2>2. m + 1 = n + 1
    BY <2>1 DEF Distinct
  <2> QED BY <2>2
<1>4. ASSUME NEW s \in Elements(r) PROVE s \in Elements(q) /\ s.id # h.id
  <2>1. PICK n \in 1..(Len(q) - 1) : s = q[n + 1]
    BY <1>2 DEF Elements
  <2>2. n + 1 \in DOMAIN q /\ 1 \in DOMAIN q /\ n + 1 # 1
    BY <1>1
  <2> QED BY <1>2, <2>1, <2>2 DEF Elements, Distinct
<1>5. ASSUME NEW s \in Elements(q), s.id # h.id PROVE s \in Elements(r)
  <2>1. PICK n \in 1..Len(q) : s = q[n]
    BY <1>1 DEF Elements
  <2>2. n # 1 /\ n - 1 \in 1..(Len(q) - 1) /\ (n - 1) + 1 = n
    BY <1>1, <1>2, <1>5, <2>1
  <2>3. s = r[n - 1]
    BY <1>2, <2>1, <2>2
  <2> QED BY <1>2, <2>2, <2>3 DEF Elements
<1>6. Elements(r) = {s \in Elements(q) : s.id # h.id}
  BY <1>4, <1>5
<1> QED BY <1>1, <1>3, <1>6 DEF r, h

LEMMA PopSignalOK ==
  ASSUME NEW S, NEW st, StoreOK(st, S), NEW k \in SignalKeys, HasSignal(st, k)
  PROVE  /\ StoreOK(PopSignal(st, k), S)
         /\ Queued(PopSignal(st, k)) = {s \in Queued(st) : s.id # FrontSignal(st, k).id}
<1> DEFINE t == PopSignal(st, k)
           q == st.queues[k]
           id == FrontSignal(st, k).id
<1>1. t.queues = [st.queues EXCEPT ![k] = Tail(q)] /\ t.byId = WithoutIds(st.byId, {id})
  BY DEF PopSignal
<1> HIDE DEF t
<1>2. st.queues \in [SignalKeys -> Seq(S)] /\ q \in Seq(S) /\ q # <<>> /\ Distinct(q)
  BY DEF StoreOK, HasSignal
<1>3. Tail(q) \in Seq(S) /\ Distinct(Tail(q)) /\ Elements(Tail(q)) = {s \in Elements(q) : s.id # id}
  BY <1>2, TailElements DEF FrontSignal
<1> DEFINE r == Tail(q)
<1> HIDE DEF r
<1>4. t.queues = [st.queues EXCEPT ![k] = r] /\ r \in Seq(S) /\ Distinct(r)
      /\ Elements(r) = {s \in Elements(q) : s.id # id}
  BY <1>1, <1>3 DEF r
<1>5. t.queues \in [SignalKeys -> Seq(S)]
  BY <1>2, <1>4
<1>6. ASSUME NEW l \in SignalKeys
      PROVE  Distinct(t.queues[l])
             /\ Elements(t.queues[l]) = {s \in Elements(st.queues[l]) : s.id \notin {id}}
  <2>1. CASE l = k
    BY <1>2, <1>4, <2>1
  <2>2. CASE l # k
    <3>1. t.queues[l] = st.queues[l]
      BY <1>2, <1>4, <2>2
    <3>2. ASSUME NEW s \in Elements(st.queues[l]) PROVE s.id # id
      <4>1. s \in Queued(st) /\ s.signalKey = l
        BY QueuedIs DEF StoreOK
      <4>2. FrontSignal(st, k) \in Queued(st) /\ FrontSignal(st, k).signalKey = k
        BY FrontIsQueued DEF StoreOK
      <4> QED BY <2>2, <4>1, <4>2, QueuedInOnePlace
    <3>3. Distinct(st.queues[l])
      BY DEF StoreOK
    <3> QED BY <3>1, <3>2, <3>3
  <2> QED BY <2>1, <2>2
<1>7. StoreOK(t, S) /\ Queued(t) = {s \in Queued(st) : s.id \notin {id}}
  <2>1. Thinned(st, t, {id}, S)
    BY <1>1, <1>5, <1>6 DEF Thinned
  <2> QED BY <2>1, ThinnedStore
<1> QED BY <1>7 DEF t

LEMMA RemoveSignalsOK ==
  ASSUME NEW S, NEW st, StoreOK(st, S), NEW ids
  PROVE  /\ StoreOK(RemoveSignals(st, ids), S)
         /\ Queued(RemoveSignals(st, ids)) = {s \in Queued(st) : s.id \notin ids}
<1> DEFINE t == RemoveSignals(st, ids)
<1>1. /\ t.queues = [k \in SignalKeys |-> Without(st.queues[k], ids)]
      /\ t.byId = WithoutIds(st.byId, ids)
  BY DEF RemoveSignals
<1> HIDE DEF t
<1>2. \A k \in SignalKeys :
        /\ Without(st.queues[k], ids) \in Seq(S)
        /\ Distinct(Without(st.queues[k], ids))
        /\ Elements(Without(st.queues[k], ids)) = {s \in Elements(st.queues[k]) : s.id \notin ids}
  BY WithoutProperties DEF StoreOK
<1>3. StoreOK(t, S) /\ Queued(t) = {s \in Queued(st) : s.id \notin ids}
  <2>1. Thinned(st, t, ids, S)
    BY <1>1, <1>2 DEF Thinned
  <2> QED BY <2>1, ThinnedStore
<1> QED BY <1>3 DEF t

(* The signal found by its id is in the one queue that is rebuilt, so that *)
(* removing it there is removing it everywhere.                            *)
LEMMA RemoveSignalByIdOK ==
  ASSUME NEW S, NEW st, StoreOK(st, S), NEW id, HasSignalById(st, id)
  PROVE  /\ StoreOK(RemoveSignalById(st, id), S)
         /\ Queued(RemoveSignalById(st, id)) = {s \in Queued(st) : s.id # id}
         /\ \A k \in SignalKeys : RemoveSignalById(st, id).queues[k] = Without(st.queues[k], {id})
<1>1. PICK x \in Queued(st) : x.id = id /\ st.byId[id] = x
  BY DEF StoreOK, HasSignalById
<1> DEFINE key == x.signalKey
           t == RemoveSignalById(st, id)
           w == Without(st.queues[key], {id})
<1>2. /\ t.queues = [st.queues EXCEPT ![key] = w] /\ t.byId = WithoutIds(st.byId, {id})
  BY <1>1 DEF RemoveSignalById
<1> HIDE DEF t, w
<1>3. st.queues \in [SignalKeys -> Seq(S)] /\ key \in SignalKeys
  BY <1>1, QueuedInOnePlace DEF StoreOK
<1>4. ASSUME NEW k \in SignalKeys, k # key
      PROVE  Without(st.queues[k], {id}) = st.queues[k]
  <2>1. ASSUME NEW s \in Elements(st.queues[k]) PROVE s.id \notin {id}
    <3>1. s \in Queued(st) /\ s.signalKey = k
      BY QueuedIs DEF StoreOK
    <3> QED BY <1>1, <1>4, <3>1, QueuedInOnePlace
  <2>2. st.queues[k] \in Seq(S)
    BY <1>3
  <2> QED BY <2>1, <2>2, WithoutProperties
<1>5. t.queues = [k \in SignalKeys |-> Without(st.queues[k], {id})]
  BY <1>2, <1>3, <1>4 DEF w
<1>6. \A k \in SignalKeys :
        /\ Without(st.queues[k], {id}) \in Seq(S)
        /\ Distinct(Without(st.queues[k], {id}))
        /\ Elements(Without(st.queues[k], {id})) = {s \in Elements(st.queues[k]) : s.id \notin {id}}
  BY WithoutProperties DEF StoreOK
<1>7. StoreOK(t, S) /\ Queued(t) = {s \in Queued(st) : s.id \notin {id}}
  <2>1. /\ t.queues \in [SignalKeys -> Seq(S)]
        /\ \A k \in SignalKeys : t.queues[k] = Without(st.queues[k], {id})
    BY <1>5, <1>6
  <2>2. Thinned(st, t, {id}, S)
    BY <1>2, <1>6, <2>1 DEF Thinned
  <2> QED BY <2>2, ThinnedStore
<1>8. \A k \in SignalKeys : t.queues[k] = Without(st.queues[k], {id})
  BY <1>5
<1> QED BY <1>7, <1>8 DEF t

LEMMA RemoveAllSignalsOK ==
  ASSUME NEW S, NEW st, StoreOK(st, S), NEW k \in SignalKeys
  PROVE  /\ StoreOK(RemoveAllSignals(st, k), S)
         /\ Queued(RemoveAllSignals(st, k)) = {s \in Queued(st) : s.id \notin IdsOf(st.queues[k])}
<1> DEFINE t == RemoveAllSignals(st, k)
           G == IdsOf(st.queues[k])
<1>1. t.queues = [st.queues EXCEPT ![k] = <<>>] /\ t.byId = WithoutIds(st.byId, G)
  BY DEF RemoveAllSignals
<1> HIDE DEF t
<1>2. st.queues \in [SignalKeys -> Seq(S)] /\ <<>> \in Seq(S)
  BY DEF StoreOK
<1>3. t.queues \in [SignalKeys -> Seq(S)]
  BY <1>1, <1>2
<1>4. Elements(<<>>) = {} /\ Distinct(<<>>)
  BY DEF Elements, Distinct
<1>5. ASSUME NEW l \in SignalKeys
      PROVE  Distinct(t.queues[l])
             /\ Elements(t.queues[l]) = {s \in Elements(st.queues[l]) : s.id \notin G}
  <2>1. CASE l = k
    <3>1. t.queues[l] = <<>>
      BY <1>1, <1>2, <2>1
    <3>2. \A s \in Elements(st.queues[l]) : s.id \in G
      BY <2>1 DEF IdsOf
    <3> QED BY <1>4, <3>1, <3>2
  <2>2. CASE l # k
    <3>1. t.queues[l] = st.queues[l]
      BY <1>1, <1>2, <2>2
    <3>2. ASSUME NEW s \in Elements(st.queues[l]) PROVE s.id \notin G
      <4>1. s \in Queued(st) /\ s.signalKey = l
        BY QueuedIs DEF StoreOK
      <4>2. \A x \in Elements(st.queues[k]) : x \in Queued(st) /\ x.signalKey = k
        BY QueuedIs DEF StoreOK
      <4> QED BY <2>2, <4>1, <4>2, QueuedInOnePlace DEF IdsOf
    <3>3. Distinct(st.queues[l])
      BY DEF StoreOK
    <3> QED BY <3>1, <3>2, <3>3
  <2> QED BY <2>1, <2>2
<1>6. StoreOK(t, S) /\ Queued(t) = {s \in Queued(st) : s.id \notin G}
  <2>1. Thinned(st, t, G, S)
    BY <1>1, <1>3, <1>5 DEF Thinned
  <2> QED BY <2>1, ThinnedStore
<1> QED BY <1>6 DEF t

-----------------------------------------------------------------------------
(* Part 3. The container shared by its clients.                            *)

(* A queue without a repeated id is as long as the set of its signals.     *)
LEMMA DistinctLength ==
  ASSUME NEW S, NEW q \in Seq(S), Distinct(q)
  PROVE  Cardinality(Elements(q)) = Len(q)
<1>1. Len(q) \in Nat /\ DOMAIN q = 1..Len(q) /\ q = [n \in 1..Len(q) |-> q[n]]
  OBVIOUS
<1>2. q \in [1..Len(q) -> Elements(q)]
  BY <1>1 DEF Elements
<1>3. \A m, n \in 1..Len(q) : q[m] = q[n] => m = n
  BY <1>1 DEF Distinct
<1>4. \A s \in Elements(q) : \E n \in 1..Len(q) : q[n] = s
  BY <1>1 DEF Elements
<1>5. ExistsBijection(1..Len(q), Elements(q))
  <2>1. q \in Bijection(1..Len(q), Elements(q))
    BY <1>2, <1>3, <1>4 DEF Bijection, Injection, Surjection, IsInjective
  <2> QED BY <2>1 DEF ExistsBijection
<1> QED BY <1>1, <1>5, FS_CountingElements

(* Ids are given out once: whoever holds or queues a signal, no other      *)
(* place has one of the same id.                                           *)
ContainerInv ==
  /\ StoreOK(store, Signals)
  /\ nextId \in 0..MaxId
  /\ held \in [Clients -> SUBSET Signals]
  /\ \A s \in Queued(store) : s.id < nextId
  /\ \A c \in Clients : \A s \in held[c] : s.id < nextId /\ s.id \notin DOMAIN store.byId
  /\ \A c, d \in Clients : \A s \in held[c], t \in held[d] : s.id = t.id => c = d /\ s = t

LEMMA ContainerInvInit == ContainerInit => ContainerInv
<1> SUFFICES ASSUME ContainerInit PROVE ContainerInv
  OBVIOUS
<1>1. store = EmptyStore /\ nextId = 0 /\ held = [c \in Clients |-> {}]
  BY DEF ContainerInit
<1>2. StoreOK(store, Signals) /\ Queued(store) = {}
  BY <1>1, EmptyStoreOK
<1>3. nextId \in 0..MaxId
  BY <1>1, SignalStoreAssumption
<1> QED BY <1>1, <1>2, <1>3 DEF ContainerInv

(* Taking signals out of the store leaves the invariant, given what became *)
(* of the hands: nothing, or one signal more that was queued.              *)
LEMMA TakingKeepsInv ==
  ASSUME ContainerInv, nextId' = nextId, StoreOK(store', Signals),
         Queued(store') \subseteq Queued(store), held' = held
  PROVE  ContainerInv'
<1>1. DOMAIN store'.byId \subseteq DOMAIN store.byId
  BY DEF ContainerInv, StoreOK
<1> QED BY <1>1 DEF ContainerInv

LEMMA ContainerInvNext == ContainerInv /\ [ContainerNext]_containerVars => ContainerInv'
<1> SUFFICES ASSUME ContainerInv, [ContainerNext]_containerVars PROVE ContainerInv'
  OBVIOUS
<1> USE SignalStoreAssumption
<1>1. ASSUME NEW c \in Clients, NEW k \in SignalKeys, TradeSignal(c, k)
      PROVE  ContainerInv'
  <2> DEFINE s == [signalKey |-> k, id |-> nextId]
  <2>1. /\ nextId < MaxId /\ nextId' = nextId + 1 /\ store' = store
        /\ held' = [held EXCEPT ![c] = @ \cup {s}]
    BY <1>1 DEF TradeSignal
  <2>2. s \in Signals /\ s.id = nextId
    BY <2>1 DEF Signals, SignalIds, ContainerInv
  <2>3. nextId \notin DOMAIN store.byId
    BY DEF ContainerInv, StoreOK
  <2> HIDE DEF s
  <2>4. /\ held' \in [Clients -> SUBSET Signals]
        /\ \A d \in Clients : \A t \in held'[d] : t \in held[d] \/ (d = c /\ t = s)
    BY <2>1, <2>2 DEF ContainerInv
  <2>5. \A d \in Clients : \A t \in held[d] : t.id < nextId /\ t.id # nextId /\ t.id \in Nat
    BY DEF ContainerInv, Signals, SignalIds
  <2>6. \A t \in Queued(store) : t.id < nextId + 1
    <3>1. \A t \in Queued(store) : t \in Signals /\ t.id < nextId
      BY QueuedInOnePlace DEF ContainerInv
    <3> QED BY <3>1 DEF ContainerInv, Signals, SignalIds
  <2>7. \A d \in Clients : \A t \in held'[d] : t.id < nextId + 1 /\ t.id \notin DOMAIN store.byId
    BY <2>2, <2>3, <2>4, <2>5 DEF ContainerInv
  <2>8. \A d, e \in Clients : \A t \in held'[d], u \in held'[e] : t.id = u.id => d = e /\ t = u
    BY <2>2, <2>4, <2>5 DEF ContainerInv
  <2>9. nextId' \in 0..MaxId
    BY <2>1 DEF ContainerInv
  <2> QED BY <2>1, <2>4, <2>6, <2>7, <2>8, <2>9 DEF ContainerInv
<1>2. ASSUME NEW c \in Clients, NEW s \in held[c], AddSignalCall(c, s)
      PROVE  ContainerInv'
  <2>1. /\ store' = AddSignal(store, s) /\ nextId' = nextId
        /\ held' = [held EXCEPT ![c] = @ \ {s}]
    BY <1>2 DEF AddSignalCall
  <2>2. s \in Signals /\ s.signalKey \in SignalKeys /\ s.id < nextId /\ s.id \notin DOMAIN store.byId
    BY DEF ContainerInv, Signals
  <2>3. StoreOK(store', Signals) /\ Queued(store') = Queued(store) \cup {s}
    BY <2>1, <2>2, AddSignalOK DEF ContainerInv
  <2>4. DOMAIN store'.byId = DOMAIN store.byId \cup {s.id}
    BY <2>1 DEF AddSignal
  <2>5. /\ held' \in [Clients -> SUBSET Signals]
        /\ \A d \in Clients : \A t \in held'[d] : t \in held[d] /\ (d # c \/ t # s)
    BY <2>1 DEF ContainerInv
  <2>6. \A d \in Clients : \A t \in held'[d] : t.id # s.id
    BY <2>5 DEF ContainerInv
  <2> QED BY <2>1, <2>2, <2>3, <2>4, <2>5, <2>6 DEF ContainerInv
<1>3. ASSUME NEW c \in Clients, NEW k \in SignalKeys, GetSignal(c, k)
      PROVE  ContainerInv'
  <2>1. CASE HasSignal(store, k)
    <3> DEFINE s == FrontSignal(store, k)
    <3>1. /\ store' = PopSignal(store, k) /\ nextId' = nextId
          /\ held' = [held EXCEPT ![c] = @ \cup {s}]
      BY <1>3, <2>1 DEF GetSignal
    <3>2. s \in Queued(store) /\ s \in Signals /\ s.id \in DOMAIN store.byId
      BY <2>1, FrontIsQueued, QueuedInOnePlace DEF ContainerInv
    <3>3. StoreOK(store', Signals) /\ Queued(store') = {t \in Queued(store) : t.id # s.id}
      BY <2>1, <3>1, PopSignalOK DEF ContainerInv
    <3>4. DOMAIN store'.byId = DOMAIN store.byId \ {s.id}
      BY <3>1 DEF PopSignal, WithoutIds
    <3> HIDE DEF s
    <3>5. /\ held' \in [Clients -> SUBSET Signals]
          /\ \A d \in Clients : \A t \in held'[d] : t \in held[d] \/ (d = c /\ t = s)
      BY <3>1, <3>2 DEF ContainerInv
    <3>6. \A d \in Clients : \A t \in held[d] : t.id # s.id
      BY <3>2 DEF ContainerInv
    <3>7. \A d, e \in Clients : \A t \in held'[d], u \in held'[e] : t.id = u.id => d = e /\ t = u
      BY <3>5, <3>6 DEF ContainerInv
    <3>8. \A d \in Clients : \A t \in held'[d] : t.id < nextId /\ t.id \notin DOMAIN store'.byId
      BY <3>2, <3>4, <3>5 DEF ContainerInv
    <3> QED BY <3>1, <3>3, <3>5, <3>7, <3>8 DEF ContainerInv
  <2>2. CASE ~HasSignal(store, k)
    BY <1>3, <2>2 DEF GetSignal, ContainerInv
  <2> QED BY <2>1, <2>2
<1>4. ASSUME NEW id \in SignalIds, GetSignalById(id)
      PROVE  ContainerInv'
  BY <1>4 DEF GetSignalById, ContainerInv
<1>5. ASSUME NEW id \in SignalIds, RemoveSignalByIdCall(id)
      PROVE  ContainerInv'
  <2>1. StoreOK(store', Signals) /\ Queued(store') \subseteq Queued(store)
    <3>1. CASE HasSignalById(store, id)
      <4>1. store' = RemoveSignalById(store, id)
        BY <1>5, <3>1 DEF RemoveSignalByIdCall
      <4> QED BY <3>1, <4>1, RemoveSignalByIdOK DEF ContainerInv
    <3>2. CASE ~HasSignalById(store, id)
      BY <1>5, <3>2 DEF RemoveSignalByIdCall, ContainerInv
    <3> QED BY <3>1, <3>2
  <2> QED BY <1>5, <2>1, TakingKeepsInv DEF RemoveSignalByIdCall
<1>6. ASSUME NEW k \in SignalKeys, RemoveSignal(k)
      PROVE  ContainerInv'
  <2>1. StoreOK(store', Signals) /\ Queued(store') \subseteq Queued(store)
    <3>1. CASE HasSignal(store, k)
      <4>1. store' = PopSignal(store, k)
        BY <1>6, <3>1 DEF RemoveSignal
      <4> QED BY <3>1, <4>1, PopSignalOK DEF ContainerInv
    <3>2. CASE ~HasSignal(store, k)
      BY <1>6, <3>2 DEF RemoveSignal, ContainerInv
    <3> QED BY <3>1, <3>2
  <2> QED BY <1>6, <2>1, TakingKeepsInv DEF RemoveSignal
<1>7. ASSUME NEW k \in SignalKeys, RemoveAllSignalsCall(k)
      PROVE  ContainerInv'
  <2>1. StoreOK(store', Signals) /\ Queued(store') \subseteq Queued(store)
    BY <1>7, RemoveAllSignalsOK DEF RemoveAllSignalsCall, ContainerInv
  <2> QED BY <1>7, <2>1, TakingKeepsInv DEF RemoveAllSignalsCall
<1>8. CASE UNCHANGED containerVars
  BY <1>8 DEF containerVars, ContainerInv
<1> QED BY <1>1, <1>2, <1>3, <1>4, <1>5, <1>6, <1>7, <1>8 DEF ContainerNext

LEMMA ContainerInvHolds == ContainerSpec => []ContainerInv
BY ContainerInvInit, ContainerInvNext, PTL DEF ContainerSpec

(* The index and the queues of SignalContainer agree after any calls of    *)
(* any number of threads.                                                  *)
THEOREM IndexAndQueuesAgree == ContainerSpec => []IndexAgrees
<1>1. ContainerInv => IndexAgrees
  <2> SUFFICES ASSUME ContainerInv PROVE IndexAgrees
    OBVIOUS
  <2>1. StoreOK(store, Signals)
    BY DEF ContainerInv
  <2>2. \A i \in DOMAIN store.byId : \E s \in Queued(store) : s.id = i /\ store.byId[i] = s
    BY <2>1 DEF StoreOK
  <2>3. \A s \in Queued(store) : s.id \in DOMAIN store.byId /\ store.byId[s.id] = s
    BY <2>1 DEF StoreOK
  <2>4. {store.byId[i] : i \in DOMAIN store.byId} = Queued(store)
    BY <2>2, <2>3
  <2>5. \A k \in SignalKeys : \A s \in Elements(store.queues[k]) : s.signalKey = k
    BY <2>1 DEF StoreOK
  <2> QED BY <2>2, <2>4, <2>5 DEF IndexAgrees
<1> QED BY <1>1, ContainerInvHolds, PTL

(* A signal waits in one position of one queue, or is in the hands of one  *)
(* client: the container hands none out twice.                             *)
THEOREM EverySignalInOnePlace == ContainerSpec => []OnePlace
<1>1. ContainerInv => OnePlace
  <2> SUFFICES ASSUME ContainerInv PROVE OnePlace
    OBVIOUS
  <2>1. StoreOK(store, Signals)
    BY DEF ContainerInv
  <2>2. ASSUME NEW k \in SignalKeys
        PROVE  Cardinality(Elements(store.queues[k])) = Len(store.queues[k])
    <3>1. store.queues[k] \in Seq(Signals) /\ Distinct(store.queues[k])
      BY <2>1 DEF StoreOK
    <3> QED BY <3>1, DistinctLength
  <2>3. ASSUME NEW c \in Clients PROVE held[c] \cap Queued(store) = {}
    BY <2>1, QueuedInOnePlace DEF ContainerInv
  <2>4. ASSUME NEW c \in Clients, NEW d \in Clients, c # d PROVE held[c] \cap held[d] = {}
    BY <2>4 DEF ContainerInv
  <2> QED BY <2>2, <2>3, <2>4 DEF OnePlace
<1> QED BY <1>1, ContainerInvHolds, PTL

(* The pool of SignalPool, seen from the container: what waits in the pool *)
(* is what is queued, and the clients hold the same signals.               *)
LEMMA PoolWithout ==
  ASSUME NEW q, NEW ids
  PROVE  Pool!Without(q, ids) = Without(q, ids)
BY Zenon DEF Pool!Without, Without

LEMMA SignalIsRecord ==
  ASSUME NEW s \in Signals
  PROVE  /\ s.signalKey \in SignalKeys /\ s.id \in SignalIds
         /\ s = [signalKey |-> s.signalKey, id |-> s.id]
BY DEF Signals

LEMMA PoolWaiting ==
  ASSUME ContainerInv
  PROVE  Pool!Waiting = Queued(store)
<1> DEFINE R == {[signalKey |-> k, id |-> i] : k \in SignalKeys, i \in SignalIds}
<1>1. \A s \in Queued(store) : s \in Signals
  BY QueuedInOnePlace DEF ContainerInv
<1>2. \A s \in Signals : s \in R
  BY SignalIsRecord
<1>3. \A k \in SignalKeys : Pool!Elements(store.queues[k]) = Elements(store.queues[k])
  BY DEF Pool!Elements, Elements
<1>4. UNION {Pool!Elements(store.queues[k]) : k \in SignalKeys} = Queued(store)
  BY <1>3 DEF Queued
<1>5. Pool!Waiting = R \cap Queued(store)
  BY <1>4 DEF Pool!Waiting
<1> QED BY <1>1, <1>2, <1>5

LEMMA PoolInit == ContainerInit => Pool!Init
BY DEF ContainerInit, EmptyStore, Reply, Pool!Init, Pool!Reply

(* Every call of the container is the pool's operation of the same name.   *)
LEMMA PoolNext == ContainerInv /\ [ContainerNext]_containerVars => [Pool!Next]_(Pool!vars)
<1> SUFFICES ASSUME ContainerInv, [ContainerNext]_containerVars PROVE [Pool!Next]_(Pool!vars)
  OBVIOUS
<1>a. StoreOK(store, Signals) /\ store.queues \in [SignalKeys -> Seq(Signals)]
  BY DEF ContainerInv, StoreOK
<1>1. ASSUME NEW c \in Clients, NEW k \in SignalKeys, TradeSignal(c, k)
      PROVE  Pool!Next
  <2> DEFINE s == [signalKey |-> k, id |-> nextId]
  <2>1. nextId \in SignalIds
    BY <1>1, SignalStoreAssumption DEF TradeSignal, ContainerInv, SignalIds
  <2>2. ASSUME NEW t \in Pool!Waiting \cup Pool!Held PROVE t.id # s.id
    <3>1. t \in Queued(store) \/ \E d \in Clients : t \in held[d]
      BY PoolWaiting DEF Pool!Held
    <3>2. t \in Signals /\ t.id < nextId
      BY <1>a, <3>1, QueuedInOnePlace DEF ContainerInv
    <3> QED BY <2>1, <3>2 DEF Signals, SignalIds
  <2>3. Pool!Create(c, s)
    BY <1>1, <2>2 DEF TradeSignal, Pool!Create, Reply, Pool!Reply
  <2> QED BY <2>1, <2>3 DEF Pool!Next
<1>2. ASSUME NEW c \in Clients, NEW s \in held[c], AddSignalCall(c, s)
      PROVE  Pool!Next
  <2>1. s \in Signals
    BY DEF ContainerInv
  <2>2. store'.queues = [store.queues EXCEPT ![s.signalKey] = Append(@, s)]
    BY <1>2 DEF AddSignalCall, AddSignal
  <2>3. Pool!Add(c, s)
    BY <1>2, <2>2 DEF AddSignalCall, Pool!Add, Reply, Pool!Reply
  <2> QED BY <2>1, <2>3, SignalIsRecord DEF Pool!Next
<1>3. ASSUME NEW c \in Clients, NEW k \in SignalKeys, GetSignal(c, k)
      PROVE  Pool!Next
  <2>1. Pool!Get(c, k)
    <3>1. CASE HasSignal(store, k)
      <4>1. store'.queues = [store.queues EXCEPT ![k] = Tail(@)] /\ store.queues[k] # <<>>
        BY <1>3, <3>1 DEF GetSignal, PopSignal, HasSignal
      <4> QED BY <1>3, <3>1, <4>1
              DEF GetSignal, HasSignal, FrontSignal, Pool!Get, Reply, Pool!Reply
    <3>2. CASE ~HasSignal(store, k)
      BY <1>3, <3>2 DEF GetSignal, HasSignal, Pool!Get, Reply, Pool!Reply
    <3> QED BY <3>1, <3>2
  <2> QED BY <2>1 DEF Pool!Next
<1>4. ASSUME NEW id \in SignalIds, GetSignalById(id)
      PROVE  Pool!Next
  <2> DEFINE found == {s \in Pool!Waiting : s.id = id}
  <2>1. answer' = Reply(found # {}, found)
    <3>1. CASE HasSignalById(store, id)
      <4>1. PICK x \in Queued(store) : x.id = id /\ store.byId[id] = x
        BY <1>a, <3>1 DEF StoreOK, HasSignalById
      <4>2. found = {x}
        BY <1>a, <4>1, PoolWaiting, QueuedInOnePlace
      <4> QED BY <1>4, <3>1, <4>1, <4>2 DEF GetSignalById
    <3>2. CASE ~HasSignalById(store, id)
      <4>1. found = {}
        BY <1>a, <3>2, PoolWaiting, QueuedInOnePlace DEF HasSignalById
      <4> QED BY <1>4, <3>2, <4>1 DEF GetSignalById
    <3> QED BY <3>1, <3>2
  <2>2. Pool!Find(id)
    BY <1>4, <2>1 DEF GetSignalById, Pool!Find, Reply, Pool!Reply
  <2> QED BY <2>2 DEF Pool!Next
<1>5. ASSUME NEW id \in SignalIds, RemoveSignalByIdCall(id)
      PROVE  Pool!Next
  <2>1. HasSignalById(store, id) <=> \E s \in Pool!Waiting : s.id = id
    BY <1>a, PoolWaiting DEF HasSignalById, StoreOK
  <2>2. store'.queues = [k \in SignalKeys |-> Without(store.queues[k], {id})]
    <3>1. CASE HasSignalById(store, id)
      <4>1. store' = RemoveSignalById(store, id)
        BY <1>5, <3>1 DEF RemoveSignalByIdCall
      <4> DEFINE t == RemoveSignalById(store, id)
      <4>2. ASSUME NEW k \in SignalKeys PROVE t.queues[k] = Without(store.queues[k], {id})
        <5>1. StoreOK(store, Signals)
          BY <1>a
        <5> QED BY <3>1, <5>1, RemoveSignalByIdOK
      <4>3. t.queues \in [SignalKeys -> Seq(Signals)]
        <5>1. StoreOK(t, Signals)
          BY <1>a, <3>1, RemoveSignalByIdOK
        <5> QED BY <5>1 DEF StoreOK
      <4>4. t.queues = [k \in SignalKeys |-> Without(store.queues[k], {id})]
        BY <4>2, <4>3
      <4> QED BY <4>1, <4>4, Zenon
    <3>2. CASE ~HasSignalById(store, id)
      <4>1. store' = store
        BY <1>5, <3>2 DEF RemoveSignalByIdCall
      <4>2. ASSUME NEW k \in SignalKeys PROVE Without(store.queues[k], {id}) = store.queues[k]
        <5>1. ASSUME NEW s \in Elements(store.queues[k]) PROVE s.id \notin {id}
          BY <1>a, <3>2, QueuedIs, QueuedInOnePlace DEF HasSignalById
        <5> QED BY <1>a, <5>1, WithoutProperties
      <4> QED BY <1>a, <4>1, <4>2
    <3> QED BY <3>1, <3>2
  <2>3. store'.queues = [k \in SignalKeys |-> Pool!Without(store.queues[k], {id})]
    BY <2>2, PoolWithout
  <2>4. /\ answer' = Pool!Reply(\E s \in Pool!Waiting : s.id = id, {})
        /\ UNCHANGED held
    <3>1. answer' = Reply(HasSignalById(store, id), {}) /\ UNCHANGED held
      BY <1>5 DEF RemoveSignalByIdCall
    <3>2. CASE HasSignalById(store, id)
      <4>1. HasSignalById(store, id) = TRUE /\ (\E s \in Pool!Waiting : s.id = id) = TRUE
        BY <2>1, <3>2 DEF HasSignalById
      <4> QED BY <3>1, <4>1, Zenon DEF Reply, Pool!Reply
    <3>3. CASE ~HasSignalById(store, id)
      <4>1. HasSignalById(store, id) = FALSE /\ (\E s \in Pool!Waiting : s.id = id) = FALSE
        BY <2>1, <3>3 DEF HasSignalById
      <4> QED BY <3>1, <4>1, Zenon DEF Reply, Pool!Reply
    <3> QED BY <3>2, <3>3, Zenon
  <2>5. Pool!RemoveId(id)
    BY <2>3, <2>4, Zenon DEF Pool!RemoveId
  <2> QED BY <2>5 DEF Pool!Next
<1>6. ASSUME NEW k \in SignalKeys, RemoveSignal(k)
      PROVE  Pool!Next
  <2>1. store'.queues = [store.queues EXCEPT ![k] = IF @ = <<>> THEN @ ELSE Tail(@)]
    <3>1. CASE HasSignal(store, k)
      BY <1>6, <3>1 DEF RemoveSignal, HasSignal, PopSignal
    <3>2. CASE ~HasSignal(store, k)
      BY <1>a, <1>6, <3>2 DEF RemoveSignal, HasSignal
    <3> QED BY <3>1, <3>2
  <2>2. Pool!RemoveFirst(k)
    BY <1>6, <2>1 DEF RemoveSignal, HasSignal, Pool!RemoveFirst, Reply, Pool!Reply
  <2> QED BY <2>2 DEF Pool!Next
<1>7. ASSUME NEW k \in SignalKeys, RemoveAllSignalsCall(k)
      PROVE  Pool!Next
  <2>1. Pool!RemoveAll(k)
    BY <1>7 DEF RemoveAllSignalsCall, RemoveAllSignals, Pool!RemoveAll, Reply, Pool!Reply
  <2> QED BY <2>1 DEF Pool!Next
<1>8. CASE UNCHANGED containerVars
  BY <1>8 DEF containerVars, Pool!vars
<1> QED BY <1>1, <1>2, <1>3, <1>4, <1>5, <1>6, <1>7, <1>8 DEF ContainerNext

(* Whatever the threads call, the answers and the order of what waits are  *)
(* those of a pool that has no index: SignalContainer keeps its promise.   *)
THEOREM ContainerIsAPool == ContainerSpec => ImplementsPool
BY PoolInit, PoolNext, ContainerInvHolds, PTL DEF ContainerSpec, ImplementsPool, Pool!Spec

-----------------------------------------------------------------------------
(* Part 4. The pipeline.  First AddSignals, one signal after the other.    *)
AddedUpTo(st, q, after, m) ==
  after[0] = st /\ \A n \in 1..m : after[n] = AddSignal(after[n - 1], q[n])
IsAfter(st, q, after) ==
  after = [n \in 0..Len(q) |-> IF n = 0 THEN st ELSE AddSignal(after[n - 1], q[n])]

LEMMA AfterExists ==
  ASSUME NEW S, NEW q \in Seq(S), NEW st
  PROVE  \E after : IsAfter(st, q, after)
<1> DEFINE P(n) == \E after : after = [i \in 0..n |-> after[i]] /\ AddedUpTo(st, q, after, n)
           T == {n \in Nat : P(n)}
<1>1. 0 \in T
  <2> DEFINE f == [i \in 0..0 |-> st]
  <2>1. f = [i \in 0..0 |-> f[i]] /\ f[0] = st
    OBVIOUS
  <2>2. AddedUpTo(st, q, f, 0)
    BY <2>1 DEF AddedUpTo
  <2> QED BY <2>1, <2>2
<1>2. ASSUME NEW n \in Nat, n \in T PROVE n + 1 \in T
  <2>1. PICK f : f = [i \in 0..n |-> f[i]] /\ AddedUpTo(st, q, f, n)
    BY <1>2
  <2> DEFINE more == [i \in 0..(n + 1) |-> IF i = n + 1 THEN AddSignal(f[n], q[n + 1]) ELSE f[i]]
  <2>2. more = [i \in 0..(n + 1) |-> more[i]]
    OBVIOUS
  <2>3. more[0] = st
    BY <2>1 DEF AddedUpTo
  <2>4. ASSUME NEW i \in 1..(n + 1) PROVE more[i] = AddSignal(more[i - 1], q[i])
    <3>1. more[i - 1] = f[i - 1]
      OBVIOUS
    <3>2. CASE i = n + 1
      BY <3>1, <3>2
    <3>3. CASE i # n + 1
      <4>1. i \in 1..n /\ more[i] = f[i]
        BY <3>3
      <4> QED BY <2>1, <3>1, <4>1 DEF AddedUpTo
    <3> QED BY <3>2, <3>3
  <2> HIDE DEF more
  <2>5. AddedUpTo(st, q, more, n + 1)
    BY <2>3, <2>4 DEF AddedUpTo
  <2>6. P(n + 1)
    BY <2>2, <2>5
  <2> QED BY <2>6
<1>3. Len(q) \in T
  <2>1. \A n \in Nat : n \in T => n + 1 \in T
    BY <1>2
  <2> HIDE DEF T
  <2>2. Nat \subseteq T
    BY <1>1, <2>1, InductiveSet
  <2> QED BY <2>2
<1>4. PICK f : f = [i \in 0..Len(q) |-> f[i]] /\ AddedUpTo(st, q, f, Len(q))
  BY <1>3
<1>5. ASSUME NEW n \in 0..Len(q)
      PROVE  f[n] = IF n = 0 THEN st ELSE AddSignal(f[n - 1], q[n])
  <2>1. n = 0 \/ n \in 1..Len(q)
    OBVIOUS
  <2> QED BY <1>4, <2>1 DEF AddedUpTo
<1>6. IsAfter(st, q, f)
  BY <1>4, <1>5 DEF IsAfter
<1> QED BY <1>6

LEMMA AddSignalsIsAfter ==
  ASSUME NEW S, NEW q \in Seq(S), NEW st
  PROVE  \E after : AddedUpTo(st, q, after, Len(q)) /\ AddSignals(st, q) = after[Len(q)]
<1> DEFINE f == CHOOSE after : IsAfter(st, q, after)
<1>1. AddSignals(st, q) = f[Len(q)]
  BY Zenon DEF AddSignals, IsAfter
<1>2. IsAfter(st, q, f)
  BY AfterExists, Zenon
<1>3. AddedUpTo(st, q, f, Len(q))
  <2> HIDE DEF f
  <2>1. Len(q) \in Nat
    OBVIOUS
  <2>2. f[0] = st
    BY <1>2, <2>1 DEF IsAfter
  <2>3. ASSUME NEW n \in 1..Len(q) PROVE f[n] = AddSignal(f[n - 1], q[n])
    <3>1. n \in 0..Len(q) /\ n # 0
      OBVIOUS
    <3> QED BY <1>2, <3>1 DEF IsAfter
  <2> QED BY <2>2, <2>3 DEF AddedUpTo
<1> QED BY <1>1, <1>3, Zenon

(* Signals with new and different ids, added in their order, are queued.   *)
LEMMA AddSignalsOK ==
  ASSUME NEW S, NEW st, StoreOK(st, S), NEW q \in Seq(S), Distinct(q),
         \A s \in Elements(q) : s.signalKey \in SignalKeys /\ s.id \notin DOMAIN st.byId
  PROVE  /\ StoreOK(AddSignals(st, q), S)
         /\ Queued(AddSignals(st, q)) = Queued(st) \cup Elements(q)
<1>1. PICK f : AddedUpTo(st, q, f, Len(q)) /\ AddSignals(st, q) = f[Len(q)]
  BY AddSignalsIsAfter
<1>2. Len(q) \in Nat /\ DOMAIN q = 1..Len(q) /\ \A n \in 1..Len(q) : q[n] \in S
  OBVIOUS
<1> DEFINE First(n) == {q[i] : i \in 1..n}
           P(n) == StoreOK(f[n], S) /\ Queued(f[n]) = Queued(st) \cup First(n)
           T == {n \in Nat : n <= Len(q) => P(n)}
<1>3. 0 \in T
  <2>1. f[0] = st /\ First(0) = {}
    BY <1>1 DEF AddedUpTo
  <2>2. P(0)
    <3> HIDE DEF First
    <3> QED BY <2>1
  <2> HIDE DEF P
  <2> QED BY <2>2
<1>4. ASSUME NEW n \in Nat, n \in T PROVE n + 1 \in T
  <2> SUFFICES ASSUME n + 1 <= Len(q) PROVE P(n + 1)
    OBVIOUS
  <2> DEFINE s == q[n + 1]
  <2>1. n + 1 \in 1..Len(q) /\ s \in S /\ (n + 1) - 1 = n
    BY <1>2
  <2>2. f[n + 1] = AddSignal(f[n], s)
    BY <1>1, <2>1 DEF AddedUpTo
  <2>3. StoreOK(f[n], S) /\ Queued(f[n]) = Queued(st) \cup First(n)
    BY <1>2, <1>4
  <2>4. s.signalKey \in SignalKeys /\ \A t \in Queued(st) : t.id # s.id
    <3>1. s \in Elements(q)
      BY <1>2, <2>1 DEF Elements
    <3>2. s.signalKey \in SignalKeys /\ s.id \notin DOMAIN st.byId
      BY <3>1
    <3>3. \A t \in Queued(st) : t.id \in DOMAIN st.byId
      BY QueuedInOnePlace
    <3> QED BY <3>2, <3>3
  <2>5. \A t \in First(n) : t.id # s.id
    BY <1>2, <2>1 DEF Distinct
  <2>6. s.id \notin DOMAIN f[n].byId
    <3>1. DOMAIN f[n].byId = {t.id : t \in Queued(f[n])}
      BY <2>3 DEF StoreOK
    <3> HIDE DEF First, s
    <3> QED BY <2>3, <2>4, <2>5, <3>1
  <2>7. First(n + 1) = First(n) \cup {s}
    <3>1. \A i \in 1..(n + 1) : i \in 1..n \/ i = n + 1
      OBVIOUS
    <3> QED BY <3>1
  <2> HIDE DEF First, s
  <2>8. StoreOK(AddSignal(f[n], s), S) /\ Queued(AddSignal(f[n], s)) = Queued(f[n]) \cup {s}
    BY <2>1, <2>3, <2>4, <2>6, AddSignalOK
  <2> QED BY <2>2, <2>3, <2>7, <2>8
<1>5. P(Len(q))
  <2>1. \A n \in Nat : n \in T => n + 1 \in T
    BY <1>4
  <2> HIDE DEF P
  <2>2. Len(q) <= Len(q)
    BY <1>2
  <2>3. Nat \subseteq T
    <3> HIDE DEF T
    <3> QED BY <1>3, <2>1, InductiveSet
  <2> QED BY <1>2, <2>2, <2>3
<1>6. First(Len(q)) = Elements(q)
  BY <1>2 DEF Elements
<1> HIDE DEF First
<1> QED BY <1>1, <1>5, <1>6

-----------------------------------------------------------------------------
(* The inductive invariant.  It adds to the properties: what is marked     *)
(* waits until it is cleared, nothing taken or cleared waits at any step,  *)
(* levels are reached either on the first bar of a full recalculation or   *)
(* with the update's readiness used up, and the bound on the ids is met    *)
(* before an iteration starts.                                             *)
Chained == [signalKey : SignalKeys, id : Nat, attached : SUBSET Nat]
IdsIn(st) == {s.id : s \in Queued(st)}
EmittedBelow(st, n) ==
  \A s \in Queued(st) : s.id \in 0..(n - 1) /\ s.attached \subseteq 0..(n - 1)

Settled ==
  /\ Waiting \cap (consumed \cup cleared) = {}
  /\ orders \cap cleared = {}
  /\ pc # "clear" => toClear = {} /\ orders = {}
  /\ toClear \subseteq Waiting
Paced ==
  /\ pc \in {"generate", "levels"} =>
       levelPass = FALSE /\ (sc.full => sc.index = 0) /\ (~sc.full => ~Fresh)
  /\ pc = "generate" => nextId + 2 <= MaxId

PipelineInv ==
  /\ TypeOK
  /\ StoreOK(store, Chained)
  /\ NoSignalLost
  /\ Settled
  /\ Paced
  /\ LevelsOnlyOnRecalculation

(* The clause of TypeOK on the queues, for a store that agrees with its    *)
(* index.                                                                  *)
LEMMA QueuesTyped ==
  ASSUME NEW S, NEW st, StoreOK(st, S), NEW n
  PROVE  EmittedBelow(st, n) <=>
           \A k \in SignalKeys : \A s \in Elements(st.queues[k]) :
             s.signalKey = k /\ s.id \in 0..(n - 1) /\ s.attached \subseteq 0..(n - 1)
<1>1. \A k \in SignalKeys : \A s \in Elements(st.queues[k]) : s.signalKey = k /\ s \in Queued(st)
  BY QueuedIs DEF StoreOK
<1>2. \A s \in Queued(st) : \E k \in SignalKeys : s \in Elements(st.queues[k])
  BY QueuedIs
<1> QED BY <1>1, <1>2 DEF EmittedBelow

LEMMA IdsAreIndexed ==
  ASSUME NEW S, NEW st, StoreOK(st, S)
  PROVE  IdsIn(st) = DOMAIN st.byId
BY DEF StoreOK, IdsIn

(* Signals that carry the ids UniqueIDGenerator gives from n on.           *)
Drawn(q, n) == \A i \in DOMAIN q : q[i].id = n + i - 1 /\ q[i].attached \subseteq 0..(n - 1)

LEMMA AddDrawnSignals ==
  ASSUME NEW st, StoreOK(st, Chained), NEW n \in Nat, EmittedBelow(st, n),
         NEW q \in Seq(Chained), Drawn(q, n)
  PROVE  /\ StoreOK(AddSignals(st, q), Chained)
         /\ EmittedBelow(AddSignals(st, q), n + Len(q))
         /\ IdsIn(AddSignals(st, q)) = IdsIn(st) \cup n..(n + Len(q) - 1)
<1> DEFINE t == AddSignals(st, q)
<1>1. /\ Len(q) \in Nat /\ DOMAIN q = 1..Len(q)
      /\ \A i \in 1..Len(q) : q[i] \in Chained /\ q[i].id = n + i - 1
                              /\ q[i].attached \subseteq 0..(n - 1)
  BY DEF Drawn
<1>2. Distinct(q)
  BY <1>1 DEF Distinct
<1>3. ASSUME NEW s \in Elements(q)
      PROVE  /\ s.signalKey \in SignalKeys /\ s.id \in n..(n + Len(q) - 1)
             /\ s.attached \subseteq 0..(n - 1)
  BY <1>1 DEF Elements, Chained
<1>4. \A i \in DOMAIN st.byId : i \in 0..(n - 1)
  BY DEF StoreOK, EmittedBelow
<1>5. ASSUME NEW s \in Elements(q)
      PROVE  s.signalKey \in SignalKeys /\ s.id \notin DOMAIN st.byId
  <2>1. s.id \in n..(n + Len(q) - 1)
    BY <1>3
  <2>2. s.id \notin 0..(n - 1)
    BY <1>1, <2>1
  <2> QED BY <1>3, <1>4, <2>2, Zenon
<1>6. StoreOK(t, Chained) /\ Queued(t) = Queued(st) \cup Elements(q)
  BY <1>2, <1>5, AddSignalsOK
<1> HIDE DEF t
<1>7. EmittedBelow(t, n + Len(q))
  <2> SUFFICES ASSUME NEW s \in Queued(t)
               PROVE  s.id \in 0..(n + Len(q) - 1) /\ s.attached \subseteq 0..(n + Len(q) - 1)
    BY DEF EmittedBelow
  <2>1. s \in Queued(st) \/ s \in Elements(q)
    BY <1>6
  <2>2. s.id \in 0..(n + Len(q) - 1) /\ s.attached \subseteq 0..(n - 1)
    BY <1>1, <1>3, <2>1 DEF EmittedBelow
  <2> QED BY <1>1, <2>2
<1>8. {s.id : s \in Elements(q)} = n..(n + Len(q) - 1)
  <2>1. ASSUME NEW i \in n..(n + Len(q) - 1) PROVE \E s \in Elements(q) : s.id = i
    <3>1. i - n + 1 \in 1..Len(q) /\ n + (i - n + 1) - 1 = i
      BY <1>1
    <3>2. q[i - n + 1].id = i /\ q[i - n + 1] \in Elements(q)
      BY <1>1, <3>1 DEF Elements
    <3> QED BY <3>2
  <2> QED BY <1>3, <2>1
<1>9. IdsIn(t) = IdsIn(st) \cup {s.id : s \in Elements(q)}
  BY <1>6 DEF IdsIn
<1> QED BY <1>6, <1>7, <1>8, <1>9 DEF t

(* The store without some of the signals that wait.                        *)
LeftOf(st, taken) ==
  /\ StoreOK(st, Chained)
  /\ EmittedBelow(st, nextId)
  /\ taken \subseteq Waiting
  /\ IdsIn(st) = Waiting \ taken

LEMMA AllIsLeft == ASSUME PipelineInv PROVE LeftOf(store, {})
<1>1. StoreOK(store, Chained)
  BY DEF PipelineInv
<1>2. EmittedBelow(store, nextId)
  BY <1>1, QueuesTyped DEF PipelineInv, TypeOK, Emitted
<1> QED BY <1>1, <1>2 DEF LeftOf, IdsIn, Waiting

LEMMA FrontIsTaken ==
  ASSUME PipelineInv, NEW k \in SignalKeys, HasSignal(store, k)
  PROVE  LeftOf(PopSignal(store, k), {FrontSignal(store, k).id})
<1> DEFINE t == PopSignal(store, k)
           x == FrontSignal(store, k)
<1>1. StoreOK(store, Chained) /\ EmittedBelow(store, nextId)
  BY AllIsLeft DEF LeftOf
<1>2. StoreOK(t, Chained) /\ Queued(t) = {s \in Queued(store) : s.id # x.id}
  BY <1>1, PopSignalOK
<1>3. x \in Queued(store)
  BY <1>1, FrontIsQueued
<1> HIDE DEF t, x
<1>4. EmittedBelow(t, nextId)
  BY <1>1, <1>2 DEF EmittedBelow
<1>5. IdsIn(t) = Waiting \ {x.id}
  BY <1>2 DEF IdsIn, Waiting
<1>6. {x.id} \subseteq Waiting
  BY <1>3 DEF Waiting
<1> QED BY <1>2, <1>4, <1>5, <1>6 DEF LeftOf, t, x

LEMMA SomeAreTaken ==
  ASSUME PipelineInv, NEW taken \in SUBSET DOMAIN store.byId
  PROVE  LeftOf(RemoveSignals(store, taken), taken)
<1> DEFINE t == RemoveSignals(store, taken)
<1>1. StoreOK(store, Chained) /\ EmittedBelow(store, nextId)
  BY AllIsLeft DEF LeftOf
<1>2. StoreOK(t, Chained) /\ Queued(t) = {s \in Queued(store) : s.id \notin taken}
  BY <1>1, RemoveSignalsOK
<1>3. taken \subseteq Waiting
  BY <1>1, IdsAreIndexed DEF IdsIn, Waiting
<1> HIDE DEF t
<1>4. EmittedBelow(t, nextId)
  BY <1>1, <1>2 DEF EmittedBelow
<1>5. IdsIn(t) = Waiting \ taken
  BY <1>2 DEF IdsIn, Waiting
<1> QED BY <1>2, <1>3, <1>4, <1>5 DEF LeftOf, t

(* What adding the signals q to what is left does to the counts.           *)
LEMMA Delivered ==
  ASSUME PipelineInv, pc # "clear", NEW st, NEW taken, LeftOf(st, taken),
         NEW q \in Seq(Chained), Drawn(q, nextId), nextId + Len(q) <= MaxId,
         store' = AddSignals(st, q), nextId' = nextId + Len(q),
         consumed' = consumed \cup taken, UNCHANGED <<toClear, cleared, orders>>
  PROVE  /\ StoreOK(store', Chained) /\ EmittedBelow(store', nextId')
         /\ nextId' \in 0..MaxId
         /\ UNION {toClear, consumed, cleared, orders}' \subseteq Emitted'
         /\ NoSignalLost'
         /\ toClear' = {} /\ orders' = {}
         /\ Waiting' \cap (consumed \cup cleared)' = {}
<1>1. nextId \in Nat /\ MaxId \in Nat /\ Len(q) \in Nat
  BY SignalStoreAssumption DEF PipelineInv, TypeOK
<1>2. /\ StoreOK(store', Chained) /\ EmittedBelow(store', nextId')
      /\ IdsIn(store') = IdsIn(st) \cup nextId..(nextId + Len(q) - 1)
  BY <1>1, AddDrawnSignals DEF LeftOf
<1>3. /\ taken \subseteq Waiting
      /\ Waiting' = (Waiting \ taken) \cup nextId..(nextId + Len(q) - 1)
  BY <1>2 DEF LeftOf, Waiting, IdsIn
<1>4. /\ nextId' \in 0..MaxId
      /\ Emitted' = Emitted \cup nextId..(nextId + Len(q) - 1)
      /\ Emitted \cap nextId..(nextId + Len(q) - 1) = {}
  BY <1>1 DEF Emitted
<1>5. /\ toClear = {} /\ orders = {} /\ Waiting \cap (consumed \cup cleared) = {}
      /\ consumed \subseteq Emitted /\ cleared \subseteq Emitted
  BY DEF PipelineInv, Settled, TypeOK
<1>6. Emitted = Waiting \cup consumed \cup cleared
  BY DEF PipelineInv, NoSignalLost
<1>7. toClear' = {} /\ orders' = {} /\ cleared' = cleared
  BY <1>5
<1>8. NoSignalLost'
  BY <1>3, <1>4, <1>5, <1>6, <1>7 DEF NoSignalLost
<1>9. UNION {toClear, consumed, cleared, orders}' \subseteq Emitted'
  BY <1>4, <1>5, <1>6, <1>3, <1>7
<1>10. Waiting' \cap (consumed \cup cleared)' = {}
  <2>1. (consumed \cup cleared)' = taken \cup (consumed \cup cleared)
    BY <1>7
  <2>2. /\ (consumed \cup cleared) \cap nextId..(nextId + Len(q) - 1) = {}
        /\ taken \cap nextId..(nextId + Len(q) - 1) = {}
    BY <1>3, <1>4, <1>5, <1>6
  <2> QED BY <1>3, <1>5, <2>1, <2>2
<1> QED BY <1>2, <1>4, <1>7, <1>8, <1>9, <1>10

LEMMA PipelineInvInit == Init => PipelineInv
<1> SUFFICES ASSUME Init PROVE PipelineInv
  OBVIOUS
<1>1. StoreOK(store, Chained) /\ Queued(store) = {}
  BY EmptyStoreOK DEF Init
<1>2. EmittedBelow(store, nextId) /\ Waiting = {}
  BY <1>1 DEF EmittedBelow, Waiting
<1>3. Emitted = {}
  BY DEF Init, Emitted
<1>4. \A k \in SignalKeys : \A s \in Elements(store.queues[k]) :
        s.signalKey = k /\ s.id \in Emitted /\ s.attached \subseteq Emitted
  BY <1>1, <1>2, QueuesTyped DEF Emitted
<1>5. TypeOK
  <2>1. /\ sc \in [index : 0..MaxIndex, close : Prices \cup {NoPrice}, full : BOOLEAN]
        /\ seen \in [index : 0..(MaxIndex + 1), close : Prices \cup {NoPrice}]
        /\ nextId \in 0..MaxId /\ levels \in [Prices -> SUBSET Prices]
    BY SignalPipelineAssumption, SignalStoreAssumption DEF Init
  <2>2. levelPass \in BOOLEAN /\ UNION {toClear, consumed, cleared, orders} \subseteq Emitted
    BY DEF Init
  <2> QED BY <1>4, <2>1, <2>2 DEF Init, TypeOK
<1>6. NoSignalLost /\ Settled
  BY <1>2, <1>3 DEF Init, NoSignalLost, Settled
<1>7. Paced /\ LevelsOnlyOnRecalculation
  BY DEF Init, Paced, LevelsOnlyOnRecalculation
<1> QED BY <1>1, <1>5, <1>6, <1>7 DEF PipelineInv

(* The clause of TypeOK on the queues after a step.                        *)
QueuesOK == \A k \in SignalKeys : \A s \in Elements(store.queues[k]) :
              s.signalKey = k /\ s.id \in Emitted /\ s.attached \subseteq Emitted

LEMMA QueuesOKNext ==
  ASSUME StoreOK(store', Chained), EmittedBelow(store', nextId')
  PROVE  QueuesOK'
BY QueuesTyped DEF QueuesOK, Emitted

(* A step that leaves the signals and what became of them alone.           *)
LEMMA SignalsStay ==
  ASSUME PipelineInv, UNCHANGED <<store, nextId, consumed, cleared>>
  PROVE  /\ StoreOK(store', Chained) /\ QueuesOK'
         /\ Waiting' = Waiting /\ Emitted' = Emitted
<1>1. store' = store /\ nextId' = nextId
  OBVIOUS
<1>2. Waiting' = Waiting /\ Emitted' = Emitted
  BY <1>1 DEF Waiting, Emitted
<1>3. QueuesOK
  BY DEF PipelineInv, TypeOK, QueuesOK
<1>4. QueuesOK'
  BY <1>1, <1>2, <1>3 DEF QueuesOK
<1> QED BY <1>1, <1>2, <1>4 DEF PipelineInv

LEMMA UpdateSCRefKeepsInv ==
  ASSUME PipelineInv, NEW i \in 0..MaxIndex, NEW p \in Prices, NEW f \in BOOLEAN, UpdateSCRef(i, p, f)
  PROVE  PipelineInv'
<1>1. /\ StoreOK(store', Chained) /\ QueuesOK' /\ Waiting' = Waiting /\ Emitted' = Emitted
  BY SignalsStay DEF UpdateSCRef
<1>2. /\ pc = "idle" /\ pc' = "session" /\ sc' = [index |-> i, close |-> p, full |-> f]
      /\ UNCHANGED <<setup, seen, nextId, levels, toClear, consumed, cleared, orders, levelPass>>
  BY DEF UpdateSCRef
<1>3. TypeOK'
  BY <1>1, <1>2 DEF PipelineInv, TypeOK, QueuesOK
<1>4. NoSignalLost' /\ Settled'
  BY <1>1, <1>2 DEF PipelineInv, NoSignalLost, Settled
<1>5. Paced' /\ LevelsOnlyOnRecalculation'
  BY <1>2 DEF PipelineInv, Paced, LevelsOnlyOnRecalculation
<1> QED BY <1>1, <1>3, <1>4, <1>5 DEF PipelineInv

LEMMA OutsideWindowKeepsInv ==
  ASSUME PipelineInv, OutsideWindow
  PROVE  PipelineInv'
<1>1. /\ StoreOK(store', Chained) /\ QueuesOK' /\ Waiting' = Waiting /\ Emitted' = Emitted
  BY SignalsStay DEF OutsideWindow
<1>2. /\ pc = "session" /\ pc' = "idle"
      /\ UNCHANGED <<setup, sc, seen, nextId, levels, toClear, consumed, cleared, orders, levelPass>>
  BY DEF OutsideWindow
<1>3. TypeOK'
  BY <1>1, <1>2 DEF PipelineInv, TypeOK, QueuesOK
<1>4. NoSignalLost' /\ Settled'
  BY <1>1, <1>2 DEF PipelineInv, NoSignalLost, Settled
<1>5. Paced' /\ LevelsOnlyOnRecalculation'
  BY <1>2 DEF PipelineInv, Paced, LevelsOnlyOnRecalculation
<1> QED BY <1>1, <1>3, <1>4, <1>5 DEF PipelineInv

(* IsReadyForTradeIteration records what it answers TRUE for: outside a    *)
(* full recalculation a second call for the same update answers FALSE.     *)
LEMMA ReadinessIsUsedUp ==
  ASSUME PipelineInv, pc \in {"session", "levels"}, seen' = Recorded, UNCHANGED <<setup, sc>>
  PROVE  /\ seen' \in [index : 0..(MaxIndex + 1), close : Prices \cup {NoPrice}]
         /\ ~sc'.full /\ IsReadyForTradeIteration => ~Fresh'
<1>1. /\ seen \in [index : 0..(MaxIndex + 1), close : Prices \cup {NoPrice}]
      /\ sc \in [index : 0..MaxIndex, close : Prices \cup {NoPrice}, full : BOOLEAN]
      /\ MaxIndex \in Nat
  BY SignalPipelineAssumption DEF PipelineInv, TypeOK
<1>2. sc.index \in 0..(MaxIndex + 1) /\ sc.close \in Prices \cup {NoPrice}
  BY <1>1
<1>3. seen' \in [index : 0..(MaxIndex + 1), close : Prices \cup {NoPrice}]
  BY <1>1, <1>2 DEF Recorded
<1>4. ASSUME ~sc.full, Fresh PROVE ~Fresh'
  BY <1>1, <1>4 DEF Recorded, Fresh
<1> QED BY <1>3, <1>4 DEF IsReadyForTradeIteration

LEMMA ShouldProceedKeepsInv ==
  ASSUME PipelineInv, ShouldProceed
  PROVE  PipelineInv'
<1>1. /\ StoreOK(store', Chained) /\ QueuesOK' /\ Waiting' = Waiting /\ Emitted' = Emitted
  BY SignalsStay DEF ShouldProceed
<1>2. /\ pc = "session" /\ nextId + 2 <= MaxId /\ seen' = Recorded /\ levelPass' = FALSE
      /\ pc' = IF IsReadyForTradeIteration THEN "generate" ELSE "idle"
      /\ UNCHANGED <<setup, sc, nextId, levels, toClear, consumed, cleared, orders>>
  BY DEF ShouldProceed
<1>3. /\ seen' \in [index : 0..(MaxIndex + 1), close : Prices \cup {NoPrice}]
      /\ ~sc'.full /\ IsReadyForTradeIteration => ~Fresh'
  BY <1>2, ReadinessIsUsedUp
<1>4. TypeOK'
  <2>1. levelPass' \in BOOLEAN
    BY <1>2
  <2> QED BY <1>1, <1>2, <1>3, <2>1 DEF PipelineInv, TypeOK, QueuesOK
<1>5. NoSignalLost' /\ Settled'
  BY <1>1, <1>2 DEF PipelineInv, NoSignalLost, Settled
<1>6. Paced'
  BY <1>2, <1>3 DEF Paced, IsReadyForTradeIteration
<1>7. LevelsOnlyOnRecalculation'
  BY <1>2 DEF LevelsOnlyOnRecalculation
<1> QED BY <1>1, <1>4, <1>5, <1>6, <1>7 DEF PipelineInv

(* Both generators leave what they do not take and add new signals.        *)
Handed(st, taken, q) ==
  /\ LeftOf(st, taken)
  /\ q \in Seq(Chained) /\ Drawn(q, nextId) /\ nextId + Len(q) <= MaxId
  /\ store' = AddSignals(st, q) /\ nextId' = nextId + Len(q) /\ consumed' = consumed \cup taken

LEMMA LeftIsEmitted ==
  ASSUME PipelineInv, NEW st, NEW taken, LeftOf(st, taken)
  PROVE  taken \subseteq 0..(nextId - 1)
<1>1. \A s \in Queued(store) : s.id \in 0..(nextId - 1)
  BY AllIsLeft DEF LeftOf, EmittedBelow
<1>2. Waiting \subseteq 0..(nextId - 1)
  BY <1>1 DEF Waiting
<1> QED BY <1>2 DEF LeftOf

LEMMA OneDrawn ==
  ASSUME nextId \in Nat, NEW k \in SignalKeys
  PROVE  LET s == Signal(k, nextId, {})
         IN  s \in Chained /\ <<s>> \in Seq(Chained) /\ Drawn(<<s>>, nextId)
<1> DEFINE s == Signal(k, nextId, {})
<1>1. s \in Chained /\ s.id = nextId /\ s.attached = {}
  BY DEF Signal, Chained
<1> HIDE DEF s
<1>2. <<s>> \in Seq(Chained) /\ DOMAIN <<s>> = 1..1 /\ <<s>>[1] = s
  BY <1>1
<1>3. Drawn(<<s>>, nextId)
  BY <1>1, <1>2 DEF Drawn
<1> QED BY <1>1, <1>2, <1>3 DEF s

LEMMA DefaultHands ==
  ASSUME PipelineInv, pc = "generate", DefaultGenerate
  PROVE  \E st, taken, q : Handed(st, taken, q)
<1> DEFINE had == HasSignal(store, "SIGNAL_1")
           taken == IF had THEN {FrontSignal(store, "SIGNAL_1").id} ELSE {}
           st == IF had THEN PopSignal(store, "SIGNAL_1") ELSE store
           one == Signal("SIGNAL_1", nextId, {})
           two == Signal("SIGNAL_2", nextId + 1, taken)
<1>1. /\ consumed' = consumed \cup taken
      /\ store' = AddSignals(st, IF had THEN <<one, two>> ELSE <<one>>)
      /\ nextId' = nextId + IF had THEN 2 ELSE 1
  BY DEF DefaultGenerate
<1>2. "SIGNAL_1" \in SignalKeys /\ "SIGNAL_2" \in SignalKeys /\ nextId \in Nat
  BY SignalPipelineAssumption DEF DefaultGenerate, PipelineInv, TypeOK
<1>0. nextId + 1 <= MaxId /\ nextId + 2 <= MaxId
  BY <1>2, SignalStoreAssumption DEF PipelineInv, Paced
<1>3. LeftOf(st, taken)
  <2>1. CASE had
    BY <1>2, <2>1, FrontIsTaken
  <2>2. CASE ~had
    BY <2>2, AllIsLeft
  <2> QED BY <2>1, <2>2
<1>4. taken \subseteq 0..(nextId - 1)
  <2> HIDE DEF taken, st
  <2> QED BY <1>3, LeftIsEmitted
<1>5. one \in Chained /\ one.id = nextId /\ one.attached = {}
  BY <1>2 DEF Signal, Chained
<1>6. two \in Chained /\ two.id = nextId + 1 /\ two.attached = taken
  <2> HIDE DEF taken
  <2>1. taken \subseteq Nat
    BY <1>4
  <2> QED BY <1>2, <2>1 DEF Signal, Chained
<1>7. CASE had
  <2> HIDE DEF taken, st, one, two
  <2>1. <<one, two>> \in Seq(Chained) /\ Len(<<one, two>>) = 2 /\ DOMAIN <<one, two>> = 1..2
        /\ <<one, two>>[1] = one /\ <<one, two>>[2] = two
    BY <1>5, <1>6
  <2>2. Drawn(<<one, two>>, nextId)
    <3> DEFINE r == <<one, two>>
    <3>1. r[1] = one /\ r[2] = two /\ DOMAIN r = {1, 2}
      BY <2>1
    <3> HIDE DEF r
    <3>2. r[1].id = nextId + 1 - 1 /\ r[2].id = nextId + 2 - 1
      BY <1>2, <1>5, <1>6, <3>1
    <3>3. r[1].attached \subseteq 0..(nextId - 1) /\ r[2].attached \subseteq 0..(nextId - 1)
      BY <1>4, <1>5, <1>6, <3>1
    <3>4. Drawn(r, nextId)
      BY <3>1, <3>2, <3>3 DEF Drawn
    <3> QED BY <3>4 DEF r
  <2>3. Handed(st, taken, <<one, two>>)
    BY <1>0, <1>1, <1>3, <1>7, <2>1, <2>2 DEF Handed
  <2> QED BY <2>3
<1>8. CASE ~had
  <2>1. <<one>> \in Seq(Chained) /\ Drawn(<<one>>, nextId)
    BY <1>2, OneDrawn
  <2> HIDE DEF taken, st, one, two
  <2>2. Len(<<one>>) = 1
    OBVIOUS
  <2>3. Handed(st, taken, <<one>>)
    BY <1>0, <1>1, <1>3, <1>8, <2>1, <2>2 DEF Handed
  <2> QED BY <2>3
<1> QED BY <1>7, <1>8

LEMMA BurstsAreDrawn ==
  ASSUME PipelineInv, NEW ks \in Bursts
  PROVE  /\ NewSignals(ks) \in Seq(Chained) /\ Drawn(NewSignals(ks), nextId)
         /\ Len(NewSignals(ks)) = Len(ks) /\ nextId + Len(ks) <= MaxId
<1>1. nextId \in Nat /\ MaxEmit \in Nat
  BY SignalPipelineAssumption DEF PipelineInv, TypeOK
<1>2. PICK n \in 0..MaxEmit : ks \in [1..n -> SignalKeys]
  BY DEF Bursts
<1>3. n \in Nat /\ Len(ks) = n /\ \A i \in 1..n : ks[i] \in SignalKeys
  BY <1>1, <1>2
<1> DEFINE q == NewSignals(ks)
<1>4. q = [i \in 1..n |-> Signal(ks[i], nextId + i - 1, {})]
  BY <1>3 DEF NewSignals
<1>5. ASSUME NEW i \in 1..n
      PROVE  Signal(ks[i], nextId + i - 1, {}) \in Chained
  BY <1>1, <1>3 DEF Signal, Chained
<1> HIDE DEF q
<1>6. q \in [1..n -> Chained]
  BY <1>4, <1>5
<1>7. q \in Seq(Chained) /\ Len(q) = n /\ DOMAIN q = 1..n
  BY <1>3, <1>6
<1>8. Drawn(q, nextId)
  BY <1>4, <1>7 DEF Drawn, Signal
<1> QED BY <1>3, <1>7, <1>8 DEF q, Bursts

LEMMA CustomHands ==
  ASSUME PipelineInv, NEW taken \in SUBSET DOMAIN store.byId, NEW ks \in Bursts,
         CustomGenerate(taken, ks)
  PROVE  Handed(RemoveSignals(store, taken), taken, NewSignals(ks))
<1>1. /\ consumed' = consumed \cup taken
      /\ store' = AddSignals(RemoveSignals(store, taken), NewSignals(ks))
      /\ nextId' = nextId + Len(ks)
  BY DEF CustomGenerate
<1> QED BY <1>1, SomeAreTaken, BurstsAreDrawn DEF Handed

LEMMA GenerateSignalsKeepsInv ==
  ASSUME PipelineInv, GenerateSignals
  PROVE  PipelineInv'
<1>1. /\ pc = "generate" /\ pc' = "levels"
      /\ UNCHANGED <<setup, sc, seen, levels, toClear, cleared, orders, levelPass>>
  BY DEF GenerateSignals
<1>2. \E st, taken, q : Handed(st, taken, q)
  BY <1>1, DefaultHands, CustomHands DEF GenerateSignals
<1>3. PICK st, taken, q : Handed(st, taken, q)
  BY <1>2
<1>4. /\ StoreOK(store', Chained) /\ EmittedBelow(store', nextId')
      /\ nextId' \in 0..MaxId
      /\ UNION {toClear, consumed, cleared, orders}' \subseteq Emitted'
      /\ NoSignalLost'
      /\ toClear' = {} /\ orders' = {}
      /\ Waiting' \cap (consumed \cup cleared)' = {}
  BY <1>1, <1>3, Delivered DEF Handed
<1>5. TypeOK'
  BY <1>1, <1>4, QueuesOKNext DEF PipelineInv, TypeOK, QueuesOK
<1>6. Settled'
  BY <1>4 DEF Settled
<1>7. Paced'
  BY <1>1 DEF PipelineInv, Paced, Fresh
<1>8. LevelsOnlyOnRecalculation'
  BY <1>1 DEF LevelsOnlyOnRecalculation
<1> QED BY <1>4, <1>5, <1>6, <1>7, <1>8 DEF PipelineInv

LEMMA PassKeepsLevels ==
  ASSUME PipelineInv, NEW generated \in SUBSET Prices, NEW ks, NEW gone,
         ExecuteLevelProcessing(generated, ks, gone)
  PROVE  levels' \in [Prices -> SUBSET Prices]
<1> DEFINE stored == [levels EXCEPT ![sc.close] = @ \cup generated]
<1>1. levels' = [p \in Prices |-> stored[p] \ (gone \cap {p})]
  BY DEF ExecuteLevelProcessing, ClearLevels
<1>2. stored \in [Prices -> SUBSET Prices]
  BY DEF PipelineInv, TypeOK
<1> HIDE DEF stored
<1> QED BY <1>1, <1>2

LEMMA ProcessLevelsKeepsInv ==
  ASSUME PipelineInv, ProcessLevelsAndGenerateSignals
  PROVE  PipelineInv'
<1>1. /\ pc = "levels" /\ pc' = "process" /\ seen' = Recorded
      /\ UNCHANGED <<setup, sc, toClear, consumed, cleared, orders>>
  BY DEF ProcessLevelsAndGenerateSignals
<1>2. seen' \in [index : 0..(MaxIndex + 1), close : Prices \cup {NoPrice}]
  BY <1>1, ReadinessIsUsedUp
<1>3. levelPass = FALSE /\ (sc.full => sc.index = 0) /\ (~sc.full => ~Fresh)
  BY <1>1 DEF PipelineInv, Paced
<1>4. CASE IsReadyForTradeIteration
  <2>1. PICK generated \in SUBSET Prices, gone \in SUBSET Prices, ks \in Bursts :
          ExecuteLevelProcessing(generated, ks, gone)
    BY <1>4 DEF ProcessLevelsAndGenerateSignals
  <2>2. levels' \in [Prices -> SUBSET Prices]
    BY <2>1, PassKeepsLevels
  <2>3. /\ store' = AddSignals(store, NewSignals(ks)) /\ nextId' = nextId + Len(ks)
        /\ levelPass' = TRUE
    BY <2>1 DEF ExecuteLevelProcessing
  <2>4. /\ NewSignals(ks) \in Seq(Chained) /\ Drawn(NewSignals(ks), nextId)
        /\ Len(NewSignals(ks)) = Len(ks) /\ nextId + Len(ks) <= MaxId
    BY BurstsAreDrawn
  <2>5. LeftOf(store, {}) /\ consumed' = consumed \cup {}
    BY <1>1, AllIsLeft
  <2>6. /\ StoreOK(store', Chained) /\ EmittedBelow(store', nextId')
        /\ nextId' \in 0..MaxId
        /\ UNION {toClear, consumed, cleared, orders}' \subseteq Emitted'
        /\ NoSignalLost'
        /\ toClear' = {} /\ orders' = {}
        /\ Waiting' \cap (consumed \cup cleared)' = {}
    BY <1>1, <2>3, <2>4, <2>5, Delivered
  <2>7. TypeOK'
    BY <1>1, <1>2, <2>2, <2>3, <2>6, QueuesOKNext DEF PipelineInv, TypeOK, QueuesOK
  <2>8. Settled' /\ Paced'
    BY <1>1, <2>6 DEF Settled, Paced
  <2>9. LevelsOnlyOnRecalculation'
    BY <1>1, <1>3, <1>4 DEF LevelsOnlyOnRecalculation, IsReadyForTradeIteration
  <2> QED BY <2>6, <2>7, <2>8, <2>9 DEF PipelineInv
<1>5. CASE ~IsReadyForTradeIteration
  <2>1. UNCHANGED <<store, nextId, levels, levelPass>>
    BY <1>5 DEF ProcessLevelsAndGenerateSignals
  <2>2. /\ StoreOK(store', Chained) /\ QueuesOK' /\ Waiting' = Waiting /\ Emitted' = Emitted
    BY <1>1, <2>1, SignalsStay
  <2>3. TypeOK'
    BY <1>1, <1>2, <2>1, <2>2 DEF PipelineInv, TypeOK, QueuesOK
  <2>4. NoSignalLost' /\ Settled'
    BY <1>1, <2>2 DEF PipelineInv, NoSignalLost, Settled
  <2>5. Paced' /\ LevelsOnlyOnRecalculation'
    BY <1>1, <1>3, <2>1 DEF Paced, LevelsOnlyOnRecalculation
  <2> QED BY <2>2, <2>3, <2>4, <2>5 DEF PipelineInv
<1> QED BY <1>4, <1>5

(* ProcessSignals: what is taken, marked or made orders for waited, so it  *)
(* is none of what was taken or cleared before.                            *)
LEMMA Handled ==
  ASSUME PipelineInv, pc = "process", NEW taken, LeftOf(store', taken),
         consumed' = consumed \cup taken,
         toClear' \subseteq Waiting \ taken, orders' \subseteq Waiting,
         UNCHANGED <<nextId, cleared>>
  PROVE  /\ StoreOK(store', Chained) /\ EmittedBelow(store', nextId')
         /\ UNION {toClear, consumed, cleared, orders}' \subseteq Emitted'
         /\ NoSignalLost'
         /\ Waiting' \cap (consumed \cup cleared)' = {}
         /\ orders' \cap cleared' = {} /\ toClear' \subseteq Waiting'
<1>1. StoreOK(store', Chained) /\ EmittedBelow(store', nextId')
  BY DEF LeftOf
<1>2. taken \subseteq Waiting /\ Waiting' = Waiting \ taken
  BY DEF LeftOf, IdsIn, Waiting
<1>3. /\ Waiting \cap (consumed \cup cleared) = {}
      /\ Emitted = Waiting \cup consumed \cup cleared
  BY DEF PipelineInv, Settled, NoSignalLost
<1>4. Emitted' = Emitted
  BY DEF Emitted
<1>5. NoSignalLost'
  BY <1>2, <1>3, <1>4 DEF NoSignalLost
<1>6. UNION {toClear, consumed, cleared, orders}' \subseteq Emitted'
  BY <1>2, <1>3, <1>4
<1>7. Waiting' \cap (consumed \cup cleared)' = {}
  BY <1>2, <1>3
<1>8. orders' \cap cleared' = {} /\ toClear' \subseteq Waiting'
  BY <1>2, <1>3
<1> QED BY <1>1, <1>5, <1>6, <1>7, <1>8

(* "SIGNAL_2", asked for as an id, is no signal's.                         *)
LEMMA DefaultProcessDoesNothing ==
  ASSUME PipelineInv, DefaultProcess
  PROVE  orders' = {} /\ UNCHANGED <<store, toClear, consumed>>
<1>1. nextId \in 0..MaxId /\ MaxId \in Nat
  BY SignalStoreAssumption DEF PipelineInv, TypeOK
<1>2. \A s \in Queued(store) : s.id \in 0..(nextId - 1)
  BY AllIsLeft DEF LeftOf, EmittedBelow
<1>3. \A s \in Queued(store) : s.id # MaxId
  BY <1>1, <1>2
<1>4. ~HasSignalById(store, Signal2AsId)
  BY <1>3 DEF PipelineInv, StoreOK, HasSignalById, Signal2AsId
<1> QED BY <1>4 DEF DefaultProcess

LEMMA ProcessSignalsKeepsInv ==
  ASSUME PipelineInv, ProcessSignals
  PROVE  PipelineInv'
<1>1. /\ pc = "process" /\ pc' = "clear"
      /\ UNCHANGED <<setup, sc, seen, nextId, levels, cleared, levelPass>>
  BY DEF ProcessSignals
<1>2. toClear = {} /\ DOMAIN store.byId = Waiting
  BY <1>1, IdsAreIndexed DEF PipelineInv, Settled, IdsIn, Waiting
<1>3. \E taken : /\ LeftOf(store', taken) /\ consumed' = consumed \cup taken
                 /\ toClear' \subseteq Waiting \ taken /\ orders' \subseteq Waiting
  <2>1. CASE DefaultProcess
    <3>1. orders' = {} /\ UNCHANGED <<store, toClear, consumed>>
      BY <2>1, DefaultProcessDoesNothing
    <3>2. LeftOf(store', {}) /\ consumed' = consumed \cup {} /\ toClear' = {}
      BY <1>2, <3>1, AllIsLeft
    <3> QED BY <3>1, <3>2
  <2>2. ASSUME NEW taken \in SUBSET DOMAIN store.byId, NEW traded \in SUBSET DOMAIN store.byId,
               NEW marks \in SUBSET (DOMAIN store.byId \ taken), CustomProcess(taken, marks, traded)
        PROVE  /\ LeftOf(store', taken) /\ consumed' = consumed \cup taken
               /\ toClear' \subseteq Waiting \ taken /\ orders' \subseteq Waiting
    <3>1. /\ consumed' = consumed \cup taken /\ store' = RemoveSignals(store, taken)
          /\ toClear' = toClear \cup marks /\ orders' = traded
      BY <2>2 DEF CustomProcess
    <3>2. LeftOf(store', taken)
      BY <3>1, SomeAreTaken
    <3> QED BY <1>2, <3>1, <3>2
  <2> QED BY <2>1, <2>2 DEF ProcessSignals
<1>4. PICK taken : /\ LeftOf(store', taken) /\ consumed' = consumed \cup taken
                   /\ toClear' \subseteq Waiting \ taken /\ orders' \subseteq Waiting
  BY <1>3
<1>5. /\ StoreOK(store', Chained) /\ EmittedBelow(store', nextId')
      /\ UNION {toClear, consumed, cleared, orders}' \subseteq Emitted'
      /\ NoSignalLost'
      /\ Waiting' \cap (consumed \cup cleared)' = {}
      /\ orders' \cap cleared' = {} /\ toClear' \subseteq Waiting'
  BY <1>1, <1>4, Handled
<1>6. TypeOK'
  BY <1>1, <1>5, QueuesOKNext DEF PipelineInv, TypeOK, QueuesOK
<1>7. Settled' /\ Paced'
  BY <1>1, <1>5 DEF Settled, Paced
<1>8. LevelsOnlyOnRecalculation'
  BY <1>1 DEF PipelineInv, LevelsOnlyOnRecalculation
<1> QED BY <1>5, <1>6, <1>7, <1>8 DEF PipelineInv

LEMMA ClearProcessedKeepsInv ==
  ASSUME PipelineInv, ClearProcessedSignals
  PROVE  PipelineInv'
<1>1. /\ pc = "clear" /\ pc' = "idle" /\ store' = RemoveSignals(store, toClear)
      /\ cleared' = cleared \cup toClear /\ toClear' = {} /\ orders' = {}
      /\ UNCHANGED <<setup, sc, seen, nextId, levels, consumed, levelPass>>
  BY DEF ClearProcessedSignals, Cleared
<1>2. StoreOK(store', Chained) /\ Queued(store') = {s \in Queued(store) : s.id \notin toClear}
  BY <1>1, RemoveSignalsOK DEF PipelineInv
<1>3. Waiting' = Waiting \ toClear
  BY <1>2 DEF Waiting
<1>4. EmittedBelow(store', nextId')
  BY <1>1, <1>2, AllIsLeft DEF LeftOf, EmittedBelow
<1>5. Emitted' = Emitted /\ nextId' \in 0..MaxId
  BY <1>1 DEF Emitted, PipelineInv, TypeOK
<1>6. /\ Waiting \cap (consumed \cup cleared) = {} /\ toClear \subseteq Waiting
      /\ UNION {toClear, consumed, cleared, orders} \subseteq Emitted
      /\ Emitted = Waiting \cup consumed \cup cleared
  BY DEF PipelineInv, Settled, NoSignalLost, TypeOK
<1>7. NoSignalLost'
  BY <1>1, <1>3, <1>5, <1>6 DEF NoSignalLost
<1>8. Settled'
  BY <1>1, <1>3, <1>6 DEF Settled
<1>9. UNION {toClear, consumed, cleared, orders}' \subseteq Emitted'
  BY <1>1, <1>5, <1>6
<1>10. TypeOK'
  BY <1>1, <1>2, <1>4, <1>5, <1>9, QueuesOKNext DEF PipelineInv, TypeOK, QueuesOK
<1>11. Paced' /\ LevelsOnlyOnRecalculation'
  BY <1>1 DEF PipelineInv, Paced, LevelsOnlyOnRecalculation
<1> QED BY <1>2, <1>7, <1>8, <1>10, <1>11 DEF PipelineInv

LEMMA PipelineInvNext == PipelineInv /\ [Next]_vars => PipelineInv'
<1> SUFFICES ASSUME PipelineInv, [Next]_vars PROVE PipelineInv'
  OBVIOUS
<1>1. CASE UNCHANGED vars
  <2>1. UNCHANGED <<setup, sc, seen, pc, store, nextId, levels, toClear, consumed, cleared, orders, levelPass>>
    BY <1>1 DEF vars
  <2>2. StoreOK(store', Chained) /\ QueuesOK' /\ Waiting' = Waiting /\ Emitted' = Emitted
    BY <2>1, SignalsStay
  <2>3. TypeOK' /\ NoSignalLost' /\ Settled'
    BY <2>1, <2>2 DEF PipelineInv, TypeOK, QueuesOK, NoSignalLost, Settled
  <2>4. Paced' /\ LevelsOnlyOnRecalculation'
    BY <2>1 DEF PipelineInv, Paced, Fresh, LevelsOnlyOnRecalculation
  <2> QED BY <2>2, <2>3, <2>4 DEF PipelineInv
<1> QED BY <1>1, UpdateSCRefKeepsInv, OutsideWindowKeepsInv, ShouldProceedKeepsInv,
           GenerateSignalsKeepsInv, ProcessLevelsKeepsInv, ProcessSignalsKeepsInv,
           ClearProcessedKeepsInv DEF Next

LEMMA PipelineInvHolds == Spec => []PipelineInv
BY PipelineInvInit, PipelineInvNext, PTL DEF Spec

(* What each variable of an iteration holds, the ids of every signal and   *)
(* of what it is attached to below the next one UniqueIDGenerator gives.   *)
THEOREM PipelineTypes == Spec => []TypeOK
<1>1. PipelineInv => TypeOK
  BY DEF PipelineInv
<1> QED BY <1>1, PipelineInvHolds, PTL

(* Every signal emitted by a generator or a level waits unless a user's    *)
(* class took it out or marked it, whatever the orders were for.           *)
THEOREM SignalsAreAccountedFor == Spec => []NoSignalLost
<1>1. PipelineInv => NoSignalLost
  BY DEF PipelineInv
<1> QED BY <1>1, PipelineInvHolds, PTL

(* What was taken or marked in an iteration is not there to be processed   *)
(* in a later one, and no order is made for it.                            *)
THEOREM SignalsTradedOnce == Spec => []NoSignalTradedTwice
<1>1. PipelineInv => NoSignalTradedTwice
  BY DEF PipelineInv, Settled, NoSignalTradedTwice
<1> QED BY <1>1, PipelineInvHolds, PTL

(* ProcessLevelsAndGenerateSignals passes over the levels on the first bar *)
(* of a full recalculation and on no other update, although                *)
(* DefaultSignalManager.cpp:13 says that they are processed immediately.   *)
THEOREM LevelsNeedRecalculation == Spec => []LevelsOnlyOnRecalculation
<1>1. PipelineInv => LevelsOnlyOnRecalculation
  BY DEF PipelineInv
<1> QED BY <1>1, PipelineInvHolds, PTL
=============================================================================
