----------------------------- MODULE RoomProofs -----------------------------
(***************************************************************************)
(* Proofs about the two processes that write into a room: RoomBroker, for  *)
(* every set of requests, actors and sinks and every size of the wake      *)
(* queue, and SlackIngress, for every set of messages, every window and    *)
(* every bound on failures.  They share no state: the session that the     *)
(* ingress appends to is the broker's log as it sees it.                   *)
(***************************************************************************)
EXTENDS SlackIngress, RoomBroker, SequenceTheorems, FiniteSetTheorems, WellFoundedInduction, TLAPS

-----------------------------------------------------------------------------
\* Sequences.

\* What a sequence contains and where after an element was appended.
LEMMA Appended ==
  ASSUME NEW S, NEW s \in Seq(S), NEW x \in S
  PROVE  /\ Append(s, x) \in Seq(S) /\ Len(Append(s, x)) = Len(s) + 1 /\ Len(s) \in Nat
         /\ DOMAIN s = 1..Len(s) /\ DOMAIN Append(s, x) = 1..(Len(s) + 1)
         /\ \A i \in DOMAIN s : Append(s, x)[i] = s[i]
         /\ Append(s, x)[Len(s) + 1] = x
         /\ Range(Append(s, x)) = Range(s) \cup {x}
<1> DEFINE t == Append(s, x)
<1>1. /\ t \in Seq(S) /\ Len(t) = Len(s) + 1 /\ t[Len(s) + 1] = x
      /\ \A i \in 1..Len(s) : t[i] = s[i]
  BY AppendProperties
<1> HIDE DEF t
<1>2. Len(s) \in Nat /\ DOMAIN s = 1..Len(s)
  OBVIOUS
<1>3. DOMAIN t = 1..(Len(s) + 1)
  BY <1>1
<1>4. 1..(Len(s) + 1) = 1..Len(s) \cup {Len(s) + 1}
  BY <1>2
<1>5. Range(t) = Range(s) \cup {x}
  BY <1>1, <1>2, <1>3, <1>4 DEF Range
<1>6. QED BY <1>1, <1>2, <1>3, <1>5 DEF t

\* What it contains and where without its first element.
LEMMA Removed ==
  ASSUME NEW S, NEW s \in Seq(S), s # <<>>
  PROVE  /\ Tail(s) \in Seq(S) /\ Len(s) = Len(Tail(s)) + 1 /\ Len(Tail(s)) \in Nat
         /\ DOMAIN Tail(s) = 1..Len(Tail(s)) /\ DOMAIN s = 1..(Len(Tail(s)) + 1)
         /\ \A i \in DOMAIN Tail(s) : Tail(s)[i] = s[i + 1]
         /\ Head(s) = s[1] /\ Head(s) \in S
         /\ Range(s) = Range(Tail(s)) \cup {Head(s)}
<1> DEFINE t == Tail(s)
<1>1. /\ t \in Seq(S) /\ Len(t) = Len(s) - 1 /\ Head(s) \in S
      /\ \A i \in 1..Len(t) : t[i] = s[i + 1]
  BY HeadTailProperties
<1> HIDE DEF t
<1>2. Len(s) \in Nat /\ DOMAIN s = 1..Len(s) /\ Len(t) \in Nat /\ DOMAIN t = 1..Len(t)
  BY <1>1
<1>3. Head(s) = s[1]
  OBVIOUS
<1>4. Len(s) = Len(t) + 1
  BY <1>1, <1>2
<1>5. \A i \in 1..(Len(t) + 1) : i = 1 \/ (i - 1 \in 1..Len(t) /\ (i - 1) + 1 = i)
  BY <1>2
<1>6. \A i \in 1..Len(t) : i + 1 \in 1..(Len(t) + 1)
  BY <1>2
<1>7. Range(s) = Range(t) \cup {Head(s)}
  <2>1. Range(s) \subseteq Range(t) \cup {Head(s)}
    <3> SUFFICES ASSUME NEW i \in 1..(Len(t) + 1) PROVE s[i] \in Range(t) \cup {Head(s)}
      BY <1>2, <1>4 DEF Range
    <3>1. CASE i = 1
      BY <1>3, <3>1
    <3>2. CASE i - 1 \in 1..Len(t) /\ (i - 1) + 1 = i
      <4>1. t[i - 1] = s[i]
        BY <1>1, <3>2
      <4>2. QED BY <1>2, <3>2, <4>1 DEF Range
    <3>3. QED BY <1>5, <3>1, <3>2
  <2>2. Range(t) \subseteq Range(s)
    BY <1>1, <1>2, <1>4, <1>6 DEF Range
  <2>3. Head(s) \in Range(s)
    <3>1. 1 \in 1..(Len(t) + 1)
      BY <1>2
    <3>2. QED BY <1>2, <1>3, <1>4, <3>1 DEF Range
  <2>4. QED BY <2>1, <2>2, <2>3
<1>8. QED BY <1>1, <1>2, <1>3, <1>4, <1>7 DEF t

\* Nothing is in an empty sequence, and something in any other.
LEMMA RangeEmpty ==
  /\ Range(<<>>) = {} /\ DOMAIN <<>> = {} /\ Len(<<>>) = 0
  /\ \A S : \A s \in Seq(S) : Range(s) \subseteq S /\ (Len(s) = 0 => s = <<>>)
<1>1. DOMAIN <<>> = {} /\ Len(<<>>) = 0
  OBVIOUS
<1>2. Range(<<>>) = {}
  BY <1>1 DEF Range
<1>3. ASSUME NEW S, NEW s \in Seq(S) PROVE Range(s) \subseteq S /\ (Len(s) = 0 => s = <<>>)
  <2>1. \A i \in DOMAIN s : s[i] \in S
    BY ElementOfSeq
  <2>2. Len(s) = 0 => s = <<>>
    BY EmptySeq
  <2>3. QED BY <2>1, <2>2 DEF Range
<1>4. QED BY <1>1, <1>2, <1>3

-----------------------------------------------------------------------------
\* The order in which the ingress handles its batch.

\* A non-empty set of natural numbers has a least element.
LEMMA LeastNatural ==
  ASSUME NEW T \in SUBSET Nat, T # {}
  PROVE  \E n \in T : \A m \in T : n <= m
<1>1. PICK n \in T : \A m \in T : <<m, n>> \notin OpToRel(<, Nat)
  BY NatLessThanWellFounded, WFMin
<1>2. ASSUME NEW m \in T PROVE n <= m
  <2>1. <<m, n>> \notin OpToRel(<, Nat)
    BY <1>1
  <2>2. QED BY <2>1 DEF OpToRel
<1>3. QED BY <1>2

\* s is the increasing sequence of the elements of S.
Sorts(s, S) == Range(s) = S /\ \A i, j \in DOMAIN s : i < j => s[i] < s[j]

\* A sorted sequence with a greater element at its end is sorted.
LEMMA SortsGreater ==
  ASSUME NEW n \in Nat, NEW S \in SUBSET (1..n), NEW k \in Nat, NEW s \in [1..k -> S], Sorts(s, S)
  PROVE  \E t \in [1..(k + 1) -> S \cup {n + 1}] : Sorts(t, S \cup {n + 1})
<1> DEFINE t == [i \in 1..(k + 1) |-> IF i = k + 1 THEN n + 1 ELSE s[i]]
<1>1. 1..(k + 1) = 1..k \cup {k + 1} /\ k + 1 \notin 1..k /\ k + 1 \in 1..(k + 1)
  OBVIOUS
<1>2. /\ DOMAIN s = 1..k /\ DOMAIN t = 1..(k + 1) /\ t[k + 1] = n + 1
      /\ \A i \in 1..k : s[i] \in S /\ t[i] = s[i]
  BY <1>1
<1> HIDE DEF t
<1>3. t \in [1..(k + 1) -> S \cup {n + 1}]
  <2>1. \A i \in 1..(k + 1) : t[i] \in S \cup {n + 1}
    BY <1>1, <1>2
  <2>2. t = [i \in 1..(k + 1) |-> t[i]]
    BY DEF t
  <2>3. QED BY <2>1, <2>2
<1>4. Range(t) = S \cup {n + 1}
  BY <1>1, <1>2 DEF Sorts, Range
<1>5. ASSUME NEW i \in 1..(k + 1), NEW j \in 1..(k + 1), i < j PROVE t[i] < t[j]
  <2>1. i \in 1..k
    BY <1>5
  <2>2. CASE j = k + 1
    <3>1. t[i] \in 1..n
      BY <1>2, <2>1
    <3>2. QED BY <1>2, <2>2, <3>1
  <2>3. CASE j \in 1..k
    BY <1>2, <1>5, <2>1, <2>3 DEF Sorts
  <2>4. QED BY <1>1, <2>2, <2>3
<1>6. QED BY <1>2, <1>3, <1>4, <1>5 DEF Sorts

\* A set of the first n numbers is finite and has such a sequence: the least n for which
\* it had none would not be 0, and could not have n as an element or not.
Unsorted(S) == ~\E s \in [1..Cardinality(S) -> S] : Sorts(s, S)

LEMMA SortedExists ==
  ASSUME NEW n \in Nat, NEW S \in SUBSET (1..n)
  PROVE  Cardinality(S) \in Nat /\ ~Unsorted(S)
<1> DEFINE Bad == {k \in Nat : \E T \in SUBSET (1..k) : Unsorted(T)}
<1>1. ASSUME NEW k \in Nat, NEW T \in SUBSET (1..k) PROVE IsFiniteSet(T) /\ Cardinality(T) \in Nat
  <2>1. IsFiniteSet(1..k)
    BY FS_Interval
  <2>2. IsFiniteSet(T)
    BY <2>1, FS_Subset
  <2>3. QED BY <2>2, FS_CardinalityType
<1>2. Bad = {}
  <2> SUFFICES ASSUME Bad # {} PROVE FALSE
    OBVIOUS
  <2>1. PICK k \in Bad : \A m \in Bad : k <= m
    BY LeastNatural
  <2>2. k \in Nat
    OBVIOUS
  <2>3. PICK T \in SUBSET (1..k) : Unsorted(T)
    OBVIOUS
  <2>4. CASE k = 0
    <3>1. T = {} /\ Cardinality(T) = 0
      <4>1. 1..k = {}
        BY <2>4
      <4>2. T = {}
        BY <4>1
      <4>3. QED BY <4>2, FS_EmptySet
    <3>2. 1..0 = {} /\ [i \in 1..0 |-> 0] \in [1..0 -> {}]
      OBVIOUS
    <3>3. Sorts([i \in 1..0 |-> 0], {})
      BY DEF Sorts, Range
    <3>4. QED BY <2>3, <3>1, <3>2, <3>3 DEF Unsorted
  <2>5. CASE k # 0
    <3>1. PICK m \in Nat : k = m + 1
      BY <2>2, <2>5, k - 1 \in Nat
    <3>2. m \notin Bad
      <4>1. ~(k <= m)
        BY <3>1
      <4>2. QED BY <2>1, <4>1
    <3>3. \A U \in SUBSET (1..m) : ~Unsorted(U)
      BY <3>2
    <3>4. 1..k = 1..m \cup {m + 1} /\ m + 1 \notin 1..m
      BY <3>1
    <3>5. CASE m + 1 \notin T
      <4>1. T \in SUBSET (1..m)
        BY <3>4, <3>5
      <4>2. QED BY <2>3, <3>3, <4>1
    <3>6. CASE m + 1 \in T
      <4>1. PICK U \in SUBSET (1..m) : U = T \ {m + 1}
        BY <3>4
      <4>2. T = U \cup {m + 1} /\ m + 1 \notin U
        BY <3>4, <3>6, <4>1
      <4>3. IsFiniteSet(U) /\ Cardinality(U) \in Nat
        BY <1>1
      <4>4. Cardinality(T) = Cardinality(U) + 1
        BY <4>2, <4>3, FS_AddElement
      <4>5. PICK s \in [1..Cardinality(U) -> U] : Sorts(s, U)
        BY <3>3 DEF Unsorted
      <4>6. \E t \in [1..(Cardinality(U) + 1) -> U \cup {m + 1}] : Sorts(t, U \cup {m + 1})
        BY <4>3, <4>5, SortsGreater
      <4>7. QED BY <2>3, <4>2, <4>4, <4>6 DEF Unsorted
    <3>7. QED BY <3>5, <3>6
  <2>6. QED BY <2>4, <2>5
<1>3. QED BY <1>1, <1>2

\* The batch is the increasing sequence of what it is made of.
LEMMA OldestFirstSorts ==
  ASSUME NEW n \in Nat, NEW S \in SUBSET (1..n)
  PROVE  OldestFirst(S) \in Seq(S) /\ Sorts(OldestFirst(S), S)
<1>1. Cardinality(S) \in Nat /\ \E s \in [1..Cardinality(S) -> S] : Sorts(s, S)
  BY SortedExists DEF Unsorted
<1>2. OldestFirst(S) \in [1..Cardinality(S) -> S] /\ Sorts(OldestFirst(S), S)
  BY <1>1 DEF OldestFirst, Sorts
<1>3. ASSUME NEW k \in Nat, NEW s \in [1..k -> S] PROVE s \in Seq(S)
  OBVIOUS
<1>4. QED BY <1>1, <1>2, <1>3

-----------------------------------------------------------------------------
\* The ingress.

Posted == Range(session)

\* The batch is sorted, and nothing in it is newer than the newest message fetched.
Batched ==
  /\ \A i, j \in DOMAIN batch : i < j => batch[i] < batch[j]
  /\ \A i \in DOMAIN batch : batch[i] <= newest
  /\ stage = "post" => batch # <<>>

\* Everything before m is in the session.
Cleared(m) == \A n \in Mapped : n < m => n \in Posted

\* Whatever may be appended comes after everything before it: the first of the batch,
\* because the process skips nothing, and what was given up, because it was the first.
Behind == \A m \in Mapped : stale[m] > 0 => Cleared(m) /\ lapses > 0

\* What the answer says of the first of the batch.
Answers ==
  /\ mine = "ok" => Head(batch) \in Posted
  /\ mine = "pending" /\ lapses = 0 /\ Len(session) <= Window => Head(batch) \notin Posted

IngressIInv == IngressInv /\ Batched /\ Behind /\ Answers /\ FirstsInOrder /\ DuplicatesExplained

Posting == stage \in {"ingest", "post"}

\* The first of the batch is a message, and everything before it is in the session.
LEMMA HeadIsCleared ==
  ASSUME IngressInv, Batched, Posting, batch # <<>>
  PROVE  /\ Head(batch) \in Mapped /\ Cleared(Head(batch))
         /\ Tail(batch) \in Seq(Mapped) /\ Range(batch) = Range(Tail(batch)) \cup {Head(batch)}
         /\ DOMAIN batch = 1..(Len(Tail(batch)) + 1) /\ DOMAIN Tail(batch) = 1..Len(Tail(batch))
         /\ Len(Tail(batch)) \in Nat
         /\ \A i \in DOMAIN Tail(batch) : Tail(batch)[i] = batch[i + 1]
<1>1. /\ batch \in Seq(Mapped) /\ newest \in Int /\ Mapped \subseteq Int
  BY SlackIngressAssumption DEF IngressInv, IngressTypeOK
<1>2. /\ Tail(batch) \in Seq(Mapped) /\ Len(Tail(batch)) \in Nat
      /\ DOMAIN Tail(batch) = 1..Len(Tail(batch)) /\ DOMAIN batch = 1..(Len(Tail(batch)) + 1)
      /\ \A i \in DOMAIN Tail(batch) : Tail(batch)[i] = batch[i + 1]
      /\ Head(batch) = batch[1] /\ Head(batch) \in Mapped
      /\ Range(batch) = Range(Tail(batch)) \cup {Head(batch)}
  <2>1. batch \in Seq(Mapped) /\ batch # <<>>
    BY <1>1
  <2>2. QED BY ONLY <2>1, Removed
<1>3. ASSUME NEW n \in Mapped, n < Head(batch) PROVE n \in Posted
  <2>1. 1 \in DOMAIN batch
    BY <1>2
  <2>2. n <= newest
    <3>1. batch[1] <= newest
      BY <2>1 DEF Batched
    <3>2. n \in Int /\ Head(batch) \in Int
      BY <1>1, <1>2
    <3>3. QED BY <1>1, <1>2, <1>3, <3>1, <3>2
  <2>3. n \in Posted \cup Range(batch)
    BY <2>2 DEF IngressInv, Posting, Posted
  <2>4. ASSUME NEW k \in DOMAIN batch, batch[k] = n PROVE FALSE
    <3>1. k = 1 \/ 1 < k
      BY <1>2
    <3>2. 1 < k => batch[1] < batch[k]
      BY <2>1 DEF Batched
    <3>3. n \in Int /\ Head(batch) \in Int
      BY <1>1, <1>2
    <3>4. QED BY <1>2, <1>3, <2>4, <3>1, <3>2, <3>3
  <2>5. QED BY <2>3, <2>4 DEF Range
<1>4. QED BY <1>2, <1>3 DEF Cleared

\* What the ingress finds in the session is there, and the session is read as a whole while
\* it is not longer than the window.
LEMMA IngestedIsPosted ==
  ASSUME IngressTypeOK, NEW m \in Mapped
  PROVE  /\ Ingested(m) => m \in Posted
         /\ Len(session) <= Window /\ m \in Posted => Ingested(m)
<1> DEFINE n == IF Len(session) < Window THEN Len(session) ELSE Window
           s == SubSeq(session, 1, n)
<1>1. session \in Seq(Mapped \cup {Other}) /\ Window \in Nat \ {0}
  BY SlackIngressAssumption DEF IngressTypeOK
<1>2. Len(session) \in Nat /\ n \in Nat /\ n <= Len(session) /\ DOMAIN session = 1..Len(session)
  BY <1>1
<1>3. Len(session) <= Window => n = Len(session)
  <2>1. \A a, b \in Nat : a <= b => (IF a < b THEN a ELSE b) = a
    OBVIOUS
  <2>2. QED BY <1>1, <1>2, <2>1
<1>4. Ingested(m) <=> m \in Range(s)
  BY DEF Ingested
<1> HIDE DEF n
<1>5. s \in Seq(Mapped \cup {Other}) /\ \A i \in 1..Len(s) : s[i] = session[i] /\ i \in 1..Len(session)
  <2>1. \A i \in 1..n : session[i] \in Mapped \cup {Other}
    BY <1>1, <1>2, ElementOfSeq
  <2>2. /\ s \in Seq(Mapped \cup {Other}) /\ Len(s) = IF 1 <= n THEN n - 1 + 1 ELSE 0
        /\ \A i \in 1..n - 1 + 1 : s[i] = session[1 + i - 1]
    BY <1>2, <2>1, SubSeqProperties
  <2> HIDE DEF s
  <2>3. Len(s) = n /\ n - 1 + 1 = n /\ \A i \in 1..n : 1 + i - 1 = i /\ i \in 1..Len(session)
    BY <1>2, <2>2
  <2>4. QED BY <2>2, <2>3
<1>6. Range(s) \subseteq Range(session)
  <2> HIDE DEF s
  <2>1. DOMAIN s = 1..Len(s)
    BY <1>5
  <2>2. QED BY <1>2, <1>5, <2>1 DEF Range
<1>7. Len(session) <= Window => s = session
  BY <1>1, <1>3, SubSeqFull
<1> HIDE DEF s
<1>8. QED BY <1>4, <1>6, <1>7 DEF Posted

\* A session to which only what is cleared is appended stays in order.
LEMMA SessionGrows ==
  ASSUME IngressTypeOK, FirstsInOrder, NEW x \in Mapped \cup {Other}, x \in Mapped => Cleared(x),
         session' = Append(session, x)
  PROVE  /\ session' \in Seq(Mapped \cup {Other}) /\ Len(session') = Len(session) + 1
         /\ Len(session) \in Nat
         /\ Posted' = Posted \cup {x} /\ Posted \subseteq Posted' /\ FirstsInOrder'
         /\ \A m \in Mapped : Twice(m)' => Twice(m) \/ (x = m /\ x \in Posted)
<1> DEFINE S == Mapped \cup {Other}
<1>1. session \in Seq(S)
  BY DEF IngressTypeOK
<1> HIDE DEF S
<1>2. x \in S
  BY DEF S
<1>3. /\ session' \in Seq(S) /\ Len(session') = Len(session) + 1 /\ Len(session) \in Nat
      /\ DOMAIN session = 1..Len(session) /\ DOMAIN session' = 1..(Len(session) + 1)
      /\ \A i \in DOMAIN session : session'[i] = session[i]
      /\ session'[Len(session) + 1] = x
      /\ Range(session') = Range(session) \cup {x}
  <2>1. session' = Append(session, x)
    OBVIOUS
  <2>2. QED BY ONLY <1>1, <1>2, <2>1, Appended
<1>4. \A j \in DOMAIN session' : j \in DOMAIN session \/ j = Len(session) + 1
  BY <1>3
<1>5. DOMAIN session \subseteq DOMAIN session' /\ \A i \in DOMAIN session : i < Len(session) + 1
  BY <1>3
<1>6. ASSUME NEW m \in Mapped, NEW n \in Mapped, m < n, n \in Range(session')
      PROVE  \E i \in DOMAIN session' :
               session'[i] = m /\ \A j \in DOMAIN session' : session'[j] = n => i < j
  <2>1. CASE n \in Range(session)
    <3>1. PICK i \in DOMAIN session :
            session[i] = m /\ \A j \in DOMAIN session : session[j] = n => i < j
      BY <1>6, <2>1 DEF FirstsInOrder
    <3>2. ASSUME NEW j \in DOMAIN session', session'[j] = n PROVE i < j
      BY <1>3, <1>4, <1>5, <3>1, <3>2
    <3>3. i \in DOMAIN session' /\ session'[i] = m
      BY <1>3, <1>5, <3>1
    <3>4. QED BY <3>2, <3>3
  <2>2. CASE n \notin Range(session)
    <3>1. n = x
      BY <1>3, <1>6, <2>2
    <3>2. m \in Range(session)
      BY <1>6, <3>1 DEF Cleared, Posted
    <3>3. PICK i \in DOMAIN session : session[i] = m
      BY <3>2 DEF Range
    <3>4. ASSUME NEW j \in DOMAIN session', session'[j] = n PROVE i < j
      <4>1. j \notin DOMAIN session
        BY <1>3, <2>2, <3>4 DEF Range
      <4>2. QED BY <1>4, <1>5, <4>1
    <3>5. i \in DOMAIN session' /\ session'[i] = m
      BY <1>3, <1>5, <3>3
    <3>6. QED BY <3>4, <3>5
  <2>3. QED BY <2>1, <2>2
<1>7. ASSUME NEW m \in Mapped, Twice(m)' PROVE Twice(m) \/ (x = m /\ x \in Posted)
  <2>1. PICK i \in DOMAIN session', j \in DOMAIN session' : i # j /\ session'[i] = m /\ session'[j] = m
    BY <1>7 DEF Twice
  <2>2. CASE i \in DOMAIN session /\ j \in DOMAIN session
    BY <1>3, <2>1, <2>2 DEF Twice
  <2>3. CASE i = Len(session) + 1 /\ j \in DOMAIN session
    BY <1>3, <2>1, <2>3 DEF Posted, Range
  <2>4. CASE j = Len(session) + 1 /\ i \in DOMAIN session
    BY <1>3, <2>1, <2>4 DEF Posted, Range
  <2>5. QED BY <1>4, <2>1, <2>2, <2>3, <2>4
<1>8. FirstsInOrder'
  BY <1>6 DEF FirstsInOrder
<1>9. QED BY <1>3, <1>7, <1>8 DEF S, Posted

\* What was said of the session stays true when it grows, and of an unchanged one.
LEMMA ClearedStays ==
  ASSUME Posted \subseteq Posted', NEW m, Cleared(m)
  PROVE  Cleared(m)'
BY DEF Cleared

LEMMA SessionStays ==
  ASSUME IngressIInv, session' = session, lapses' \in Nat, lapses' >= lapses
  PROVE  Posted' = Posted /\ FirstsInOrder' /\ DuplicatesExplained'
<1>1. lapses \in Nat
  BY DEF IngressIInv, IngressInv, IngressTypeOK
<1>2. Posted' = Posted /\ FirstsInOrder'
  BY DEF Posted, IngressIInv, FirstsInOrder
<1>3. DuplicatesExplained'
  BY <1>1 DEF IngressIInv, DuplicatesExplained, Twice
<1>4. QED BY <1>2, <1>3


\* It holds in the initial state.
LEMMA IngressStarts == IngressInit => IngressIInv
<1> SUFFICES ASSUME IngressInit PROVE IngressIInv
  OBVIOUS
<1>1. /\ session = <<>> /\ batch = <<>> /\ stage = "down" /\ mine = "none"
      /\ channel = 0 /\ saved = 0 /\ newest = 0 /\ lapses = 0 /\ stale = [m \in Mapped |-> 0]
  BY DEF IngressInit
<1>2. LastTs \in Nat /\ Mapped \subseteq 1..LastTs
  BY SlackIngressAssumption
<1>3. IngressTypeOK
  BY <1>1, <1>2, EmptySeq DEF IngressTypeOK
<1>4. \A m \in Mapped : ~(m <= 0)
  BY <1>2
<1>5. IngressInv
  BY <1>1, <1>3, <1>4 DEF IngressInv, NeverSkipped
<1>6. Range(session) = {} /\ DOMAIN session = {} /\ DOMAIN batch = {}
  BY <1>1, RangeEmpty
<1>7. Batched /\ Behind /\ Answers
  BY <1>1, <1>6 DEF Batched, Behind, Answers
<1>8. FirstsInOrder /\ DuplicatesExplained
  BY <1>6 DEF FirstsInOrder, DuplicatesExplained, Twice
<1>9. QED BY <1>5, <1>7, <1>8 DEF IngressIInv

\* It is about the state only.
LEMMA IngressStutters == IngressIInv /\ UNCHANGED ingressVars => IngressIInv'
<1> SUFFICES ASSUME IngressIInv, UNCHANGED ingressVars PROVE IngressIInv'
  OBVIOUS
<1>1. UNCHANGED <<channel, saved, session, stage, batch, newest, mine, stale, lapses>>
  BY DEF ingressVars, processVars
<1>2. IngressInv' /\ Batched'
  BY <1>1 DEF IngressIInv, IngressInv, IngressTypeOK, NeverSkipped, Batched
<1>3. Behind' /\ Answers'
  BY <1>1 DEF IngressIInv, Behind, Cleared, Posted, Answers
<1>4. FirstsInOrder' /\ DuplicatesExplained'
  BY <1>1 DEF IngressIInv, FirstsInOrder, DuplicatesExplained, Twice
<1>5. QED BY <1>2, <1>3, <1>4 DEF IngressIInv

\* The process ends: what was given up, and nothing else, remembers what it was at.
LEMMA DownKeeps ==
  ASSUME IngressIInv, Down, UNCHANGED <<channel, saved, session>>, mine' = "none",
         lapses' \in Nat, lapses' >= lapses, stale' \in [Mapped -> Nat],
         \A m \in Mapped : stale'[m] > 0 => Cleared(m) /\ lapses' > 0
  PROVE  IngressIInv'
<1>1. stage' = "down" /\ batch' = <<>> /\ newest' = 0
  BY DEF Down
<1>2. IngressTypeOK'
  BY <1>1, SlackIngressAssumption, EmptySeq DEF IngressIInv, IngressInv, IngressTypeOK
<1>3. IngressInv'
  BY <1>1, <1>2 DEF IngressIInv, IngressInv, IngressTypeOK, NeverSkipped
<1>4. Posted' = Posted /\ FirstsInOrder' /\ DuplicatesExplained'
  BY SessionStays
<1>5. Batched'
  BY <1>1, RangeEmpty DEF Batched
<1>6. Behind'
  BY <1>4 DEF Behind, Cleared
<1>7. Answers'
  BY DEF Answers
<1>8. QED BY <1>3, <1>4, <1>5, <1>6, <1>7 DEF IngressIInv

LEMMA RestartKeeps == IngressIInv /\ Restart => IngressIInv'
<1> SUFFICES ASSUME IngressIInv, Restart PROVE IngressIInv'
  OBVIOUS
<1>1. /\ stage = "down" /\ stage' = "poll" /\ mine = "none"
      /\ UNCHANGED <<channel, saved, session, batch, newest, mine, stale, lapses>>
  BY DEF Restart, IngressIInv, IngressInv
<1>2. IngressInv'
  BY <1>1 DEF IngressIInv, IngressInv, IngressTypeOK, NeverSkipped
<1>3. lapses' \in Nat /\ lapses' >= lapses
  BY <1>1 DEF IngressIInv, IngressInv, IngressTypeOK
<1>4. Posted' = Posted /\ FirstsInOrder' /\ DuplicatesExplained'
  BY <1>1, <1>3, SessionStays
<1>5. Batched' /\ Behind' /\ Answers'
  BY <1>1, <1>4 DEF IngressIInv, Batched, Behind, Cleared, Answers
<1>6. QED BY <1>2, <1>4, <1>5 DEF IngressIInv

\* What is fetched and what the state file has passed are together everything up to the
\* newest message.
LEMMA FetchKeeps == IngressIInv /\ Fetch => IngressIInv'
<1> SUFFICES ASSUME IngressIInv, Fetch PROVE IngressIInv'
  OBVIOUS
<1> DEFINE M == {m \in Mapped : saved < m /\ m <= channel}
<1>1. /\ stage = "poll" /\ stage' = "ingest" /\ newest' = channel /\ batch' = OldestFirst(M)
      /\ UNCHANGED <<channel, saved, session, mine, stale, lapses>>
  BY DEF Fetch
<1>2. /\ IngressTypeOK /\ NeverSkipped /\ mine = "none" /\ saved <= channel
      /\ channel \in Int /\ saved \in Int /\ lapses \in Nat
  BY <1>1, SlackIngressAssumption DEF IngressIInv, IngressInv, IngressTypeOK
<1>3. LastTs \in Nat /\ Mapped \subseteq Int /\ M \in SUBSET (1..LastTs) /\ M \subseteq Mapped
  <2>1. LastTs \in Nat /\ Mapped \subseteq 1..LastTs
    BY SlackIngressAssumption
  <2>2. \A m \in 1..LastTs : m \in Int
    BY <2>1
  <2>3. QED BY <2>1, <2>2
<1>4. OldestFirst(M) \in Seq(M) /\ Sorts(OldestFirst(M), M)
  BY <1>3, OldestFirstSorts
<1>5. /\ batch' \in Seq(Mapped) /\ Range(batch') = M
      /\ \A i, j \in DOMAIN batch' : i < j => batch'[i] < batch'[j]
  <2> HIDE DEF M
  <2>1. batch' \in Seq(M) /\ Sorts(batch', M)
    BY <1>1, <1>4
  <2>2. QED BY <1>3, <2>1, SeqMonotonic DEF Sorts
<1>6. IngressTypeOK'
  BY <1>1, <1>2, <1>5 DEF IngressTypeOK
<1>7. ASSUME NEW m \in Mapped, m <= channel PROVE m \in Range(session) \cup Range(batch')
  <2>1. m <= saved \/ saved < m
    BY <1>2, <1>3
  <2>2. QED BY <1>2, <1>5, <1>7, <2>1 DEF NeverSkipped
<1>8. IngressInv'
  BY <1>1, <1>2, <1>6, <1>7 DEF IngressInv, NeverSkipped
<1>9. Posted' = Posted /\ FirstsInOrder' /\ DuplicatesExplained'
  BY <1>1, <1>2, SessionStays
<1>10. Batched'
  <2>1. \A i \in DOMAIN batch' : batch'[i] \in M
    BY <1>5 DEF Range
  <2>2. QED BY <1>1, <1>5, <2>1 DEF Batched
<1>11. Behind' /\ Answers'
  BY <1>1, <1>2, <1>9 DEF IngressIInv, Behind, Cleared, Answers
<1>12. QED BY <1>8, <1>9, <1>10, <1>11 DEF IngressIInv

\* The first of the batch leaves it when it is in the session.
LEMMA HandledKeeps ==
  ASSUME IngressIInv, Posting, batch # <<>>, Head(batch) \in Posted, batch' = Tail(batch),
         stage' = "ingest", mine' = "none", UNCHANGED <<channel, saved, session, newest, stale, lapses>>
  PROVE  IngressIInv'
<1>1. /\ IngressInv /\ Batched /\ IngressTypeOK /\ lapses \in Nat
  BY DEF IngressIInv, IngressInv, IngressTypeOK
<1>2. /\ Tail(batch) \in Seq(Mapped) /\ Range(batch) = Range(Tail(batch)) \cup {Head(batch)}
      /\ DOMAIN batch = 1..(Len(Tail(batch)) + 1) /\ DOMAIN Tail(batch) = 1..Len(Tail(batch))
      /\ Len(Tail(batch)) \in Nat
      /\ \A i \in DOMAIN Tail(batch) : Tail(batch)[i] = batch[i + 1]
  BY <1>1, HeadIsCleared
<1>3. IngressTypeOK'
  BY <1>1, <1>2 DEF IngressTypeOK
<1>4. \A m \in Mapped : m <= newest => m \in Range(session) \cup Range(Tail(batch))
  BY <1>1, <1>2 DEF IngressInv, Posting, Posted
<1>5. IngressInv'
  BY <1>1, <1>3, <1>4 DEF IngressInv, NeverSkipped
<1>6. Posted' = Posted /\ FirstsInOrder' /\ DuplicatesExplained'
  BY <1>1, SessionStays
<1>7. Batched'
  <2>1. \A i, j \in 1..Len(Tail(batch)) :
          /\ i + 1 \in DOMAIN batch /\ j + 1 \in DOMAIN batch /\ (i < j => i + 1 < j + 1)
    BY <1>2
  <2>2. QED BY <1>1, <1>2, <2>1 DEF Batched
<1>8. Behind' /\ Answers'
  BY <1>6 DEF IngressIInv, Behind, Cleared, Answers
<1>9. QED BY <1>5, <1>6, <1>7, <1>8 DEF IngressIInv

\* A message that is posted was not found in what was read of the session.
LEMMA IngestKeeps == IngressIInv /\ Ingest => IngressIInv'
<1> SUFFICES ASSUME IngressIInv, Ingest PROVE IngressIInv'
  OBVIOUS
<1>1. /\ stage = "ingest" /\ batch # <<>> /\ Posting /\ mine = "none"
      /\ UNCHANGED <<channel, saved, session, newest, stale, lapses>>
      /\ IngressInv /\ IngressTypeOK /\ Batched /\ lapses \in Nat
  BY DEF Ingest, Posting, IngressIInv, IngressInv, IngressTypeOK
<1>2. Head(batch) \in Mapped
  BY <1>1, HeadIsCleared
<1>3. /\ Ingested(Head(batch)) => Head(batch) \in Posted
      /\ Len(session) <= Window /\ Head(batch) \in Posted => Ingested(Head(batch))
  BY <1>1, <1>2, IngestedIsPosted
<1>4. CASE Ingested(Head(batch))
  <2>1. batch' = Tail(batch) /\ stage' = "ingest" /\ mine' = "none"
    BY <1>1, <1>4 DEF Ingest
  <2>2. QED BY <1>1, <1>3, <1>4, <2>1, HandledKeeps
<1>5. CASE ~Ingested(Head(batch))
  <2>1. stage' = "post" /\ mine' = "pending" /\ batch' = batch
    BY <1>5 DEF Ingest
  <2>2. IngressInv'
    BY <1>1, <2>1 DEF IngressInv, IngressTypeOK, NeverSkipped
  <2>3. Posted' = Posted /\ FirstsInOrder' /\ DuplicatesExplained'
    BY <1>1, SessionStays
  <2>4. Batched' /\ Behind'
    BY <1>1, <2>1, <2>3 DEF IngressIInv, Batched, Behind, Cleared
  <2>5. Answers'
    BY <1>1, <1>3, <1>5, <2>1, <2>3 DEF Answers
  <2>6. QED BY <2>2, <2>3, <2>4, <2>5 DEF IngressIInv
<1>6. QED BY <1>4, <1>5

LEMMA AnsweredKeeps == IngressIInv /\ Answered => IngressIInv'
<1> SUFFICES ASSUME IngressIInv, Answered PROVE IngressIInv'
  OBVIOUS
<1>1. /\ stage = "post" /\ mine' = "none" /\ batch # <<>> /\ Posting
      /\ UNCHANGED <<channel, saved, session, stale, lapses>>
  BY DEF Answered, Posting, IngressIInv, Batched
<1>2. CASE mine = "ok"
  <2>1. stage' = "ingest" /\ batch' = Tail(batch) /\ UNCHANGED newest /\ Head(batch) \in Posted
    BY <1>2 DEF Answered, IngressIInv, Answers
  <2>2. QED BY <1>1, <2>1, HandledKeeps
<1>3. CASE mine # "ok"
  <2>1. Down
    BY <1>3 DEF Answered
  <2>2. /\ lapses' \in Nat /\ lapses' >= lapses /\ stale' \in [Mapped -> Nat]
        /\ \A m \in Mapped : stale'[m] > 0 => Cleared(m) /\ lapses' > 0
    BY <1>1 DEF IngressIInv, IngressInv, IngressTypeOK, Behind
  <2>3. QED BY <1>1, <2>1, <2>2, DownKeeps
<1>4. QED BY <1>2, <1>3

\* What is given up was the first of the batch.
LEMMA GiveUpKeeps == IngressIInv /\ GiveUp => IngressIInv'
<1> SUFFICES ASSUME IngressIInv, GiveUp PROVE IngressIInv'
  OBVIOUS
<1>1. /\ stage = "post" /\ mine' = "none" /\ batch # <<>> /\ Posting /\ Down
      /\ UNCHANGED <<channel, saved, session>> /\ lapses' = lapses + 1
  BY DEF GiveUp, Posting, IngressIInv, Batched
<1>2. /\ lapses \in Nat /\ stale \in [Mapped -> Nat] /\ IngressInv /\ Batched
  BY DEF IngressIInv, IngressInv, IngressTypeOK
<1>3. Head(batch) \in Mapped /\ Cleared(Head(batch))
  BY <1>1, <1>2, HeadIsCleared
<1>4. stale' = stale \/ stale' = [stale EXCEPT ![Head(batch)] = @ + 1]
  BY DEF GiveUp
<1>5. /\ stale' \in [Mapped -> Nat]
      /\ \A m \in Mapped : stale'[m] = stale[m] \/ m = Head(batch)
  BY <1>2, <1>3, <1>4
<1>6. lapses' \in Nat /\ lapses' >= lapses /\ lapses' > 0
  BY <1>1, <1>2
<1>7. \A m \in Mapped : stale'[m] > 0 => Cleared(m) /\ lapses' > 0
  BY <1>3, <1>5, <1>6 DEF IngressIInv, Behind
<1>8. QED BY <1>1, <1>5, <1>6, <1>7, DownKeeps

\* With an empty batch, everything up to the newest message is in the session.
LEMMA SaveStateKeeps == IngressIInv /\ SaveState => IngressIInv'
<1> SUFFICES ASSUME IngressIInv, SaveState PROVE IngressIInv'
  OBVIOUS
<1>1. /\ stage = "ingest" /\ batch = <<>> /\ stage' = "poll" /\ newest' = 0 /\ batch' = <<>>
      /\ mine = "none" /\ UNCHANGED <<channel, session, mine, stale, lapses>>
      /\ saved' = saved \/ saved' = newest
  BY DEF SaveState, IngressIInv, IngressInv
<1>2. IngressTypeOK /\ lapses \in Nat /\ newest <= channel /\ saved <= channel /\ 0 <= channel
  BY SlackIngressAssumption DEF IngressIInv, IngressInv, IngressTypeOK
<1>3. IngressTypeOK'
  BY <1>1, <1>2, SlackIngressAssumption DEF IngressTypeOK
<1>4. NeverSkipped'
  <2>1. \A m \in Mapped : m <= newest => m \in Range(session)
    BY <1>1, RangeEmpty DEF IngressIInv, IngressInv
  <2>2. QED BY <1>1, <2>1 DEF IngressIInv, IngressInv, NeverSkipped
<1>5. IngressInv'
  BY <1>1, <1>2, <1>3, <1>4 DEF IngressInv
<1>6. Posted' = Posted /\ FirstsInOrder' /\ DuplicatesExplained'
  BY <1>1, <1>2, SessionStays
<1>7. Batched'
  BY <1>1, RangeEmpty DEF Batched
<1>8. Behind' /\ Answers'
  BY <1>1, <1>6 DEF IngressIInv, Behind, Cleared, Answers
<1>9. QED BY <1>5, <1>6, <1>7, <1>8 DEF IngressIInv

LEMMA FailKeeps == IngressIInv /\ Fail => IngressIInv'
<1> SUFFICES ASSUME IngressIInv, Fail PROVE IngressIInv'
  OBVIOUS
<1>1. /\ stage \in {"poll", "ingest"} /\ Down
      /\ UNCHANGED <<channel, saved, session, mine, stale, lapses>>
  BY DEF Fail
<1>2. /\ lapses' \in Nat /\ lapses' >= lapses /\ stale' \in [Mapped -> Nat] /\ mine' = "none"
      /\ \A m \in Mapped : stale'[m] > 0 => Cleared(m) /\ lapses' > 0
  BY <1>1 DEF IngressIInv, IngressInv, IngressTypeOK, Behind
<1>3. QED BY <1>1, <1>2, DownKeeps

\* The session grows by what is cleared, while the process stays where it is.
LEMMA GrowthKeeps ==
  ASSUME IngressIInv, NEW x \in Mapped \cup {Other}, x \in Mapped => Cleared(x),
         session' = Append(session, x), UNCHANGED <<channel, saved, stage, batch, newest, lapses>>,
         stale' \in [Mapped -> Nat], \A m \in Mapped : stale'[m] > 0 => stale[m] > 0,
         mine' \in {"none", "pending", "ok", "error"}, mine = "none" <=> mine' = "none",
         lapses = 0 /\ Len(session) <= Window /\ x \in Mapped => x \notin Posted,
         Answers'
  PROVE  IngressIInv'
<1>1. IngressTypeOK /\ IngressInv /\ FirstsInOrder
  BY DEF IngressIInv, IngressInv
<1>2. /\ session' \in Seq(Mapped \cup {Other}) /\ Len(session') = Len(session) + 1
      /\ Len(session) \in Nat
      /\ Posted' = Posted \cup {x} /\ Posted \subseteq Posted' /\ FirstsInOrder'
      /\ \A m \in Mapped : Twice(m)' => Twice(m) \/ (x = m /\ x \in Posted)
  BY <1>1, SessionGrows
<1>3. IngressTypeOK'
  BY <1>1, <1>2 DEF IngressTypeOK
<1>4. IngressInv'
  BY <1>1, <1>2, <1>3 DEF IngressInv, NeverSkipped, Posted
<1>5. Batched' /\ Behind'
  BY <1>2 DEF IngressIInv, Batched, Behind, Cleared
<1>6. DuplicatesExplained'
  <2>1. lapses \in Nat /\ Window \in Nat
    BY <1>1, SlackIngressAssumption DEF IngressTypeOK
  <2>2. SUFFICES ASSUME NEW m \in Mapped, Twice(m)', lapses = 0 PROVE Len(session) + 1 > Window
    BY <1>2, <2>1 DEF DuplicatesExplained
  <2>3. Len(session) > Window
    <3>1. CASE Twice(m)
      BY <2>1, <2>2, <3>1 DEF IngressIInv, DuplicatesExplained
    <3>2. CASE x = m /\ x \in Posted
      BY <1>2, <2>1, <2>2, <3>2
    <3>3. QED BY <1>2, <2>2, <3>1, <3>2
  <2>4. QED BY <1>2, <2>1, <2>3
<1>7. QED BY <1>2, <1>4, <1>5, <1>6 DEF IngressIInv

\* The broker answers the post that the process waits for: what it appends is the first of the
\* batch, which was not in a session that could be read as a whole.
LEMMA ServeKeeps == IngressIInv /\ Serve => IngressIInv'
<1> SUFFICES ASSUME IngressIInv, Serve PROVE IngressIInv'
  OBVIOUS
<1>1. /\ mine = "pending" /\ stage = "post" /\ batch # <<>> /\ Posting
      /\ UNCHANGED <<channel, saved, stage, batch, newest, stale, lapses>>
      /\ IngressInv /\ Batched /\ stale \in [Mapped -> Nat] /\ lapses \in Nat
  BY DEF Serve, processVars, IngressIInv, IngressInv, IngressTypeOK, Batched, Posting
<1>2. Head(batch) \in Mapped /\ Cleared(Head(batch))
  BY <1>1, HeadIsCleared
<1>3. CASE mine' = "ok" /\ session' = Append(session, Head(batch))
  <2>1. IngressTypeOK /\ FirstsInOrder
    BY DEF IngressIInv, IngressInv
  <2>2. Posted' = Posted \cup {Head(batch)}
    BY <1>2, <1>3, <2>1, SessionGrows
  <2>3. Answers'
    BY <1>1, <1>3, <2>2 DEF Answers
  <2>4. lapses = 0 /\ Len(session) <= Window => Head(batch) \notin Posted
    BY <1>1 DEF IngressIInv, Answers
  <2>5. QED BY <1>1, <1>2, <1>3, <2>3, <2>4, GrowthKeeps
<1>4. CASE mine' = "error" /\ session' = session
  <2>1. IngressInv'
    BY <1>1, <1>4 DEF IngressInv, IngressTypeOK, NeverSkipped
  <2>2. Posted' = Posted /\ FirstsInOrder' /\ DuplicatesExplained'
    BY <1>1, <1>4, SessionStays
  <2>3. Batched' /\ Behind' /\ Answers'
    BY <1>1, <1>4, <2>2 DEF IngressIInv, Batched, Behind, Cleared, Answers
  <2>4. QED BY <2>1, <2>2, <2>3 DEF IngressIInv
<1>5. QED BY <1>3, <1>4 DEF Serve

LEMMA ServeStaleKeeps == IngressIInv /\ ServeStale => IngressIInv'
<1> SUFFICES ASSUME IngressIInv, ServeStale PROVE IngressIInv'
  OBVIOUS
<1>1. PICK m \in Mapped :
        /\ stale[m] > 0 /\ stale' = [stale EXCEPT ![m] = @ - 1]
        /\ session' = Append(session, m) \/ session' = session
        /\ UNCHANGED <<channel, saved, stage, batch, newest, mine, lapses>>
  BY DEF ServeStale, processVars
<1>2. /\ IngressInv /\ Batched /\ stale \in [Mapped -> Nat] /\ lapses \in Nat
      /\ IngressTypeOK /\ FirstsInOrder /\ Cleared(m) /\ lapses > 0
  BY <1>1 DEF IngressIInv, IngressInv, IngressTypeOK, Behind
<1>3. /\ stale' \in [Mapped -> Nat] /\ \A n \in Mapped : stale'[n] > 0 => stale[n] > 0
  BY <1>1, <1>2
<1>4. CASE session' = Append(session, m)
  <2>1. Posted \subseteq Posted'
    BY <1>2, <1>4, SessionGrows
  <2>2. Answers'
    BY <1>1, <1>2, <2>1 DEF IngressIInv, Answers
  <2>3. mine' \in {"none", "pending", "ok", "error"}
    BY <1>1, <1>2 DEF IngressTypeOK
  <2>4. ~(lapses = 0)
    BY <1>2
  <2>5. QED BY <1>1, <1>2, <1>3, <1>4, <2>2, <2>3, <2>4, GrowthKeeps
<1>5. CASE session' = session
  <2>1. IngressInv'
    BY <1>1, <1>2, <1>3, <1>5 DEF IngressInv, IngressTypeOK, NeverSkipped
  <2>2. Posted' = Posted /\ FirstsInOrder' /\ DuplicatesExplained'
    BY <1>1, <1>2, <1>5, SessionStays
  <2>3. Batched' /\ Behind' /\ Answers'
    BY <1>1, <1>3, <1>5, <2>2 DEF IngressIInv, Batched, Behind, Cleared, Answers
  <2>4. QED BY <2>1, <2>2, <2>3 DEF IngressIInv
<1>6. QED BY <1>1, <1>4, <1>5

LEMMA WriteKeeps == IngressIInv /\ Write => IngressIInv'
<1> SUFFICES ASSUME IngressIInv, Write PROVE IngressIInv'
  OBVIOUS
<1>1. /\ channel < LastTs /\ channel' = channel + 1
      /\ UNCHANGED <<saved, session, stage, batch, newest, mine, stale, lapses>>
      /\ IngressTypeOK /\ lapses \in Nat
  BY DEF Write, processVars, IngressIInv, IngressInv, IngressTypeOK
<1>2. /\ channel' \in 0..LastTs /\ newest <= channel' /\ saved <= channel'
  BY <1>1, SlackIngressAssumption DEF IngressIInv, IngressInv, IngressTypeOK
<1>3. IngressInv'
  BY <1>1, <1>2 DEF IngressIInv, IngressInv, IngressTypeOK, NeverSkipped
<1>4. Posted' = Posted /\ FirstsInOrder' /\ DuplicatesExplained'
  BY <1>1, SessionStays
<1>5. Batched' /\ Behind' /\ Answers'
  BY <1>1, <1>4 DEF IngressIInv, Batched, Behind, Cleared, Answers
<1>6. QED BY <1>3, <1>4, <1>5 DEF IngressIInv

LEMMA PostKeeps == IngressIInv /\ Post => IngressIInv'
<1> SUFFICES ASSUME IngressIInv, Post PROVE IngressIInv'
  OBVIOUS
<1>1. /\ session' = Append(session, Other)
      /\ UNCHANGED <<channel, saved, stage, batch, newest, mine, stale, lapses>>
      /\ IngressTypeOK /\ FirstsInOrder /\ IngressInv /\ Batched
  BY DEF Post, processVars, IngressIInv, IngressInv
<1>2. Other \in Mapped \cup {Other} /\ Other \notin Mapped /\ Window \in Nat
  BY SlackIngressAssumption
<1>3. Posted' = Posted \cup {Other} /\ Len(session') = Len(session) + 1 /\ Len(session) \in Nat
  BY <1>1, <1>2, SessionGrows
<1>4. Answers'
  <2>1. mine # "none" => Head(batch) \in Mapped
    <3>1. mine # "none" => Posting /\ batch # <<>>
      BY <1>1 DEF IngressInv, Batched, Posting
    <3>2. QED BY <1>1, <3>1, HeadIsCleared
  <2>2. Len(session) + 1 <= Window => Len(session) <= Window
    BY <1>2, <1>3
  <2>3. QED BY <1>1, <1>2, <1>3, <2>1, <2>2 DEF IngressIInv, Answers
<1>5. /\ stale' \in [Mapped -> Nat] /\ mine' \in {"none", "pending", "ok", "error"}
      /\ \A m \in Mapped : stale'[m] > 0 => stale[m] > 0
  BY <1>1 DEF IngressTypeOK
<1>6. QED BY <1>1, <1>2, <1>4, <1>5, GrowthKeeps

LEMMA IngressKeeps == IngressIInv /\ [IngressNext]_ingressVars => IngressIInv'
BY IngressStutters, RestartKeeps, FetchKeeps, IngestKeeps, AnsweredKeeps, GiveUpKeeps,
   SaveStateKeeps, FailKeeps, ServeKeeps, ServeStaleKeeps, WriteKeeps, PostKeeps
   DEF IngressNext, Process

\* No message of a mapped user is lost: what the state file has passed is in the session, and
\* what the process has fetched is there or still before it, whatever fails, restarts or times
\* out, for every set of messages and every window (the loop and the state file of
\* slack_ingress).
THEOREM IngressLosesNothing == IngressSpec => []IngressInv
<1>1. IngressIInv => IngressInv
  BY DEF IngressIInv
<1>2. QED BY <1>1, IngressStarts, IngressKeeps, PTL DEF IngressSpec

\* A message enters the session before the later ones, and twice only if a post was given up
\* or the session has outgrown what _already_ingested reads.
THEOREM IngressIsFaithful == IngressSpec => []SessionIsFaithful
<1>1. IngressIInv => SessionIsFaithful
  BY DEF IngressIInv, SessionIsFaithful
<1>2. QED BY <1>1, IngressStarts, IngressKeeps, PTL DEF IngressSpec

-----------------------------------------------------------------------------
\* The broker.

\* The wake requests that were accepted are those handed to a sink, about to be, or queued.
Sending == {hand[t] : t \in {u \in Threads : tpc[u] = "send"}}
Queued == Range(queue) \ {Stop}
Places == accepted = Range(attempts) \cup Sending \cup Queued

\* v is not before w if both are for one participant.
Before(v, w) == v.target = w.target => v.sequence < w.sequence

\* Along the way of a wake request, from the queue through the hand of the thread, the order
\* is the order of the log.
QueueOrdered ==
  \A i, j \in DOMAIN queue : i < j /\ queue[i] # Stop /\ queue[j] # Stop => Before(queue[i], queue[j])
HandOrdered ==
  \A t \in Threads : tpc[t] = "send" =>
    /\ hand[t] # Stop
    /\ \A w \in Queued : Before(hand[t], w)
    /\ \A v \in Range(attempts) : Before(v, hand[t])
AttemptsOrdered == \A v \in Range(attempts), w \in Queued : Before(v, w)

\* What the handler still submits is about the event it has just appended.
TodoLatest ==
  \A r \in Requests : \A w \in todo[r] :
    pc[r] = "submit" /\ w.sequence = Len(log) /\ Locates(w) /\ \A v \in accepted : Before(v, w)

BrokerIInv == Inv /\ Places /\ QueueOrdered /\ HandOrdered /\ AttemptsOrdered /\ TodoLatest

Waiting == {"send", "done", "last"}

\* The sentinel is no wake request, and a wake request is its target and its sequence.
LEMMA WakeFields ==
  /\ Stop \notin Wake
  /\ \A v, w \in Wake : v.target = w.target /\ v.sequence = w.sequence => v = w
  /\ \A w \in Wake : w.sequence \in Nat
<1>1. ASSUME Stop \in Wake PROVE FALSE
  <2>1. DOMAIN Stop = {"target", "sequence"}
    BY <1>1 DEF Wake
  <2>2. DOMAIN Stop = {"stop"}
    BY DEF Stop
  <2>3. "stop" # "target"
    OBVIOUS
  <2>4. QED BY <2>1, <2>2, <2>3
<1>2. QED BY <1>1 DEF Wake

\* The targets of an event are participants with a sink.
LEMMA TargetsAreActors == \A e : Targets(e) \subseteq Actors
BY RoomBrokerAssumption DEF Targets

\* At most one task is in hand.
LEMMA HandCount == BrokerIInv => Cardinality(InHand) \in 0..1
<1> SUFFICES ASSUME BrokerIInv PROVE Cardinality(InHand) \in 0..1
  OBVIOUS
<1>1. \A u \in Threads : tpc[u] \in Waiting => u = thread
  BY DEF BrokerIInv, Inv, Alive, Waiting
<1>2. InHand = {u \in Threads : tpc[u] \in Waiting}
  BY DEF InHand, Waiting
<1>3. InHand = {} \/ InHand = {thread}
  BY <1>1, <1>2
<1>4. Cardinality({thread}) = 1
  BY FS_Singleton
<1>5. Cardinality({}) = 0
  BY FS_EmptySet
<1>6. QED BY <1>3, <1>4, <1>5

\* The parts of the invariant that the dispatcher's thread and the owner do not touch.
LEMMA LedgerSame ==
  ASSUME BrokerIInv, UNCHANGED <<log, lock, pc, todo, accepted>>
  PROVE  /\ \A r \in Requests : pc'[r] = "submit" <=> lock' = r
         /\ \A w \in accepted' : Locates(w)'
         /\ TodoLatest'
<1>1. \A w : Locates(w)' <=> Locates(w)
  BY DEF Locates
<1>2. QED BY <1>1 DEF BrokerIInv, Inv, TodoLatest

\* The parts that the handlers do not touch.
LEMMA ThreadsSame ==
  ASSUME BrokerIInv, UNCHANGED <<tpc, hand, thread, attempts>>
  PROVE  /\ \A t \in Threads : Alive(t)' => t = thread'
         /\ WokenInOrder' /\ InHand' = InHand /\ Sending' = Sending
BY DEF BrokerIInv, Inv, Alive, WokenInOrder, InHand, Sending

\* The parts about a queue and a log that no handler touches.
LEMMA QueueSame ==
  ASSUME BrokerIInv, UNCHANGED <<queue, unfinished, accepted, tpc, hand, thread, attempts>>
  PROVE  /\ Len(queue') <= QueueSize /\ unfinished' = Len(queue') + Cardinality(InHand')
         /\ \A t \in Threads : Alive(t)' => t = thread'
         /\ WokenInOrder' /\ Places' /\ QueueOrdered' /\ HandOrdered' /\ AttemptsOrdered'
<1>1. /\ \A t \in Threads : Alive(t)' => t = thread'
      /\ WokenInOrder' /\ InHand' = InHand /\ Sending' = Sending
  BY ThreadsSame
<1>2. Len(queue') <= QueueSize /\ unfinished' = Len(queue') + Cardinality(InHand')
  BY <1>1 DEF BrokerIInv, Inv
<1>3. Places' /\ QueueOrdered' /\ HandOrdered' /\ AttemptsOrdered'
  BY <1>1 DEF BrokerIInv, Places, Queued, QueueOrdered, HandOrdered, AttemptsOrdered
<1>4. QED BY <1>1, <1>2, <1>3

\* A step of the owner that starts no thread and queues nothing.
LEMMA OwnerSame ==
  ASSUME BrokerIInv, UNCHANGED <<handlerVars, queue, unfinished, threadVars, thread, accepted, attempts>>,
         stopped' \in BOOLEAN,
         runtime' \in {"down", "up", "draining", "drained", "expired", "joining"}
  PROVE  BrokerIInv'
<1>1. UNCHANGED <<log, lock, pc, todo, queue, unfinished, tpc, hand, thread, accepted, attempts>>
  BY DEF handlerVars, threadVars
<1>2. TypeOK'
  BY <1>1 DEF BrokerIInv, Inv, TypeOK
<1>3. Inv'
  BY <1>1, <1>2, LedgerSame, QueueSame DEF Inv
<1>4. QED BY <1>1, <1>3, LedgerSame, QueueSame DEF BrokerIInv

LEMMA BrokerStarts == Init => BrokerIInv
<1> SUFFICES ASSUME Init PROVE BrokerIInv
  OBVIOUS
<1>1. /\ log = <<>> /\ lock = None /\ pc = [r \in Requests |-> "idle"]
      /\ todo = [r \in Requests |-> {}] /\ queue = <<>> /\ unfinished = 0
      /\ stopped = FALSE /\ thread = 0 /\ tpc = [t \in Threads |-> "new"]
      /\ hand = [t \in Threads |-> Stop] /\ runtime = "down" /\ accepted = {} /\ attempts = <<>>
  BY DEF Init
<1>2. TypeOK
  BY <1>1, EmptySeq DEF TypeOK
<1>3. Len(queue) = 0 /\ Range(queue) = {} /\ Range(attempts) = {} /\ DOMAIN queue = {} /\ DOMAIN attempts = {}
  BY <1>1, RangeEmpty
<1>4. InHand = {} /\ Sending = {} /\ \A t \in Threads : ~Alive(t)
  BY <1>1 DEF InHand, Sending, Alive
<1>5. Cardinality(InHand) = 0 /\ QueueSize \in Nat
  BY <1>4, FS_EmptySet, RoomBrokerAssumption
<1>6. \A r \in Requests : pc[r] = "submit" <=> lock = r
  BY <1>1, RoomBrokerAssumption
<1>7. Inv
  BY <1>1, <1>2, <1>3, <1>4, <1>5, <1>6 DEF Inv, WokenInOrder
<1>8. Places /\ QueueOrdered /\ HandOrdered /\ AttemptsOrdered /\ TodoLatest
  BY <1>1, <1>3, <1>4 DEF Places, Queued, QueueOrdered, HandOrdered, AttemptsOrdered, TodoLatest
<1>9. QED BY <1>7, <1>8 DEF BrokerIInv

LEMMA BrokerStutters == BrokerIInv /\ UNCHANGED vars => BrokerIInv'
<1> SUFFICES ASSUME BrokerIInv, UNCHANGED vars PROVE BrokerIInv'
  OBVIOUS
<1>1. UNCHANGED <<handlerVars, queue, unfinished, threadVars, thread, accepted, attempts, stopped, runtime>>
  BY DEF vars, ownerVars
<1>2. /\ stopped' \in BOOLEAN
      /\ runtime' \in {"down", "up", "draining", "drained", "expired", "joining"}
  BY <1>1 DEF BrokerIInv, Inv, TypeOK
<1>3. QED BY <1>1, <1>2, OwnerSame

LEMMA ReceiveKeeps == BrokerIInv /\ (\E r \in Requests : Receive(r)) => BrokerIInv'
<1> SUFFICES ASSUME BrokerIInv, NEW r \in Requests, Receive(r) PROVE BrokerIInv'
  OBVIOUS
<1>1. /\ pc[r] = "idle" /\ pc' = [pc EXCEPT ![r] = "waiting"]
      /\ UNCHANGED <<log, lock, todo, queue, unfinished, tpc, hand, stopped, thread, runtime, accepted, attempts>>
  BY DEF Receive, threadVars, ownerVars
<1>2. TypeOK /\ pc \in [Requests -> {"idle", "waiting", "submit", "done", "failed"}]
  BY DEF BrokerIInv, Inv, TypeOK
<1>3. TypeOK'
  BY <1>1, <1>2 DEF TypeOK
<1>4. \A q \in Requests : pc'[q] = "submit" <=> pc[q] = "submit"
  BY <1>1, <1>2
<1>5. /\ \A q \in Requests : pc'[q] = "submit" <=> lock' = q
      /\ \A w \in accepted' : Locates(w)'
  BY <1>1, <1>4 DEF BrokerIInv, Inv, Locates
<1>6. TodoLatest'
  BY <1>1, <1>4 DEF BrokerIInv, TodoLatest, Locates
<1>7. QED BY <1>1, <1>3, <1>5, <1>6, QueueSame DEF BrokerIInv, Inv

\* The event that is appended is later than everything accepted.
LEMMA AppendEventKeeps == BrokerIInv /\ (\E r \in Requests : AppendEvent(r)) => BrokerIInv'
<1> SUFFICES ASSUME BrokerIInv, NEW r \in Requests, AppendEvent(r) PROVE BrokerIInv'
  OBVIOUS
<1> DEFINE Event == [actor : Actors, target : Actors \cup {Star}, wakes : BOOLEAN]
           e == Draft[r]
<1>1. /\ pc[r] = "waiting" /\ lock = None
      /\ UNCHANGED <<queue, unfinished, tpc, hand, stopped, thread, runtime, accepted, attempts>>
  BY DEF AppendEvent, threadVars, ownerVars
<1>2. /\ TypeOK /\ pc \in [Requests -> {"idle", "waiting", "submit", "done", "failed"}]
      /\ log \in Seq(Event) /\ todo \in [Requests -> SUBSET Wake] /\ accepted \subseteq Wake
      /\ e \in Event
  BY RoomBrokerAssumption DEF BrokerIInv, Inv, TypeOK
<1>3. None \notin Requests /\ \A q \in Requests : pc[q] # "submit" /\ todo[q] = {}
  BY <1>1, RoomBrokerAssumption DEF BrokerIInv, Inv, TodoLatest
<1>4. CASE /\ log' = Append(log, e) /\ lock' = r
           /\ pc' = [pc EXCEPT ![r] = "submit"]
           /\ todo' = [todo EXCEPT ![r] = [target : Targets(e), sequence : {Len(log) + 1}]]
  <2> HIDE DEF Event, e
  <2>1. /\ log' \in Seq(Event) /\ Len(log') = Len(log) + 1 /\ Len(log) \in Nat
        /\ DOMAIN log = 1..Len(log) /\ DOMAIN log' = 1..(Len(log) + 1)
        /\ \A i \in DOMAIN log : log'[i] = log[i]
        /\ log'[Len(log) + 1] = e
    <3>1. log \in Seq(Event) /\ e \in Event
      BY <1>2
    <3>2. /\ Append(log, e) \in Seq(Event) /\ Len(Append(log, e)) = Len(log) + 1 /\ Len(log) \in Nat
          /\ DOMAIN log = 1..Len(log) /\ DOMAIN Append(log, e) = 1..(Len(log) + 1)
          /\ \A i \in DOMAIN log : Append(log, e)[i] = log[i]
          /\ Append(log, e)[Len(log) + 1] = e
      BY ONLY <3>1, Appended
    <3>3. QED BY <1>4, <3>2
  <2>2. /\ \A q \in Requests : pc'[q] = "submit" <=> q = r
        /\ \A q \in Requests : q # r => todo'[q] = {}
        /\ todo'[r] = [target : Targets(e), sequence : {Len(log) + 1}]
    BY <1>2, <1>3, <1>4
  <2>3. \A w \in todo'[r] : w \in Wake /\ w.target \in Targets(e) /\ w.sequence = Len(log) + 1
    BY <2>1, <2>2, TargetsAreActors DEF Wake
  <2>4. todo' \in [Requests -> SUBSET Wake]
    <3>1. \A q \in Requests : todo'[q] \subseteq Wake
      BY <2>2, <2>3
    <3>2. todo' = [q \in Requests |-> todo'[q]]
      BY <1>2, <1>4
    <3>3. QED BY <3>1, <3>2
  <2>5. pc' \in [Requests -> {"idle", "waiting", "submit", "done", "failed"}]
    BY <1>2, <1>4
  <2>6. TypeOK'
    BY <1>1, <1>2, <1>4, <2>1, <2>4, <2>5 DEF TypeOK, Event
  <2>7. ASSUME NEW w \in accepted PROVE Locates(w)' /\ w.sequence < Len(log) + 1
    <3>1. w.sequence \in DOMAIN log /\ w.target \in Targets(log[w.sequence])
      BY <2>7 DEF BrokerIInv, Inv, Locates
    <3>2. w.sequence \in DOMAIN log' /\ w.sequence < Len(log) + 1
      BY <2>1, <3>1
    <3>3. QED BY <2>1, <3>1, <3>2 DEF Locates
  <2>8. \A q \in Requests : pc'[q] = "submit" <=> lock' = q
    BY <1>4, <2>2
  <2>9. TodoLatest'
    <3> SUFFICES ASSUME NEW w \in todo'[r]
                 PROVE  /\ pc'[r] = "submit" /\ w.sequence = Len(log') /\ Locates(w)'
                        /\ \A v \in accepted' : Before(v, w)
      BY <2>2 DEF TodoLatest
    <3>1. w.sequence = Len(log) + 1 /\ w.target \in Targets(e)
      BY <2>3
    <3>2. Len(log) + 1 \in DOMAIN log'
      BY <2>1
    <3>3. Locates(w)'
      BY <2>1, <3>1, <3>2 DEF Locates
    <3>4. \A v \in accepted' : Before(v, w)
      BY <1>1, <2>7, <3>1 DEF Before
    <3>5. QED BY <2>1, <2>2, <3>1, <3>3, <3>4
  <2>10. QED BY <1>1, <2>6, <2>7, <2>8, <2>9, QueueSame DEF BrokerIInv, Inv
<1>5. CASE pc' = [pc EXCEPT ![r] = "failed"] /\ UNCHANGED <<log, lock, todo>>
  <2>1. TypeOK'
    BY <1>1, <1>2, <1>5 DEF TypeOK
  <2>2. \A q \in Requests : pc'[q] = "submit" <=> pc[q] = "submit"
    BY <1>1, <1>2, <1>5
  <2>3. /\ \A q \in Requests : pc'[q] = "submit" <=> lock' = q
        /\ \A w \in accepted' : Locates(w)'
    BY <1>1, <1>5, <2>2 DEF BrokerIInv, Inv, Locates
  <2>4. TodoLatest'
    BY <1>1, <1>3, <1>5 DEF TodoLatest
  <2>5. QED BY <1>1, <2>1, <2>3, <2>4, QueueSame DEF BrokerIInv, Inv
<1>6. QED BY <1>4, <1>5 DEF AppendEvent

\* What is queued comes after all that is accepted, and what is left to submit after it.
LEMMA SubmitKeeps == BrokerIInv /\ (\E r \in Requests : Submit(r)) => BrokerIInv'
<1> SUFFICES ASSUME BrokerIInv, NEW r \in Requests, Submit(r) PROVE BrokerIInv'
  OBVIOUS
<1>1. PICK w \in todo[r] :
        /\ todo' = [todo EXCEPT ![r] = @ \ {w}]
        /\ \/ /\ Len(queue) < QueueSize /\ queue' = Append(queue, w)
              /\ unfinished' = unfinished + 1 /\ accepted' = accepted \cup {w}
           \/ UNCHANGED <<queue, unfinished, accepted>>
  BY DEF Submit
<1>2. /\ pc[r] = "submit"
      /\ UNCHANGED <<log, lock, pc, tpc, hand, stopped, thread, runtime, attempts>>
  BY DEF Submit, threadVars, ownerVars
<1>3. /\ TypeOK /\ todo \in [Requests -> SUBSET Wake] /\ queue \in Seq(Wake \cup {Stop})
      /\ accepted \subseteq Wake /\ unfinished \in Nat /\ QueueSize \in Nat
  BY RoomBrokerAssumption DEF BrokerIInv, Inv, TypeOK
<1>4. /\ w \in Wake /\ w # Stop /\ w.sequence = Len(log) /\ Locates(w)
      /\ \A v \in accepted : Before(v, w)
  BY <1>3, WakeFields DEF BrokerIInv, TodoLatest
<1>5. /\ todo' \in [Requests -> SUBSET Wake]
      /\ \A q \in Requests : todo'[q] \subseteq todo[q]
      /\ w \notin todo'[r]
  BY <1>1, <1>3
<1>6. \A q \in Requests : pc[q] = "submit" => q = r
  BY <1>2 DEF BrokerIInv, Inv
<1>7. accepted' = accepted \/ accepted' = accepted \cup {w}
  BY <1>1
<1>8. /\ \A q \in Requests : pc'[q] = "submit" <=> lock' = q
      /\ \A v \in accepted' : Locates(v)'
  BY <1>2, <1>4, <1>7 DEF BrokerIInv, Inv, Locates
<1>9. TodoLatest'
  <2> SUFFICES ASSUME NEW q \in Requests, NEW u \in todo'[q]
               PROVE  /\ pc'[q] = "submit" /\ u.sequence = Len(log') /\ Locates(u)'
                      /\ \A v \in accepted' : Before(v, u)
    BY DEF TodoLatest
  <2>1. /\ u \in todo[q] /\ pc[q] = "submit" /\ u.sequence = Len(log) /\ Locates(u)
        /\ \A v \in accepted : Before(v, u)
    BY <1>5 DEF BrokerIInv, TodoLatest
  <2>2. q = r /\ u # w /\ u \in Wake
    BY <1>3, <1>5, <1>6, <2>1
  <2>3. Before(w, u)
    BY <1>4, <2>1, <2>2, WakeFields DEF Before
  <2>4. QED BY <1>2, <1>7, <2>1, <2>3 DEF Locates
<1>10. /\ \A t \in Threads : Alive(t)' => t = thread'
       /\ WokenInOrder' /\ InHand' = InHand /\ Sending' = Sending
  BY <1>2, ThreadsSame
<1>11. CASE UNCHANGED <<queue, unfinished, accepted>>
  <2>1. TypeOK'
    BY <1>2, <1>3, <1>5, <1>11 DEF TypeOK
  <2>2. QED BY <1>2, <1>8, <1>9, <1>11, <2>1, QueueSame DEF BrokerIInv, Inv
<1>12. CASE /\ Len(queue) < QueueSize /\ queue' = Append(queue, w)
            /\ unfinished' = unfinished + 1 /\ accepted' = accepted \cup {w}
  <2>1. /\ queue' \in Seq(Wake \cup {Stop}) /\ Len(queue') = Len(queue) + 1 /\ Len(queue) \in Nat
        /\ DOMAIN queue = 1..Len(queue) /\ DOMAIN queue' = 1..(Len(queue) + 1)
        /\ \A i \in DOMAIN queue : queue'[i] = queue[i]
        /\ queue'[Len(queue) + 1] = w
        /\ Range(queue') = Range(queue) \cup {w}
    <3> DEFINE S == Wake \cup {Stop}
    <3>1. queue \in Seq(S) /\ w \in S
      BY <1>3, <1>4
    <3> HIDE DEF S
    <3>2. queue' = Append(queue, w)
      BY <1>12
    <3>3. /\ queue' \in Seq(S) /\ Len(queue') = Len(queue) + 1 /\ Len(queue) \in Nat
          /\ DOMAIN queue = 1..Len(queue) /\ DOMAIN queue' = 1..(Len(queue) + 1)
          /\ \A i \in DOMAIN queue : queue'[i] = queue[i]
          /\ queue'[Len(queue) + 1] = w
          /\ Range(queue') = Range(queue) \cup {w}
      BY ONLY <3>1, <3>2, Appended
    <3>4. QED BY <3>3 DEF S
  <2>2. TypeOK'
    BY <1>2, <1>3, <1>4, <1>5, <1>12, <2>1 DEF TypeOK
  <2>3. Len(queue') <= QueueSize
    BY <1>3, <1>12, <2>1
  <2>4. unfinished' = Len(queue') + Cardinality(InHand')
    <3>1. unfinished = Len(queue) + Cardinality(InHand)
      BY DEF BrokerIInv, Inv
    <3>2. Cardinality(InHand) \in Int
      BY HandCount
    <3>3. QED BY <1>10, <1>12, <2>1, <3>1, <3>2
  <2>5. Queued' = Queued \cup {w}
    BY <1>4, <2>1 DEF Queued
  <2>6. Places'
    BY <1>2, <1>10, <1>12, <2>5 DEF BrokerIInv, Places
  <2>7. /\ Range(attempts) \subseteq accepted /\ Sending \subseteq accepted /\ Queued \subseteq accepted
    BY DEF BrokerIInv, Places
  <2>8. QueueOrdered'
    <3> SUFFICES ASSUME NEW i \in DOMAIN queue', NEW j \in DOMAIN queue', i < j,
                        queue'[i] # Stop, queue'[j] # Stop
                 PROVE  Before(queue'[i], queue'[j])
      BY DEF QueueOrdered
    <3>1. i \in DOMAIN queue
      BY <2>1
    <3>2. CASE j = Len(queue) + 1
      <4>1. queue[i] \in Queued
        BY <2>1, <3>1 DEF Queued, Range
      <4>2. QED BY <1>4, <2>1, <2>7, <3>1, <3>2, <4>1
    <3>3. CASE j \in DOMAIN queue
      BY <2>1, <3>1, <3>3 DEF BrokerIInv, QueueOrdered
    <3>4. QED BY <2>1, <3>2, <3>3
  <2>9. HandOrdered'
    <3> SUFFICES ASSUME NEW t \in Threads, tpc[t] = "send"
                 PROVE  /\ hand[t] # Stop
                        /\ \A v \in Queued' : Before(hand[t], v)
                        /\ \A v \in Range(attempts) : Before(v, hand[t])
      BY <1>2 DEF HandOrdered
    <3>1. hand[t] \in accepted
      BY <2>7 DEF Sending
    <3>2. QED BY <1>4, <2>5, <3>1 DEF BrokerIInv, HandOrdered
  <2>10. AttemptsOrdered'
    BY <1>2, <1>4, <2>5, <2>7 DEF BrokerIInv, AttemptsOrdered
  <2>11. QED BY <1>8, <1>9, <1>10, <2>2, <2>3, <2>4, <2>6, <2>8, <2>9, <2>10 DEF BrokerIInv, Inv
<1>13. QED BY <1>1, <1>11, <1>12

LEMMA AnswerKeeps == BrokerIInv /\ (\E r \in Requests : Answer(r)) => BrokerIInv'
<1> SUFFICES ASSUME BrokerIInv, NEW r \in Requests, Answer(r) PROVE BrokerIInv'
  OBVIOUS
<1>1. /\ pc[r] = "submit" /\ todo[r] = {} /\ pc' = [pc EXCEPT ![r] = "done"]
      /\ lock' = IF lock = r THEN None ELSE lock
      /\ UNCHANGED <<log, todo, queue, unfinished, tpc, hand, stopped, thread, runtime, accepted, attempts>>
  BY DEF Answer, threadVars, ownerVars
<1>2. /\ TypeOK /\ pc \in [Requests -> {"idle", "waiting", "submit", "done", "failed"}]
      /\ lock = r /\ \A q \in Requests : pc[q] = "submit" => q = r
  BY <1>1 DEF BrokerIInv, Inv, TypeOK
<1>3. lock' = None /\ None \notin Requests
  BY <1>1, <1>2, RoomBrokerAssumption
<1>4. TypeOK'
  BY <1>1, <1>2, <1>3 DEF TypeOK
<1>5. /\ \A q \in Requests : pc'[q] = "submit" <=> lock' = q
      /\ \A w \in accepted' : Locates(w)'
  BY <1>1, <1>2, <1>3 DEF BrokerIInv, Inv, Locates
<1>6. TodoLatest'
  <2>1. \A q \in Requests : q # r => pc'[q] = pc[q]
    BY <1>1, <1>2
  <2>2. QED BY <1>1, <2>1 DEF BrokerIInv, TodoLatest, Locates
<1>7. QED BY <1>1, <1>4, <1>5, <1>6, QueueSame DEF BrokerIInv, Inv

\* What a thread that is alive has in hand, before and after a step that leaves it the only one.
LEMMA HandNow ==
  ASSUME BrokerIInv, NEW t \in Threads, Alive(t),
         \A u \in Threads : Alive(u)' => u = t
  PROVE  /\ t = thread /\ Cardinality({t}) = 1 /\ Cardinality({}) = 0
         /\ InHand = IF tpc[t] \in Waiting THEN {t} ELSE {}
         /\ Sending = IF tpc[t] = "send" THEN {hand[t]} ELSE {}
         /\ InHand' = IF tpc'[t] \in Waiting THEN {t} ELSE {}
         /\ Sending' = IF tpc'[t] = "send" THEN {hand'[t]} ELSE {}
<1>1. t = thread /\ \A u \in Threads : tpc[u] \in Waiting => u = t
  BY DEF BrokerIInv, Inv, Alive, Waiting
<1>2. \A u \in Threads : tpc'[u] \in Waiting => u = t
  BY DEF Alive, Waiting
<1>3. InHand = {u \in Threads : tpc[u] \in Waiting} /\ InHand' = {u \in Threads : tpc'[u] \in Waiting}
  BY DEF InHand, Waiting
<1>4. InHand = (IF tpc[t] \in Waiting THEN {t} ELSE {}) /\ InHand' = IF tpc'[t] \in Waiting THEN {t} ELSE {}
  BY <1>1, <1>2, <1>3
<1>5. {u \in Threads : tpc[u] = "send"} = IF tpc[t] = "send" THEN {t} ELSE {}
  BY <1>1 DEF Waiting
<1>6. {u \in Threads : tpc'[u] = "send"} = IF tpc'[t] = "send" THEN {t} ELSE {}
  BY <1>2 DEF Waiting
<1>7. Sending = IF tpc[t] = "send" THEN {hand[t]} ELSE {}
  BY <1>5 DEF Sending
<1>8. Sending' = IF tpc'[t] = "send" THEN {hand'[t]} ELSE {}
  BY <1>6 DEF Sending
<1>9. Cardinality({t}) = 1
  BY FS_Singleton
<1>10. Cardinality({}) = 0
  BY FS_EmptySet
<1>11. QED BY <1>1, <1>4, <1>7, <1>8, <1>9, <1>10

LEMMA CheckKeeps == BrokerIInv /\ (\E t \in Threads : Check(t)) => BrokerIInv'
<1> SUFFICES ASSUME BrokerIInv, NEW t \in Threads, Check(t) PROVE BrokerIInv'
  OBVIOUS
<1>1. /\ tpc[t] = "loop" /\ tpc' = [tpc EXCEPT ![t] = IF stopped THEN "gone" ELSE "get"]
      /\ UNCHANGED <<log, lock, pc, todo, queue, unfinished, hand, stopped, thread, runtime, accepted, attempts>>
  BY DEF Check, handlerVars, ownerVars
<1>2. TypeOK /\ tpc \in [Threads -> {"new", "loop", "get", "send", "done", "last", "gone"}]
  BY DEF BrokerIInv, Inv, TypeOK
<1>3. TypeOK'
  BY <1>1, <1>2 DEF TypeOK
<1>4. /\ \A u \in Threads : u # t => tpc'[u] = tpc[u]
      /\ tpc'[t] \in {"gone", "get"}
  BY <1>1, <1>2
<1>5. InHand' = InHand /\ Sending' = Sending /\ \A u \in Threads : Alive(u)' => Alive(u)
  BY <1>1, <1>4 DEF InHand, Sending, Alive
<1>6. Inv'
  BY <1>1, <1>3, <1>5, LedgerSame DEF BrokerIInv, Inv, WokenInOrder
<1>7. HandOrdered'
  BY <1>1, <1>4 DEF BrokerIInv, HandOrdered, Queued
<1>8. Places' /\ QueueOrdered' /\ AttemptsOrdered'
  BY <1>1, <1>5 DEF BrokerIInv, Places, Queued, QueueOrdered, AttemptsOrdered
<1>9. QED BY <1>1, <1>6, <1>7, <1>8, LedgerSame DEF BrokerIInv

\* The head of the queue passes into the hand of the only thread that is alive: it is before all
\* that is left in the queue, and after all that was handed to a sink.
LEMMA GetKeeps == BrokerIInv /\ (\E t \in Threads : Get(t)) => BrokerIInv'
<1> SUFFICES ASSUME BrokerIInv, NEW t \in Threads, Get(t) PROVE BrokerIInv'
  OBVIOUS
<1>1. /\ tpc[t] = "get" /\ Alive(t)
      /\ UNCHANGED <<log, lock, pc, todo, unfinished, stopped, thread, runtime, accepted, attempts>>
  BY DEF Get, Alive, handlerVars, ownerVars
<1>2. /\ TypeOK /\ tpc \in [Threads -> {"new", "loop", "get", "send", "done", "last", "gone"}]
      /\ queue \in Seq(Wake \cup {Stop}) /\ hand \in [Threads -> Wake \cup {Stop}]
      /\ QueueSize \in Nat
  BY RoomBrokerAssumption DEF BrokerIInv, Inv, TypeOK
<1>3. CASE queue = <<>>
  <2>1. tpc' = [tpc EXCEPT ![t] = "loop"] /\ UNCHANGED <<queue, hand>>
    BY <1>3 DEF Get
  <2>2. TypeOK'
    BY <1>1, <1>2, <2>1 DEF TypeOK
  <2>3. /\ \A u \in Threads : u # t => tpc'[u] = tpc[u]
        /\ tpc'[t] = "loop"
    BY <1>2, <2>1
  <2>4. InHand' = InHand /\ Sending' = Sending /\ \A u \in Threads : Alive(u)' => Alive(u)
    BY <1>1, <2>1, <2>3 DEF InHand, Sending, Alive
  <2>5. Inv'
    BY <1>1, <2>1, <2>2, <2>4, LedgerSame DEF BrokerIInv, Inv, WokenInOrder
  <2>6. HandOrdered'
    BY <1>1, <2>1, <2>3 DEF BrokerIInv, HandOrdered, Queued
  <2>7. Places' /\ QueueOrdered' /\ AttemptsOrdered'
    BY <1>1, <2>1, <2>4 DEF BrokerIInv, Places, Queued, QueueOrdered, AttemptsOrdered
  <2>8. QED BY <1>1, <2>5, <2>6, <2>7, LedgerSame DEF BrokerIInv
<1>4. CASE queue # <<>>
  <2> DEFINE w == Head(queue)
  <2>1. /\ tpc' = [tpc EXCEPT ![t] = IF w = Stop THEN "last" ELSE "send"]
        /\ hand' = [hand EXCEPT ![t] = w] /\ queue' = Tail(queue)
    BY <1>4 DEF Get
  <2>2. /\ queue' \in Seq(Wake \cup {Stop}) /\ Len(queue) = Len(queue') + 1 /\ Len(queue') \in Nat
        /\ DOMAIN queue' = 1..Len(queue') /\ DOMAIN queue = 1..(Len(queue') + 1)
        /\ \A i \in DOMAIN queue' : queue'[i] = queue[i + 1]
        /\ w = queue[1] /\ w \in Wake \cup {Stop}
        /\ Range(queue) = Range(queue') \cup {w}
    <3> DEFINE S == Wake \cup {Stop}
    <3>1. queue \in Seq(S) /\ queue # <<>>
      BY <1>2, <1>4
    <3> HIDE DEF S
    <3>2. /\ Tail(queue) \in Seq(S) /\ Len(queue) = Len(Tail(queue)) + 1 /\ Len(Tail(queue)) \in Nat
          /\ DOMAIN Tail(queue) = 1..Len(Tail(queue)) /\ DOMAIN queue = 1..(Len(Tail(queue)) + 1)
          /\ \A i \in DOMAIN Tail(queue) : Tail(queue)[i] = queue[i + 1]
          /\ Head(queue) = queue[1] /\ Head(queue) \in S
          /\ Range(queue) = Range(Tail(queue)) \cup {Head(queue)}
      BY ONLY <3>1, Removed
    <3>3. QED BY <2>1, <3>2 DEF S
  <2> HIDE DEF w
  <2>3. /\ \A u \in Threads : u # t => tpc'[u] = tpc[u] /\ hand'[u] = hand[u]
        /\ tpc'[t] = IF w = Stop THEN "last" ELSE "send"
        /\ hand'[t] = w
    BY <1>2, <2>1
  <2>4. \A u \in Threads : Alive(u)' => u = t
    BY <1>1, <2>3 DEF BrokerIInv, Inv, Alive
  <2>5. /\ t = thread /\ InHand = {} /\ Sending = {} /\ InHand' = {t}
        /\ Sending' = (IF w = Stop THEN {} ELSE {w})
        /\ Cardinality({t}) = 1 /\ Cardinality({}) = 0
    BY <1>1, <2>3, <2>4, HandNow DEF Waiting
  <2>6. TypeOK'
    BY <1>1, <1>2, <2>1, <2>2 DEF TypeOK
  <2>7. Len(queue') <= QueueSize /\ unfinished' = Len(queue') + Cardinality(InHand')
    <3>1. Len(queue) <= QueueSize /\ unfinished = Len(queue) + Cardinality(InHand)
      BY DEF BrokerIInv, Inv
    <3>2. QED BY <1>1, <1>2, <2>2, <2>5, <3>1
  <2>8. Inv'
    BY <1>1, <2>4, <2>5, <2>6, <2>7, LedgerSame DEF BrokerIInv, Inv, WokenInOrder
  <2>9. Queued = Queued' \cup (IF w = Stop THEN {} ELSE {w})
    BY <2>2 DEF Queued
  <2>10. Places'
    BY <1>1, <2>5, <2>9 DEF BrokerIInv, Places
  <2>11. AttemptsOrdered'
    BY <1>1, <2>9 DEF BrokerIInv, AttemptsOrdered
  <2>12. QueueOrdered'
    <3>1. \A i, j \in 1..Len(queue') :
            /\ i + 1 \in DOMAIN queue /\ j + 1 \in DOMAIN queue /\ (i < j => i + 1 < j + 1)
      BY <2>2
    <3>2. QED BY <2>2, <3>1 DEF BrokerIInv, QueueOrdered
  <2>13. HandOrdered'
    <3> SUFFICES ASSUME NEW u \in Threads, tpc'[u] = "send"
                 PROVE  /\ hand'[u] # Stop
                        /\ \A v \in Queued' : Before(hand'[u], v)
                        /\ \A v \in Range(attempts) : Before(v, hand'[u])
      BY <1>1 DEF HandOrdered
    <3>1. u = t /\ w # Stop /\ hand'[u] = w
      BY <2>3, <2>4 DEF Alive
    <3>2. ASSUME NEW v \in Queued' PROVE Before(w, v)
      <4>1. PICK i \in DOMAIN queue' : queue'[i] = v /\ v # Stop
        BY DEF Queued, Range
      <4>2. 1 \in DOMAIN queue /\ i + 1 \in DOMAIN queue /\ 1 < i + 1
        BY <2>2
      <4>3. queue[i + 1] = v /\ queue[1] = w
        BY <2>2, <4>1
      <4>4. QED BY <3>1, <4>1, <4>2, <4>3 DEF BrokerIInv, QueueOrdered
    <3>3. \A v \in Range(attempts) : Before(v, w)
      BY <2>9, <3>1 DEF BrokerIInv, AttemptsOrdered
    <3>4. QED BY <3>1, <3>2, <3>3
  <2>14. QED BY <1>1, <2>8, <2>10, <2>11, <2>12, <2>13, LedgerSame DEF BrokerIInv
<1>5. QED BY <1>3, <1>4

\* What is handed to a sink comes after all that was.
LEMMA SendKeeps == BrokerIInv /\ (\E t \in Threads : Send(t)) => BrokerIInv'
<1> SUFFICES ASSUME BrokerIInv, NEW t \in Threads, Send(t) PROVE BrokerIInv'
  OBVIOUS
<1>1. /\ tpc[t] = "send" /\ Alive(t) /\ attempts' = Append(attempts, hand[t])
      /\ tpc' = [tpc EXCEPT ![t] = "done"]
      /\ UNCHANGED <<log, lock, pc, todo, queue, unfinished, hand, stopped, thread, runtime, accepted>>
  BY DEF Send, Alive, handlerVars, ownerVars
<1>2. /\ TypeOK /\ tpc \in [Threads -> {"new", "loop", "get", "send", "done", "last", "gone"}]
      /\ attempts \in Seq(Wake) /\ hand \in [Threads -> Wake \cup {Stop}]
  BY DEF BrokerIInv, Inv, TypeOK
<1>3. /\ hand[t] \in Wake
      /\ \A w \in Queued : Before(hand[t], w)
      /\ \A v \in Range(attempts) : Before(v, hand[t])
  BY <1>1, <1>2 DEF BrokerIInv, HandOrdered
<1> DEFINE w == hand[t]
<1>4. /\ attempts' \in Seq(Wake) /\ Len(attempts) \in Nat
      /\ DOMAIN attempts = 1..Len(attempts) /\ DOMAIN attempts' = 1..(Len(attempts) + 1)
      /\ \A i \in DOMAIN attempts : attempts'[i] = attempts[i]
      /\ attempts'[Len(attempts) + 1] = w
      /\ Range(attempts') = Range(attempts) \cup {w}
  <2>1. attempts \in Seq(Wake) /\ w \in Wake /\ attempts' = Append(attempts, w)
    BY <1>1, <1>2, <1>3
  <2> HIDE DEF w
  <2>2. QED BY ONLY <2>1, Appended
<1>5. /\ \A u \in Threads : u # t => tpc'[u] = tpc[u]
      /\ tpc'[t] = "done"
  BY <1>1, <1>2
<1>6. \A u \in Threads : Alive(u)' => u = t
  BY <1>1, <1>5 DEF BrokerIInv, Inv, Alive
<1>7. /\ t = thread /\ InHand' = InHand /\ Sending = {w} /\ Sending' = {}
  BY <1>1, <1>5, <1>6, HandNow DEF Waiting
<1>8. TypeOK'
  BY <1>1, <1>2, <1>4 DEF TypeOK
<1>9. WokenInOrder'
  <2> SUFFICES ASSUME NEW i \in DOMAIN attempts', NEW j \in DOMAIN attempts', i < j,
                      attempts'[i].target = attempts'[j].target
               PROVE  attempts'[i].sequence < attempts'[j].sequence
    BY DEF WokenInOrder
  <2>1. i \in DOMAIN attempts
    BY <1>4
  <2>2. CASE j = Len(attempts) + 1
    <3>1. attempts[i] \in Range(attempts)
      BY <2>1 DEF Range
    <3>2. Before(attempts[i], w)
      BY <1>3, <3>1
    <3>3. QED BY <1>4, <2>1, <2>2, <3>2 DEF Before
  <2>3. CASE j \in DOMAIN attempts
    BY <1>4, <2>1, <2>3 DEF BrokerIInv, Inv, WokenInOrder
  <2>4. QED BY <1>4, <2>2, <2>3
<1>10. Inv'
  BY <1>1, <1>6, <1>7, <1>8, <1>9, LedgerSame DEF BrokerIInv, Inv
<1>11. Queued' = Queued
  BY <1>1 DEF Queued
<1>12. Places'
  BY <1>1, <1>4, <1>7, <1>11 DEF BrokerIInv, Places
<1>13. AttemptsOrdered'
  BY <1>3, <1>4, <1>11 DEF BrokerIInv, AttemptsOrdered
<1>14. HandOrdered'
  BY <1>5, <1>6 DEF HandOrdered, Alive
<1>15. QueueOrdered'
  BY <1>1 DEF BrokerIInv, QueueOrdered
<1>16. QED BY <1>1, <1>10, <1>12, <1>13, <1>14, <1>15, LedgerSame DEF BrokerIInv

LEMMA TaskDoneKeeps == BrokerIInv /\ (\E t \in Threads : TaskDone(t)) => BrokerIInv'
<1> SUFFICES ASSUME BrokerIInv, NEW t \in Threads, TaskDone(t) PROVE BrokerIInv'
  OBVIOUS
<1>1. /\ tpc[t] \in {"done", "last"} /\ Alive(t) /\ unfinished' = unfinished - 1
      /\ tpc' = [tpc EXCEPT ![t] = IF @ = "last" THEN "gone" ELSE "loop"]
      /\ UNCHANGED <<log, lock, pc, todo, queue, hand, stopped, thread, runtime, accepted, attempts>>
  BY DEF TaskDone, Alive, handlerVars, ownerVars
<1>2. /\ TypeOK /\ tpc \in [Threads -> {"new", "loop", "get", "send", "done", "last", "gone"}]
      /\ queue \in Seq(Wake \cup {Stop})
  BY DEF BrokerIInv, Inv, TypeOK
<1>3. /\ \A u \in Threads : u # t => tpc'[u] = tpc[u]
      /\ tpc'[t] \in {"gone", "loop"}
  BY <1>1, <1>2
<1>4. \A u \in Threads : Alive(u)' => u = t
  BY <1>1, <1>3 DEF BrokerIInv, Inv, Alive
<1>5. /\ t = thread /\ InHand = {t} /\ InHand' = {} /\ Sending = {} /\ Sending' = {}
      /\ Cardinality({t}) = 1 /\ Cardinality({}) = 0
  BY <1>1, <1>3, <1>4, HandNow DEF Waiting
<1>6. Len(queue) \in Nat
  BY <1>2
<1>7. unfinished' = Len(queue') + Cardinality(InHand') /\ unfinished' \in Nat
  <2>1. unfinished = Len(queue) + Cardinality(InHand)
    BY DEF BrokerIInv, Inv
  <2>2. QED BY <1>1, <1>5, <1>6, <2>1
<1>8. TypeOK'
  BY <1>1, <1>2, <1>7 DEF TypeOK
<1>9. Inv'
  BY <1>1, <1>4, <1>5, <1>7, <1>8, LedgerSame DEF BrokerIInv, Inv, WokenInOrder
<1>10. Places' /\ QueueOrdered' /\ AttemptsOrdered'
  BY <1>1, <1>5 DEF BrokerIInv, Places, Queued, QueueOrdered, AttemptsOrdered
<1>11. HandOrdered'
  BY <1>3, <1>4 DEF HandOrdered, Alive
<1>12. QED BY <1>1, <1>9, <1>10, <1>11, LedgerSame DEF BrokerIInv

\* A thread is started only when none is alive.
LEMMA StartKeeps == BrokerIInv /\ Start => BrokerIInv'
<1> SUFFICES ASSUME BrokerIInv, Start PROVE BrokerIInv'
  OBVIOUS
<1>1. /\ thread < MaxStarts /\ runtime' = "up"
      /\ UNCHANGED <<handlerVars, log, lock, pc, todo, queue, unfinished, hand, accepted, attempts>>
  BY DEF Start, handlerVars
<1>2. /\ TypeOK /\ tpc \in [Threads -> {"new", "loop", "get", "send", "done", "last", "gone"}]
      /\ thread \in {0} \cup Threads /\ stopped \in BOOLEAN /\ MaxStarts \in Nat
  BY RoomBrokerAssumption DEF BrokerIInv, Inv, TypeOK
<1>3. CASE thread # 0 /\ Alive(thread)
  <2>1. UNCHANGED <<stopped, thread, tpc>>
    BY <1>3 DEF Start
  <2>2. UNCHANGED threadVars
    BY <1>1, <2>1 DEF threadVars
  <2>3. stopped' \in BOOLEAN /\ runtime' \in {"down", "up", "draining", "drained", "expired", "joining"}
    BY <1>1, <1>2, <2>1
  <2>4. QED BY <1>1, <2>1, <2>2, <2>3, OwnerSame
<1>4. CASE ~(thread # 0 /\ Alive(thread))
  <2>1. stopped' = FALSE /\ thread' = thread + 1 /\ tpc' = [tpc EXCEPT ![thread + 1] = "loop"]
    BY <1>4 DEF Start
  <2>2. thread + 1 \in Threads /\ 0 \notin Threads
    BY <1>1, <1>2 DEF Threads
  <2>3. \A u \in Threads : ~Alive(u)
    BY <1>4, <2>2 DEF BrokerIInv, Inv
  <2>4. TypeOK'
    BY <1>1, <1>2, <2>1, <2>2 DEF TypeOK
  <2>5. /\ \A u \in Threads : u # thread + 1 => tpc'[u] = tpc[u]
        /\ tpc'[thread + 1] = "loop"
    BY <1>2, <2>1, <2>2
  <2>6. \A u \in Threads : Alive(u)' => u = thread'
    BY <2>1, <2>3, <2>5 DEF Alive
  <2>7. \A u \in Threads : tpc[u] \notin Waiting /\ tpc'[u] \notin Waiting
    BY <2>3, <2>5 DEF Alive, Waiting
  <2>8. InHand = {} /\ InHand' = {} /\ Sending = {} /\ Sending' = {}
    BY <2>7 DEF InHand, Sending, Waiting
  <2>9. Inv'
    BY <1>1, <2>4, <2>6, <2>8, LedgerSame DEF BrokerIInv, Inv, WokenInOrder
  <2>10. Places' /\ QueueOrdered' /\ AttemptsOrdered'
    BY <1>1, <2>8 DEF BrokerIInv, Places, Queued, QueueOrdered, AttemptsOrdered
  <2>11. HandOrdered'
    BY <2>7 DEF HandOrdered, Waiting
  <2>12. QED BY <1>1, <2>9, <2>10, <2>11, LedgerSame DEF BrokerIInv
<1>5. QED BY <1>3, <1>4

\* The sentinel is queued behind the wake requests.
LEMMA PutStopKeeps == BrokerIInv /\ PutStop => BrokerIInv'
<1> SUFFICES ASSUME BrokerIInv, PutStop PROVE BrokerIInv'
  OBVIOUS
<1>1. /\ runtime' = "joining"
      /\ UNCHANGED <<handlerVars, threadVars, log, lock, pc, todo, tpc, hand, stopped, thread, accepted, attempts>>
  BY DEF PutStop, handlerVars, threadVars
<1>2. /\ TypeOK /\ queue \in Seq(Wake \cup {Stop}) /\ unfinished \in Nat /\ QueueSize \in Nat
  BY RoomBrokerAssumption DEF BrokerIInv, Inv, TypeOK
<1>3. CASE UNCHANGED <<queue, unfinished>>
  <2>1. stopped' \in BOOLEAN /\ runtime' \in {"down", "up", "draining", "drained", "expired", "joining"}
    BY <1>1, <1>2 DEF TypeOK
  <2>2. QED BY <1>1, <1>3, <2>1, OwnerSame
<1>4. CASE /\ Len(queue) < QueueSize /\ queue' = Append(queue, Stop)
           /\ unfinished' = unfinished + 1
  <2>1. /\ queue' \in Seq(Wake \cup {Stop}) /\ Len(queue') = Len(queue) + 1 /\ Len(queue) \in Nat
        /\ DOMAIN queue = 1..Len(queue) /\ DOMAIN queue' = 1..(Len(queue) + 1)
        /\ \A i \in DOMAIN queue : queue'[i] = queue[i]
        /\ queue'[Len(queue) + 1] = Stop
        /\ Range(queue') = Range(queue) \cup {Stop}
    <3> DEFINE S == Wake \cup {Stop}
    <3>1. queue \in Seq(S) /\ Stop \in S
      BY <1>2
    <3> HIDE DEF S
    <3>2. queue' = Append(queue, Stop)
      BY <1>4
    <3>3. /\ queue' \in Seq(S) /\ Len(queue') = Len(queue) + 1 /\ Len(queue) \in Nat
          /\ DOMAIN queue = 1..Len(queue) /\ DOMAIN queue' = 1..(Len(queue) + 1)
          /\ \A i \in DOMAIN queue : queue'[i] = queue[i]
          /\ queue'[Len(queue) + 1] = Stop
          /\ Range(queue') = Range(queue) \cup {Stop}
      BY ONLY <3>1, <3>2, Appended
    <3>4. QED BY <3>3 DEF S
  <2>2. TypeOK'
    BY <1>1, <1>2, <1>4, <2>1 DEF TypeOK
  <2>3. /\ \A t \in Threads : Alive(t)' => t = thread'
        /\ WokenInOrder' /\ InHand' = InHand /\ Sending' = Sending
    BY <1>1, ThreadsSame
  <2>4. Len(queue') <= QueueSize /\ unfinished' = Len(queue') + Cardinality(InHand')
    <3>1. unfinished = Len(queue) + Cardinality(InHand)
      BY DEF BrokerIInv, Inv
    <3>2. Cardinality(InHand) \in Int
      BY HandCount
    <3>3. QED BY <1>2, <1>4, <2>1, <2>3, <3>1, <3>2
  <2>5. Inv'
    BY <1>1, <2>2, <2>3, <2>4, LedgerSame DEF BrokerIInv, Inv
  <2>6. Queued' = Queued
    BY <2>1 DEF Queued
  <2>7. Places' /\ AttemptsOrdered' /\ HandOrdered'
    BY <1>1, <2>3, <2>6 DEF BrokerIInv, Places, AttemptsOrdered, HandOrdered
  <2>8. QueueOrdered'
    <3>1. \A i \in DOMAIN queue' : queue'[i] # Stop => i \in DOMAIN queue /\ queue'[i] = queue[i]
      BY <2>1
    <3>2. QED BY <3>1 DEF BrokerIInv, QueueOrdered
  <2>9. QED BY <1>1, <2>5, <2>7, <2>8, LedgerSame DEF BrokerIInv
<1>5. QED BY <1>3, <1>4 DEF PutStop

\* The other steps of the owner change neither the queue nor a thread.
LEMMA OwnerKeeps == BrokerIInv /\ Owner => BrokerIInv'
<1> SUFFICES ASSUME BrokerIInv, CloseSockets \/ Drain \/ Join PROVE BrokerIInv'
  BY StartKeeps, PutStopKeeps DEF Owner
<1>1. UNCHANGED <<handlerVars, queue, unfinished, threadVars, thread, accepted, attempts>>
  BY DEF CloseSockets, Drain, Join
<1>2. stopped \in BOOLEAN
  BY DEF BrokerIInv, Inv, TypeOK
<1>3. stopped' \in BOOLEAN /\ runtime' \in {"down", "up", "draining", "drained", "expired", "joining"}
  BY <1>2 DEF CloseSockets, Drain, Join
<1>4. QED BY <1>1, <1>3, OwnerSame

LEMMA BrokerKeeps == BrokerIInv /\ [Next]_vars => BrokerIInv'
BY BrokerStutters, OwnerKeeps, ReceiveKeeps, AppendEventKeeps, SubmitKeeps, AnswerKeeps,
   CheckKeeps, GetKeeps, SendKeeps, TaskDoneKeeps DEF Next, Handler, Thread

\* The queue is bounded and its count of tasks exact, one thread at most is alive, one handler at
\* most holds the ledger lock, every wake request locates an event that is in the log, and no
\* participant is woken twice for an event or out of order: for every set of requests, sinks and
\* restarts and every size of the queue (room_broker and the WakeDispatcher).
THEOREM BrokerIsConsistent == Spec => []Inv
<1>1. BrokerIInv => Inv
  BY DEF BrokerIInv
<1>2. QED BY <1>1, BrokerStarts, BrokerKeeps, PTL DEF Spec

\* With no unfinished task the queue is empty and no thread has a wake request in hand.
LEMMA DrainedStep ==
  BrokerIInv /\ [Next]_vars =>
    [runtime = "draining" /\ runtime' = "drained" => accepted \subseteq Range(attempts)]_vars
<1> SUFFICES ASSUME BrokerIInv, Next, runtime = "draining", runtime' = "drained"
             PROVE  accepted \subseteq Range(attempts)
  OBVIOUS
<1>1. unfinished = 0
  <2>1. UNCHANGED runtime \/ Owner
    BY DEF Next, Receive, Handler, AppendEvent, Submit, Answer, Thread, Check, Get, Send, TaskDone, ownerVars
  <2>2. Drain
    BY <2>1 DEF Owner, Start, CloseSockets, Drain, PutStop, Join
  <2>3. QED BY <2>2 DEF Drain
<1>2. queue \in Seq(Wake \cup {Stop})
  BY DEF BrokerIInv, Inv, TypeOK
<1>3. Len(queue) = 0 /\ Cardinality(InHand) = 0
  <2>1. Len(queue) \in Nat /\ Cardinality(InHand) \in Nat
    BY <1>2, HandCount
  <2>2. unfinished = Len(queue) + Cardinality(InHand)
    BY DEF BrokerIInv, Inv
  <2>3. QED BY <1>1, <2>1, <2>2
<1>4. Range(queue) = {}
  BY <1>2, <1>3, RangeEmpty
<1>5. IsFiniteSet(InHand)
  <2>1. IsFiniteSet(Threads)
    BY RoomBrokerAssumption, FS_Interval DEF Threads
  <2>2. InHand \subseteq Threads
    BY DEF InHand
  <2>3. QED BY <2>1, <2>2, FS_Subset
<1>6. InHand = {}
  BY <1>3, <1>5, FS_EmptySet
<1>7. Sending = {}
  BY <1>6 DEF Sending, InHand
<1>8. QED BY <1>4, <1>7 DEF BrokerIInv, Places, Queued

\* When drain of the WakeDispatcher returns TRUE, every wake request that was queued has been
\* handed to its sink.
THEOREM DrainWaitsForTheSinks == Spec => DrainedIsAttempted
BY BrokerStarts, BrokerKeeps, DrainedStep, PTL DEF Spec, DrainedIsAttempted
=============================================================================
