----------------------- MODULE CachePortHandlerProofs -----------------------
(*****************************************************************************)
(* What the handlers of a Cache (SplitRPort is FALSE) do to its MSHRs, its   *)
(* queues, the port and the bus, for every set of caches above it and of     *)
(* lines, every size of its queues and every latency.                        *)
(*****************************************************************************)
EXTENDS CachePort, WellFoundedInduction, TLAPS

----------------------------------------------------------------------------
(* Numbers and sequences *)

\* A function from 1..n is a sequence of length n.
LEMMA SeqIs ==
    ASSUME NEW S, NEW n \in Nat, NEW q \in [1..n -> S]
    PROVE  q \in Seq(S) /\ Len(q) = n
BY SMTT(60)

\* The length and the domain of a sequence.
LEMMA SeqLength ==
    ASSUME NEW S, NEW q \in Seq(S)
    PROVE  Len(q) \in Nat /\ q \in [1..Len(q) -> S] /\ DOMAIN q = 1..Len(q)
OBVIOUS

\* The elements of a sequence.
LEMMA SeqElement ==
    ASSUME NEW S, NEW q \in Seq(S), NEW i \in 1..Len(q)
    PROVE  q[i] \in S
OBVIOUS

\* The empty sequence is the one of length 0.
LEMMA SeqEmpty ==
    ASSUME NEW S
    PROVE  /\ <<>> \in Seq(S) /\ Len(<<>>) = 0
           /\ \A q \in Seq(S) : q # <<>> => Len(q) \in Nat \ {0}
OBVIOUS

\* Sequences are the same if their lengths and elements are.
LEMMA SeqSame ==
    ASSUME NEW S, NEW q \in Seq(S), NEW r \in Seq(S), Len(q) = Len(r),
           \A i \in 1..Len(q) : q[i] = r[i]
    PROVE  q = r
OBVIOUS

\* What concatenation does.
LEMMA SeqConcat ==
    ASSUME NEW S, NEW q \in Seq(S), NEW r \in Seq(S)
    PROVE  /\ q \o r \in Seq(S) /\ Len(q \o r) = Len(q) + Len(r)
           /\ \A i \in 1..(Len(q) + Len(r)) :
                  (q \o r)[i] = IF i <= Len(q) THEN q[i] ELSE r[i - Len(q)]
OBVIOUS

\* What a part of a sequence is.
LEMMA SeqPart ==
    ASSUME NEW S, NEW q, NEW m \in Int, NEW n \in Int, \A i \in m..n : q[i] \in S
    PROVE  /\ SubSeq(q, m, n) \in Seq(S)
           /\ Len(SubSeq(q, m, n)) = IF m <= n THEN n - m + 1 ELSE 0
           /\ \A i \in 1..(n - m + 1) : SubSeq(q, m, n)[i] = q[m + i - 1]
OBVIOUS

\* A part that ends before it begins is empty.
LEMMA SeqNoPart ==
    ASSUME NEW q, NEW m \in Int, NEW n \in Int, n < m
    PROVE  SubSeq(q, m, n) = <<>>
OBVIOUS

\* What Head and Tail do.
LEMMA SeqTail ==
    ASSUME NEW S, NEW q \in Seq(S), q # <<>>
    PROVE  /\ Head(q) \in S /\ Tail(q) \in Seq(S) /\ Len(Tail(q)) = Len(q) - 1
           /\ \A i \in 1..Len(Tail(q)) : Tail(q)[i] = q[i + 1]
OBVIOUS

\* What Append does.
LEMMA SeqAppend ==
    ASSUME NEW S, NEW q \in Seq(S), NEW x \in S
    PROVE  /\ Append(q, x) \in Seq(S) /\ Append(q, x) # <<>>
           /\ Len(Append(q, x)) = Len(q) + 1 /\ Append(q, x)[Len(q) + 1] = x
           /\ \A i \in 1..Len(q) : Append(q, x)[i] = q[i]
OBVIOUS

\* A set of natural numbers that is not empty has a least element.
LEMMA LeastNat ==
    ASSUME NEW M \in SUBSET Nat, M # {}
    PROVE  \E i \in M : \A j \in M : i <= j
<1>1. PICK x \in M : \A y \in M : ~(<<y, x>> \in OpToRel(<, Nat))
  BY WFMin, NatLessThanWellFounded, Zenon
<1>2. \A y \in M : ~(y < x)
  BY <1>1, Zenon DEF OpToRel
<1> QED BY <1>2

\* r is q with x as its i-th element.
Inserted(r, q, i, x) ==
    /\ Len(r) = Len(q) + 1
    /\ \A j \in 1..(Len(q) + 1) :
          r[j] = IF j < i THEN q[j] ELSE IF j = i THEN x ELSE q[j - 1]

\* InsertAt puts one element between two others and moves the second part.
LEMMA InsertAtFacts ==
    ASSUME NEW T, NEW q \in Seq(T), NEW i \in 1..(Len(q) + 1), NEW x \in T
    PROVE  InsertAt(q, i, x) \in Seq(T) /\ Inserted(InsertAt(q, i, x), q, i, x)
<1> DEFINE a == SubSeq(q, 1, i - 1)
           b == SubSeq(q, i, Len(q))
           ax == a \o <<x>>
           r == ax \o b
<1>1. Len(q) \in Nat /\ i \in Nat
  OBVIOUS
<1>2. a \in Seq(T) /\ Len(a) = i - 1 /\ \A j \in 1..(i - 1) : a[j] = q[j]
  BY <1>1, SeqPart
<1>3. /\ b \in Seq(T) /\ Len(b) = Len(q) - i + 1
      /\ \A j \in 1..(Len(q) - i + 1) : b[j] = q[i + j - 1]
  BY <1>1, SeqPart
<1> HIDE DEF a, b
<1>4. /\ ax \in Seq(T) /\ Len(ax) = i
      /\ \A j \in 1..i : ax[j] = IF j < i THEN q[j] ELSE x
  <2>1. <<x>> \in Seq(T) /\ Len(<<x>>) = 1 /\ <<x>>[1] = x
    OBVIOUS
  <2> QED BY <1>1, <1>2, <2>1, SeqConcat
<1> HIDE DEF ax
<1>5. /\ r \in Seq(T) /\ Len(r) = Len(q) + 1
      /\ \A j \in 1..(Len(q) + 1) :
           r[j] = IF j <= i THEN ax[j] ELSE b[j - i]
  <2>1. /\ r \in Seq(T) /\ Len(r) = Len(ax) + Len(b)
        /\ \A j \in 1..(Len(ax) + Len(b)) :
             r[j] = IF j <= Len(ax) THEN ax[j] ELSE b[j - Len(ax)]
    BY <1>3, <1>4, SeqConcat, ZenonT(60)
  <2>2. Len(ax) + Len(b) = Len(q) + 1
    BY <1>1, <1>3, <1>4
  <2> QED BY <1>4, <2>1, <2>2
<1>6. InsertAt(q, i, x) = r
  BY DEF InsertAt, r, ax, a, b
<1> HIDE DEF r
<1>7. ASSUME NEW j \in 1..(Len(q) + 1)
      PROVE  r[j] = IF j < i THEN q[j] ELSE IF j = i THEN x ELSE q[j - 1]
  <2>1. CASE j <= i
    BY <1>4, <1>5, <2>1
  <2>2. CASE j > i
    <3>1. j - i \in 1..(Len(q) - i + 1) /\ i + (j - i) - 1 = j - 1
      BY <1>1, <2>2
    <3>2. b[j - i] = q[j - 1]
      BY <1>3, <3>1
    <3>3. r[j] = b[j - i]
      BY <1>1, <1>5, <2>2
    <3> QED BY <1>1, <2>2, <3>2, <3>3
  <2> QED BY <1>1, <2>1, <2>2
<1> QED BY <1>5, <1>6, <1>7 DEF Inserted

\* RemoveAt takes one element out and closes the gap.
LEMMA RemoveAtFacts ==
    ASSUME NEW T, NEW q \in Seq(T), NEW i \in 1..Len(q)
    PROVE  /\ RemoveAt(q, i) \in Seq(T)
           /\ Len(RemoveAt(q, i)) = Len(q) - 1
           /\ \A j \in 1..(Len(q) - 1) :
                RemoveAt(q, i)[j] = IF j < i THEN q[j] ELSE q[j + 1]
<1> DEFINE a == SubSeq(q, 1, i - 1)
           b == SubSeq(q, i + 1, Len(q))
           r == a \o b
<1>1. Len(q) \in Nat /\ i \in Nat
  OBVIOUS
<1>2. a \in Seq(T) /\ Len(a) = i - 1 /\ \A j \in 1..(i - 1) : a[j] = q[j]
  BY <1>1, SeqPart
<1>3. /\ b \in Seq(T) /\ Len(b) = Len(q) - i
      /\ \A j \in 1..(Len(q) - i) : b[j] = q[i + j]
  BY <1>1, SeqPart
<1> HIDE DEF a, b
<1>4. /\ r \in Seq(T) /\ Len(r) = Len(q) - 1
      /\ \A j \in 1..(Len(q) - 1) :
           r[j] = IF j <= i - 1 THEN a[j] ELSE b[j - (i - 1)]
  <2>1. /\ r \in Seq(T) /\ Len(r) = Len(a) + Len(b)
        /\ \A j \in 1..(Len(a) + Len(b)) :
             r[j] = IF j <= Len(a) THEN a[j] ELSE b[j - Len(a)]
    BY <1>2, <1>3, SeqConcat, Zenon
  <2>2. Len(a) + Len(b) = Len(q) - 1
    BY <1>1, <1>2, <1>3
  <2> QED BY <1>2, <2>1, <2>2, ZenonT(60)
<1>5. RemoveAt(q, i) = r
  BY DEF RemoveAt, r, a, b
<1> HIDE DEF r
<1>6. ASSUME NEW j \in 1..(Len(q) - 1)
      PROVE  r[j] = IF j < i THEN q[j] ELSE q[j + 1]
  <2>1. CASE j < i
    <3>1. j \in 1..(i - 1) /\ j <= i - 1
      BY <1>1, <2>1
    <3> QED BY <1>2, <1>4, <2>1, <3>1, ZenonT(60)
  <2>2. CASE j >= i
    <3>1. j - (i - 1) \in 1..(Len(q) - i) /\ i + (j - (i - 1)) = j + 1
      BY <1>1, <2>2
    <3>2. b[j - (i - 1)] = q[j + 1]
      BY <1>3, <3>1
    <3>3. r[j] = b[j - (i - 1)]
      BY <1>1, <1>4, <2>2
    <3> QED BY <1>1, <2>2, <3>2, <3>3
  <2> QED BY <1>1, <2>1, <2>2
<1> QED BY <1>4, <1>5, <1>6

----------------------------------------------------------------------------
(* The event queue *)

Events == {"reqRelease", "respRelease", "sendRetry", "send0"}

\* A queue is sorted, and no event is in it twice.
GoodEvents(q) ==
    /\ q \in Seq([ev : Events, when : Nat])
    /\ \A i, j \in 1..Len(q) : q[i].ev = q[j].ev => i = j
    /\ \A i, j \in 1..Len(q) : i <= j => q[i].when <= q[j].when

\* The queues q and r agree on event e.
Agree(q, r, e) ==
    /\ scheduled(r, e) <=> scheduled(q, e)
    /\ scheduled(q, e) => whenOf(r, e) = whenOf(q, e)

\* r is the queue q with e scheduled for w, and with e removed.
With(q, r, e, w) ==
    /\ GoodEvents(r) /\ scheduled(r, e) /\ whenOf(r, e) = w
    /\ \A f \in Events \ {e} : Agree(q, r, f)
Without(q, r, e) ==
    /\ GoodEvents(r) /\ ~scheduled(r, e)
    /\ \A f \in Events \ {e} : Agree(q, r, f)

\* The entries of a queue.
LEMMA EntryTypes ==
    ASSUME NEW q \in Seq([ev : Events, when : Nat])
    PROVE  /\ Len(q) \in Nat
           /\ \A i \in 1..Len(q) : /\ q[i] \in [ev : Events, when : Nat]
                                   /\ q[i].ev \in Events /\ q[i].when \in Nat
<1>1. \A i \in 1..Len(q) : q[i] \in [ev : Events, when : Nat]
  BY SeqElement, Zenon
<1> QED BY <1>1

\* place finds a position for every time.
LEMMA PlaceFacts ==
    ASSUME NEW q \in Seq([ev : Events, when : Nat]), NEW w \in Nat
    PROVE  /\ place(q, w) \in 1..(Len(q) + 1)
           /\ \A j \in 1..(place(q, w) - 1) : q[j].when < w
           /\ place(q, w) <= Len(q) => q[place(q, w)].when >= w
<1> DEFINE M == {i \in 1..Len(q) : q[i].when >= w}
           P(i) == /\ \A j \in 1..(i - 1) : q[j].when < w
                   /\ i <= Len(q) => q[i].when >= w
<1>1. Len(q) \in Nat /\ \A i \in 1..Len(q) : q[i].when \in Nat
  BY EntryTypes, Zenon
<1>2. \E i \in 1..(Len(q) + 1) : P(i)
  <2>1. CASE M = {}
    <3>1. Len(q) + 1 \in 1..(Len(q) + 1) /\ P(Len(q) + 1)
      <4>1. /\ Len(q) + 1 \in 1..(Len(q) + 1) /\ (Len(q) + 1) - 1 = Len(q)
            /\ ~(Len(q) + 1 <= Len(q))
        BY <1>1
      <4>2. ASSUME NEW j \in 1..Len(q)
            PROVE  q[j].when < w
        <5>1. q[j].when \in Nat /\ ~(q[j].when >= w)
          BY <1>1, <2>1, ZenonT(60)
        <5> QED BY <5>1
      <4> QED BY <4>1, <4>2, ZenonT(60)
    <3> QED BY <3>1, ZenonT(60)
  <2>2. CASE M # {}
    <3>1. M \in SUBSET Nat
      BY <1>1
    <3>2. PICK i \in M : \A j \in M : i <= j
      BY <2>2, <3>1, LeastNat, Zenon
    <3>3. i \in 1..Len(q) /\ q[i].when >= w
      OBVIOUS
    <3>4. ASSUME NEW j \in 1..(i - 1)
          PROVE  q[j].when < w
      <4>1. j \in 1..Len(q) /\ j < i
        BY <1>1, <3>3
      <4>2. j \notin M
        BY <1>1, <3>2, <3>3, <4>1
      <4> QED BY <1>1, <4>1, <4>2
    <3>5. i \in 1..(Len(q) + 1) /\ P(i)
      BY <1>1, <3>3, <3>4
    <3> QED BY <3>5
  <2> QED BY <2>1, <2>2
<1>3. place(q, w) = CHOOSE i \in 1..(Len(q) + 1) : P(i)
  BY DEF place
<1> HIDE DEF P
<1>4. place(q, w) \in 1..(Len(q) + 1) /\ P(place(q, w))
  BY <1>2, <1>3
<1> QED BY <1>4 DEF P

\* whenOf reads the time of the one entry of an event.
LEMMA WhenOfFacts ==
    ASSUME NEW q, GoodEvents(q), NEW i \in 1..Len(q)
    PROVE  /\ placeOf(q, q[i].ev) = i
           /\ whenOf(q, q[i].ev) = q[i].when /\ scheduled(q, q[i].ev)
<1>1. \A j \in 1..Len(q) : q[j].ev = q[i].ev => j = i
  BY DEF GoodEvents
<1>2. placeOf(q, q[i].ev) = i
  BY <1>1 DEF placeOf
<1> QED BY <1>2 DEF whenOf, scheduled

\* A scheduled event has one entry.
LEMMA EntryOf ==
    ASSUME NEW q, GoodEvents(q), NEW e, scheduled(q, e)
    PROVE  \E i \in 1..Len(q) : /\ q[i].ev = e /\ placeOf(q, e) = i
                                /\ whenOf(q, e) = q[i].when
<1>1. PICK i \in 1..Len(q) : q[i].ev = e
  BY DEF scheduled
<1> QED BY <1>1, WhenOfFacts

\* Two queues with the same entries for an event agree on it.
LEMMA SameEntries ==
    ASSUME NEW q, GoodEvents(q), NEW r, GoodEvents(r), NEW e,
           \A w : (\E i \in 1..Len(q) : q[i].ev = e /\ q[i].when = w)
                  <=> (\E i \in 1..Len(r) : r[i].ev = e /\ r[i].when = w)
    PROVE  Agree(q, r, e)
<1>1. scheduled(r, e) <=> scheduled(q, e)
  BY Zenon DEF scheduled
<1>2. ASSUME scheduled(q, e)
      PROVE  whenOf(r, e) = whenOf(q, e)
  <2>1. PICK i \in 1..Len(q) : q[i].ev = e /\ whenOf(q, e) = q[i].when
    BY <1>2, EntryOf
  <2>2. PICK j \in 1..Len(r) : r[j].ev = e /\ r[j].when = q[i].when
    BY <2>1, ZenonT(60)
  <2>3. whenOf(r, e) = r[j].when
    BY <2>2, WhenOfFacts
  <2> QED BY <2>1, <2>2, <2>3
<1> QED BY <1>1, <1>2 DEF Agree

\* schedule adds an event that was not scheduled.
LEMMA ScheduleFacts ==
    ASSUME NEW q, GoodEvents(q), NEW e \in Events, NEW w \in Nat, ~scheduled(q, e)
    PROVE  With(q, schedule(q, e, w), e, w)
<1> DEFINE T == [ev : Events, when : Nat]
           p == place(q, w)
           x == [ev |-> e, when |-> w]
           r == schedule(q, e, w)
<1>1. q \in Seq(T) /\ x \in T
  BY DEF GoodEvents
<1>2. /\ Len(q) \in Nat
      /\ \A i \in 1..Len(q) : q[i] \in T /\ q[i].ev \in Events /\ q[i].when \in Nat
  BY <1>1, EntryTypes, Zenon
<1>3. /\ p \in 1..(Len(q) + 1)
      /\ \A j \in 1..(p - 1) : q[j].when < w
      /\ p <= Len(q) => q[p].when >= w
  BY <1>1, PlaceFacts, Zenon
<1> HIDE DEF p, x
<1>4. r = InsertAt(q, p, x)
  BY DEF schedule, p, x
<1> HIDE DEF r, T
<1>5. /\ r \in Seq(T) /\ Len(r) = Len(q) + 1
      /\ \A j \in 1..(Len(q) + 1) :
            r[j] = IF j < p THEN q[j] ELSE IF j = p THEN x ELSE q[j - 1]
  <2>1. Len(q) \in Nat /\ p \in 1..(Len(q) + 1) /\ q \in Seq(T) /\ x \in T
    BY <1>1, <1>2, <1>3
  <2>2. InsertAt(q, p, x) \in Seq(T) /\ Inserted(InsertAt(q, p, x), q, p, x)
    BY <2>1, InsertAtFacts, Zenon
  <2>3. r \in Seq(T) /\ Inserted(r, q, p, x)
    BY <1>4, <2>2, Zenon
  <2> QED BY <2>3, Zenon DEF Inserted
<1>6. x.ev = e /\ x.when = w
  BY DEF x
<1>7. \A j \in 1..Len(q) : q[j].ev # e
  BY DEF scheduled
<1>8. \A i, j \in 1..Len(q) : q[i].ev = q[j].ev => i = j
  BY DEF GoodEvents
<1>9. \A i, j \in 1..Len(q) : i <= j => q[i].when <= q[j].when
  BY DEF GoodEvents
<1>10. \A j \in p..Len(q) : q[j].when >= w
  BY <1>2, <1>3, <1>9
<1>11. ASSUME NEW j \in 1..Len(r)
       PROVE  \/ j < p /\ j \in 1..Len(q) /\ r[j] = q[j] /\ q[j].when < w
              \/ j = p /\ r[j] = x
              \/ j > p /\ j - 1 \in p..Len(q) /\ j - 1 \in 1..Len(q)
                 /\ r[j] = q[j - 1] /\ q[j - 1].when >= w
  <2>1. CASE j < p
    <3>1. j \in 1..Len(q) /\ j \in 1..(p - 1)
      BY <1>2, <1>3, <1>5, <2>1
    <3> QED BY <1>3, <1>5, <2>1, <3>1
  <2>2. CASE j = p
    BY <1>3, <1>5, <2>2
  <2>3. CASE j > p
    <3>1. j - 1 \in p..Len(q) /\ j - 1 \in 1..Len(q)
      BY <1>2, <1>3, <1>5, <2>3
    <3>2. r[j] = q[j - 1]
      BY <1>2, <1>3, <1>5, <2>3
    <3> QED BY <1>10, <2>3, <3>1, <3>2
  <2> QED BY <1>3, <1>5, <2>1, <2>2, <2>3
<1>12. \A i, j \in 1..Len(r) : r[i].ev = r[j].ev => i = j
  <2> SUFFICES ASSUME NEW i \in 1..Len(r), NEW j \in 1..Len(r), r[i].ev = r[j].ev
               PROVE  i = j
    OBVIOUS
  <2>1. i \in Nat /\ j \in Nat /\ p \in Nat
    BY <1>2, <1>3, <1>5
  <2> DEFINE K(n) == IF n < p THEN n ELSE n - 1
  <2>2. i # p => K(i) \in 1..Len(q) /\ r[i] = q[K(i)] /\ r[i].ev # e
    <3>1. i # p => K(i) \in 1..Len(q) /\ r[i] = q[K(i)]
      BY <1>11, <2>1
    <3> HIDE DEF K
    <3> QED BY <1>7, <3>1
  <2>3. j # p => K(j) \in 1..Len(q) /\ r[j] = q[K(j)] /\ r[j].ev # e
    <3>1. j # p => K(j) \in 1..Len(q) /\ r[j] = q[K(j)]
      BY <1>11, <2>1
    <3> HIDE DEF K
    <3> QED BY <1>7, <3>1
  <2>4. (i = p => r[i].ev = e) /\ (j = p => r[j].ev = e)
    BY <1>6, <1>11, <2>1
  <2>5. i # p /\ j # p => K(i) = K(j)
    <3> HIDE DEF K
    <3> QED BY <1>8, <2>2, <2>3
  <2> QED BY <2>1, <2>2, <2>3, <2>4, <2>5
<1>13. \A i, j \in 1..Len(r) : i <= j => r[i].when <= r[j].when
  <2> SUFFICES ASSUME NEW i \in 1..Len(r), NEW j \in 1..Len(r), i <= j
               PROVE  r[i].when <= r[j].when
    OBVIOUS
  <2>1. i \in Nat /\ j \in Nat /\ p \in Nat
    BY <1>2, <1>3, <1>5
  <2> DEFINE K(n) == IF n < p THEN n ELSE n - 1
  <2>2. i # p => K(i) \in 1..Len(q) /\ r[i] = q[K(i)]
    BY <1>11, <2>1
  <2>3. j # p => K(j) \in 1..Len(q) /\ r[j] = q[K(j)]
    BY <1>11, <2>1
  <2>4. CASE i # p /\ j # p
    <3>1. K(i) <= K(j)
      BY <2>1, <2>4
    <3> HIDE DEF K
    <3> QED BY <1>9, <2>2, <2>3, <2>4, <3>1
  <2>5. CASE i = p
    <3>1. r[i].when = w
      BY <1>6, <1>11, <2>1, <2>5
    <3>2. CASE j = p
      BY <2>5, <3>1, <3>2
    <3>3. CASE j > p
      <4>1. j - 1 \in 1..Len(q) /\ r[j].when = q[j - 1].when /\ q[j - 1].when >= w
        BY <1>11, <2>1, <3>3
      <4>2. q[j - 1].when \in Nat
        BY <1>2, <4>1, Zenon
      <4> QED BY <3>1, <4>1, <4>2
    <3> QED BY <2>1, <2>5, <3>2, <3>3
  <2>6. CASE j = p /\ i # p
    <3>1. i < p
      BY <2>1, <2>6
    <3>2. r[j].when = w /\ r[i].when < w
      BY <1>6, <1>11, <2>1, <2>6, <3>1
    <3>3. r[i].when \in Nat
      BY <1>2, <2>2, <2>6
    <3> QED BY <3>2, <3>3
  <2> QED BY <2>4, <2>5, <2>6
<1>14. GoodEvents(r)
  BY <1>5, <1>12, <1>13 DEF GoodEvents, T
<1>15. scheduled(r, e) /\ whenOf(r, e) = w
  <2>1. p \in 1..Len(r) /\ r[p] = x
    BY <1>2, <1>3, <1>5
  <2> QED BY <1>6, <1>14, <2>1, WhenOfFacts
<1>16. ASSUME NEW f \in Events \ {e}
       PROVE  Agree(q, r, f)
  <2>1. ASSUME NEW i \in 1..Len(q)
        PROVE  \E j \in 1..Len(r) : r[j] = q[i]
    <3>1. CASE i < p
      BY <1>2, <1>3, <1>5, <3>1
    <3>2. CASE i >= p
      <4>1. i + 1 \in 1..Len(r) /\ ~(i + 1 < p) /\ i + 1 # p /\ (i + 1) - 1 = i
        BY <1>2, <1>3, <1>5, <3>2
      <4> QED BY <1>5, <4>1
    <3> QED BY <1>2, <1>3, <3>1, <3>2
  <2>2. ASSUME NEW j \in 1..Len(r), r[j].ev = f
        PROVE  \E i \in 1..Len(q) : q[i] = r[j]
    BY <1>6, <1>11, <2>2
  <2> QED BY <1>14, <2>1, <2>2, SameEntries, Zenon
<1> QED BY <1>14, <1>15, <1>16 DEF With, r

\* An entry is removed.
LEMMA RemoveFacts ==
    ASSUME NEW q, GoodEvents(q), NEW p \in 1..Len(q)
    PROVE  Without(q, RemoveAt(q, p), q[p].ev)
<1> DEFINE T == [ev : Events, when : Nat]
           r == RemoveAt(q, p)
<1>1. q \in Seq(T) /\ Len(q) \in Nat /\ p \in Nat
  BY DEF GoodEvents
<1> HIDE DEF r, T
<1>2. /\ r \in Seq(T) /\ Len(r) = Len(q) - 1
      /\ \A j \in 1..(Len(q) - 1) : r[j] = IF j < p THEN q[j] ELSE q[j + 1]
  BY <1>1, RemoveAtFacts DEF r
<1>3. \A i, j \in 1..Len(q) : q[i].ev = q[j].ev => i = j
  BY DEF GoodEvents
<1>4. \A i, j \in 1..Len(q) : i <= j => q[i].when <= q[j].when
  BY DEF GoodEvents
<1>5. ASSUME NEW j \in 1..Len(r)
      PROVE  \/ j < p /\ j \in 1..Len(q) /\ r[j] = q[j]
             \/ j >= p /\ j + 1 \in 1..Len(q) /\ r[j] = q[j + 1]
  BY <1>1, <1>2
<1>6. \A i, j \in 1..Len(r) : r[i].ev = r[j].ev => i = j
  <2> SUFFICES ASSUME NEW i \in 1..Len(r), NEW j \in 1..Len(r), r[i].ev = r[j].ev
               PROVE  i = j
    OBVIOUS
  <2>1. i \in Nat /\ j \in Nat
    BY <1>1, <1>2
  <2> DEFINE K(n) == IF n < p THEN n ELSE n + 1
  <2>2. /\ K(i) \in 1..Len(q) /\ r[i] = q[K(i)]
        /\ K(j) \in 1..Len(q) /\ r[j] = q[K(j)]
    BY <1>1, <1>5, <2>1
  <2>3. K(i) = K(j)
    <3> HIDE DEF K
    <3> QED BY <1>3, <2>2
  <2> QED BY <1>1, <2>1, <2>3
<1>7. \A i, j \in 1..Len(r) : i <= j => r[i].when <= r[j].when
  <2> SUFFICES ASSUME NEW i \in 1..Len(r), NEW j \in 1..Len(r), i <= j
               PROVE  r[i].when <= r[j].when
    OBVIOUS
  <2>1. i \in Nat /\ j \in Nat
    BY <1>1, <1>2
  <2> DEFINE K(n) == IF n < p THEN n ELSE n + 1
  <2>2. /\ K(i) \in 1..Len(q) /\ r[i] = q[K(i)]
        /\ K(j) \in 1..Len(q) /\ r[j] = q[K(j)]
    BY <1>1, <1>5, <2>1
  <2>3. K(i) <= K(j)
    BY <1>1, <2>1
  <2> HIDE DEF K
  <2> QED BY <1>4, <2>2, <2>3
<1>8. GoodEvents(r)
  BY <1>2, <1>6, <1>7 DEF GoodEvents, T
<1>9. ~scheduled(r, q[p].ev)
  <2>1. ASSUME NEW j \in 1..Len(r), r[j].ev = q[p].ev
        PROVE  FALSE
    <3>1. j \in Nat
      BY <1>1, <1>2
    <3>2. PICK k \in 1..Len(q) : k # p /\ r[j] = q[k]
      BY <1>1, <1>5, <3>1
    <3> QED BY <1>3, <2>1, <3>2
  <2> QED BY <2>1 DEF scheduled
<1>10. ASSUME NEW f \in Events \ {q[p].ev}
       PROVE  Agree(q, r, f)
  <2>1. ASSUME NEW i \in 1..Len(q), q[i].ev = f
        PROVE  \E j \in 1..Len(r) : r[j] = q[i]
    <3>1. CASE i < p
      <4>1. i \in 1..Len(r) /\ i \in 1..(Len(q) - 1)
        BY <1>1, <1>2, <3>1
      <4> QED BY <1>2, <3>1, <4>1
    <3>2. CASE i > p
      <4>1. i - 1 \in 1..Len(r) /\ ~(i - 1 < p) /\ (i - 1) + 1 = i
        BY <1>1, <1>2, <3>2
      <4> QED BY <1>2, <4>1, Zenon
    <3> QED BY <1>1, <2>1, <3>1, <3>2
  <2>2. \A j \in 1..Len(r) : \E i \in 1..Len(q) : q[i] = r[j]
    BY <1>5
  <2>3. \A w : (\E i \in 1..Len(q) : q[i].ev = f /\ q[i].when = w)
               <=> (\E i \in 1..Len(r) : r[i].ev = f /\ r[i].when = w)
    BY <2>1, <2>2, ZenonT(60)
  <2> QED BY <1>8, <2>3, SameEntries, ZenonT(60)
<1> QED BY <1>8, <1>9, <1>10 DEF Without, r

\* A scheduled event is moved.
LEMMA RescheduleFacts ==
    ASSUME NEW q, GoodEvents(q), NEW e \in Events, NEW w \in Nat, scheduled(q, e)
    PROVE  With(q, reschedule(q, e, w), e, w)
<1>1. PICK p \in 1..Len(q) : q[p].ev = e /\ placeOf(q, e) = p
  BY EntryOf
<1> DEFINE q1 == RemoveAt(q, p)
           r == schedule(q1, e, w)
<1>2. Without(q, q1, e)
  BY <1>1, RemoveFacts
<1> HIDE DEF q1
<1>3. With(q1, r, e, w)
  BY <1>2, ScheduleFacts DEF Without
<1>4. reschedule(q, e, w) = r
  BY <1>1 DEF reschedule, q1
<1> HIDE DEF r
<1>5. \A f \in Events \ {e} : Agree(q, r, f)
  BY <1>2, <1>3 DEF With, Without, Agree
<1> QED BY <1>3, <1>4, <1>5 DEF With

\* The event at the head is served.
LEMMA TailFacts ==
    ASSUME NEW q, GoodEvents(q), q # <<>>
    PROVE  /\ Without(q, Tail(q), Head(q).ev)
           /\ scheduled(q, Head(q).ev) /\ whenOf(q, Head(q).ev) = Head(q).when
<1> DEFINE T == [ev : Events, when : Nat]
           r == RemoveAt(q, 1)
<1>1. q \in Seq(T) /\ Len(q) \in Nat
  BY DEF GoodEvents
<1>2. 1 \in 1..Len(q) /\ Head(q) = q[1]
  BY <1>1, SeqEmpty
<1>3. Without(q, r, Head(q).ev)
  BY <1>2, RemoveFacts
<1>4. Tail(q) = r
  <2>1. /\ r \in Seq(T) /\ Len(r) = Len(q) - 1
        /\ \A j \in 1..(Len(q) - 1) : r[j] = IF j < 1 THEN q[j] ELSE q[j + 1]
    BY <1>1, <1>2, RemoveAtFacts
  <2> HIDE DEF r, T
  <2>2. /\ Tail(q) \in Seq(T) /\ Len(Tail(q)) = Len(q) - 1
        /\ \A j \in 1..(Len(q) - 1) : Tail(q)[j] = q[j + 1]
    BY <1>1, SeqTail
  <2>3. \A j \in 1..Len(r) : Tail(q)[j] = r[j]
    BY <1>1, <2>1, <2>2
  <2> QED BY <2>1, <2>2, <2>3, SeqSame
<1> QED BY <1>2, <1>3, <1>4, WhenOfFacts, Zenon

\* A tick passes when no event is due.
LEMMA AdvanceFacts ==
    ASSUME NEW q, GoodEvents(q), ~Due(q)
    PROVE  /\ GoodEvents(Advance(q))
           /\ \A e \in Events :
                /\ scheduled(Advance(q), e) <=> scheduled(q, e)
                /\ scheduled(q, e) => /\ whenOf(q, e) \in Nat \ {0}
                                      /\ whenOf(Advance(q), e) = whenOf(q, e) - 1
<1> DEFINE T == [ev : Events, when : Nat]
           r == Advance(q)
<1>1. q \in Seq(T)
  BY DEF GoodEvents
<1>2. /\ Len(q) \in Nat
      /\ \A i \in 1..Len(q) : q[i] \in T /\ q[i].ev \in Events /\ q[i].when \in Nat
  BY <1>1, EntryTypes, Zenon
<1>3. \A i \in 1..Len(q) : q[i].when \in Nat \ {0}
  <2> SUFFICES ASSUME NEW i \in 1..Len(q)
               PROVE  q[i].when # 0
    BY <1>2
  <2>1. q # <<>> /\ Head(q) = q[1] /\ 1 \in 1..Len(q) /\ 1 <= i
    BY <1>1, <1>2, SeqEmpty
  <2>2. q[1].when # 0
    BY <2>1 DEF Due
  <2>3. q[1].when <= q[i].when
    BY <2>1 DEF GoodEvents
  <2> QED BY <1>2, <2>1, <2>2, <2>3
<1>4. r = [i \in 1..Len(q) |-> [q[i] EXCEPT !.when = q[i].when - 1]]
  BY DEF Advance
<1> HIDE DEF r
<1>5. \A i \in 1..Len(q) : /\ r[i] \in T /\ r[i].ev = q[i].ev
                           /\ r[i].when = q[i].when - 1
  BY <1>2, <1>3, <1>4
<1>6. r \in Seq(T) /\ Len(r) = Len(q)
  <2> HIDE DEF T
  <2>1. r \in [1..Len(q) -> T]
    BY <1>4, <1>5
  <2> QED BY <1>2, <2>1, SeqIs, SeqLength
<1>7. GoodEvents(r)
  <2>1. \A i, j \in 1..Len(r) : r[i].ev = r[j].ev => i = j
    BY <1>5, <1>6 DEF GoodEvents
  <2>2. \A i, j \in 1..Len(r) : i <= j => r[i].when <= r[j].when
    <3> SUFFICES ASSUME NEW i \in 1..Len(q), NEW j \in 1..Len(q), i <= j
                 PROVE  r[i].when <= r[j].when
      BY <1>6
    <3>1. q[i].when <= q[j].when
      BY DEF GoodEvents
    <3> QED BY <1>2, <1>5, <3>1
  <2> QED BY <1>6, <2>1, <2>2, Zenon DEF GoodEvents
<1>8. ASSUME NEW e \in Events
      PROVE  /\ scheduled(r, e) <=> scheduled(q, e)
             /\ scheduled(q, e) => /\ whenOf(q, e) \in Nat \ {0}
                                   /\ whenOf(r, e) = whenOf(q, e) - 1
  <2>1. scheduled(r, e) <=> scheduled(q, e)
    BY <1>5, <1>6, ZenonT(60) DEF scheduled
  <2>2. ASSUME scheduled(q, e)
        PROVE  whenOf(q, e) \in Nat \ {0} /\ whenOf(r, e) = whenOf(q, e) - 1
    <3>1. PICK i \in 1..Len(q) : q[i].ev = e /\ whenOf(q, e) = q[i].when
      BY <2>2, EntryOf
    <3>2. i \in 1..Len(r) /\ r[i].ev = e
      BY <1>5, <1>6, <3>1
    <3>3. whenOf(r, e) = r[i].when
      BY <1>7, <3>2, WhenOfFacts
    <3> QED BY <1>3, <1>5, <3>1, <3>3
  <2> QED BY <2>1, <2>2
<1> QED BY <1>7, <1>8 DEF r

----------------------------------------------------------------------------
(* The state of a Cache *)

Fields == {"req", "resp", "queue", "events", "mshr", "ready", "wbuf", "answered",
           "gate", "noTarget", "source", "arrived", "abort"}
Gate == [causes : SUBSET Cause, blocked : BOOLEAN, mustSendRetry : BOOLEAN]
Answers == [list : Seq([pkt : Source, tick : Nat]), waiting : BOOLEAN]
Above == [held : Packet \union {NoPacket}, waiting : BOOLEAN]

Typed(S) ==
    /\ DOMAIN S = Fields
    /\ S.req \in Layer(Source) /\ S.resp \in Layer({Port})
    /\ S.queue \in [Tc -> Answers] /\ GoodEvents(S.events)
    /\ S.mshr \in [Line -> MSHRType(Source)]
    /\ S.ready \in [Tc -> Seq(Line)]
    /\ S.wbuf \in [Tc -> Seq([line : Line, tick : Nat])]
    /\ S.gate \in Gate /\ S.noTarget \in Line \union {NoLine}
    /\ S.source \in [Source -> Above] /\ S.arrived \in [Line -> Seq(Source)]

\* What a handler leaves alone.
SameMisses(R, S) == R.mshr = S.mshr /\ R.ready = S.ready /\ R.arrived = S.arrived
SameRequests(R, S) == R.req = S.req /\ R.source = S.source
SameAnswers(R, S) == R.queue = S.queue /\ R.resp = S.resp

\* A Cache has one compartment.
LEMMA OneQueue ==
    ASSUME ~SplitRPort
    PROVE  Tc = {0} /\ \A x \in Source \union Line : tc[x] = 0
BY PortAssumption, ZenonT(60)

\* setBlocked raises a cause.
LEMMA SetBlockedFacts ==
    ASSUME ~SplitRPort, NEW S, Typed(S), NEW cause \in Cause
    PROVE  LET R == setBlocked(S, cause)
           IN  /\ Typed(R) /\ SameMisses(R, S) /\ SameRequests(R, S)
               /\ SameAnswers(R, S) /\ R.events = S.events /\ R.wbuf = S.wbuf
               /\ R.noTarget = S.noTarget /\ R.abort = S.abort
               /\ R.gate = [causes |-> S.gate.causes \union {cause}, blocked |-> TRUE,
                            mustSendRetry |-> S.gate.mustSendRetry]
<1> DEFINE R == setBlocked(S, cause)
           g == [causes |-> S.gate.causes \union {cause}, blocked |-> TRUE,
                 mustSendRetry |-> S.gate.mustSendRetry]
<1>1. DOMAIN S = Fields /\ S.gate \in Gate
  BY DEF Typed
<1>2. R = [S EXCEPT !.gate = g]
  BY DEF setBlocked
<1>3. g \in Gate
  BY <1>1 DEF Gate
<1> HIDE DEF R, g
<1>4. /\ DOMAIN R = Fields /\ R.gate = g
      /\ SameMisses(R, S) /\ SameRequests(R, S)
      /\ SameAnswers(R, S) /\ R.events = S.events /\ R.wbuf = S.wbuf
      /\ R.noTarget = S.noTarget /\ R.abort = S.abort
  BY <1>1, <1>2 DEF Fields, SameMisses, SameRequests, SameAnswers
<1>5. Typed(R)
  BY <1>3, <1>4, Zenon DEF Typed, SameMisses, SameRequests, SameAnswers
<1> QED BY <1>4, <1>5, ZenonT(60) DEF R, g

\* clearBlocked of a blocked cache drops a cause.  The assertion that the retry
\* is not scheduled already is the only one that may fail.
LEMMA ClearBlockedFacts ==
    ASSUME NEW S, Typed(S), S.abort = "no", S.gate.blocked, NEW cause \in Cause
    PROVE  LET R == clearBlocked(S, cause)
           IN  /\ Typed(R) /\ SameMisses(R, S) /\ SameRequests(R, S)
               /\ SameAnswers(R, S) /\ R.wbuf = S.wbuf /\ R.noTarget = S.noTarget
               /\ R.abort \in {"no", "schedule"}
               /\ R.abort = "no" => /\ R.gate.causes = S.gate.causes \ {cause}
                                    /\ R.gate.blocked <=> R.gate.causes # {}
               /\ \A e \in Events \ {"sendRetry"} : Agree(S.events, R.events, e)
<1> DEFINE R == clearBlocked(S, cause)
           g1 == [S.gate EXCEPT !.causes = S.gate.causes \ {cause}]
           g2 == [g1 EXCEPT !.blocked = FALSE]
           g3 == [causes |-> {}, blocked |-> FALSE, mustSendRetry |-> FALSE]
           S1 == [S EXCEPT !.gate = g1]
           Frame(X) == /\ DOMAIN X = Fields /\ SameMisses(X, S) /\ SameRequests(X, S)
                       /\ SameAnswers(X, S) /\ X.wbuf = S.wbuf
                       /\ X.noTarget = S.noTarget
<1>1. DOMAIN S = Fields /\ S.gate \in Gate /\ GoodEvents(S.events)
  BY DEF Typed
<1>2. /\ g1 \in Gate /\ g1.causes = S.gate.causes \ {cause} /\ g1.blocked
      /\ g1.mustSendRetry = S.gate.mustSendRetry
  BY <1>1 DEF Gate
<1>3. g2 \in Gate /\ g2.causes = g1.causes /\ ~g2.blocked
  BY <1>2, Zenon DEF Gate
<1>4. g3 \in Gate /\ g3.causes = {} /\ ~g3.blocked
  BY DEF Gate
<1>5. S1 = [S EXCEPT !.gate.causes = S.gate.causes \ {cause}]
  BY <1>1 DEF Fields
<1> HIDE DEF g1, g2, g3
<1>6. /\ Frame(S1) /\ S1.gate = g1 /\ S1.events = S.events /\ S1.abort = "no"
  BY <1>1 DEF Fields, SameMisses, SameRequests, SameAnswers
<1>7. R = IF g1.causes # {} THEN S1
          ELSE IF ~g1.mustSendRetry THEN [S1 EXCEPT !.gate.blocked = FALSE]
          ELSE IF scheduled(S1.events, "sendRetry") THEN Fail(S1, "schedule")
          ELSE [S1 EXCEPT !.gate = g3, !.events = schedule(S1.events, "sendRetry", 1)]
  BY <1>2, <1>5, <1>6, ZenonT(60) DEF clearBlocked, g3
<1> HIDE DEF S1, R
<1>8. ASSUME NEW X, Frame(X), X.gate \in Gate, GoodEvents(X.events)
      PROVE  Typed(X)
  BY <1>8, Zenon DEF Typed, SameMisses, SameRequests, SameAnswers
<1>9. \A e \in Events : Agree(S.events, S.events, e)
  BY DEF Agree
<1>10. CASE g1.causes # {}
  <2>1. R = S1
    BY <1>7, <1>10
  <2> QED BY <1>1, <1>2, <1>6, <1>8, <1>9, <1>10, <2>1 DEF R
<1>11. CASE g1.causes = {} /\ ~g1.mustSendRetry
  <2>1. R = [S1 EXCEPT !.gate.blocked = FALSE]
    BY <1>7, <1>11
  <2>2. /\ Frame(R) /\ R.gate = g2 /\ R.events = S.events /\ R.abort = "no"
    BY <1>6, <2>1, ZenonT(60) DEF Fields, SameMisses, SameRequests, SameAnswers, g2
  <2> QED BY <1>1, <1>2, <1>3, <1>8, <1>9, <1>11, <2>2, Zenon DEF R
<1>12. CASE /\ g1.causes = {} /\ g1.mustSendRetry
            /\ scheduled(S1.events, "sendRetry")
  <2>1. R = [S1 EXCEPT !.abort = "schedule"]
    BY <1>7, <1>12 DEF Fail
  <2>2. /\ Frame(R) /\ R.gate = g1 /\ R.events = S.events /\ R.abort = "schedule"
    BY <1>6, <2>1 DEF Fields, SameMisses, SameRequests, SameAnswers
  <2> QED BY <1>1, <1>2, <1>8, <1>9, <2>2 DEF R
<1>13. CASE /\ g1.causes = {} /\ g1.mustSendRetry
            /\ ~scheduled(S1.events, "sendRetry")
  <2> DEFINE ev == schedule(S1.events, "sendRetry", 1)
  <2>1. R = [S1 EXCEPT !.gate = g3, !.events = ev]
    BY <1>7, <1>13, ZenonT(60)
  <2>2. With(S.events, ev, "sendRetry", 1)
    <3>1. "sendRetry" \in Events /\ 1 \in Nat
      BY DEF Events
    <3> QED BY <1>1, <1>6, <1>13, <3>1, ScheduleFacts
  <2> HIDE DEF ev
  <2>3. /\ Frame(R) /\ R.gate = g3 /\ R.events = ev /\ R.abort = "no"
    BY <1>6, <2>1, ZenonT(60) DEF Fields, SameMisses, SameRequests, SameAnswers
  <2>4. Typed(R)
    BY <1>4, <1>8, <2>2, <2>3, ZenonT(60) DEF With
  <2>5. R.gate.causes = S.gate.causes \ {cause} /\ (R.gate.blocked <=> R.gate.causes # {})
    BY <1>2, <1>4, <1>13, <2>3
  <2> QED BY <2>2, <2>3, <2>4, <2>5, Zenon DEF With, R
<1> QED BY <1>10, <1>11, <1>12, <1>13, Zenon

----------------------------------------------------------------------------
(* MSHRs *)

\* a lists the requesters of the targets and the deferred targets, in order.
InOrder(m, a) ==
    /\ Len(a) = Len(m.targets) + Len(m.deferred)
    /\ \A i \in 1..Len(m.targets) : a[i] = m.targets[i].src
    /\ \A i \in 1..Len(m.deferred) : a[Len(m.targets) + i] = m.deferred[i].src

\* What is true of an MSHR: a free one is empty, targets are deferred only while
\* a request is out that may bring a shared copy, and no target of such a request
\* needs an exclusive one.
LineOK(m, a) ==
    /\ m.targets = <<>> => m.deferred = <<>> /\ ~m.inService
    /\ m.deferred # <<>> => m.inService /\ ~m.pendingDirty
    /\ m.inService /\ ~m.pendingDirty => ~needsExclusive(m.targets)
    /\ InOrder(m, a)

\* The fields of an MSHR.
LEMMA MSHRFields ==
    ASSUME NEW m \in MSHRType(Source)
    PROVE  /\ m.targets \in Seq(Target(Source)) /\ m.deferred \in Seq(Target(Source))
           /\ m.inService \in BOOLEAN /\ m.pendingDirty \in BOOLEAN
           /\ Len(m.targets) \in Nat /\ Len(m.deferred) \in Nat
           /\ getNumTargets(m) \in Nat
<1>1. /\ m.targets \in Seq(Target(Source)) /\ m.deferred \in Seq(Target(Source))
      /\ m.inService \in BOOLEAN /\ m.pendingDirty \in BOOLEAN
  BY DEF MSHRType
<1> DEFINE nt == Len(m.targets)
           nd == Len(m.deferred)
<1>2. nt \in Nat /\ nd \in Nat
  BY <1>1, SeqLength
<1>3. getNumTargets(m) = nt + nd
  BY DEF getNumTargets
<1> HIDE DEF nt, nd
<1>4. getNumTargets(m) \in Nat
  BY <1>2, <1>3
<1> QED BY <1>1, <1>2, <1>4 DEF nt, nd

\* A list with one more exclusive target, or none, needs an exclusive copy or not.
LEMMA ExclusiveAppend ==
    ASSUME NEW T, NEW list \in Seq(T), NEW t \in T, ~needsExclusive(list), ~t.ex
    PROVE  ~needsExclusive(Append(list, t))
<1> DEFINE r == Append(list, t)
<1>1. /\ Len(r) = Len(list) + 1 /\ Len(list) \in Nat
      /\ \A i \in 1..Len(list) : r[i] = list[i]
      /\ r[Len(list) + 1] = t
  BY SeqAppend
<1> HIDE DEF r
<1>2. ASSUME NEW i \in 1..Len(r)
      PROVE  ~r[i].ex
  <2>1. CASE i \in 1..Len(list)
    BY <1>1, <2>1 DEF needsExclusive
  <2>2. CASE i = Len(list) + 1
    BY <1>1, <2>2
  <2> QED BY <1>1, <2>1, <2>2
<1> QED BY <1>2 DEF needsExclusive, r

\* A free MSHR, and one that was just allocated.
LEMMA FreeIsOK ==
    /\ FreeMSHR \in MSHRType(Source) /\ LineOK(FreeMSHR, <<>>)
    /\ getNumTargets(FreeMSHR) = 0 /\ ~Allocated(FreeMSHR)
<1>1. <<>> \in Seq(Target(Source)) /\ Len(<<>>) = 0
  OBVIOUS
<1>2. /\ FreeMSHR.targets = <<>> /\ FreeMSHR.deferred = <<>>
      /\ FreeMSHR.inService = FALSE /\ FreeMSHR.pendingDirty = FALSE
  BY DEF FreeMSHR
<1>3. FreeMSHR \in MSHRType(Source)
  BY <1>1 DEF FreeMSHR, MSHRType
<1>4. LineOK(FreeMSHR, <<>>)
  BY <1>1, <1>2 DEF LineOK, InOrder
<1> QED BY <1>1, <1>2, <1>3, <1>4 DEF getNumTargets, Allocated

\* allocate.
LEMMA AllocateIsOK ==
    ASSUME NEW t \in Target(Source)
    PROVE  /\ allocate(t) \in MSHRType(Source) /\ LineOK(allocate(t), <<t.src>>)
           /\ getNumTargets(allocate(t)) = 1 /\ Allocated(allocate(t))
           /\ ~allocate(t).inService
<1> DEFINE m == allocate(t)
<1>1. /\ m.targets = <<t>> /\ m.deferred = <<>>
      /\ m.inService = FALSE /\ m.pendingDirty = FALSE
  BY DEF allocate, FreeMSHR
<1>2. /\ <<t>> \in Seq(Target(Source)) /\ Len(<<t>>) = 1 /\ <<t>>[1] = t
      /\ <<t>> # <<>> /\ <<>> \in Seq(Target(Source)) /\ Len(<<>>) = 0
      /\ Len(<<t.src>>) = 1 /\ <<t.src>>[1] = t.src
  OBVIOUS
<1>3. m \in MSHRType(Source)
  BY <1>2, FreeIsOK, Zenon DEF MSHRType, allocate
<1> HIDE DEF m
<1>4. LineOK(m, <<t.src>>)
  BY <1>1, <1>2, SMTT(60) DEF LineOK, InOrder
<1> QED BY <1>1, <1>2, <1>3, <1>4 DEF getNumTargets, Allocated, m

\* allocateTarget: a target more, at the end.
LEMMA AllocateTargetIsOK ==
    ASSUME NEW m \in MSHRType(Source), NEW a \in Seq(Source), LineOK(m, a),
           NEW t \in Target(Source), Allocated(m)
    PROVE  LET r == allocateTarget(m, t)
           IN  /\ r \in MSHRType(Source) /\ LineOK(r, Append(a, t.src))
               /\ getNumTargets(r) = getNumTargets(m) + 1
               /\ Allocated(r) /\ r.inService = m.inService
<1> DEFINE r == allocateTarget(m, t)
           b == Append(a, t.src)
           late == m.inService /\ (m.deferred # <<>> \/ (t.ex /\ ~m.pendingDirty))
           nt == Len(m.targets)
           nd == Len(m.deferred)
           na == Len(a)
<1>1. /\ m.targets \in Seq(Target(Source)) /\ m.deferred \in Seq(Target(Source))
      /\ m.inService \in BOOLEAN /\ m.pendingDirty \in BOOLEAN
  BY MSHRFields
<1>2. t.src \in Source /\ t.ex \in BOOLEAN
  BY DEF Target
<1>3. nt \in Nat /\ nd \in Nat /\ na \in Nat /\ na = nt + nd
  <2>1. na = nt + nd
    BY DEF LineOK, InOrder
  <2>2. nt \in Nat /\ nd \in Nat
    BY MSHRFields
  <2>3. na \in Nat
    BY SeqLength
  <2> QED BY <2>1, <2>2, <2>3, Zenon
<1>4. /\ \A i \in 1..nt : a[i] = m.targets[i].src
      /\ \A i \in 1..nd : a[nt + i] = m.deferred[i].src
  BY Zenon DEF LineOK, InOrder
<1>5. getNumTargets(m) = nt + nd
  BY DEF getNumTargets
<1>6. /\ Len(b) = na + 1 /\ \A i \in 1..na : b[i] = a[i]
      /\ b[na + 1] = t.src
  BY <1>2, SeqAppend
<1> HIDE DEF b, nt, nd, na
<1>7. CASE late
  <2> DEFINE d == Append(m.deferred, t)
  <2>1. r = [m EXCEPT !.deferred = d]
    BY <1>7, ZenonT(60) DEF allocateTarget
  <2>2. /\ d \in Seq(Target(Source)) /\ d # <<>> /\ Len(d) = nd + 1
        /\ \A i \in 1..nd : d[i] = m.deferred[i]
        /\ d[nd + 1] = t
    BY <1>1, SeqAppend DEF nd
  <2> HIDE DEF d, r
  <2>3. /\ r \in MSHRType(Source) /\ r.targets = m.targets /\ r.deferred = d
        /\ r.inService = m.inService /\ r.pendingDirty = m.pendingDirty
    BY <2>1, <2>2, Zenon DEF MSHRType
  <2>4. Len(r.targets) = nt /\ Len(r.deferred) = nd + 1
    BY <2>2, <2>3, ZenonT(60) DEF nt
  <2>5. InOrder(r, b)
    <3>1. ASSUME NEW i \in 1..nt
          PROVE  b[i] = m.targets[i].src
      <4>1. i \in 1..na
        BY <1>3
      <4> QED BY <1>4, <1>6, <4>1
    <3>2. ASSUME NEW i \in 1..(nd + 1)
          PROVE  b[nt + i] = d[i].src
      <4>1. CASE i \in 1..nd
        <5>1. nt + i \in 1..na
          BY <1>3, <4>1
        <5> QED BY <1>4, <1>6, <2>2, <4>1, <5>1
      <4>2. CASE i = nd + 1
        <5>1. nt + i = na + 1
          BY <1>3, <4>2
        <5> QED BY <1>6, <2>2, <4>2, <5>1
      <4> QED BY <1>3, <4>1, <4>2
    <3>3. Len(b) = nt + (nd + 1)
      BY <1>3, <1>6
    <3> QED BY <2>3, <2>4, <3>1, <3>2, <3>3, ZenonT(60) DEF InOrder
  <2>6. LineOK(r, b)
    BY <1>7, <2>2, <2>3, <2>5 DEF LineOK, Allocated
  <2>7. getNumTargets(r) = getNumTargets(m) + 1
    <3>1. getNumTargets(r) = nt + (nd + 1)
      BY <2>4, ZenonT(60) DEF getNumTargets
    <3> QED BY <1>3, <1>5, <3>1
  <2> QED BY <2>3, <2>6, <2>7 DEF Allocated, r, b
<1>8. CASE ~late
  <2> DEFINE d == Append(m.targets, t)
  <2>1. r = [m EXCEPT !.targets = d]
    BY <1>8, ZenonT(60) DEF allocateTarget
  <2>2. /\ d \in Seq(Target(Source)) /\ d # <<>> /\ Len(d) = nt + 1
        /\ \A i \in 1..nt : d[i] = m.targets[i]
        /\ d[nt + 1] = t
    BY <1>1, SeqAppend DEF nt
  <2>3. m.inService /\ ~m.pendingDirty => ~needsExclusive(d)
    <3>1. m.inService /\ ~m.pendingDirty => ~t.ex /\ ~needsExclusive(m.targets)
      BY <1>8 DEF LineOK
    <3> QED BY <1>1, <3>1, ExclusiveAppend, ZenonT(60)
  <2> HIDE DEF d, r
  <2>4. /\ r \in MSHRType(Source) /\ r.targets = d /\ r.deferred = m.deferred
        /\ r.inService = m.inService /\ r.pendingDirty = m.pendingDirty
    BY <2>1, <2>2, Zenon DEF MSHRType
  <2>5. m.deferred = <<>> /\ nd = 0
    <3>1. m.deferred = <<>>
      BY <1>8 DEF LineOK
    <3> QED BY <3>1, ZenonT(60) DEF nd
  <2>6. Len(r.targets) = nt + 1 /\ Len(r.deferred) = nd
    BY <2>2, <2>4 DEF nd
  <2>7. InOrder(r, b)
    <3>1. ASSUME NEW i \in 1..(nt + 1)
          PROVE  b[i] = d[i].src
      <4>1. CASE i \in 1..nt
        <5>1. i \in 1..na
          BY <1>3, <4>1
        <5> QED BY <1>4, <1>6, <2>2, <4>1, <5>1
      <4>2. CASE i = nt + 1
        <5>1. i = na + 1
          BY <1>3, <2>5, <4>2
        <5> QED BY <1>6, <2>2, <4>2, <5>1
      <4> QED BY <1>3, <4>1, <4>2
    <3>2. Len(b) = (nt + 1) + nd
      BY <1>3, <1>6
    <3>3. 1..nd = {}
      BY <2>5, SMTT(60)
    <3> QED BY <2>4, <2>6, <3>1, <3>2, <3>3, ZenonT(60) DEF InOrder
  <2>8. LineOK(r, b)
    BY <2>2, <2>3, <2>4, <2>5, <2>7 DEF LineOK
  <2>9. getNumTargets(r) = getNumTargets(m) + 1
    <3>1. getNumTargets(r) = (nt + 1) + nd
      BY <2>6, ZenonT(60) DEF getNumTargets
    <3> QED BY <1>3, <1>5, <3>1
  <2> QED BY <2>2, <2>4, <2>8, <2>9 DEF Allocated, r, b
<1> QED BY <1>7, <1>8

\* markInService.
LEMMA MarkInServiceIsOK ==
    ASSUME NEW m \in MSHRType(Source), NEW a, LineOK(m, a), Allocated(m),
           ~m.inService, NEW owned \in BOOLEAN
    PROVE  LET r == markInService(m, owned)
           IN  /\ r \in MSHRType(Source) /\ LineOK(r, a) /\ Allocated(r)
               /\ getNumTargets(r) = getNumTargets(m)
<1> DEFINE r == markInService(m, owned)
           x == needsExclusive(m.targets) \/ owned
<1>1. x \in BOOLEAN
  BY DEF needsExclusive
<1>2. r = [m EXCEPT !.inService = TRUE, !.pendingDirty = x]
  BY DEF markInService
<1>3. ~x => ~needsExclusive(m.targets)
  OBVIOUS
<1> HIDE DEF x, r
<1>4. /\ r.targets = m.targets /\ r.deferred = m.deferred
      /\ r.inService = TRUE /\ r.pendingDirty = x
  BY <1>2 DEF MSHRType
<1>5. r \in MSHRType(Source)
  BY <1>1, <1>2, Zenon DEF MSHRType
<1>6. m.deferred = <<>>
  BY ZenonT(60) DEF LineOK
<1>7. LineOK(r, a)
  BY <1>3, <1>4, <1>6, ZenonT(60) DEF LineOK, InOrder, Allocated
<1> QED BY <1>4, <1>5, <1>7 DEF Allocated, getNumTargets, r

\* The end of a miss: the targets that the fill serves are answered, the others
\* wait again.  The assertion in handleFill holds.
LEMMA FillIsOK ==
    ASSUME NEW m \in MSHRType(Source), NEW a \in Seq(Source), LineOK(m, a),
           m.inService, NEW shared \in BOOLEAN
    PROVE  LET f == handleFill(m, shared)
               r == promoteDeferredTargets(f)
               b == SubSeq(a, Len(f.targets) + 1, Len(a))
           IN  /\ ~(PromotedByFill(m, shared) /\ needsExclusive(m.targets))
               /\ f \in MSHRType(Source) /\ r \in MSHRType(Source)
               /\ b \in Seq(Source) /\ LineOK(r, b)
               /\ getNumTargets(r) < getNumTargets(m)
               /\ Allocated(r) <=> f.deferred # <<>>
               /\ ~r.inService
<1> DEFINE f == handleFill(m, shared)
           r == promoteDeferredTargets(f)
           b == SubSeq(a, Len(f.targets) + 1, Len(a))
           nt == Len(m.targets)
           nd == Len(m.deferred)
           na == Len(a)
<1>1. m.targets \in Seq(Target(Source)) /\ m.deferred \in Seq(Target(Source))
  BY MSHRFields
<1>2. nt \in Nat \ {0} /\ nd \in Nat /\ na \in Nat /\ na = nt + nd
  <2>1. na = nt + nd
    BY DEF LineOK, InOrder
  <2>2. nt \in Nat /\ nd \in Nat
    BY MSHRFields
  <2>3. na \in Nat
    BY SeqLength
  <2>4. nt # 0
    BY <1>1, SeqEmpty DEF LineOK
  <2> QED BY <2>1, <2>2, <2>3, <2>4, ZenonT(60)
<1>3. \A i \in 1..nd : a[nt + i] = m.deferred[i].src
  BY Zenon DEF LineOK, InOrder
<1>4. getNumTargets(m) = nt + nd
  BY DEF getNumTargets
<1>5. r = [FreeMSHR EXCEPT !.targets = f.deferred]
  BY DEF promoteDeferredTargets
<1> HIDE DEF f, r, nt, nd, na
<1>6. ASSUME f.deferred \in Seq(Target(Source))
      PROVE  /\ r \in MSHRType(Source) /\ r.targets = f.deferred
             /\ r.deferred = <<>> /\ ~r.inService
    <2>1. r \in MSHRType(Source)
      BY <1>5, <1>6, FreeIsOK, ZenonT(60) DEF MSHRType
    <2> QED BY <1>5, <2>1 DEF FreeMSHR
<1>7. ~(PromotedByFill(m, shared) /\ needsExclusive(m.targets))
  <2>1. CASE m.deferred = <<>>
    <3>1. 1..Len(m.deferred) = {}
      BY <2>1
    <3> QED BY <3>1 DEF PromotedByFill, needsExclusive
  <2>2. CASE m.deferred # <<>>
    BY <2>2, ZenonT(60) DEF LineOK
  <2> QED BY <2>1, <2>2, ZenonT(60)
<1>8. CASE PromotedByFill(m, shared)
  <2> DEFINE all == m.targets \o m.deferred
  <2>1. f = [m EXCEPT !.targets = all, !.deferred = <<>>]
    BY <1>8 DEF handleFill, f
  <2>2. all \in Seq(Target(Source)) /\ Len(all) = na
    BY <1>1, <1>2, SeqConcat DEF nt, nd
  <2> HIDE DEF all
  <2>3. f \in MSHRType(Source) /\ f.targets = all /\ f.deferred = <<>>
    <3>1. <<>> \in Seq(Target(Source))
      OBVIOUS
    <3> QED BY <2>1, <2>2, <3>1, Zenon DEF MSHRType
  <2>4. b = <<>>
    <3>1. b = SubSeq(a, na + 1, na)
      BY <2>2, <2>3 DEF na
    <3>2. na + 1 \in Int /\ na \in Int /\ na + 1 > na
      BY <1>2
    <3> HIDE DEF b
    <3> QED BY <3>1, <3>2, SeqNoPart
  <2>5. /\ r \in MSHRType(Source) /\ r.targets = <<>>
        /\ r.deferred = <<>> /\ ~r.inService
    BY <1>6, <2>3
  <2>6. LineOK(r, b)
    <3>1. LineOK(r, <<>>)
      <4>1. Len(<<>>) = 0
        OBVIOUS
      <4> QED BY <2>5, <4>1 DEF LineOK, InOrder
    <3> HIDE DEF b
    <3> QED BY <2>4, <3>1, ZenonT(60)
  <2>7. getNumTargets(r) = 0
    BY <2>5 DEF getNumTargets
  <2>8. getNumTargets(r) < getNumTargets(m)
    <3> DEFINE n == getNumTargets(m)
    <3>1. n \in Nat /\ n > 0
      BY <1>2, <1>4
    <3> HIDE DEF n
    <3>2. 0 < n
      BY <3>1, ZenonT(60)
    <3> QED BY <2>7, <3>2, Zenon DEF n
  <2> QED BY <1>7, <2>3, <2>4, <2>5, <2>6, <2>8 DEF Allocated, r, f
<1>9. CASE ~PromotedByFill(m, shared)
  <2>1. f = m
    BY <1>9 DEF handleFill, f
  <2>2. /\ r \in MSHRType(Source) /\ r.targets = m.deferred
        /\ r.deferred = <<>> /\ ~r.inService
    BY <1>1, <1>6, <2>1
  <2>3. b = SubSeq(a, nt + 1, na)
    BY <2>1, Zenon DEF nt, na
  <2>4. /\ b \in Seq(Source) /\ Len(b) = nd
        /\ \A i \in 1..nd : b[i] = a[nt + i]
    <3> DEFINE k == nt + 1
    <3> HIDE DEF b
    <3>0. k \in Int /\ na \in Int
      BY <1>2
    <3>1. /\ na - k + 1 = nd
          /\ (IF k <= na THEN na - k + 1 ELSE 0) = nd
          /\ \A i \in 1..nd : k + i - 1 = nt + i
          /\ \A i \in k..na : i \in 1..na
      BY <1>2
    <3>2. \A i \in k..na : a[i] \in Source
      BY <3>1, SeqElement, ZenonT(60) DEF na
    <3>3. b = SubSeq(a, k, na)
      BY <2>3, ZenonT(60)
    <3> HIDE DEF k
    <3>4. /\ SubSeq(a, k, na) \in Seq(Source)
          /\ Len(SubSeq(a, k, na)) = IF k <= na THEN na - k + 1 ELSE 0
          /\ \A i \in 1..(na - k + 1) : SubSeq(a, k, na)[i] = a[k + i - 1]
      BY <3>0, <3>2, SeqPart
    <3> QED BY <3>1, <3>3, <3>4, ZenonT(60)
  <2> HIDE DEF b
  <2>5. Len(r.targets) = nd /\ Len(r.deferred) = 0
    BY <2>2, ZenonT(60) DEF nd
  <2>6. InOrder(r, b)
    <3>1. \A i \in 1..nd : b[i] = r.targets[i].src
      BY <1>3, <2>2, <2>4, ZenonT(60)
    <3>2. Len(b) = nd + 0 /\ 1..0 = {}
      BY <1>2, <2>4, SMTT(60)
    <3> QED BY <2>5, <3>1, <3>2, ZenonT(60) DEF InOrder
  <2>7. LineOK(r, b)
    BY <2>2, <2>6 DEF LineOK
  <2>8. getNumTargets(r) < getNumTargets(m)
    <3>1. getNumTargets(r) = nd
      BY <1>2, <2>5 DEF getNumTargets
    <3> QED BY <1>2, <1>4, <3>1
  <2> QED BY <1>7, <2>1, <2>2, <2>4, <2>7, <2>8 DEF Allocated, r, f, b
<1> QED BY <1>8, <1>9

----------------------------------------------------------------------------
(* The queues of the cache and the blocking of its port *)

\* Lines in the ready list r wait for their request to be sent.
ReadyOK(m, r) ==
    /\ \A i, j \in 1..Len(r) : r[i] = r[j] => i = j
    /\ \A i \in 1..Len(r) : Allocated(m[r[i]]) /\ ~m[r[i]].inService

Misses(S) ==
    /\ \A l \in Line : LineOK(S.mshr[l], S.arrived[l])
    /\ ReadyOK(S.mshr, S.ready[0])

\* The causes g for which the cache is blocked, of MSHRs m and write buffer w.
AllocatedLines(m) == {l \in Line : Allocated(m[l])}
MissFull(m) == AtLeast(MSHRs, AllocatedLines(m))
Full(m, w, g, n) ==
    /\ "NoMSHRs" \in g.causes <=> MissFull(m)
    /\ "NoWBBuffers" \in g.causes <=> Len(w) >= WriteBuffers
    /\ "NoTargets" \in g.causes <=> n # NoLine
    /\ g.blocked <=> g.causes # {}
    /\ \A l \in Line : /\ l = n <=> getNumTargets(m[l]) >= numTarget
                       /\ getNumTargets(m[l]) <= numTarget
Blocks(S) == Full(S.mshr, S.wbuf[0], S.gate, S.noTarget)

\* isFull of the MSHR queue of a Cache.
LEMMA MissFullIs ==
    ASSUME ~SplitRPort, NEW S
    PROVE  missFull(S, 0) <=> MissFull(S.mshr)
<1>1. {l \in Line : tc[l] = 0 /\ Allocated(S.mshr[l])} = AllocatedLines(S.mshr)
  BY OneQueue DEF AllocatedLines
<1> QED BY <1>1, ZenonT(60) DEF missFull, MissFull

\* A queue with more MSHRs allocated is full, too.
LEMMA MissFullGrows ==
    ASSUME NEW m, NEW n, AllocatedLines(m) \subseteq AllocatedLines(n), MissFull(m)
    PROVE  MissFull(n)
BY ZenonT(60) DEF MissFull, AtLeast

\* A cache that is not blocked has room everywhere.
LEMMA RoomFacts ==
    ASSUME NEW S, Typed(S), Blocks(S), ~S.gate.blocked
    PROVE  /\ S.gate.causes = {} /\ S.noTarget = NoLine /\ ~MissFull(S.mshr)
           /\ ~(Len(S.wbuf[0]) >= WriteBuffers)
           /\ \A l \in Line : /\ getNumTargets(S.mshr[l]) \in Nat
                              /\ getNumTargets(S.mshr[l]) < numTarget
<1>1. S.gate.causes = {} /\ S.noTarget = NoLine
  BY DEF Blocks, Full
<1>2. ASSUME NEW l \in Line
      PROVE  /\ getNumTargets(S.mshr[l]) \in Nat
             /\ getNumTargets(S.mshr[l]) < numTarget
  <2>1. S.mshr[l] \in MSHRType(Source)
    BY ZenonT(60) DEF Typed
  <2>2. getNumTargets(S.mshr[l]) \in Nat
    BY <2>1, MSHRFields, ZenonT(60)
  <2>3. ~(getNumTargets(S.mshr[l]) >= numTarget)
    BY <1>1, PortAssumption, ZenonT(60) DEF Blocks, Full
  <2> QED BY <2>2, <2>3, SizesAssumption, SMTT(60)
<1> QED BY <1>1, <1>2, ZenonT(60) DEF Blocks, Full

\* allocateWriteBuffer, if a handler evicts a line.
LEMMA EvictFacts ==
    ASSUME ~SplitRPort, NEW S, Typed(S), Blocks(S), NEW v \in Line \union {NoLine}
    PROVE  LET R == Evict(S, v)
           IN  /\ Typed(R) /\ SameMisses(R, S) /\ SameRequests(R, S)
               /\ SameAnswers(R, S) /\ R.events = S.events
               /\ R.abort = S.abort /\ Blocks(R)
<1> DEFINE R == Evict(S, v)
<1>1. CASE v = NoLine
  <2>1. R = S
    BY <1>1 DEF Evict
  <2> QED BY <2>1 DEF SameMisses, SameRequests, SameAnswers
<1>2. CASE v # NoLine
  <2> DEFINE e == [line |-> v, tick |-> hitLatency]
             w == Append(S.wbuf[0], e)
             S1 == [S EXCEPT !.wbuf[0] = w]
  <2>1. /\ DOMAIN S = Fields /\ S.wbuf[0] \in Seq([line : Line, tick : Nat])
        /\ S.wbuf \in [Tc -> Seq([line : Line, tick : Nat])] /\ 0 \in Tc /\ tc[v] = 0
        /\ v \in Line
    BY <1>2, OneQueue, Zenon DEF Typed
  <2>2. e \in [line : Line, tick : Nat]
    BY <2>1, TimesAssumption, ZenonT(60)
  <2>3. /\ w \in Seq([line : Line, tick : Nat]) /\ Len(w) = Len(S.wbuf[0]) + 1
        /\ Len(S.wbuf[0]) \in Nat
    <3> HIDE DEF e
    <3> QED BY <2>1, <2>2, SeqAppend
  <2>4. R = IF writeFull(S1, 0) THEN setBlocked(S1, "NoWBBuffers") ELSE S1
    BY <1>2, <2>1 DEF Evict, allocateWriteBuffer
  <2> HIDE DEF e, w, R
  <2>5. /\ DOMAIN S1 = Fields /\ S1.wbuf = [S.wbuf EXCEPT ![0] = w]
        /\ SameMisses(S1, S) /\ SameRequests(S1, S)
        /\ SameAnswers(S1, S) /\ S1.events = S.events /\ S1.gate = S.gate
        /\ S1.noTarget = S.noTarget /\ S1.abort = S.abort
    BY <2>1, Zenon DEF Fields, SameMisses, SameRequests, SameAnswers
  <2> HIDE DEF S1
  <2>6. /\ S1.wbuf \in [Tc -> Seq([line : Line, tick : Nat])] /\ S1.wbuf[0] = w
    BY <2>1, <2>3, <2>5, Zenon
  <2>7. Typed(S1)
    BY <2>5, <2>6, Zenon DEF Typed, SameMisses, SameRequests, SameAnswers
  <2>8. writeFull(S1, 0) <=> Len(w) >= WriteBuffers
    BY <2>6 DEF writeFull
  <2>9. CASE writeFull(S1, 0)
    <3>1. "NoWBBuffers" \in Cause
      BY DEF Cause
    <3>2. /\ Typed(R) /\ SameMisses(R, S1) /\ SameRequests(R, S1)
          /\ SameAnswers(R, S1) /\ R.events = S1.events /\ R.wbuf = S1.wbuf
          /\ R.noTarget = S1.noTarget /\ R.abort = S1.abort
          /\ R.gate = [causes |-> S1.gate.causes \union {"NoWBBuffers"},
                       blocked |-> TRUE, mustSendRetry |-> S1.gate.mustSendRetry]
      BY <2>4, <2>7, <2>9, <3>1, SetBlockedFacts, Zenon
    <3>3. R.gate.causes = S.gate.causes \union {"NoWBBuffers"} /\ R.gate.blocked = TRUE
      <4> DEFINE c == S.gate.causes
                 must == S1.gate.mustSendRetry
      <4>1. R.gate = [causes |-> c \union {"NoWBBuffers"}, blocked |-> TRUE,
                      mustSendRetry |-> must]
        BY <2>5, <3>2, ZenonT(60)
      <4> HIDE DEF c, must
      <4>2. R.gate.causes = c \union {"NoWBBuffers"} /\ R.gate.blocked = TRUE
        BY <4>1, SMTT(60)
      <4> QED BY <4>2, Zenon DEF c
    <3>4. R.mshr = S.mshr /\ R.noTarget = S.noTarget /\ R.wbuf[0] = w
      BY <2>5, <2>6, <3>2 DEF SameMisses
    <3>5. Blocks(R)
      BY <2>8, <2>9, <3>3, <3>4, ZenonT(60) DEF Blocks, Full
    <3> QED BY <2>5, <3>2, <3>5, Zenon DEF SameMisses, SameRequests, SameAnswers, R
  <2>10. CASE ~writeFull(S1, 0)
    <3>1. R = S1
      BY <2>4, <2>10
    <3>2. ~(Len(S.wbuf[0]) >= WriteBuffers) /\ ~(Len(w) >= WriteBuffers)
      <4> DEFINE n == Len(S.wbuf[0])
                 n1 == Len(w)
      <4>1. n \in Nat /\ n1 = n + 1 /\ ~(n1 >= WriteBuffers) /\ WriteBuffers \in Nat
        BY <2>3, <2>8, <2>10, SizesAssumption, ZenonT(60)
      <4> HIDE DEF n, n1
      <4>2. ~(n >= WriteBuffers)
        BY <4>1, SMTT(60)
      <4> QED BY <4>1, <4>2, Zenon DEF n, n1
    <3>3. Blocks(R)
      BY <2>5, <2>6, <3>1, <3>2 DEF Blocks, Full, SameMisses
    <3> QED BY <2>5, <2>7, <3>1, <3>3 DEF R
  <2> QED BY <2>9, <2>10, Zenon
<1> QED BY <1>1, <1>2

\* What being below, or at, a limit says of the comparisons with it.
LEMMA LimitFacts ==
    ASSUME NEW k \in Nat
    PROVE  /\ k >= k /\ k <= k
           /\ \A n \in Nat : n < k => n <= k /\ ~(n >= k)
           /\ \A n \in Nat : n <= k /\ n # k => ~(n >= k)
OBVIOUS

\* The gate of the handler after setBlocked, for a gate with no other cause.
LEMMA OnlyCause ==
    ASSUME NEW g, NEW c, c = {}, NEW why, NEW must,
           g = [causes |-> c \union {why}, blocked |-> TRUE, mustSendRetry |-> must]
    PROVE  g.causes = {why} /\ g.blocked = TRUE
OBVIOUS

\* A request for a line with an MSHR becomes a target of it.
LEMMA WithTargetFacts ==
    ASSUME ~SplitRPort, NEW S, Typed(S), Misses(S), Blocks(S), ~S.gate.blocked,
           NEW l \in Line, NEW t \in Target(Source), Allocated(S.mshr[l])
    PROVE  LET R == WithTarget([S EXCEPT !.arrived[l] = Append(@, t.src)], l, t)
           IN  /\ Typed(R) /\ Misses(R) /\ Blocks(R) /\ SameRequests(R, S)
               /\ SameAnswers(R, S) /\ R.events = S.events /\ R.abort = S.abort
<1> DEFINE a == Append(S.arrived[l], t.src)
           m == allocateTarget(S.mshr[l], t)
           S0 == [S EXCEPT !.arrived[l] = a]
           S1 == [S0 EXCEPT !.mshr[l] = m]
           R == WithTarget(S0, l, t)
<1>1. /\ DOMAIN S = Fields /\ S.mshr \in [Line -> MSHRType(Source)]
      /\ S.arrived \in [Line -> Seq(Source)]
  BY ZenonT(60) DEF Typed
<1>2. S.mshr[l] \in MSHRType(Source) /\ S.arrived[l] \in Seq(Source) /\ t.src \in Source
  BY <1>1 DEF Target
<1>3. LineOK(S.mshr[l], S.arrived[l])
  BY DEF Misses
<1>4. /\ m \in MSHRType(Source) /\ LineOK(m, a)
      /\ getNumTargets(m) = getNumTargets(S.mshr[l]) + 1
      /\ Allocated(m) /\ m.inService = S.mshr[l].inService
  BY <1>2, <1>3, AllocateTargetIsOK, ZenonT(60)
<1>5. a \in Seq(Source)
  BY <1>2, SeqAppend
<1>6. S0.mshr = S.mshr /\ S0.mshr[l] = S.mshr[l]
  BY <1>1 DEF Fields
<1>7. R = IF getNumTargets(S1.mshr[l]) = numTarget
          THEN setBlocked([S1 EXCEPT !.noTarget = l], "NoTargets") ELSE S1
  BY <1>6 DEF WithTarget
<1> HIDE DEF a, m, R
<1>8. /\ DOMAIN S1 = Fields /\ S1.arrived = [S.arrived EXCEPT ![l] = a]
      /\ S1.mshr = [S.mshr EXCEPT ![l] = m] /\ S1.ready = S.ready
      /\ SameRequests(S1, S) /\ SameAnswers(S1, S) /\ S1.events = S.events
      /\ S1.gate = S.gate /\ S1.wbuf = S.wbuf
      /\ S1.noTarget = S.noTarget /\ S1.abort = S.abort
  BY <1>1 DEF Fields, SameRequests, SameAnswers
<1> HIDE DEF S0, S1
<1>9. Typed(S1)
  <2>1. /\ S1.arrived \in [Line -> Seq(Source)] /\ S1.mshr \in [Line -> MSHRType(Source)]
    BY <1>1, <1>4, <1>5, <1>8, Zenon
  <2> QED BY <1>8, <2>1, Zenon DEF Typed, SameRequests, SameAnswers
<1>10. /\ S1.mshr[l] = m /\ S1.arrived[l] = a
       /\ \A k \in Line \ {l} : S1.mshr[k] = S.mshr[k] /\ S1.arrived[k] = S.arrived[k]
  BY <1>1, <1>8, ZenonT(60)
<1>11. Misses(S1)
  <2>1. \A k \in Line : LineOK(S1.mshr[k], S1.arrived[k])
    BY <1>4, <1>10, Zenon DEF Misses
  <2>2. \A k \in Line : Allocated(S.mshr[k]) /\ ~S.mshr[k].inService
                         => Allocated(S1.mshr[k]) /\ ~S1.mshr[k].inService
    BY <1>4, <1>10, ZenonT(60)
  <2>3. /\ S.ready[0] \in Seq(Line)
    BY OneQueue DEF Typed
  <2>4. \A i \in 1..Len(S.ready[0]) : S.ready[0][i] \in Line
    BY <2>3, SeqElement, Zenon
  <2>5. ReadyOK(S1.mshr, S1.ready[0])
    BY <1>8, <2>2, <2>4, ZenonT(60) DEF Misses, ReadyOK
  <2> QED BY <2>1, <2>5 DEF Misses
<1>12. AllocatedLines(S1.mshr) = AllocatedLines(S.mshr)
  BY <1>4, <1>10 DEF AllocatedLines
<1>13. MissFull(S1.mshr) <=> MissFull(S.mshr)
  BY <1>12, Zenon DEF MissFull
<1>14. /\ S.gate.causes = {} /\ S.noTarget = NoLine /\ ~MissFull(S.mshr)
       /\ ~(Len(S.wbuf[0]) >= WriteBuffers)
       /\ \A k \in Line : /\ getNumTargets(S.mshr[k]) \in Nat
                          /\ getNumTargets(S.mshr[k]) < numTarget
  BY RoomFacts
<1>15. numTarget \in Nat /\ NoLine \notin Line
  BY SizesAssumption, PortAssumption, ZenonT(60)
<1>16. getNumTargets(m) \in Nat /\ getNumTargets(m) <= numTarget
  BY <1>4, <1>14, <1>15
<1>17. CASE getNumTargets(m) = numTarget
  <2> DEFINE S2 == [S1 EXCEPT !.noTarget = l]
  <2>1. R = setBlocked(S2, "NoTargets")
    BY <1>7, <1>10, <1>17
  <2>2. /\ DOMAIN S2 = Fields /\ S2.noTarget = l /\ SameMisses(S2, S1)
        /\ SameRequests(S2, S1) /\ SameAnswers(S2, S1) /\ S2.events = S1.events
        /\ S2.gate = S1.gate /\ S2.wbuf = S1.wbuf /\ S2.abort = S1.abort
    BY <1>8 DEF Fields, SameMisses, SameRequests, SameAnswers
  <2> HIDE DEF S2
  <2>3. Typed(S2)
    BY <1>9, <2>2, Zenon DEF Typed, SameMisses, SameRequests, SameAnswers
  <2>4. "NoTargets" \in Cause
    BY Zenon DEF Cause
  <2>5. /\ Typed(R) /\ SameMisses(R, S2) /\ SameRequests(R, S2)
        /\ SameAnswers(R, S2) /\ R.events = S2.events /\ R.wbuf = S2.wbuf
        /\ R.noTarget = S2.noTarget /\ R.abort = S2.abort
        /\ R.gate = [causes |-> S2.gate.causes \union {"NoTargets"}, blocked |-> TRUE,
                     mustSendRetry |-> S2.gate.mustSendRetry]
    BY <2>1, <2>3, <2>4, SetBlockedFacts, ZenonT(60)
  <2>6. Misses(R)
    BY <1>11, <2>2, <2>5 DEF Misses, SameMisses
  <2>7. /\ R.gate.causes = {"NoTargets"} /\ R.gate.blocked = TRUE /\ R.noTarget = l
        /\ R.mshr = S1.mshr /\ R.wbuf = S.wbuf
    <3>1. S2.gate.causes = {} /\ R.noTarget = l /\ R.mshr = S1.mshr /\ R.wbuf = S.wbuf
      BY <1>8, <1>14, <2>2, <2>5, ZenonT(60) DEF SameMisses
    <3>2. R.gate.causes = {"NoTargets"} /\ R.gate.blocked = TRUE
      BY <2>5, <3>1, OnlyCause, ZenonT(60)
    <3> QED BY <3>1, <3>2, ZenonT(60)
  <2>8. ASSUME NEW k \in Line
        PROVE  /\ k = l <=> getNumTargets(R.mshr[k]) >= numTarget
               /\ getNumTargets(R.mshr[k]) <= numTarget
    <3>1. CASE k = l
      BY <1>10, <1>15, <1>17, <2>7, <3>1, LimitFacts, ZenonT(60)
    <3>2. CASE k # l
      <4>1. R.mshr[k] = S.mshr[k]
        BY <1>10, <2>7, <3>2, Zenon
      <4>2. getNumTargets(S.mshr[k]) \in Nat /\ getNumTargets(S.mshr[k]) < numTarget
        BY <1>14, Zenon
      <4> QED BY <1>15, <3>2, <4>1, <4>2, LimitFacts, ZenonT(60)
    <3> QED BY <3>1, <3>2, Zenon
  <2>9. Blocks(R)
    BY <1>13, <1>14, <1>15, <2>7, <2>8, ZenonT(60) DEF Blocks, Full
  <2> QED BY <1>8, <2>2, <2>5, <2>6, <2>9
          DEF SameRequests, SameAnswers, R, S0, a
<1>18. CASE getNumTargets(m) # numTarget
  <2>1. R = S1
    BY <1>7, <1>10, <1>18
  <2>2. ASSUME NEW k \in Line
        PROVE  /\ k # NoLine /\ ~(getNumTargets(S1.mshr[k]) >= numTarget)
               /\ getNumTargets(S1.mshr[k]) <= numTarget
    <3>1. CASE k = l
      BY <1>10, <1>15, <1>16, <1>18, <3>1, LimitFacts, ZenonT(60)
    <3>2. CASE k # l
      <4>1. S1.mshr[k] = S.mshr[k]
        BY <1>10, <3>2, ZenonT(60)
      <4>2. getNumTargets(S.mshr[k]) \in Nat /\ getNumTargets(S.mshr[k]) < numTarget
        BY <1>14, ZenonT(60)
      <4> QED BY <1>15, <3>2, <4>1, <4>2, LimitFacts, ZenonT(60)
    <3> QED BY <3>1, <3>2, Zenon
  <2>3. Blocks(S1)
    BY <1>8, <1>13, <1>14, <2>2, Zenon DEF Blocks, Full
  <2> QED BY <1>8, <1>9, <1>11, <2>1, <2>3 DEF R, S0, a
<1> QED BY <1>17, <1>18, Zenon

\* A line at the end of a ready list it was not in.
LEMMA ReadyAppend ==
    ASSUME NEW m, NEW n, NEW r \in Seq(Line), NEW l \in Line, ReadyOK(m, r),
           ~Allocated(m[l]), Allocated(n[l]), ~n[l].inService,
           \A k \in Line \ {l} : n[k] = m[k]
    PROVE  ReadyOK(n, Append(r, l))
<1> DEFINE q == Append(r, l)
           len == Len(r)
<1>1. len \in Nat /\ \A i \in 1..len : r[i] \in Line
  BY SeqLength, SeqElement, Zenon
<1>2. Len(q) = len + 1 /\ (\A i \in 1..len : q[i] = r[i]) /\ q[len + 1] = l
  BY SeqAppend
<1>3. \A i \in 1..len : Allocated(m[r[i]]) /\ ~m[r[i]].inService
  BY DEF ReadyOK
<1>4. \A i, j \in 1..len : r[i] = r[j] => i = j
  BY ZenonT(60) DEF ReadyOK
<1>5. \A i \in 1..len : r[i] # l
  BY <1>3
<1> HIDE DEF q, len
<1>6. ASSUME NEW i \in 1..(len + 1)
      PROVE  i \in 1..len \/ i = len + 1
  BY <1>1
<1>7. ASSUME NEW i \in 1..(len + 1), NEW j \in 1..(len + 1), q[i] = q[j]
      PROVE  i = j
  BY <1>2, <1>4, <1>5, <1>6, <1>7, ZenonT(60)
<1>8. ASSUME NEW i \in 1..(len + 1)
      PROVE  Allocated(n[q[i]]) /\ ~n[q[i]].inService
  BY <1>1, <1>2, <1>3, <1>5, <1>6
<1> QED BY <1>2, <1>7, <1>8, SMTT(60) DEF ReadyOK, q

\* A request that misses gets an MSHR.
LEMMA AllocateMissFacts ==
    ASSUME ~SplitRPort, NEW S, Typed(S), Misses(S), Blocks(S), ~S.gate.blocked,
           NEW l \in Line, NEW t \in Target(Source), ~Allocated(S.mshr[l])
    PROVE  LET R == allocateMissBuffer([S EXCEPT !.arrived[l] = Append(@, t.src)], l, t)
           IN  /\ Typed(R) /\ Misses(R) /\ Blocks(R) /\ SameRequests(R, S)
               /\ SameAnswers(R, S) /\ R.events = S.events /\ R.abort = S.abort
<1> DEFINE a == Append(S.arrived[l], t.src)
           m == allocate(t)
           r == Append(S.ready[0], l)
           S0 == [S EXCEPT !.arrived[l] = a]
           S1 == [S0 EXCEPT !.mshr[l] = m, !.ready[0] = r]
           R == allocateMissBuffer(S0, l, t)
<1>1. /\ DOMAIN S = Fields /\ S.mshr \in [Line -> MSHRType(Source)]
      /\ S.arrived \in [Line -> Seq(Source)] /\ S.ready \in [Tc -> Seq(Line)]
      /\ 0 \in Tc /\ tc[l] = 0
  BY OneQueue, ZenonT(60) DEF Typed
<1>2. /\ S.mshr[l] \in MSHRType(Source) /\ S.arrived[l] \in Seq(Source)
      /\ t.src \in Source /\ S.ready[0] \in Seq(Line)
  BY <1>1, ZenonT(60) DEF Target
<1>3. LineOK(S.mshr[l], S.arrived[l])
  BY DEF Misses
<1>4. /\ m \in MSHRType(Source) /\ LineOK(m, <<t.src>>)
      /\ getNumTargets(m) = 1 /\ Allocated(m) /\ ~m.inService
  BY AllocateIsOK
<1>5. a = <<t.src>>
  <2>1. S.mshr[l].targets = <<>> /\ S.mshr[l].deferred = <<>>
    BY <1>3, ZenonT(60) DEF Allocated, LineOK
  <2>2. Len(S.arrived[l]) = 0
    BY <1>3, <2>1 DEF LineOK, InOrder
  <2>3. S.arrived[l] = <<>>
    BY <1>2, <2>2, SeqEmpty, ZenonT(60)
  <2> QED BY <2>3, SMTT(60)
<1>6. a \in Seq(Source)
  BY <1>2, SeqAppend, ZenonT(60)
<1>7. r \in Seq(Line)
  BY <1>2, SeqAppend
<1>8. S0.ready = S.ready
  BY <1>1 DEF Fields
<1>9. R = IF missFull(S1, 0) THEN setBlocked(S1, "NoMSHRs") ELSE S1
  BY <1>1, <1>8 DEF allocateMissBuffer
<1> HIDE DEF a, m, r, R
<1>10. /\ DOMAIN S1 = Fields /\ S1.arrived = [S.arrived EXCEPT ![l] = a]
       /\ S1.mshr = [S.mshr EXCEPT ![l] = m] /\ S1.ready = [S.ready EXCEPT ![0] = r]
       /\ SameRequests(S1, S) /\ SameAnswers(S1, S) /\ S1.events = S.events
       /\ S1.gate = S.gate /\ S1.wbuf = S.wbuf
       /\ S1.noTarget = S.noTarget /\ S1.abort = S.abort
  BY <1>1 DEF Fields, SameRequests, SameAnswers
<1> HIDE DEF S0, S1
<1>11. Typed(S1)
  <2>1. S1.arrived \in [Line -> Seq(Source)]
    BY <1>1, <1>6, <1>10, ZenonT(60)
  <2>2. S1.mshr \in [Line -> MSHRType(Source)]
    BY <1>1, <1>4, <1>10, ZenonT(60)
  <2>3. S1.ready \in [Tc -> Seq(Line)]
    BY <1>1, <1>7, <1>10, ZenonT(60)
  <2> QED BY <1>10, <2>1, <2>2, <2>3, ZenonT(60) DEF Typed, SameRequests, SameAnswers
<1>12. /\ S1.mshr[l] = m /\ S1.arrived[l] = a /\ S1.ready[0] = r
       /\ \A k \in Line \ {l} : S1.mshr[k] = S.mshr[k] /\ S1.arrived[k] = S.arrived[k]
  BY <1>1, <1>10
<1>13. Misses(S1)
  <2>1. \A k \in Line : LineOK(S1.mshr[k], S1.arrived[k])
    BY <1>4, <1>5, <1>12, Zenon DEF Misses
  <2>2. ReadyOK(S.mshr, S.ready[0])
    BY Zenon DEF Misses
  <2>3. ReadyOK(S1.mshr, Append(S.ready[0], l))
    BY <1>2, <1>4, <1>12, <2>2, ReadyAppend, Zenon
  <2> QED BY <1>12, <2>1, <2>3, Zenon DEF Misses, r
<1>14. missFull(S1, 0) <=> MissFull(S1.mshr)
  BY MissFullIs, ZenonT(60)
<1>15. /\ S.gate.causes = {} /\ S.noTarget = NoLine
       /\ ~(Len(S.wbuf[0]) >= WriteBuffers)
       /\ \A k \in Line : /\ getNumTargets(S.mshr[k]) \in Nat
                          /\ getNumTargets(S.mshr[k]) < numTarget
  BY RoomFacts
<1>16. numTarget \in Nat \ {0, 1} /\ NoLine \notin Line
  BY SizesAssumption, PortAssumption
<1>17. ASSUME NEW k \in Line
       PROVE  /\ k # NoLine /\ ~(getNumTargets(S1.mshr[k]) >= numTarget)
              /\ getNumTargets(S1.mshr[k]) <= numTarget
  <2>1. CASE k = l
    <3>1. numTarget \in Nat /\ 1 \in Nat /\ 1 < numTarget
      BY <1>16
    <3> QED BY <1>4, <1>12, <1>16, <2>1, <3>1, LimitFacts, ZenonT(60)
  <2>2. CASE k # l
    <3>1. S1.mshr[k] = S.mshr[k]
      BY <1>12, <2>2, ZenonT(60)
    <3>2. getNumTargets(S.mshr[k]) \in Nat /\ getNumTargets(S.mshr[k]) < numTarget
      BY <1>15, ZenonT(60)
    <3>3. numTarget \in Nat
      BY <1>16, ZenonT(60)
    <3> QED BY <1>16, <3>1, <3>2, <3>3, LimitFacts, ZenonT(60)
  <2> QED BY <2>1, <2>2, Zenon
<1>18. CASE missFull(S1, 0)
  <2>1. R = setBlocked(S1, "NoMSHRs") /\ "NoMSHRs" \in Cause
    BY <1>9, <1>18 DEF Cause
  <2>2. /\ Typed(R) /\ SameMisses(R, S1) /\ SameRequests(R, S1)
        /\ SameAnswers(R, S1) /\ R.events = S1.events /\ R.wbuf = S1.wbuf
        /\ R.noTarget = S1.noTarget /\ R.abort = S1.abort
        /\ R.gate = [causes |-> S1.gate.causes \union {"NoMSHRs"}, blocked |-> TRUE,
                     mustSendRetry |-> S1.gate.mustSendRetry]
    BY <1>11, <2>1, SetBlockedFacts, ZenonT(60)
  <2>3. Misses(R)
    BY <1>13, <2>2 DEF Misses, SameMisses
  <2>4. /\ R.gate.causes = {"NoMSHRs"} /\ R.gate.blocked = TRUE /\ R.noTarget = NoLine
        /\ R.mshr = S1.mshr /\ R.wbuf = S.wbuf
    <3>1. S1.gate.causes = {} /\ R.noTarget = NoLine /\ R.mshr = S1.mshr /\ R.wbuf = S.wbuf
      BY <1>10, <1>15, <2>2, ZenonT(60) DEF SameMisses
    <3>2. R.gate.causes = {"NoMSHRs"} /\ R.gate.blocked = TRUE
      BY <2>2, <3>1, OnlyCause, ZenonT(60)
    <3> QED BY <3>1, <3>2, ZenonT(60)
  <2>5. Blocks(R)
    BY <1>14, <1>15, <1>17, <1>18, <2>4, ZenonT(60) DEF Blocks, Full
  <2> QED BY <1>10, <2>2, <2>3, <2>5 DEF SameRequests, SameAnswers, R, S0, a
<1>19. CASE ~missFull(S1, 0)
  <2>1. R = S1
    BY <1>9, <1>19
  <2>2. Blocks(S1)
    BY <1>10, <1>14, <1>15, <1>17, <1>19, Zenon DEF Blocks, Full
  <2> QED BY <1>10, <1>11, <1>13, <2>1, <2>2 DEF R, S0, a
<1> QED BY <1>18, <1>19, Zenon

----------------------------------------------------------------------------
(* The bus: who waits on the request layer, and the answers on the way up *)

\* r is a list of ports without repetition, exactly of those that hold a packet.
OnList(r, src) ==
    /\ \A i, j \in 1..Len(r) : r[i] = r[j] => i = j
    /\ \A s \in Source : (\E i \in 1..Len(r) : r[i] = s) <=> src[s].held # NoPacket

\* The request layer q with the events ev: it is busy exactly while its release is
\* scheduled, and nobody waits for it when it is idle.
Held(q, src, ev) ==
    /\ OnList(q.retryList, src)
    /\ q.state \in {"IDLE", "BUSY"}
    /\ q.state = "BUSY" <=> scheduled(ev, "reqRelease")
    /\ q.retryList # <<>> => q.state = "BUSY"

\* The send event of the packet queue a is due between the time of its first
\* answer and that time or the next tick, whichever is later.
Timely(a, ev) ==
    IF a.list = <<>> THEN ~scheduled(ev, "send0")
    ELSE /\ scheduled(ev, "send0")
         /\ Head(a.list).tick <= whenOf(ev, "send0")
         /\ whenOf(ev, "send0") <= (IF Head(a.list).tick > 1 THEN Head(a.list).tick ELSE 1)

\* The response layer q and the packet queue a behind it: while the queue waits it
\* is the only one on the retry list, with a packet to send; otherwise its send
\* event is timely.
Sending(q, a, ev) ==
    /\ q.state \in {"IDLE", "BUSY"}
    /\ q.state = "BUSY" <=> scheduled(ev, "respRelease")
    /\ IF a.waiting
       THEN /\ a.list # <<>> /\ Head(a.list).tick = 0 /\ ~scheduled(ev, "send0")
            /\ q.retryList = <<Port>> /\ q.state = "BUSY"
       ELSE q.retryList = <<>> /\ Timely(a, ev)

\* The inductive invariant: what holds at the failed assertion, the event queue's
\* that nothing is scheduled twice, and what holds as long as none failed.
PortInv(S) ==
    /\ Typed(S) /\ Misses(S) /\ S.abort \in {"no", "schedule"}
    /\ S.abort = "no" => /\ Blocks(S) /\ Held(S.req, S.source, S.events)
                         /\ Sending(S.resp, S.queue[0], S.events)
IInv == PortInv(State)

\* What a handler leaves alone when it sends, or is sent, an answer.
SameBlocks(R, S) ==
    /\ R.wbuf = S.wbuf /\ R.gate = S.gate /\ R.noTarget = S.noTarget

\* An event that agrees is as good.
LEMMA HeldFrame ==
    ASSUME NEW q, NEW src, NEW e, NEW f, Held(q, src, e), Agree(e, f, "reqRelease")
    PROVE  Held(q, src, f)
BY Zenon DEF Held, Agree
\* Sending is about nothing but the layer, the answers and two events.
LEMMA SendingFrame ==
    ASSUME NEW q, NEW a, NEW e, NEW f, Sending(q, a, e), Agree(e, f, "respRelease"),
           Agree(e, f, "send0")
    PROVE  Sending(q, a, f)
BY ZenonT(60) DEF Sending, Timely, Agree

\* The packet queue's insertion: only an answer due before all others becomes
\* the first.
LEMMA InsertionFacts ==
    ASSUME NEW list \in Seq([pkt : Source, tick : Nat]), NEW w \in Nat, NEW s \in Source
    PROVE  LET x == [pkt |-> s, tick |-> w]
               p == CHOOSE i \in 1..(Len(list) + 1) :
                      /\ \A j \in 1..(i - 1) : list[j].tick <= w
                      /\ i <= Len(list) => list[i].tick > w
               r == InsertAt(list, p, x)
           IN  /\ r \in Seq([pkt : Source, tick : Nat]) /\ r # <<>>
               /\ Head(r) = IF list = <<>> \/ w < Head(list).tick THEN x ELSE Head(list)
<1> DEFINE T == [pkt : Source, tick : Nat]
           x == [pkt |-> s, tick |-> w]
           P(i) == /\ \A j \in 1..(i - 1) : list[j].tick <= w
                   /\ i <= Len(list) => list[i].tick > w
           p == CHOOSE i \in 1..(Len(list) + 1) : P(i)
           r == InsertAt(list, p, x)
           M == {i \in 1..(Len(list) + 1) : i <= Len(list) => list[i].tick > w}
<1>0. list \in Seq(T)
  OBVIOUS
<1> HIDE DEF T
<1>1. Len(list) \in Nat /\ \A i \in 1..Len(list) : list[i] \in T /\ list[i].tick \in Nat
  <2>1. Len(list) \in Nat /\ \A i \in 1..Len(list) : list[i] \in T
    BY <1>0, SeqElement
  <2> QED BY <2>1 DEF T
<1>2. x \in T /\ x.tick = w
  BY DEF T
<1>3. \E i \in 1..(Len(list) + 1) : P(i)
  <2>1. M \in SUBSET Nat /\ Len(list) + 1 \in M
    BY <1>1
  <2>2. PICK i \in M : \A j \in M : i <= j
    BY <2>1, LeastNat, Zenon
  <2>3. ASSUME NEW j \in 1..(i - 1)
        PROVE  list[j].tick <= w
    <3>1. i \in Nat /\ i <= Len(list) + 1
      BY <1>1
    <3>2. j \in 1..Len(list) /\ ~(i <= j)
      BY <1>1, <3>1
    <3>3. j \notin M
      BY <2>2, <3>2
    <3>4. ~(list[j].tick > w)
      BY <1>1, <3>2, <3>3
    <3> QED BY <1>1, <3>2, <3>4, SMTT(60)
  <2> QED BY <2>3
<1>4. p \in 1..(Len(list) + 1) /\ P(p)
  BY <1>3, Zenon
<1> HIDE DEF p, x, M
<1>5. /\ r \in Seq(T) /\ Len(r) = Len(list) + 1
      /\ \A j \in 1..(Len(list) + 1) :
            r[j] = IF j < p THEN list[j] ELSE IF j = p THEN x ELSE list[j - 1]
  <2>1. p \in 1..(Len(list) + 1)
    BY <1>4, Zenon
  <2> HIDE DEF P
  <2>2. r \in Seq(T) /\ Inserted(r, list, p, x)
    BY <1>0, <1>2, <2>1, InsertAtFacts, Zenon
  <2> HIDE DEF r
  <2> QED BY <2>2, Zenon DEF Inserted
<1> HIDE DEF r, P
<1>6. r # <<>> /\ Head(r) = r[1]
  BY <1>1, <1>5
<1>7. r[1] = IF 1 < p THEN list[1] ELSE x
  BY <1>1, <1>4, <1>5
<1>8. CASE list = <<>>
  <2>1. ~(1 < p)
    BY <1>4, <1>8, SMTT(60)
  <2> QED BY <1>5, <1>6, <1>7, <1>8, <2>1 DEF r, p, x, P, T
<1>9. CASE list # <<>> /\ w < Head(list).tick
  <2>1. 1 \in 1..Len(list) /\ Head(list) = list[1] /\ list[1].tick \in Nat
    BY <1>1, <1>9
  <2>2. ~(1 < p)
    BY <1>4, <1>9, <2>1, SMTT(60) DEF P
  <2> QED BY <1>5, <1>6, <1>7, <1>9, <2>2 DEF r, p, x, P, T
<1>10. CASE list # <<>> /\ ~(w < Head(list).tick)
  <2>1. 1 \in 1..Len(list) /\ Head(list) = list[1] /\ list[1].tick \in Nat
    BY <1>1, <1>10
  <2>2. p # 1
    BY <1>4, <1>10, <2>1 DEF P
  <2>3. 1 < p
    BY <1>1, <1>4, <2>2
  <2> QED BY <1>5, <1>6, <1>7, <1>10, <2>1, <2>3 DEF r, p, x, P, T
<1> QED BY <1>8, <1>9, <1>10

\* The time of a scheduled event is a number.
LEMMA WhenOfNat ==
    ASSUME NEW q, GoodEvents(q), NEW e, scheduled(q, e)
    PROVE  whenOf(q, e) \in Nat
<1>1. PICK i \in 1..Len(q) : whenOf(q, e) = q[i].when
  BY EntryOf, ZenonT(60)
<1>2. q \in Seq([ev : Events, when : Nat])
  BY DEF GoodEvents
<1>3. q[i].when \in Nat
  BY <1>2, EntryTypes, Zenon
<1> QED BY <1>1, <1>3

\* The head of a list.
LEMMA HeadFacts ==
    ASSUME NEW T, NEW list \in Seq(T), list # <<>>
    PROVE  /\ Len(list) \in Nat \ {0} /\ 1 \in 1..Len(list)
           /\ Head(list) = list[1] /\ Head(list) \in T
           /\ Tail(list) \in Seq(T) /\ Len(Tail(list)) = Len(list) - 1
           /\ \A i \in 1..(Len(list) - 1) : Tail(list)[i] = list[i + 1]
<1>1. Len(list) \in Nat \ {0} /\ Head(list) = list[1]
  OBVIOUS
<1>2. list[1] \in T
  BY <1>1, SeqElement
<1>3. /\ Tail(list) \in Seq(T) /\ Len(Tail(list)) = Len(list) - 1
      /\ \A i \in 1..(Len(list) - 1) : Tail(list)[i] = list[i + 1]
  BY SeqTail
<1> QED BY <1>1, <1>2, <1>3

\* schedSendTiming keeps the packet queue and its send event together.
LEMMA SchedSendFacts ==
    ASSUME ~SplitRPort, NEW S, Typed(S), NEW s \in Source, NEW w \in Nat \ {0},
           Sending(S.resp, S.queue[0], S.events)
    PROVE  LET R == schedSendTiming(S, 0, s, w)
           IN  /\ Typed(R) /\ SameMisses(R, S) /\ SameRequests(R, S) /\ SameBlocks(R, S)
               /\ R.abort = S.abort /\ Sending(R.resp, R.queue[0], R.events)
               /\ \A e \in Events \ {"send0"} : Agree(S.events, R.events, e)
<1> DEFINE list == S.queue[0].list
           x == [pkt |-> s, tick |-> w]
           first == list = <<>> \/ w < Head(list).tick
           p == CHOOSE i \in 1..(Len(list) + 1) :
                  /\ \A j \in 1..(i - 1) : list[j].tick <= w
                  /\ i <= Len(list) => list[i].tick > w
           r == InsertAt(list, p, x)
           a == [S.queue[0] EXCEPT !.list = r]
           S1 == [S EXCEPT !.queue[0].list = r]
           R == schedSendTiming(S, 0, s, w)
           Frame(X) == /\ DOMAIN X = Fields /\ SameMisses(X, S) /\ SameRequests(X, S)
                       /\ SameBlocks(X, S) /\ X.abort = S.abort /\ X.resp = S.resp
                       /\ X.queue = [S.queue EXCEPT ![0] = a]
<1>1. /\ DOMAIN S = Fields /\ S.queue \in [Tc -> Answers] /\ 0 \in Tc
      /\ GoodEvents(S.events)
  BY OneQueue, Zenon DEF Typed
<1>2. S.queue[0] \in Answers /\ list \in Seq([pkt : Source, tick : Nat])
  BY <1>1, Zenon DEF Answers
<1>3. /\ r \in Seq([pkt : Source, tick : Nat]) /\ r # <<>>
      /\ Head(r) = IF first THEN x ELSE Head(list)
  BY <1>2, InsertionFacts, Zenon
<1>4. R = IF first THEN schedSendEvent(S1, 0, w) ELSE S1
  BY ZenonT(60) DEF schedSendTiming
<1>5. x.tick = w
  OBVIOUS
<1> HIDE DEF R, x, p, r
<1>6. a \in Answers /\ a.list = r /\ a.waiting = S.queue[0].waiting
  BY <1>2, <1>3, ZenonT(60) DEF Answers
<1> HIDE DEF a
<1>7. Frame(S1) /\ S1.events = S.events /\ S1.queue[0] = a
  BY <1>1 DEF Fields, SameMisses, SameRequests, SameBlocks, a
<1> HIDE DEF S1
<1>8. ASSUME NEW X, Frame(X), GoodEvents(X.events)
      PROVE  Typed(X) /\ X.queue[0] = a
  <2>1. X.queue \in [Tc -> Answers] /\ X.queue[0] = a
    BY <1>1, <1>6, <1>8, ZenonT(60)
  <2> QED BY <1>8, <2>1, Zenon DEF Typed, SameMisses, SameRequests, SameBlocks
<1>9. \A e \in Events : Agree(S.events, S.events, e)
  BY DEF Agree
<1>10. "send0" \in Events /\ "respRelease" \in Events \ {"send0"} /\ sendEvent(0) = "send0"
  BY ZenonT(60) DEF Events, sendEvent
<1>11. list # <<>> => Head(list).tick \in Nat
  <2>1. ASSUME list # <<>>
        PROVE  Head(list) \in [pkt : Source, tick : Nat]
    BY <1>2, <2>1, HeadFacts, Zenon
  <2> QED BY <2>1
<1>12. CASE ~first
  <2>1. R = S1 /\ list # <<>> /\ Head(r) = Head(list)
    BY <1>3, <1>4, <1>12, Zenon
  <2>2. Sending(S.resp, a, S.events)
    BY <1>3, <1>6, <2>1, Zenon DEF Sending, Timely
  <2> QED BY <1>1, <1>7, <1>8, <1>9, <2>1, <2>2, Zenon DEF R
<1>13. CASE first
  <2>1. R = schedSendEvent(S1, 0, w) /\ Head(r).tick = w
    BY <1>3, <1>4, <1>5, <1>13, ZenonT(60)
  <2>2. ~S.queue[0].waiting
    BY <1>11, <1>13 DEF Sending
  <2>3. R = IF ~scheduled(S.events, "send0")
            THEN [S1 EXCEPT !.events = schedule(S.events, "send0", w)]
            ELSE IF whenOf(S.events, "send0") > w
            THEN [S1 EXCEPT !.events = reschedule(S.events, "send0", w)]
            ELSE S1
    BY <1>6, <1>7, <1>10, <2>1, <2>2, ZenonT(60) DEF schedSendEvent
  <2>4. ASSUME NEW ev, With(S.events, ev, "send0", w), R = [S1 EXCEPT !.events = ev]
        PROVE  /\ Typed(R) /\ SameMisses(R, S) /\ SameRequests(R, S) /\ SameBlocks(R, S)
               /\ R.abort = S.abort /\ Sending(R.resp, R.queue[0], R.events)
               /\ \A e \in Events \ {"send0"} : Agree(S.events, R.events, e)
    <3>1. Frame(R) /\ R.events = ev
      BY <1>7, <2>4 DEF Fields, SameMisses, SameRequests, SameBlocks
    <3>2. Typed(R) /\ R.queue[0] = a
      BY <1>8, <2>4, <3>1, Zenon DEF With
    <3>3. \A e \in Events \ {"send0"} : Agree(S.events, ev, e)
      BY <2>4 DEF With
    <3>4. Timely(a, ev)
      BY <1>3, <1>6, <2>1, <2>4 DEF Timely, With
    <3>5. scheduled(ev, "respRelease") <=> scheduled(S.events, "respRelease")
      BY <1>10, <3>3, ZenonT(60) DEF Agree
    <3>6. Sending(S.resp, a, ev)
      BY <1>6, <2>2, <3>4, <3>5 DEF Sending
    <3> QED BY <3>1, <3>2, <3>3, <3>6
  <2>5. CASE ~scheduled(S.events, "send0")
    BY <1>1, <1>10, <2>3, <2>4, <2>5, ScheduleFacts DEF R
  <2>6. CASE scheduled(S.events, "send0") /\ whenOf(S.events, "send0") > w
    BY <1>1, <1>10, <2>3, <2>4, <2>6, RescheduleFacts, ZenonT(60) DEF R
  <2>7. CASE scheduled(S.events, "send0") /\ ~(whenOf(S.events, "send0") > w)
    <3>1. /\ list # <<>> /\ Head(list).tick <= whenOf(S.events, "send0")
          /\ w < Head(list).tick
      BY <1>13, <2>2, <2>7, Zenon DEF Sending, Timely
    <3>2. whenOf(S.events, "send0") \in Nat
      BY <1>1, <2>7, WhenOfNat
    <3> DEFINE u == whenOf(S.events, "send0")
               k == Head(list).tick
    <3>3. u \in Nat /\ k \in Nat /\ k <= u /\ w < k /\ ~(u > w) /\ w \in Nat
      BY <1>3, <1>11, <2>7, <3>1, <3>2, Zenon
    <3> HIDE DEF u, k
    <3>4. FALSE
      BY <3>3
    <3> QED BY <3>4
  <2> QED BY <2>5, <2>6, <2>7, Zenon
<1> QED BY <1>12, <1>13, Zenon

----------------------------------------------------------------------------
(* Requests *)

\* The retry list when a port joins it, leaves it or stays.
LEMMA OnListAppend ==
    ASSUME NEW r \in Seq(Source), NEW src \in [Source -> Above], OnList(r, src),
           NEW s \in Source, src[s].held = NoPacket, NEW x, x.held # NoPacket
    PROVE  OnList(Append(r, s), [src EXCEPT ![s] = x])
<1> DEFINE q == Append(r, s)
           f == [src EXCEPT ![s] = x]
           n == Len(r)
<1>1. n \in Nat
  OBVIOUS
<1>2. Len(q) = n + 1 /\ (\A i \in 1..n : q[i] = r[i]) /\ q[n + 1] = s
  BY SeqAppend
<1>3. \A i, j \in 1..n : r[i] = r[j] => i = j
  BY DEF OnList
<1>4. \A u \in Source : (\E i \in 1..n : r[i] = u) <=> src[u].held # NoPacket
  BY DEF OnList
<1>5. f[s] = x /\ \A u \in Source \ {s} : f[u] = src[u]
  BY ZenonT(60)
<1>6. \A i \in 1..n : r[i] # s
  BY <1>4
<1> HIDE DEF q, f, n
<1>7. ASSUME NEW i \in 1..(n + 1)
      PROVE  i \in 1..n \/ i = n + 1
  BY <1>1
<1>8. \A i, j \in 1..(n + 1) : q[i] = q[j] => i = j
  BY <1>2, <1>3, <1>6, <1>7, ZenonT(60)
<1>9. ASSUME NEW u \in Source
      PROVE  (\E i \in 1..(n + 1) : q[i] = u) <=> f[u].held # NoPacket
  <2>1. CASE u = s
    <3>1. n + 1 \in 1..(n + 1)
      BY <1>1
    <3> QED BY <1>2, <1>5, <2>1, <3>1, SMTT(60)
  <2>2. CASE u # s
    <3>1. (\E i \in 1..(n + 1) : q[i] = u) <=> (\E i \in 1..n : r[i] = u)
      <4>1. \A i \in 1..n : i \in 1..(n + 1)
        BY <1>1
      <4> QED BY <1>2, <1>7, <2>2, <4>1
    <3> QED BY <1>4, <1>5, <2>2, <3>1, ZenonT(60)
  <2> QED BY <2>1, <2>2, ZenonT(60)
<1>10. OnList(q, f)
  BY <1>2, <1>8, <1>9 DEF OnList
<1> QED BY <1>10, ZenonT(60) DEF q, f
\* The first source of the retry list is served.
LEMMA OnListTail ==
    ASSUME NEW r \in Seq(Source), NEW src \in [Source -> Above], OnList(r, src),
           r # <<>>, NEW x, x.held = NoPacket
    PROVE  OnList(Tail(r), [src EXCEPT ![Head(r)] = x])
<1> DEFINE q == Tail(r)
           s == Head(r)
           f == [src EXCEPT ![s] = x]
           n == Len(r)
<1>1. /\ n \in Nat \ {0} /\ s = r[1] /\ s \in Source
      /\ Len(q) = n - 1 /\ \A i \in 1..(n - 1) : q[i] = r[i + 1]
  BY HeadFacts
<1>2. \A i, j \in 1..n : r[i] = r[j] => i = j
  BY DEF OnList
<1>3. \A u \in Source : (\E i \in 1..n : r[i] = u) <=> src[u].held # NoPacket
  BY DEF OnList
<1> HIDE DEF q, s, n
<1>4. f[s] = x /\ \A u \in Source \ {s} : f[u] = src[u]
  BY <1>1
<1> HIDE DEF f
<1>5. ASSUME NEW i \in 1..(n - 1)
      PROVE  i + 1 \in 1..n /\ i + 1 # 1 /\ 1 \in 1..n
  BY <1>1
<1>6. ASSUME NEW i \in 1..(n - 1)
      PROVE  q[i] # s
  <2>1. r[i + 1] # r[1]
    BY <1>2, <1>5
  <2> QED BY <1>1, <2>1
<1>7. ASSUME NEW i \in 1..(n - 1), NEW j \in 1..(n - 1), q[i] = q[j]
      PROVE  i = j
  <2>1. i + 1 = j + 1
    BY <1>1, <1>2, <1>5, <1>7
  <2> QED BY <1>1, <2>1
<1>8. ASSUME NEW u \in Source
      PROVE  (\E i \in 1..(n - 1) : q[i] = u) <=> f[u].held # NoPacket
  <2>1. CASE u = s
    BY <1>4, <1>6, <2>1, ZenonT(60)
  <2>2. CASE u # s
    <3>1. ASSUME NEW i \in 1..(n - 1), q[i] = u
          PROVE  \E k \in 1..n : r[k] = u
      BY <1>1, <1>5, <3>1, ZenonT(60)
    <3>2. ASSUME NEW k \in 1..n, r[k] = u
          PROVE  \E i \in 1..(n - 1) : q[i] = u
      <4>1. k # 1
        BY <1>1, <2>2, <3>2
      <4>2. k - 1 \in 1..(n - 1) /\ (k - 1) + 1 = k
        BY <1>1, <4>1
      <4>3. q[k - 1] = u
        BY <1>1, <3>2, <4>2
      <4> QED BY <4>2, <4>3
    <3> QED BY <1>3, <1>4, <2>2, <3>1, <3>2
  <2> QED BY <2>1, <2>2
<1>9. OnList(q, f)
  BY <1>1, <1>7, <1>8 DEF OnList
<1> QED BY <1>9 DEF q, f, s
\* A source that goes on holding a packet, or goes on holding none.
LEMMA OnListSame ==
    ASSUME NEW r, NEW src \in [Source -> Above], OnList(r, src),
           NEW s \in Source, NEW x, x.held = NoPacket <=> src[s].held = NoPacket
    PROVE  OnList(r, [src EXCEPT ![s] = x])
BY DEF OnList

\* A packet that is noted or forgotten above the bus.
LEMMA SourceFrame ==
    ASSUME NEW S, Typed(S), NEW s \in Source, NEW x \in Above
    PROVE  LET R == [S EXCEPT !.source[s] = x]
           IN  /\ Typed(R) /\ SameMisses(R, S) /\ SameAnswers(R, S) /\ SameBlocks(R, S)
               /\ R.req = S.req /\ R.events = S.events /\ R.abort = S.abort
               /\ R.source = [S.source EXCEPT ![s] = x]
<1> DEFINE R == [S EXCEPT !.source[s] = x]
<1>1. DOMAIN S = Fields /\ S.source \in [Source -> Above]
  BY DEF Typed
<1>2. /\ DOMAIN R = Fields /\ SameMisses(R, S) /\ SameAnswers(R, S) /\ SameBlocks(R, S)
      /\ R.req = S.req /\ R.events = S.events /\ R.abort = S.abort
      /\ R.source = [S.source EXCEPT ![s] = x]
  BY <1>1 DEF Fields, SameMisses, SameAnswers, SameBlocks
<1> HIDE DEF R
<1>3. R.source \in [Source -> Above]
  BY <1>1, <1>2, Zenon
<1>4. Typed(R)
  BY <1>2, <1>3, Zenon DEF Typed, SameMisses, SameAnswers, SameBlocks
<1> QED BY <1>2, <1>4, ZenonT(60) DEF R

\* The cache takes a request: no assertion of it fails.
LEMMA AccessFacts ==
    ASSUME ~SplitRPort, NEW S, Typed(S), Misses(S), Blocks(S), ~S.gate.blocked,
           Sending(S.resp, S.queue[0], S.events), NEW s \in Source,
           NEW pkt \in Packet, NEW c \in Choice
    PROVE  LET R == timingAccess(S, s, pkt, c)
           IN  /\ Typed(R) /\ Misses(R) /\ Blocks(R) /\ R.abort = S.abort
               /\ Sending(R.resp, R.queue[0], R.events) /\ R.req = S.req
               /\ \E x \in Above : /\ x.held = NoPacket
                                   /\ R.source = [S.source EXCEPT ![s] = x]
               /\ \A e \in Events \ {"send0"} : Agree(S.events, R.events, e)
<1> DEFINE l == pkt.line
           t == [src |-> s, ex |-> pkt.cmd = "ReadEx"]
           x == [held |-> NoPacket, waiting |-> TRUE]
           y == [S.source[s] EXCEPT !.held = NoPacket]
           S1 == [S EXCEPT !.source[s] = x]
           T1 == [S EXCEPT !.source[s] = y]
           R == timingAccess(S, s, pkt, c)
           Good(X, z) == /\ Typed(X) /\ Misses(X) /\ Blocks(X) /\ X.abort = S.abort
                         /\ Sending(X.resp, X.queue[0], X.events) /\ X.req = S.req
                         /\ X.source = [S.source EXCEPT ![s] = z]
                         /\ \A e \in Events \ {"send0"} : Agree(S.events, X.events, e)
<1>1. /\ DOMAIN S = Fields /\ S.source \in [Source -> Above] /\ S.source[s] \in Above
      /\ l \in Line /\ t \in Target(Source) /\ t.src = s
      /\ c.victim \in Line \union {NoLine} /\ tc[s] = 0
  BY OneQueue, Zenon DEF Typed, Packet, Target, Choice
<1>2. x \in Above /\ x.held = NoPacket
  BY DEF Above
<1>3. y \in Above /\ y.held = NoPacket
  BY <1>1 DEF Above
<1>4. T1 = [S EXCEPT !.source[s].held = NoPacket]
  BY <1>1 DEF Fields
<1>5. R = IF pkt.cmd = "Writeback" THEN Evict(T1, c.victim)
          ELSE IF c.hit THEN schedSendTiming(S1, 0, s, hitLatency)
          ELSE IF Allocated(S.mshr[l])
          THEN WithTarget([S1 EXCEPT !.arrived[l] = Append(@, t.src)], l, t)
          ELSE allocateMissBuffer([S1 EXCEPT !.arrived[l] = Append(@, t.src)], l, t)
  BY <1>1, <1>4, SMTT(60) DEF timingAccess
<1> HIDE DEF l, t, x, y, R
<1>6. \A e \in Events : Agree(S.events, S.events, e)
  BY DEF Agree
<1>7. ASSUME NEW X, NEW z, Typed(X), SameMisses(X, S), SameAnswers(X, S),
             SameBlocks(X, S), X.req = S.req, X.events = S.events, X.abort = S.abort,
             X.source = [S.source EXCEPT ![s] = z]
      PROVE  Good(X, z) /\ ~X.gate.blocked /\ X.mshr = S.mshr
  <2>1. Misses(X)
    BY <1>7, Zenon DEF Misses, SameMisses
  <2>2. Blocks(X)
    BY <1>7, Zenon DEF Blocks, SameMisses, SameBlocks
  <2>3. Sending(X.resp, X.queue[0], X.events)
    BY <1>7 DEF SameAnswers
  <2> QED BY <1>6, <1>7, <2>1, <2>2, <2>3, Zenon DEF SameBlocks, SameMisses
<1>8. Good(S1, x) /\ ~S1.gate.blocked /\ S1.mshr = S.mshr
  <2>1. /\ Typed(S1) /\ SameMisses(S1, S) /\ SameAnswers(S1, S) /\ SameBlocks(S1, S)
        /\ S1.req = S.req /\ S1.events = S.events /\ S1.abort = S.abort
        /\ S1.source = [S.source EXCEPT ![s] = x]
    BY <1>2, SourceFrame
  <2> HIDE DEF S1, Good
  <2> QED BY <1>7, <2>1, Zenon
<1>9. Good(T1, y)
  <2>1. /\ Typed(T1) /\ SameMisses(T1, S) /\ SameAnswers(T1, S) /\ SameBlocks(T1, S)
        /\ T1.req = S.req /\ T1.events = S.events /\ T1.abort = S.abort
        /\ T1.source = [S.source EXCEPT ![s] = y]
    BY <1>3, SourceFrame
  <2> HIDE DEF T1, Good
  <2> QED BY <1>7, <2>1, ZenonT(60)
<1> HIDE DEF S1, T1
<1>10. ASSUME NEW X, NEW z, NEW Y, Good(X, z), Typed(Y), Misses(Y), Blocks(Y),
              SameRequests(Y, X), SameAnswers(Y, X), Y.events = X.events,
              Y.abort = X.abort
       PROVE  Good(Y, z)
  BY <1>10 DEF SameRequests, SameAnswers
<1>11. ASSUME NEW X, NEW z, NEW Y, Good(X, z), SameMisses(Y, X), Typed(Y), Blocks(Y),
              SameRequests(Y, X), SameAnswers(Y, X), Y.events = X.events,
              Y.abort = X.abort
       PROVE  Good(Y, z)
  <2>1. Misses(Y)
    BY <1>11, Zenon DEF Misses, SameMisses
  <2> HIDE DEF Good
  <2> QED BY <1>10, <1>11, <2>1, Zenon
<1> SUFFICES \E z \in Above : z.held = NoPacket /\ Good(R, z)
  BY Zenon DEF R
<1>12. CASE pkt.cmd = "Writeback"
  <2>1. R = Evict(T1, c.victim)
    BY <1>5, <1>12, Zenon
  <2>2. Good(R, y)
    <3>1. Typed(T1) /\ Blocks(T1)
      BY <1>9
    <3>2. /\ Typed(R) /\ SameMisses(R, T1) /\ SameRequests(R, T1)
          /\ SameAnswers(R, T1) /\ R.events = T1.events
          /\ R.abort = T1.abort /\ Blocks(R)
      BY <1>1, <2>1, <3>1, EvictFacts, Zenon
    <3> HIDE DEF Good
    <3> QED BY <1>9, <1>11, <3>2, ZenonT(60)
  <2> QED BY <1>3, <2>2, Zenon
<1>13. CASE pkt.cmd # "Writeback" /\ ~c.hit /\ Allocated(S.mshr[l])
  <2>1. R = WithTarget([S1 EXCEPT !.arrived[l] = Append(@, t.src)], l, t)
    BY <1>5, <1>13
  <2>2. Good(R, x)
    <3>1. /\ Typed(S1) /\ Misses(S1) /\ Blocks(S1) /\ ~S1.gate.blocked
          /\ Allocated(S1.mshr[l])
      BY <1>8, <1>13, ZenonT(60)
    <3> HIDE DEF Good, S1
    <3>2. /\ Typed(R) /\ Misses(R) /\ Blocks(R) /\ SameRequests(R, S1)
          /\ SameAnswers(R, S1) /\ R.events = S1.events /\ R.abort = S1.abort
      BY <1>1, <2>1, <3>1, WithTargetFacts
    <3> QED BY <1>8, <1>10, <3>2, Zenon
  <2> QED BY <1>2, <2>2, ZenonT(60)
<1>14. CASE pkt.cmd # "Writeback" /\ c.hit
  <2>1. R = schedSendTiming(S1, 0, s, hitLatency)
    BY <1>5, <1>14
  <2>2. hitLatency \in Nat \ {0}
    BY TimesAssumption
  <2>3. /\ Typed(R) /\ SameMisses(R, S1) /\ SameRequests(R, S1) /\ SameBlocks(R, S1)
        /\ R.abort = S1.abort /\ Sending(R.resp, R.queue[0], R.events)
        /\ \A e \in Events \ {"send0"} : Agree(S1.events, R.events, e)
    BY <1>8, <2>1, <2>2, SchedSendFacts, Zenon
  <2>4. Misses(R)
    BY <1>8, <2>3, Zenon DEF Misses, SameMisses
  <2>5. Blocks(R)
    BY <1>8, <2>3, Zenon DEF Blocks, SameMisses, SameBlocks
  <2>6. \A e \in Events \ {"send0"} : Agree(S.events, R.events, e)
    BY <1>8, <2>3, Zenon DEF Agree
  <2>7. Good(R, x)
    BY <1>8, <2>3, <2>4, <2>5, <2>6, ZenonT(60) DEF SameRequests
  <2> QED BY <1>2, <2>7, ZenonT(60)
<1>15. CASE pkt.cmd # "Writeback" /\ ~c.hit /\ ~Allocated(S.mshr[l])
  <2>1. R = allocateMissBuffer([S1 EXCEPT !.arrived[l] = Append(@, t.src)], l, t)
    BY <1>5, <1>15
  <2>2. Good(R, x)
    <3>1. /\ Typed(S1) /\ Misses(S1) /\ Blocks(S1) /\ ~S1.gate.blocked
          /\ ~Allocated(S1.mshr[l])
      BY <1>8, <1>15, ZenonT(60)
    <3> HIDE DEF Good, S1
    <3>2. /\ Typed(R) /\ Misses(R) /\ Blocks(R) /\ SameRequests(R, S1)
          /\ SameAnswers(R, S1) /\ R.events = S1.events /\ R.abort = S1.abort
      BY <1>1, <2>1, <3>1, AllocateMissFacts
    <3> QED BY <1>8, <1>10, <3>2, Zenon
  <2> QED BY <1>2, <2>2
<1> QED BY <1>12, <1>13, <1>14, <1>15, Zenon

\* Port s sends: for the first time, or because it is first on the retry list.
Trying(S, s) ==
    /\ OnList(S.req.retryList, S.source)
    /\ \/ S.source[s].held = NoPacket /\ Held(S.req, S.source, S.events)
       \/ /\ S.req.state = "RETRY" /\ S.req.retryList # <<>>
          /\ s = Head(S.req.retryList) /\ ~scheduled(S.events, "reqRelease")

\* A request, turned away by the bus or the cache or taken, keeps the invariant.
LEMMA RecvReqFacts ==
    ASSUME ~SplitRPort, NEW S, Typed(S), Misses(S), Blocks(S), S.abort = "no",
           Sending(S.resp, S.queue[0], S.events), NEW s \in Source, Trying(S, s),
           NEW pkt \in Packet, NEW c \in Choice
    PROVE  PortInv(recvTimingReq(S, s, pkt, c))
<1> DEFINE R == recvTimingReq(S, s, pkt, c)
           S1 == timingAccess(S, s, pkt, c)
           r == S.req.retryList
           h == [S.source[s] EXCEPT !.held = pkt]
           g == [S.gate EXCEPT !.mustSendRetry = TRUE]
           src == [S.source EXCEPT ![s] = h]
<1>1. /\ DOMAIN S = Fields /\ S.req \in Layer(Source) /\ GoodEvents(S.events)
      /\ S.source \in [Source -> Above] /\ S.gate \in Gate
  BY ZenonT(60) DEF Typed
<1>2. /\ r \in Seq(Source) /\ S.req = [state |-> S.req.state, retryList |-> r]
      /\ S.req.state \in {"IDLE", "BUSY", "RETRY"}
  BY <1>1 DEF Layer
<1>3. c.busy \in Nat
  BY TimesAssumption, ZenonT(60) DEF Choice
<1>4. pkt # NoPacket
  BY PortAssumption DEF Packet, NoPacket
<1>5. h \in Above /\ h.held = pkt
  BY <1>1 DEF Above
<1>6. /\ g \in Gate /\ g.causes = S.gate.causes /\ g.blocked = S.gate.blocked
  BY <1>1, Zenon DEF Gate
<1>7. OnList(r, S.source)
  BY ZenonT(60) DEF Trying
<1>8. /\ "reqRelease" \in Events /\ "respRelease" \in Events \ {"reqRelease"}
      /\ "send0" \in Events \ {"reqRelease"} /\ "reqRelease" \in Events \ {"send0"}
  BY DEF Events
<1>9. R = IF Occupied(S.req, s)
          THEN [S EXCEPT !.req = Enqueued(S.req, s), !.source = src]
          ELSE IF S.gate.blocked
          THEN [S EXCEPT !.gate = g, !.source = src, !.req = failedTiming(S.req, s),
                         !.events = schedule(S.events, "reqRelease", c.busy)]
          ELSE IF S1.abort # "no" THEN S1
          ELSE [S1 EXCEPT !.req = succeededTiming(S1.req),
                          !.events = schedule(S1.events, "reqRelease", c.busy)]
  BY <1>1 DEF recvTimingReq, Fields
<1>10. src \in [Source -> Above]
  BY <1>1, <1>5
<1> HIDE DEF R, S1, h, g, src
<1>11. ASSUME NEW X, NEW q \in Layer(Source), NEW ev, GoodEvents(ev),
              NEW gt \in Gate, gt.causes = S.gate.causes, gt.blocked = S.gate.blocked,
              X = [S EXCEPT !.gate = gt, !.source = src, !.req = q, !.events = ev],
              Held(q, src, ev), Agree(S.events, ev, "respRelease"),
              Agree(S.events, ev, "send0")
       PROVE  PortInv(X)
  <2>1. /\ DOMAIN X = Fields /\ SameMisses(X, S) /\ SameAnswers(X, S) /\ X.req = q
        /\ X.source = src /\ X.events = ev /\ X.gate = gt /\ X.wbuf = S.wbuf
        /\ X.noTarget = S.noTarget /\ X.abort = S.abort
    BY <1>1, <1>11 DEF Fields, SameMisses, SameAnswers
  <2>2. Typed(X)
    BY <1>10, <1>11, <2>1, Zenon DEF Typed, SameMisses, SameAnswers
  <2>3. Misses(X)
    BY <2>1, Zenon DEF Misses, SameMisses
  <2>4. Blocks(X)
    BY <1>11, <2>1 DEF Blocks, Full, SameMisses
  <2>5. Sending(S.resp, S.queue[0], ev)
    BY <1>11, SendingFrame, Zenon
  <2> QED BY <1>11, <2>1, <2>2, <2>3, <2>4, <2>5 DEF PortInv, SameAnswers
<1>12. CASE Occupied(S.req, s)
  <2> DEFINE q == Enqueued(S.req, s)
  <2>1. S.req.state = "BUSY" /\ S.source[s].held = NoPacket /\ Held(S.req, S.source, S.events)
    BY <1>12 DEF Trying, Held, Occupied
  <2>2. q \in Layer(Source) /\ q.state = S.req.state /\ q.retryList = Append(r, s)
    BY <1>1, <1>2, SeqAppend, Zenon DEF Layer, Enqueued
  <2> HIDE DEF q
  <2>3. OnList(Append(r, s), src)
    BY <1>1, <1>2, <1>4, <1>5, <1>7, <2>1, OnListAppend, ZenonT(60) DEF src
  <2>4. Held(q, src, S.events)
    BY <2>1, <2>2, <2>3 DEF Held
  <2>5. S.gate = S.gate /\ R = [S EXCEPT !.gate = S.gate, !.source = src, !.req = q, !.events = S.events]
    <3>1. R = [S EXCEPT !.req = q, !.source = src]
      BY <1>9, <1>12, ZenonT(60) DEF q
    <3> QED BY <1>1, <3>1, Zenon DEF Fields
  <2>6. \A e : Agree(S.events, S.events, e)
    BY DEF Agree
  <2>7. PortInv(R)
    BY <1>1, <1>11, <2>2, <2>4, <2>5, <2>6, Zenon
  <2> QED BY <2>7, ZenonT(60) DEF R
<1>13. ASSUME ~Occupied(S.req, s)
       PROVE  /\ ~scheduled(S.events, "reqRelease") /\ S.req.state \in {"IDLE", "RETRY"}
              /\ S.req.state = "IDLE" => S.source[s].held = NoPacket
              /\ S.req.state = "RETRY" => /\ S.source[s].held # NoPacket /\ r # <<>>
                                          /\ s = Head(r)
  <2>1. CASE S.source[s].held = NoPacket /\ Held(S.req, S.source, S.events)
    BY <1>13, <2>1, Zenon DEF Held, Occupied
  <2>2. CASE /\ S.req.state = "RETRY" /\ r # <<>> /\ s = Head(r)
             /\ ~scheduled(S.events, "reqRelease")
    <3>1. 1 \in 1..Len(r) /\ r[1] = s
      BY <1>2, <2>2, HeadFacts, Zenon
    <3>2. S.source[s].held # NoPacket
      BY <1>7, <3>1, ZenonT(60) DEF OnList
    <3> QED BY <2>2, <3>2, Zenon
  <2> QED BY <2>1, <2>2, Zenon DEF Trying
<1>14. CASE ~Occupied(S.req, s) /\ S.gate.blocked
  <2> DEFINE q == failedTiming(S.req, s)
             ev == schedule(S.events, "reqRelease", c.busy)
             lst == IF S.req.state = "RETRY" THEN r ELSE Append(r, s)
  <2>1. q = [state |-> "BUSY", retryList |-> lst]
    BY <1>13, <1>14, ZenonT(60) DEF failedTiming
  <2>2. lst \in Seq(Source)
    BY <1>2, SeqAppend, ZenonT(60)
  <2>3. q \in Layer(Source) /\ q.state = "BUSY" /\ q.retryList = lst
    <3> HIDE DEF lst, q
    <3> QED BY <2>1, <2>2 DEF Layer
  <2>4. With(S.events, ev, "reqRelease", c.busy)
    BY <1>1, <1>3, <1>8, <1>13, <1>14, ScheduleFacts, Zenon
  <2>5. OnList(lst, src)
    <3>1. CASE S.req.state = "RETRY"
      BY <1>1, <1>4, <1>5, <1>7, <1>13, <1>14, <3>1, OnListSame, Zenon DEF src
    <3>2. CASE S.req.state # "RETRY"
      BY <1>1, <1>2, <1>4, <1>5, <1>7, <1>13, <1>14, <3>2, OnListAppend, Zenon DEF src
    <3> QED BY <3>1, <3>2, Zenon
  <2> HIDE DEF lst, ev, q
  <2>6. Held(q, src, ev)
    BY <2>3, <2>4, <2>5, Zenon DEF Held, With
  <2>7. R = [S EXCEPT !.gate = g, !.source = src, !.req = q, !.events = ev]
    BY <1>9, <1>14, ZenonT(60) DEF q, ev
  <2>8. GoodEvents(ev) /\ Agree(S.events, ev, "respRelease") /\ Agree(S.events, ev, "send0")
    BY <1>8, <2>4 DEF With
  <2>9. PortInv(R)
    BY <1>6, <1>11, <2>3, <2>6, <2>7, <2>8, ZenonT(60)
  <2> QED BY <2>9 DEF R
<1>15. CASE ~Occupied(S.req, s) /\ ~S.gate.blocked
  <2>1. /\ Typed(S1) /\ Misses(S1) /\ Blocks(S1) /\ S1.abort = S.abort
        /\ Sending(S1.resp, S1.queue[0], S1.events) /\ S1.req = S.req
        /\ \E x \in Above : /\ x.held = NoPacket
                            /\ S1.source = [S.source EXCEPT ![s] = x]
        /\ \A e \in Events \ {"send0"} : Agree(S.events, S1.events, e)
    BY <1>15, AccessFacts, Zenon DEF S1
  <2>2. PICK x \in Above : x.held = NoPacket /\ S1.source = [S.source EXCEPT ![s] = x]
    BY <2>1, ZenonT(60)
  <2> DEFINE q == succeededTiming(S.req)
             ev == schedule(S1.events, "reqRelease", c.busy)
             lst == IF S.req.state = "RETRY" THEN Tail(r) ELSE r
  <2>3. q = [state |-> "BUSY", retryList |-> lst]
    BY DEF succeededTiming
  <2>4. lst \in Seq(Source)
    BY <1>2, <1>13, <1>15, HeadFacts, ZenonT(60)
  <2>5. q \in Layer(Source) /\ q.state = "BUSY" /\ q.retryList = lst
    <3> HIDE DEF lst, q
    <3> QED BY <2>3, <2>4 DEF Layer
  <2>6. ~scheduled(S1.events, "reqRelease") /\ GoodEvents(S1.events)
    BY <1>8, <1>13, <1>15, <2>1, Zenon DEF Agree, Typed
  <2>7. With(S1.events, ev, "reqRelease", c.busy)
    BY <1>3, <1>8, <2>6, ScheduleFacts, ZenonT(60)
  <2>8. OnList(lst, S1.source)
    <3>1. CASE S.req.state = "RETRY"
      <4>1. r \in Seq(Source) /\ S.source \in [Source -> Above] /\ OnList(r, S.source)
        BY <1>1, <1>2, <1>7, Zenon
      <4>2. r # <<>> /\ s = Head(r) /\ lst = Tail(r)
        BY <1>13, <1>15, <3>1, Zenon
      <4>3. S1.source = [S.source EXCEPT ![Head(r)] = x]
        BY <2>2, <4>2, Zenon
      <4> HIDE DEF r, lst, S1
      <4>4. OnList(Tail(r), [S.source EXCEPT ![Head(r)] = x])
        BY <2>2, <4>1, <4>2, OnListTail, Zenon
      <4> QED BY <4>2, <4>3, <4>4, Zenon
    <3>2. CASE S.req.state # "RETRY"
      <4>1. S.source \in [Source -> Above] /\ OnList(r, S.source) /\ lst = r
        BY <1>1, <1>7, <3>2, Zenon
      <4>2. x.held = NoPacket <=> S.source[s].held = NoPacket
        BY <1>13, <1>15, <2>2, <3>2, Zenon
      <4> HIDE DEF r, lst, S1
      <4>3. OnList(r, [S.source EXCEPT ![s] = x])
        BY <4>1, <4>2, OnListSame, Zenon
      <4> QED BY <2>2, <4>1, <4>3, Zenon
    <3> QED BY <3>1, <3>2
  <2>9. R = [S1 EXCEPT !.req = q, !.events = ev]
    BY <1>9, <1>15, <2>1
  <2> HIDE DEF lst, ev, q
  <2>10. Held(q, S1.source, ev)
    BY <2>5, <2>7, <2>8, Zenon DEF Held, With
  <2>11. GoodEvents(ev) /\ Agree(S1.events, ev, "respRelease") /\ Agree(S1.events, ev, "send0")
    BY <1>8, <2>7, ZenonT(60) DEF With
  <2>12. Sending(S1.resp, S1.queue[0], ev)
    BY <2>1, <2>11, SendingFrame
  <2>13. /\ DOMAIN R = Fields /\ SameMisses(R, S1) /\ SameAnswers(R, S1)
         /\ SameBlocks(R, S1) /\ R.source = S1.source /\ R.abort = S1.abort
         /\ R.req = q /\ R.events = ev
    <3>1. DOMAIN S1 = Fields
      BY <2>1, Zenon DEF Typed
    <3> QED BY <2>9, <3>1 DEF Fields, SameMisses, SameAnswers, SameBlocks
  <2>14. Typed(R)
    BY <2>1, <2>5, <2>11, <2>13, Zenon DEF Typed, SameMisses, SameAnswers, SameBlocks
  <2>15. Misses(R)
    BY <2>1, <2>13, Zenon DEF Misses, SameMisses
  <2>16. Blocks(R)
    BY <2>1, <2>13, Zenon DEF Blocks, SameMisses, SameBlocks
  <2>17. PortInv(R)
    BY <2>1, <2>10, <2>12, <2>13, <2>14, <2>15, <2>16, Zenon DEF PortInv, SameAnswers
  <2> QED BY <2>17 DEF R
<1> QED BY <1>12, <1>14, <1>15, Zenon
=============================================================================
