---- MODULE Reads_proofs ----
(***************************************************************************)
(* Theorems about what is read while it grows: the events of a Task by     *)
(* listeners and by clients that page through them (TaskObservation.tla),  *)
(* the Tasks page by page (TaskPages.tla), the hints a bridge coalesces    *)
(* (HermesBridge.tla), and the reviews and checks the merge gates fold     *)
(* (ForgeGates.tla).  They hold for any number of events, Tasks, reviews   *)
(* and checks, and for any size of the pages and queues.                   *)
(***************************************************************************)
EXTENDS TaskObservation, TaskPages, HermesBridge, ForgeGates, FiniteSetTheorems, SequenceTheorems, TLAPS

(***************************************************************************)
(* Numbers, and functions that repeat a step.                              *)
(***************************************************************************)
\* A set of numbers that is not empty has a least one.
LEMMA LeastNumber ==
    ASSUME NEW S \in SUBSET Nat, S # {}
    PROVE  \E n \in S : \A m \in S : n <= m
<1> DEFINE R == {ss \in Nat \X Nat : ss[1] < ss[2]}
<1>1. IsWellFoundedOn(R, Nat)
    BY NatLessThanWellFounded, Zenon DEF OpToRel
<1> HIDE DEF R
<1>2. PICK n \in S : \A m \in S : ~(<<m, n>> \in R)
    BY <1>1, WFMin
<1>3. ASSUME NEW m \in S PROVE n <= m
    <2>1. ~(<<m, n>> \in R)
        BY <1>2
    <2> QED BY <2>1 DEF R
<1> QED BY <1>3

\* Numbers that stay below a bound have a greatest one.
LEMMA GreatestNumber ==
    ASSUME NEW S \in SUBSET Nat, S # {}, NEW b \in Nat, \A n \in S : n <= b
    PROVE  \E n \in S : \A m \in S : m <= n
<1> DEFINE R == {ss \in Nat \X Nat : ss[1] < ss[2]}
           T == {b - n : n \in S}
<1>1. IsWellFoundedOn(R, Nat)
    BY NatLessThanWellFounded, Zenon DEF OpToRel
<1>2. T \in SUBSET Nat /\ T # {}
    <2>1. \A n \in S : b - n \in Nat
        OBVIOUS
    <2>2. PICK n \in S : TRUE
        OBVIOUS
    <2>3. b - n \in T
        OBVIOUS
    <2> QED BY <2>1, <2>3
<1> HIDE DEF R
<1>3. PICK k \in T : \A m \in T : ~(<<m, k>> \in R)
    BY <1>1, <1>2, WFMin
<1>4. PICK n \in S : k = b - n
    OBVIOUS
<1>5. ASSUME NEW m \in S PROVE m <= n
    <2>1. b - m \in T
        OBVIOUS
    <2>2. ~(<<b - m, k>> \in R)
        BY <1>3, <2>1
    <2>3. ~(b - m < k)
        BY <1>2, <2>1, <2>2 DEF R
    <2> QED BY <1>4, <2>3
<1> QED BY <1>5

\* f[k] is what k steps make of a first value.
Repeats(f, n, base, step) == f[0] = base /\ \A k \in 1..n : f[k] = step[f[k - 1]]

\* Such a function exists, for any step and any number of them.
LEMMA Repetition ==
    ASSUME NEW T, NEW base \in T, NEW step \in [T -> T], NEW n \in Nat
    PROVE  \E f \in [0..n -> T] : Repeats(f, n, base, step)
<1> DEFINE P(m) == \E f \in [0..m -> T] :
                       f = [k \in 0..m |-> IF k = 0 THEN base ELSE step[f[k - 1]]]
           Without == {m \in Nat : ~P(m)}
<1>1. P(0)
    <2> DEFINE f == [k \in 0..0 |-> base]
    <2>1. f \in [0..0 -> T]
        OBVIOUS
    <2>2. f = [k \in 0..0 |-> IF k = 0 THEN base ELSE step[f[k - 1]]]
        OBVIOUS
    <2> QED BY <2>1, <2>2
<1>2. ASSUME NEW m \in Nat, P(m)
      PROVE  P(m + 1)
    <2>1. PICK f \in [0..m -> T] : f = [k \in 0..m |-> IF k = 0 THEN base ELSE step[f[k - 1]]]
        BY <1>2
    <2> DEFINE g == [k \in 0..m + 1 |-> IF k = m + 1 THEN step[f[m]] ELSE f[k]]
    <2>2. step[f[m]] \in T
        BY <2>1
    <2>3. g \in [0..m + 1 -> T]
        BY <2>1, <2>2
    <2>4. \A k \in 0..m + 1 : g[k] = IF k = 0 THEN base ELSE step[g[k - 1]]
        <3>1. TAKE k \in 0..m + 1
        <3>2. CASE k = 0
            BY <2>1, <3>2
        <3>3. CASE k = m + 1
            <4>1. g[k] = step[f[m]] /\ g[k - 1] = f[m]
                BY <3>3
            <4> QED BY <3>3, <4>1
        <3>4. CASE k # 0 /\ k # m + 1
            <4>1. k \in 0..m /\ k - 1 \in 0..m /\ k - 1 # m + 1
                BY <3>4
            <4>2. g[k] = f[k] /\ g[k - 1] = f[k - 1]
                BY <3>4, <4>1
            <4>3. f[k] = step[f[k - 1]]
                BY <2>1, <3>4, <4>1
            <4> QED BY <3>4, <4>2, <4>3
        <3> QED BY <3>2, <3>3, <3>4
    <2> HIDE DEF g
    <2>5. g = [k \in 0..m + 1 |-> IF k = 0 THEN base ELSE step[g[k - 1]]]
        BY <2>3, <2>4
    <2> QED BY <2>3, <2>5
<1> HIDE DEF P
<1>3. Without = {}
    <2>1. SUFFICES ASSUME Without # {} PROVE FALSE
        OBVIOUS
    <2>2. PICK m \in Without : \A k \in Without : m <= k
        BY <2>1, LeastNumber
    <2>3. m # 0
        BY <1>1, <2>2
    <2>4. m - 1 \in Nat /\ m - 1 \notin Without
        BY <2>2, <2>3
    <2>5. P((m - 1) + 1)
        BY <1>2, <2>4
    <2>6. (m - 1) + 1 = m
        BY <2>2
    <2>7. P(m)
        BY <2>5, <2>6
    <2> QED BY <2>2, <2>7
<1>4. PICK f \in [0..n -> T] : f = [k \in 0..n |-> IF k = 0 THEN base ELSE step[f[k - 1]]]
    BY <1>3 DEF P
<1>5. Repeats(f, n, base, step)
    BY <1>4 DEF Repeats
<1> QED BY <1>5

(***************************************************************************)
(* The events of a Task.                                                   *)
(***************************************************************************)
ListenerType ==
    [mode : {"none", "subscribe", "wait"}, open : BOOLEAN, queue : Seq(Nat), got : Seq(Nat)]
ReaderType ==
    [mode : {"follow", "evidence"}, step : {"status", "events", "drained", "done", "stopped"},
     settled : BOOLEAN, at : Nat, seen : Seq(Nat)]

ObservationTypeOK ==
    /\ history \in Nat
    /\ dispatch \in Seq(Nat)
    /\ listener \in ListenerType
    /\ reader \in ReaderType

\* The events that wait for their dispatch are the last ones.
Dispatched == history - Len(dispatch)
DispatchInOrder ==
    /\ Dispatched \in Nat
    /\ \A i \in 1..Len(dispatch) : dispatch[i] = Dispatched + i

\* What a listener got or holds is in order, and up to the event last named nothing is missing
\* after the first of it.
InOrder(es) == \A i, j \in 1..Len(es) : i < j => es[i] < es[j]
NoGap(es, last, missed) ==
    \A i \in 1..Len(es) : /\ es[i] <= last
                          /\ \A e \in es[i]..last : e \in missed \/ \E j \in 1..Len(es) : es[j] = e
Heard(l) == l.got \o l.queue
SoundListener(l, last, missed) ==
    /\ InOrder(Heard(l))
    /\ l.open => NoGap(Heard(l), last, missed)
    /\ l.got # <<>> => NoGap(l.got, l.got[Len(l.got)], missed)

\* What a reader has seen is the beginning of the history, and reaches as far as it knows.
SoundReader(r, last) ==
    /\ \A i \in 1..Len(r.seen) : r.seen[i] = i
    /\ Len(r.seen) <= last /\ r.at <= last
    /\ r.step \in {"drained", "done"} => Len(r.seen) >= r.at
    /\ r.settled => r.at \in SettledAfter
    /\ r.step = "done" => r.mode = "evidence" \/ r.settled

ObservationInv ==
    /\ ObservationTypeOK
    /\ DispatchInOrder
    /\ SoundListener(listener, Dispatched, lost)
    /\ SoundReader(reader, history)

\* More is lost, and the last event is a later one that is lost as well, or none.
LEMMA NothingNewHeard ==
    ASSUME NEW l \in ListenerType, NEW last \in Nat, NEW missed, NEW more, SoundListener(l, last, missed),
           missed \subseteq more, NEW next \in {last, last + 1}, next = last + 1 => next \in more \/ ~l.open
    PROVE  SoundListener(l, next, more)
<1> DEFINE es == Heard(l)
<1>1. es \in Seq(Nat)
    BY DEF Heard, ListenerType
<1> HIDE DEF es
<1>2. ASSUME NoGap(es, last, missed), next = last + 1 => next \in more PROVE NoGap(es, next, more)
  <2> SUFFICES ASSUME NEW i \in 1..Len(es)
               PROVE  /\ es[i] <= next
                      /\ \A e \in es[i]..next : e \in more \/ \E j \in 1..Len(es) : es[j] = e
      BY DEF NoGap
  <2>1. /\ es[i] \in Nat /\ es[i] <= last
        /\ \A e \in es[i]..last : e \in missed \/ \E j \in 1..Len(es) : es[j] = e
      BY <1>1, <1>2 DEF NoGap
  <2>2. ASSUME NEW e \in es[i]..next PROVE e \in es[i]..last \/ (e = next /\ next = last + 1)
    <3>1. CASE next = last
        BY <2>2, <3>1
    <3>2. CASE next = last + 1
        BY <2>1, <2>2, <3>2
    <3> QED BY <3>1, <3>2
  <2> QED BY <1>2, <2>1, <2>2
<1>3. l.got # <<>> => NoGap(l.got, l.got[Len(l.got)], more)
    BY DEF SoundListener, NoGap
<1>4. l.open => NoGap(es, next, more)
    BY <1>2 DEF SoundListener, es
<1> QED BY <1>3, <1>4 DEF SoundListener, es

\* An event queued comes after all that was got or is queued.
LEMMA ConcatAppend ==
    ASSUME NEW got \in Seq(Nat), NEW queue \in Seq(Nat), NEW e \in Nat
    PROVE  got \o Append(queue, e) = Append(got \o queue, e)
<1> DEFINE x == got \o Append(queue, e)
           y == Append(got \o queue, e)
<1>1. x \in Seq(Nat) /\ y \in Seq(Nat) /\ Len(x) = Len(y) /\ Len(x) = Len(got) + Len(queue) + 1
    OBVIOUS
<1>2. ASSUME NEW i \in 1..Len(x) PROVE x[i] = y[i]
    OBVIOUS
<1> HIDE DEF x, y
<1>3. x = y
    BY <1>1, <1>2, SeqEqual
<1> QED BY <1>3 DEF x, y

\* A listener that takes the next event.
LEMMA HeardOneMore ==
    ASSUME NEW l \in ListenerType, NEW last \in Nat, NEW missed, SoundListener(l, last, missed), l.open
    PROVE  LET n == [l EXCEPT !.queue = Append(@, last + 1)]
           IN  n \in ListenerType /\ SoundListener(n, last + 1, missed)
<1> DEFINE n == [l EXCEPT !.queue = Append(@, last + 1)]
           es == Heard(l)
           next == Heard(n)
<1>0. Append(l.queue, last + 1) \in Seq(Nat)
    BY DEF ListenerType
<1>1. n \in ListenerType /\ n.queue = Append(l.queue, last + 1) /\ n.got = l.got /\ n.open = l.open
    BY <1>0 DEF ListenerType
<1>2. es \in Seq(Nat) /\ l.got \in Seq(Nat) /\ l.queue \in Seq(Nat)
    BY DEF Heard, ListenerType
<1> HIDE DEF n
<1>3. next = Append(es, last + 1)
  <2>1. l.got \o Append(l.queue, last + 1) = Append(l.got \o l.queue, last + 1)
    <3> DEFINE e == last + 1
               got == l.got
               queue == l.queue
    <3>1. got \in Seq(Nat) /\ queue \in Seq(Nat) /\ e \in Nat
        BY <1>2
    <3> HIDE DEF e, got, queue
    <3>2. got \o Append(queue, e) = Append(got \o queue, e)
        BY <3>1, ConcatAppend, Zenon
    <3> QED BY <3>2 DEF e, got, queue
  <2> QED BY <1>1, <2>1 DEF Heard, es
<1>4. /\ Len(next) = Len(es) + 1 /\ next[Len(es) + 1] = last + 1 /\ Len(es) \in Nat
      /\ \A i \in 1..Len(es) : next[i] = es[i] /\ es[i] \in Nat
    BY <1>2, <1>3
<1>5. InOrder(es) /\ NoGap(es, last, missed)
    BY DEF SoundListener
<1> HIDE DEF es, next
<1>6. InOrder(next)
  <2> SUFFICES ASSUME NEW i \in 1..Len(next), NEW j \in 1..Len(next), i < j PROVE next[i] < next[j]
      BY DEF InOrder
  <2>1. i \in 1..Len(es) /\ es[i] <= last
      BY <1>4, <1>5 DEF NoGap
  <2>2. CASE j = Len(es) + 1
      BY <1>4, <2>1, <2>2
  <2>3. CASE j \in 1..Len(es)
      BY <1>4, <1>5, <2>1, <2>3 DEF InOrder
  <2> QED BY <1>4, <2>2, <2>3
<1>7. NoGap(next, last + 1, missed)
  <2> SUFFICES ASSUME NEW i \in 1..Len(next)
               PROVE  /\ next[i] <= last + 1
                      /\ \A e \in next[i]..(last + 1) : e \in missed \/ \E j \in 1..Len(next) : next[j] = e
      BY DEF NoGap
  <2>1. CASE i = Len(es) + 1
    <3>1. next[i] = last + 1
        BY <1>4, <2>1
    <3>2. ASSUME NEW e \in next[i]..(last + 1) PROVE e = next[i]
        BY <3>1
    <3> QED BY <3>1, <3>2
  <2>2. CASE i \in 1..Len(es)
    <3>1. /\ next[i] = es[i] /\ es[i] \in Nat /\ es[i] <= last
          /\ \A e \in es[i]..last : e \in missed \/ \E j \in 1..Len(es) : es[j] = e
        BY <1>4, <1>5, <2>2 DEF NoGap
    <3>2. ASSUME NEW e \in next[i]..(last + 1) PROVE e \in missed \/ \E j \in 1..Len(next) : next[j] = e
      <4>1. CASE e = last + 1
          BY <1>4, <4>1
      <4>2. CASE e # last + 1
        <5>1. e \in es[i]..last
            BY <3>1, <3>2, <4>2
        <5>2. CASE \E j \in 1..Len(es) : es[j] = e
            BY <1>4, <5>2
        <5> QED BY <3>1, <5>1, <5>2
      <4> QED BY <4>1, <4>2
    <3> QED BY <3>1, <3>2
  <2> QED BY <1>4, <2>1, <2>2
<1>8. SoundListener(n, last + 1, missed)
    BY <1>1, <1>6, <1>7 DEF SoundListener, next
<1> QED BY <1>1, <1>8 DEF n
\* An event taken from the queue moves to what was got.
LEMMA ConcatTail ==
    ASSUME NEW got \in Seq(Nat), NEW queue \in Seq(Nat), queue # <<>>
    PROVE  Append(got, Head(queue)) \o Tail(queue) = got \o queue
<1> DEFINE x == Append(got, Head(queue)) \o Tail(queue)
           y == got \o queue
<1>1. x \in Seq(Nat) /\ y \in Seq(Nat) /\ Len(x) = Len(y) /\ Len(x) = Len(got) + Len(queue)
    OBVIOUS
<1>2. ASSUME NEW i \in 1..Len(x) PROVE x[i] = y[i]
  <2>1. Len(got) \in Nat /\ Len(queue) \in Nat /\ Len(queue) > 0 /\ Head(queue) = queue[1]
      OBVIOUS
  <2>2. CASE i <= Len(got)
      BY <2>1, <2>2
  <2>3. CASE i = Len(got) + 1
      BY <2>1, <2>3
  <2>4. CASE i > Len(got) + 1
      BY <1>1, <2>1, <2>4
  <2> QED BY <2>1, <2>2, <2>3, <2>4
<1> HIDE DEF x, y
<1>3. x = y
    BY <1>1, <1>2, SeqEqual
<1> QED BY <1>3 DEF x, y

\* What was got, with the event taken, is the beginning of what was got or queued.
LEMMA HeadMoves ==
    ASSUME NEW got \in Seq(Nat), NEW queue \in Seq(Nat), queue # <<>>
    PROVE  LET x == Append(got, Head(queue))
               y == got \o queue
           IN  /\ Len(x) <= Len(y) /\ Len(x) > 0
               /\ \A i \in 1..Len(x) : x[i] = y[i] /\ y[i] \in Nat /\ i \in 1..Len(y)
<1> DEFINE x == Append(got, Head(queue))
           y == got \o queue
<1>1. /\ Len(got) \in Nat /\ Len(queue) \in Nat /\ Len(queue) > 0 /\ Head(queue) = queue[1] /\ queue[1] \in Nat
      /\ Len(x) = Len(got) + 1 /\ Len(y) = Len(got) + Len(queue)
    OBVIOUS
<1>2. ASSUME NEW i \in 1..Len(x) PROVE x[i] = y[i] /\ y[i] \in Nat /\ i \in 1..Len(y)
  <2>1. CASE i <= Len(got)
      BY <1>1, <2>1
  <2>2. CASE i = Len(got) + 1
      BY <1>1, <2>2
  <2> QED BY <1>1, <2>1, <2>2
<1> HIDE DEF x, y
<1>3. Len(x) <= Len(y) /\ Len(x) > 0
    BY <1>1
<1> QED BY <1>2, <1>3 DEF x, y

\* A listener that hands over what it holds.
LEMMA HandsOver ==
    ASSUME NEW l \in ListenerType, NEW last \in Nat, NEW missed, SoundListener(l, last, missed), l.open,
           l.queue # <<>>, NEW open \in BOOLEAN
    PROVE  LET n == [l EXCEPT !.queue = Tail(@), !.got = Append(@, Head(l.queue)), !.open = open]
           IN  n \in ListenerType /\ SoundListener(n, last, missed)
<1> DEFINE n == [l EXCEPT !.queue = Tail(@), !.got = Append(@, Head(l.queue)), !.open = open]
           es == Heard(l)
           got == Append(l.got, Head(l.queue))
<1>1. l.queue \in Seq(Nat) /\ l.got \in Seq(Nat) /\ Head(l.queue) \in Nat
    BY DEF ListenerType
<1>2. got \in Seq(Nat) /\ Tail(l.queue) \in Seq(Nat) /\ Len(got) = Len(l.got) + 1 /\ es \in Seq(Nat)
    BY <1>1 DEF Heard
<1>3. n \in ListenerType /\ n.queue = Tail(l.queue) /\ n.got = got /\ n.open = open
    BY <1>2 DEF ListenerType
<1>4. Len(got) <= Len(es) /\ Len(got) > 0 /\ \A i \in 1..Len(got) : got[i] = es[i] /\ es[i] \in Nat /\ i \in 1..Len(es)
  <2> DEFINE a == l.got
             b == l.queue
             x == Append(a, Head(b))
             y == a \o b
  <2>1. a \in Seq(Nat) /\ b \in Seq(Nat) /\ b # <<>>
      BY <1>1
  <2> HIDE DEF a, b
  <2>2. Len(x) <= Len(y) /\ Len(x) > 0 /\ \A i \in 1..Len(x) : x[i] = y[i] /\ y[i] \in Nat /\ i \in 1..Len(y)
      BY <2>1, HeadMoves, Zenon
  <2>3. x = got /\ y = es
      BY Zenon DEF a, b, Heard
  <2> HIDE DEF x, y, got, es
  <2> QED BY <2>2, <2>3
<1>5. Heard(n) = es
  <2> DEFINE a == l.got
             b == l.queue
  <2>1. a \in Seq(Nat) /\ b \in Seq(Nat) /\ b # <<>>
      BY <1>1
  <2> HIDE DEF a, b
  <2>2. Append(a, Head(b)) \o Tail(b) = a \o b
      BY <2>1, ConcatTail, Zenon
  <2>3. got \o Tail(l.queue) = es
      BY <2>2, Zenon DEF a, b, Heard
  <2> HIDE DEF got
  <2> QED BY <1>3, <2>3 DEF Heard
<1>6. InOrder(es) /\ NoGap(es, last, missed)
    BY DEF SoundListener
<1> HIDE DEF got, n, es
<1>7. NoGap(got, got[Len(got)], missed)
  <2> DEFINE z == got[Len(got)]
  <2>a. Len(got) \in Nat /\ Len(es) \in Nat
      BY <1>2
  <2>b. Len(got) \in 1..Len(got)
      BY <1>4, <2>a
  <2>0. z = es[Len(got)] /\ z \in Nat /\ Len(got) \in 1..Len(es) /\ z <= last /\ Len(es) \in Nat
      BY <1>4, <1>6, <2>a, <2>b DEF NoGap
  <2> HIDE DEF z
  <2>1. SUFFICES ASSUME NEW i \in 1..Len(got)
                 PROVE  /\ got[i] <= z
                        /\ \A e \in got[i]..z : e \in missed \/ \E j \in 1..Len(got) : got[j] = e
      BY DEF NoGap, z
  <2>2. /\ got[i] = es[i] /\ i \in 1..Len(es) /\ es[i] \in Nat
        /\ \A e \in es[i]..last : e \in missed \/ \E j \in 1..Len(es) : es[j] = e
      BY <1>4, <1>6 DEF NoGap
  <2>3. es[i] <= z
      BY <1>4, <1>6, <2>0, <2>2 DEF InOrder
  <2>4. ASSUME NEW e \in got[i]..z, e \notin missed PROVE \E j \in 1..Len(got) : got[j] = e
    <3>1. e \in es[i]..last /\ e <= z
        BY <2>0, <2>2, <2>4
    <3> PICK j \in 1..Len(es) : es[j] = e
        BY <2>2, <2>4, <3>1
    <3>2. ~(Len(got) < j)
        BY <1>6, <2>0, <3>1 DEF InOrder
    <3>3. j \in 1..Len(got)
        BY <2>0, <3>2
    <3> QED BY <1>4, <3>3
  <2> QED BY <2>2, <2>3, <2>4
<1>8. SoundListener(n, last, missed)
    BY <1>3, <1>5, <1>6, <1>7 DEF SoundListener
<1> QED BY <1>3, <1>8 DEF n

\* A listener that is closed, whatever is dispatched then.
LEMMA Closes ==
    ASSUME NEW l \in ListenerType, NEW last, NEW missed, SoundListener(l, last, missed), NEW next
    PROVE  LET n == [l EXCEPT !.open = FALSE] IN n \in ListenerType /\ SoundListener(n, next, missed)
<1> DEFINE n == [l EXCEPT !.open = FALSE]
<1>1. n \in ListenerType /\ n.queue = l.queue /\ n.got = l.got /\ n.open = FALSE
    BY DEF ListenerType
<1> HIDE DEF n
<1>2. SoundListener(n, next, missed)
    BY <1>1 DEF SoundListener, Heard
<1> QED BY <1>1, <1>2 DEF n

\* The first event that waits for its dispatch.
LEMMA DispatchesNext ==
    ASSUME ObservationInv, dispatch # <<>>, dispatch' = Tail(dispatch), history' = history
    PROVE  /\ Head(dispatch) = Dispatched + 1 /\ Dispatched \in Nat
           /\ dispatch' \in Seq(Nat) /\ DispatchInOrder' /\ Dispatched' = Dispatched + 1
<1>1. /\ dispatch \in Seq(Nat) /\ history \in Nat /\ DispatchInOrder /\ Dispatched \in Nat
    BY DEF ObservationInv, ObservationTypeOK, DispatchInOrder
<1> DEFINE rest == Tail(dispatch)
<1>2. /\ Len(dispatch) \in Nat /\ Len(dispatch) > 0 /\ rest \in Seq(Nat) /\ Len(rest) = Len(dispatch) - 1
      /\ Head(dispatch) = dispatch[1] /\ \A i \in 1..Len(rest) : rest[i] = dispatch[i + 1] /\ i + 1 \in 1..Len(dispatch)
    BY <1>1
<1>3. dispatch[1] = Dispatched + 1
    BY <1>1, <1>2 DEF DispatchInOrder
<1> HIDE DEF rest
<1>4. history - Len(rest) = Dispatched + 1
    BY <1>1, <1>2 DEF Dispatched
<1>5. ASSUME NEW i \in 1..Len(rest) PROVE rest[i] = (history - Len(rest)) + i
  <2>1. rest[i] = dispatch[i + 1] /\ dispatch[i + 1] = Dispatched + (i + 1)
      BY <1>1, <1>2 DEF DispatchInOrder
  <2>2. i \in Nat /\ Dispatched + (i + 1) = (Dispatched + 1) + i
      BY <1>1, <1>2
  <2> QED BY <1>4, <2>1, <2>2
<1>6. DispatchInOrder'
    BY <1>1, <1>4, <1>5 DEF DispatchInOrder, Dispatched, rest
<1> QED BY <1>1, <1>2, <1>3, <1>4, <1>6 DEF Dispatched, rest

\* What the hub and its listeners do keeps the invariant.
LEMMA HubSteps ==
    ASSUME ObservationInv,
           CommitEvent \/ DispatchEvent \/ DispatchFails \/ Listen \/ TakeEvent \/ StopListening
    PROVE  ObservationInv'
<1>0. /\ history \in Nat /\ dispatch \in Seq(Nat) /\ listener \in ListenerType /\ reader \in ReaderType
      /\ DispatchInOrder /\ Dispatched \in Nat /\ SoundListener(listener, Dispatched, lost)
      /\ SoundReader(reader, history)
    BY DEF ObservationInv, ObservationTypeOK, DispatchInOrder
<1>1. CASE CommitEvent
  <2> DEFINE more == Append(dispatch, history + 1)
  <2>1. /\ history' = history + 1 /\ dispatch' = more /\ UNCHANGED <<lost, listener, reader>>
      BY <1>1 DEF CommitEvent
  <2>2. /\ more \in Seq(Nat) /\ Len(dispatch) \in Nat /\ Len(more) = Len(dispatch) + 1
        /\ more[Len(dispatch) + 1] = history + 1
        /\ \A i \in 1..Len(dispatch) : more[i] = dispatch[i]
      BY <1>0
  <2> HIDE DEF more
  <2>3. Dispatched' = Dispatched /\ history = Dispatched + Len(dispatch)
      BY <1>0, <2>1, <2>2 DEF Dispatched
  <2>4. ASSUME NEW i \in 1..Len(more) PROVE more[i] = Dispatched + i
    <3>1. CASE i = Len(dispatch) + 1
        BY <1>0, <2>2, <2>3, <3>1
    <3>2. CASE i \in 1..Len(dispatch)
        BY <1>0, <2>2, <3>2 DEF DispatchInOrder
    <3> QED BY <2>2, <3>1, <3>2
  <2>5. DispatchInOrder'
      BY <1>0, <2>1, <2>3, <2>4 DEF DispatchInOrder
  <2>6. SoundReader(reader, history + 1)
    <3>1. Len(reader.seen) \in Nat /\ reader.at \in Nat
        BY <1>0 DEF ReaderType
    <3> QED BY <1>0, <3>1 DEF SoundReader
  <2> QED BY <1>0, <2>1, <2>2, <2>3, <2>5, <2>6 DEF ObservationInv, ObservationTypeOK
<1>2. CASE DispatchEvent
  <2>1. /\ Head(dispatch) = Dispatched + 1 /\ dispatch' \in Seq(Nat) /\ DispatchInOrder'
        /\ Dispatched' = Dispatched + 1 /\ UNCHANGED <<history, lost, reader>>
        /\ listener' = Published(listener, Dispatched + 1)
      BY <1>2, DispatchesNext DEF DispatchEvent
  <2>2. listener' \in ListenerType /\ SoundListener(listener', Dispatched + 1, lost)
    <3>1. CASE ~listener.open
        BY <1>0, <2>1, <3>1, NothingNewHeard DEF Published
    <3>2. CASE listener.open /\ Len(listener.queue) < QueueLimit
      <4>1. listener' = [listener EXCEPT !.queue = Append(@, Dispatched + 1)]
          BY <2>1, <3>2 DEF Published
      <4> QED BY <1>0, <3>2, <4>1, HeardOneMore
    <3>3. CASE listener.open /\ ~(Len(listener.queue) < QueueLimit)
      <4>1. listener' = [listener EXCEPT !.open = FALSE]
          BY <2>1, <3>3 DEF Published
      <4> QED BY <1>0, <4>1, Closes
    <3> QED BY <3>1, <3>2, <3>3
  <2> QED BY <1>0, <2>1, <2>2 DEF ObservationInv, ObservationTypeOK
<1>3. CASE DispatchFails
  <2>1. /\ Head(dispatch) = Dispatched + 1 /\ dispatch' \in Seq(Nat) /\ DispatchInOrder'
        /\ Dispatched' = Dispatched + 1 /\ UNCHANGED <<history, listener, reader>>
        /\ lost' = lost \cup {Dispatched + 1}
      BY <1>3, DispatchesNext DEF DispatchFails
  <2>2. SoundListener(listener, Dispatched + 1, lost \cup {Dispatched + 1})
      BY <1>0, NothingNewHeard
  <2> QED BY <1>0, <2>1, <2>2 DEF ObservationInv, ObservationTypeOK
<1>4. CASE Listen
  <2> PICK mode \in {"subscribe", "wait"} : listener' = [Closed EXCEPT !.mode = mode, !.open = TRUE]
      BY <1>4 DEF Listen
  <2> DEFINE n == [Closed EXCEPT !.mode = mode, !.open = TRUE]
  <2>0. <<>> \in Seq(Nat) /\ <<>> \o <<>> = <<>> /\ Len(<<>>) = 0
      OBVIOUS
  <2>1. n \in ListenerType /\ n.queue = <<>> /\ n.got = <<>>
      BY <2>0 DEF Closed, ListenerType
  <2> HIDE DEF n
  <2>2. SoundListener(n, Dispatched, lost)
      BY <2>0, <2>1 DEF SoundListener, Heard, InOrder, NoGap
  <2>3. listener' = n /\ UNCHANGED <<history, dispatch, lost, reader>>
      BY <1>4 DEF Listen, n
  <2> QED BY <1>0, <2>1, <2>2, <2>3 DEF ObservationInv, ObservationTypeOK, DispatchInOrder, Dispatched
<1>5. CASE TakeEvent
  <2> DEFINE open == (listener.mode = "subscribe")
  <2>1. /\ listener.open /\ listener.queue # <<>> /\ UNCHANGED <<history, dispatch, lost, reader>>
        /\ listener' = [listener EXCEPT !.queue = Tail(@), !.got = Append(@, Head(listener.queue)), !.open = open]
        /\ open \in BOOLEAN
      BY <1>5 DEF TakeEvent
  <2> HIDE DEF open
  <2>2. listener' \in ListenerType /\ SoundListener(listener', Dispatched, lost)
      BY <1>0, <2>1, HandsOver
  <2> QED BY <1>0, <2>1, <2>2 DEF ObservationInv, ObservationTypeOK, DispatchInOrder, Dispatched
<1>6. CASE StopListening
  <2>1. listener' = [listener EXCEPT !.open = FALSE] /\ UNCHANGED <<history, dispatch, lost, reader>>
      BY <1>6 DEF StopListening
  <2>2. listener' \in ListenerType /\ SoundListener(listener', Dispatched, lost)
      BY <1>0, <2>1, Closes
  <2> QED BY <1>0, <2>1, <2>2 DEF ObservationInv, ObservationTypeOK, DispatchInOrder, Dispatched
<1> QED BY <1>1, <1>2, <1>3, <1>4, <1>5, <1>6

\* A step of the reader alone.
LEMMA ReaderKeeps ==
    ASSUME ObservationInv, NEW r \in ReaderType, Reads(r), SoundReader(r, history)
    PROVE  ObservationInv'
BY DEF ObservationInv, ObservationTypeOK, DispatchInOrder, Dispatched, Reads

\* What the clients read keeps the invariant.
LEMMA ReaderSteps ==
    ASSUME ObservationInv, ReadStatus \/ ReadPage \/ Drained \/ FollowStops
    PROVE  ObservationInv'
<1> DEFINE r == reader
<1>0. history \in Nat /\ r \in ReaderType /\ SoundReader(r, history) /\ Len(r.seen) \in Nat /\ r.at \in Nat
    BY DEF ObservationInv, ObservationTypeOK, ReaderType
<1>1. CASE ReadStatus
  <2> DEFINE settled == TaskSettled
             n == [r EXCEPT !.step = "events", !.settled = settled, !.at = history]
  <2>1. settled \in BOOLEAN /\ (settled => history \in SettledAfter) /\ Reads(n) /\ r.step = "status"
      BY <1>1 DEF TaskSettled, ReadStatus
  <2> HIDE DEF settled
  <2>2. /\ n \in ReaderType /\ n.step = "events" /\ n.settled = settled /\ n.at = history /\ n.seen = r.seen
      BY <1>0, <2>1 DEF ReaderType
  <2> HIDE DEF n
  <2>3. SoundReader(n, history)
      BY <1>0, <2>1, <2>2 DEF SoundReader
  <2> QED BY <2>1, <2>2, <2>3, ReaderKeeps
<1>2. CASE ReadPage
  <2> DEFINE after == Len(r.seen)
             count == IF history - after < PageLimit THEN history - after ELSE PageLimit
             page == [i \in 1..count |-> after + i]
             step == IF ReadsOn(count) THEN "events" ELSE "drained"
             seen == r.seen \o page
             n == [r EXCEPT !.seen = seen, !.step = step]
  <2>1. Reads(n) /\ r.step = "events"
      BY <1>2 DEF ReadPage
  <2>2. after \in Nat /\ after <= history /\ PageLimit \in Nat /\ PageLimit > 0
      BY <1>0, ObservationAssumption DEF SoundReader
  <2> HIDE DEF after
  <2>3. /\ count \in Nat /\ after + count <= history /\ step \in {"events", "drained"}
        /\ step = "drained" => after + count = history
      BY <1>0, <2>2 DEF ReadsOn
  <2> HIDE DEF count, step
  <2>4. page \in Seq(Nat) /\ Len(page) = count /\ \A i \in 1..count : page[i] = after + i
      BY <2>2, <2>3
  <2> HIDE DEF page
  <2>5. r.seen \in Seq(Nat) /\ Len(r.seen) = after /\ \A i \in 1..after : r.seen[i] = i
      BY <1>0 DEF ReaderType, SoundReader, after
  <2>6. /\ seen \in Seq(Nat) /\ Len(seen) = after + count
        /\ \A i \in 1..(after + count) : seen[i] = IF i <= after THEN r.seen[i] ELSE page[i - after]
    <3> DEFINE a == r.seen
    <3>1. a \in Seq(Nat) /\ page \in Seq(Nat) /\ Len(a) = after /\ Len(page) = count
        BY <2>4, <2>5
    <3> HIDE DEF a
    <3>2. /\ a \o page \in Seq(Nat) /\ Len(a \o page) = Len(a) + Len(page)
          /\ \A i \in 1..Len(a) + Len(page) : (a \o page)[i] = IF i <= Len(a) THEN a[i] ELSE page[i - Len(a)]
        BY <3>1, ConcatProperties, Zenon
    <3> QED BY <3>1, <3>2, Zenon DEF a, seen
  <2> HIDE DEF seen
  <2>7. ASSUME NEW i \in 1..Len(seen) PROVE seen[i] = i
    <3>1. CASE i <= after
      <4>1. i \in 1..(after + count) /\ i \in 1..after
          BY <2>2, <2>3, <2>6, <3>1
      <4>2. seen[i] = r.seen[i]
          BY <2>6, <3>1, <4>1
      <4> QED BY <2>5, <4>1, <4>2
    <3>2. CASE i > after
      <4>1. i - after \in 1..count /\ seen[i] = page[i - after]
          BY <2>2, <2>3, <2>6, <3>2
      <4> QED BY <2>2, <2>4, <4>1
    <3> QED BY <2>2, <2>3, <2>6, <3>1, <3>2
  <2>8. n \in ReaderType /\ n.seen = seen /\ n.step = step /\ n.at = r.at /\ n.settled = r.settled /\ n.mode = r.mode
      BY <1>0, <2>3, <2>6 DEF ReaderType
  <2> HIDE DEF n
  <2>9. SoundReader(n, history)
      BY <1>0, <2>2, <2>3, <2>6, <2>7, <2>8 DEF SoundReader
  <2> QED BY <2>1, <2>8, <2>9, ReaderKeeps
<1>3. CASE Drained \/ FollowStops
  <2> PICK step \in {"done", "status", "stopped"} :
          /\ Reads([r EXCEPT !.step = step])
          /\ step = "done" => r.step = "drained" /\ (r.mode = "evidence" \/ r.settled)
      BY <1>3 DEF Drained, FollowStops
  <2> DEFINE n == [r EXCEPT !.step = step]
  <2>1. /\ n \in ReaderType /\ n.step = step /\ n.seen = r.seen /\ n.at = r.at /\ n.settled = r.settled
        /\ n.mode = r.mode
      BY <1>0 DEF ReaderType
  <2>2. Reads(n)
      OBVIOUS
  <2> HIDE DEF n
  <2>3. SoundReader(n, history)
      BY <1>0, <2>1 DEF SoundReader
  <2> QED BY <2>1, <2>2, <2>3, ReaderKeeps
<1> QED BY <1>1, <1>2, <1>3

\* The invariant of the observation holds in every reachable state.
LEMMA ObservationInvariance == ObservationSpec => []ObservationInv
<1>1. ObservationInit => ObservationInv
  <2> SUFFICES ASSUME ObservationInit PROVE ObservationInv
      OBVIOUS
  <2>0. <<>> \in Seq(Nat) /\ <<>> \o <<>> = <<>> /\ Len(<<>>) = 0
      OBVIOUS
  <2> PICK mode \in {"follow", "evidence"} :
          reader = [mode |-> mode, step |-> "status", settled |-> FALSE, at |-> 0, seen |-> <<>>]
      BY DEF ObservationInit
  <2>1. history = 0 /\ dispatch = <<>> /\ listener = Closed /\ reader \in ReaderType
      BY <2>0 DEF ObservationInit, ReaderType
  <2>2. Closed \in ListenerType /\ Closed.queue = <<>> /\ Closed.got = <<>>
      BY <2>0 DEF Closed, ListenerType
  <2>3. SoundListener(Closed, Dispatched, lost)
      BY <2>0, <2>2 DEF SoundListener, Heard, InOrder, NoGap
  <2>4. DispatchInOrder
      BY <2>0, <2>1 DEF DispatchInOrder, Dispatched
  <2>5. reader.seen = <<>> /\ reader.step = "status" /\ reader.at = 0 /\ ~reader.settled
      BY DEF ObservationInit
  <2>6. SoundReader(reader, history)
      BY <2>0, <2>1, <2>5 DEF SoundReader
  <2> QED BY <2>0, <2>1, <2>2, <2>3, <2>4, <2>6 DEF ObservationInv, ObservationTypeOK
<1>2. ObservationInv /\ UNCHANGED observationVars => ObservationInv'
    BY DEF ObservationInv, ObservationTypeOK, DispatchInOrder, Dispatched, observationVars
<1>3. ObservationInv /\ ObservationNext => ObservationInv'
    BY HubSteps, ReaderSteps DEF ObservationNext
<1> QED BY <1>1, <1>2, <1>3, PTL DEF ObservationSpec

\* A listener gets the events in order, each once; what is missing between the first and the
\* last it got is what the server failed to dispatch.
THEOREM NoGapIsHeard == ObservationSpec => []ListenersSeeNoGap
<1>1. ObservationInv => ListenersSeeNoGap
  <2> SUFFICES ASSUME ObservationInv, listener.got # <<>>
               PROVE  LET got == listener.got
                      IN  /\ \A i \in 1..Len(got) - 1 : got[i] < got[i + 1]
                          /\ (Head(got)..Last(got)) \ ToSet(got) \subseteq lost
      BY DEF ListenersSeeNoGap
  <2> DEFINE got == listener.got
             es == Heard(listener)
  <2>1. got \in Seq(Nat) /\ es \in Seq(Nat) /\ Len(got) \in Nat /\ Len(got) > 0 /\ Len(got) <= Len(es) /\ Len(es) \in Nat
      BY DEF ObservationInv, ObservationTypeOK, ListenerType, Heard
  <2>2. \A i \in 1..Len(got) : got[i] = es[i]
      BY DEF ObservationInv, ObservationTypeOK, ListenerType, Heard
  <2>3. InOrder(es) /\ NoGap(got, got[Len(got)], lost)
      BY DEF ObservationInv, SoundListener
  <2>4. Head(got) = got[1] /\ Last(got) = got[Len(got)] /\ DOMAIN got = 1..Len(got)
      BY <2>1 DEF Last
  <2> HIDE DEF got, es
  <2>5. ASSUME NEW i \in 1..Len(got) - 1 PROVE got[i] < got[i + 1]
    <3>1. i \in 1..Len(got) /\ i + 1 \in 1..Len(got) /\ i \in 1..Len(es) /\ i + 1 \in 1..Len(es) /\ i < i + 1
        BY <2>1
    <3>2. es[i] < es[i + 1]
        BY <2>3, <3>1 DEF InOrder
    <3> QED BY <2>2, <3>1, <3>2
  <2>6. ASSUME NEW e \in (got[1]..got[Len(got)]) \ ToSet(got) PROVE e \in lost
    <3>1. 1 \in 1..Len(got)
        BY <2>1
    <3>2. e \in lost \/ \E j \in 1..Len(got) : got[j] = e
        BY <2>3, <3>1 DEF NoGap
    <3> QED BY <2>4, <2>6, <3>2 DEF ToSet
  <2> QED BY <2>4, <2>5, <2>6 DEF got
<1> QED BY <1>1, ObservationInvariance, PTL

\* A reader that ends has handed over the history from its beginning, in order and once, at
\* least up to the status it read, which is a settled one for a follower.
THEOREM StatusIsReadThrough == ObservationSpec => []ReadersSeeTheStatusThrough
<1>1. ObservationInv => ReadersSeeTheStatusThrough
    BY DEF ObservationInv, SoundReader, ReadersSeeTheStatusThrough, ObservationTypeOK, ReaderType
<1> QED BY <1>1, ObservationInvariance, PTL

(***************************************************************************)
(* The pages of the Tasks.                                                 *)
(***************************************************************************)
OnList(task, list) == \E i \in 1..Len(list) : list[i] = task
Increasing(list) == \A i, j \in 1..Len(list) : i < j => list[i] < list[j]
Ranged(cursor, upper) == {task \in rows : InRange(task, cursor, upper)}

CursorType == [upper : Nat, after : Nat]
PagesType ==
    [cursor : CursorType, listed : Seq(Nat), first : SUBSET Nat,
     step : {"start", "next", "done", "error"}]

RowsOK == rows \subseteq Nat \ {0} /\ \E bound \in Nat : \A row \in rows : row <= bound

\* A read that goes on has listed what the first page's moment had up to its cursor.
GoesOn(p) ==
    /\ p.cursor.upper \in rows /\ p.cursor.after \in rows /\ p.cursor.after < p.cursor.upper
    /\ \A i \in 1..Len(p.listed) : p.listed[i] <= p.cursor.after
    /\ p.first \subseteq rows
    /\ \A task \in p.first : task <= p.cursor.upper /\ (task <= p.cursor.after => OnList(task, p.listed))

PagesInv ==
    /\ RowsOK
    /\ pages \in PagesType /\ pages.step # "error"
    /\ Increasing(pages.listed)
    /\ pages.step = "start" => pages.cursor = NoCursor /\ pages.listed = <<>>
    /\ pages.step = "next" => GoesOn(pages)
    /\ pages.step = "done" => \A task \in pages.first : OnList(task, pages.listed)

\* A page is in order, and has every Task of the range up to its last.
SoundPage(page, range) ==
    /\ page \in Seq(Nat) /\ Increasing(page)
    /\ \A i \in 1..Len(page) : page[i] \in range /\ page[i] <= page[Len(page)]
    /\ page # <<>> => \A task \in range : task <= page[Len(page)] => OnList(task, page)

\* A page stays sound with the next Task in its range, if there is one.
LEMMA ExtendedIsSound ==
    ASSUME RowsOK, NEW cursor, NEW range, range = Ranged(cursor, Upper(cursor)),
           NEW page, SoundPage(page, range)
    PROVE  /\ SoundPage(Extended(cursor, page), range)
           /\ range # {} => Extended(cursor, page) # <<>>
<1> DEFINE left == Remaining(cursor, page)
           l == Len(page)
<1>1. left = {task \in range : page # <<>> => task > page[l]}
    BY DEF Remaining, Ranged, Last
<1>2. range \subseteq Nat /\ left \subseteq Nat
    BY <1>1 DEF Ranged, RowsOK
<1>3. page \in Seq(Nat) /\ l \in Nat
    BY DEF SoundPage
<1>4. CASE left = {}
    <2>1. Extended(cursor, page) = page
        BY <1>4 DEF Extended
    <2>2. range # {} => page # <<>>
        BY <1>1, <1>4
    <2> QED BY <2>1, <2>2
<1>5. CASE left # {}
    <2> DEFINE next == CHOOSE task \in left : \A other \in left : task <= other
               longer == Append(page, next)
    <2>1. Extended(cursor, page) = longer
        BY <1>5, Zenon DEF Extended
    <2>2. next \in left /\ \A other \in left : next <= other
        <3> HIDE DEF left
        <3>1. \E n \in left : \A m \in left : n <= m
            BY <1>2, <1>5, LeastNumber
        <3> QED BY <3>1, Zenon
    <2> HIDE DEF next, left
    <2>3. next \in range /\ next \in Nat /\ (page # <<>> => next > page[l])
        BY <1>1, <1>2, <2>2
    <2>4. /\ longer \in Seq(Nat) /\ longer # <<>>
          /\ Len(longer) = l + 1
          /\ \A i \in 1..l : longer[i] = page[i]
          /\ longer[l + 1] = next
        <3>1. /\ longer \in Seq(Nat)
              /\ Len(longer) = l + 1
              /\ \A i \in 1..l : longer[i] = page[i]
              /\ longer[l + 1] = next
            BY <1>3, <2>3, AppendProperties
        <3>2. longer # <<>>
            <4> HIDE DEF longer, l
            <4> QED BY <1>3, <3>1
        <3> QED BY <3>1, <3>2
    <2>5. \A i \in 1..l : page[i] \in Nat /\ page[i] \in range /\ page[i] <= page[l]
        BY <1>2, <1>3 DEF SoundPage
    <2> HIDE DEF longer, l
    <2>6. \A i \in 1..l : longer[i] < next
        <3>1. TAKE i \in 1..l
        <3>2. l \in 1..l /\ page # <<>>
            BY <1>3 DEF l
        <3> QED BY <1>2, <2>3, <2>4, <2>5, <3>2
    <2>7. Increasing(longer)
        <3>1. Increasing(page)
            BY DEF SoundPage
        <3>2. \A i, j \in 1..l : i < j => page[i] < page[j]
            BY <3>1 DEF Increasing, l
        <3>3. ASSUME NEW i \in 1..l + 1, NEW j \in 1..l + 1, i < j PROVE longer[i] < longer[j]
            <4>1. i \in 1..l
                BY <1>3, <3>3
            <4>2. CASE j = l + 1
                BY <2>4, <2>6, <4>1, <4>2
            <4>3. CASE j # l + 1
                <5>1. j \in 1..l
                    BY <1>3, <4>3
                <5> QED BY <2>4, <3>2, <3>3, <4>1, <5>1
            <4> QED BY <4>2, <4>3
        <3> QED BY <2>4, <3>3 DEF Increasing
    <2>8. \A i \in 1..l + 1 : longer[i] \in range /\ longer[i] <= longer[l + 1]
        <3>1. TAKE i \in 1..l + 1
        <3>2. CASE i = l + 1
            BY <2>3, <2>4, <3>2
        <3>3. CASE i # l + 1
            <4>1. i \in 1..l
                BY <1>3, <3>3
            <4> QED BY <2>3, <2>4, <2>5, <2>6, <4>1
        <3> QED BY <3>2, <3>3
    <2>9. ASSUME NEW task \in range, task <= longer[l + 1] PROVE OnList(task, longer)
        <3>1. l + 1 \in 1..Len(longer)
            BY <1>3, <2>4
        <3>2. CASE task = next
            BY <2>4, <3>1, <3>2 DEF OnList
        <3>3. CASE task # next
            <4>1. task \notin left
                BY <1>2, <2>2, <2>4, <2>9, <3>3
            <4>2. page # <<>> /\ ~(task > page[l])
                BY <1>1, <2>9, <4>1
            <4>3. l \in 1..l
                BY <1>3, <4>2 DEF l
            <4>4. task <= page[l]
                BY <1>2, <2>5, <4>2, <4>3
            <4>5. OnList(task, page)
                BY <4>2, <4>4 DEF SoundPage, l
            <4>6. PICK i \in 1..l : page[i] = task
                BY <4>5 DEF OnList, l
            <4>7. i \in 1..Len(longer) /\ longer[i] = task
                BY <1>3, <2>4, <4>6
            <4> QED BY <4>7 DEF OnList
        <3> QED BY <3>2, <3>3
    <2> QED BY <2>1, <2>4, <2>7, <2>8, <2>9 DEF SoundPage
<1> QED BY <1>4, <1>5

\* Page is in order and sound; it is empty only when the range is.
LEMMA PageIsSound ==
    ASSUME RowsOK, NEW cursor, NEW range, range = Ranged(cursor, Upper(cursor))
    PROVE  /\ SoundPage(Page(cursor), range)
           /\ range # {} => Page(cursor) # <<>>
<1> DEFINE first[k \in 0..PageSize] == IF k = 0 THEN <<>> ELSE Extended(cursor, first[k - 1])
           Sound == {page \in Seq(Nat) : SoundPage(page, range)}
<1>1. Page(cursor) = first[PageSize]
    BY Zenon DEF Page
<1> HIDE DEF first
<1>2. PageSize \in Nat /\ PageSize >= 1
    BY PagesAssumption
<1>3. \A page \in Sound : Extended(cursor, page) \in Sound /\ (range # {} => Extended(cursor, page) # <<>>)
    BY ExtendedIsSound DEF SoundPage
<1>4. <<>> \in Sound
    BY DEF SoundPage, Increasing
<1> HIDE DEF Sound
<1>5. PICK step \in [Sound -> Sound] : \A page \in Sound : step[page] = Extended(cursor, page)
    <2> DEFINE s == [page \in Sound |-> Extended(cursor, page)]
    <2>1. s \in [Sound -> Sound]
        BY <1>3
    <2> QED BY <2>1
<1>6. PICK f \in [0..PageSize -> Sound] : Repeats(f, PageSize, <<>>, step)
    BY <1>2, <1>4, Repetition, Zenon
<1>7. f = [k \in 0..PageSize |-> IF k = 0 THEN <<>> ELSE Extended(cursor, f[k - 1])]
    <2>1. ASSUME NEW k \in 0..PageSize
          PROVE  f[k] = IF k = 0 THEN <<>> ELSE Extended(cursor, f[k - 1])
        <3>1. CASE k = 0
            BY <1>6, <3>1 DEF Repeats
        <3>2. CASE k # 0
            <4>1. k \in 1..PageSize /\ k - 1 \in 0..PageSize
                BY <1>2, <3>2
            <4>2. f[k - 1] \in Sound
                BY <4>1
            <4> QED BY <1>5, <1>6, <3>2, <4>1, <4>2 DEF Repeats
        <3> QED BY <3>1, <3>2
    <2> QED BY <2>1, Zenon
<1>8. first = [k \in 0..PageSize |-> IF k = 0 THEN <<>> ELSE Extended(cursor, first[k - 1])]
    BY <1>7, Zenon DEF first
<1>9. ASSUME NEW k \in 0..PageSize
      PROVE  first[k] = IF k = 0 THEN <<>> ELSE Extended(cursor, first[k - 1])
    BY <1>8, Zenon
<1>10. \A k \in 0..PageSize : first[k] \in Sound
    <2> DEFINE Without == {k \in 0..PageSize : first[k] \notin Sound}
    <2>1. SUFFICES ASSUME Without # {} PROVE FALSE
        OBVIOUS
    <2>2. Without \in SUBSET Nat
        OBVIOUS
    <2>3. PICK k \in Without : \A i \in Without : k <= i
        <3> HIDE DEF Without
        <3> QED BY <2>1, <2>2, LeastNumber
    <2>4. k # 0
        BY <1>4, <1>9, <2>3
    <2>5. k - 1 \in 0..PageSize /\ k - 1 \notin Without
        BY <1>2, <2>3, <2>4
    <2>6. first[k] = Extended(cursor, first[k - 1])
        BY <1>9, <2>3, <2>4
    <2> QED BY <1>3, <2>3, <2>5, <2>6
<1>11. PageSize \in 0..PageSize /\ PageSize - 1 \in 0..PageSize /\ PageSize # 0
    BY <1>2
<1>12. first[PageSize] = Extended(cursor, first[PageSize - 1])
    BY <1>9, <1>11
<1>13. first[PageSize] \in Sound /\ (range # {} => first[PageSize] # <<>>)
    BY <1>3, <1>10, <1>11, <1>12
<1> QED BY <1>1, <1>13 DEF Sound

\* The upper bound of a first page is the last Task there is.
LEMMA UpperIsTheLast ==
    ASSUME RowsOK, rows # {}, NEW cursor, cursor = NoCursor
    PROVE  Upper(cursor) \in rows /\ \A row \in rows : row <= Upper(cursor)
<1>1. \E n \in rows : \A m \in rows : m <= n
    BY GreatestNumber DEF RowsOK
<1>2. Upper(cursor) = CHOOSE task \in rows : \A other \in rows : other <= task
    BY DEF Upper
<1> QED BY <1>1, <1>2, Zenon

\* One list after another, with nothing in the second before the end of the first.
LEMMA InOrderTogether ==
    ASSUME NEW a \in Seq(Nat), NEW b \in Seq(Nat), NEW at \in Nat, Increasing(a), Increasing(b),
           \A i \in 1..Len(a) : a[i] <= at, \A i \in 1..Len(b) : at < b[i]
    PROVE  /\ a \o b \in Seq(Nat) /\ Increasing(a \o b)
           /\ \A task : OnList(task, a \o b) <=> OnList(task, a) \/ OnList(task, b)
<1> DEFINE c == a \o b
           m == Len(a)
           n == Len(b)
<1>1. /\ c \in Seq(Nat)
      /\ Len(c) = m + n
      /\ \A i \in 1..m : c[i] = a[i]
      /\ \A i \in 1..n : c[m + i] = b[i]
    <2>1. \A i \in 1..m : c[i] = a[i]
        BY ConcatProperties
    <2>2. \A i \in 1..n : c[m + i] = b[i]
        <3>1. TAKE i \in 1..n
        <3>2. m \in Nat /\ n \in Nat
            BY LenProperties
        <3>3. m + i \in 1..m + n /\ (m + i) > m /\ (m + i) - m = i
            BY <3>2
        <3> QED BY <3>3, ConcatProperties
    <2> QED BY <2>1, <2>2, ConcatProperties
<1>2. m \in Nat /\ n \in Nat
    BY LenProperties
<1>3. /\ \A i, j \in 1..m : i < j => a[i] < a[j]
      /\ \A i, j \in 1..n : i < j => b[i] < b[j]
    BY DEF Increasing
<1>4. /\ \A i \in 1..m : a[i] \in Nat /\ a[i] <= at
      /\ \A i \in 1..n : b[i] \in Nat /\ at < b[i]
    BY ElementOfSeq
<1> HIDE DEF c, m, n
<1>5. ASSUME NEW i \in 1..m + n PROVE i \in 1..m \/ (i - m \in 1..n /\ m + (i - m) = i)
    BY <1>2
<1>6. \A i, j \in 1..m + n : i < j => c[i] < c[j]
    <2>1. SUFFICES ASSUME NEW i \in 1..m + n, NEW j \in 1..m + n, i < j PROVE c[i] < c[j]
        OBVIOUS
    <2>2. CASE j \in 1..m
        <3>1. i \in 1..m
            BY <1>2, <2>1, <2>2
        <3> QED BY <1>1, <1>3, <2>1, <2>2, <3>1
    <2>3. CASE j \notin 1..m
        <3>1. j - m \in 1..n /\ c[j] = b[j - m]
            BY <1>1, <1>5, <2>3
        <3>2. CASE i \in 1..m
            <4>1. c[i] = a[i] /\ a[i] \in Nat /\ a[i] <= at
                BY <1>1, <1>4, <3>2
            <4>2. b[j - m] \in Nat /\ at < b[j - m]
                BY <1>4, <3>1
            <4> QED BY <3>1, <4>1, <4>2
        <3>3. CASE i \notin 1..m
            <4>1. i - m \in 1..n /\ c[i] = b[i - m]
                BY <1>1, <1>5, <3>3
            <4>2. i - m < j - m
                BY <1>2, <2>1
            <4> QED BY <1>3, <3>1, <4>1, <4>2
        <3> QED BY <3>2, <3>3
    <2> QED BY <2>2, <2>3
<1>7. ASSUME NEW task, OnList(task, c) PROVE OnList(task, a) \/ OnList(task, b)
    <2>1. PICK i \in 1..m + n : c[i] = task
        BY <1>1, <1>7 DEF OnList
    <2>2. CASE i \in 1..m
        BY <1>1, <2>1, <2>2 DEF OnList, m
    <2>3. CASE i \notin 1..m
        <3>1. i - m \in 1..n /\ c[i] = b[i - m]
            BY <1>1, <1>5, <2>3
        <3> QED BY <2>1, <3>1 DEF OnList, n
    <2> QED BY <2>2, <2>3
<1>8. ASSUME NEW task, OnList(task, a) PROVE OnList(task, c)
    <2>1. PICK i \in 1..m : a[i] = task
        BY <1>8 DEF OnList, m
    <2>2. i \in 1..Len(c) /\ c[i] = task
        BY <1>1, <1>2, <2>1
    <2> QED BY <2>2 DEF OnList
<1>9. ASSUME NEW task, OnList(task, b) PROVE OnList(task, c)
    <2>1. PICK i \in 1..n : b[i] = task
        BY <1>9 DEF OnList, n
    <2>2. m + i \in 1..Len(c) /\ c[m + i] = task
        BY <1>1, <1>2, <2>1
    <2> QED BY <2>2 DEF OnList
<1> QED BY <1>1, <1>6, <1>7, <1>8, <1>9 DEF Increasing, c

\* The invariant of the pages holds initially.
LEMMA PagesInitially == PagesInit => PagesInv
<1> SUFFICES ASSUME PagesInit PROVE PagesInv
    OBVIOUS
<1>1. /\ rows = {}
      /\ pages = [cursor |-> NoCursor, listed |-> <<>>, first |-> {}, step |-> "start"]
    BY DEF PagesInit
<1>2. RowsOK
    BY <1>1 DEF RowsOK
<1>3. pages \in PagesType
    BY <1>1 DEF PagesType, CursorType, NoCursor
<1>4. pages.listed = <<>> /\ pages.step = "start" /\ pages.cursor = NoCursor
    BY <1>1
<1> QED BY <1>2, <1>3, <1>4 DEF PagesInv, Increasing

\* A Task admitted meanwhile is in the way of no page.
LEMMA AdmitKeepsPages ==
    ASSUME PagesInv, AdmitTask
    PROVE  PagesInv'
<1>1. PICK task \in TaskRanks \ rows : rows' = rows \cup {task}
    BY DEF AdmitTask
<1>2. pages' = pages
    BY DEF AdmitTask
<1>3. task \in Nat \ {0} /\ RowsOK
    BY <1>1, PagesAssumption DEF PagesInv
<1>4. PICK bound \in Nat : \A row \in rows : row <= bound
    BY <1>3 DEF RowsOK
<1>5. RowsOK'
    <2>1. \A row \in rows' : row <= bound + task
        BY <1>1, <1>3, <1>4 DEF RowsOK
    <2>2. bound + task \in Nat
        BY <1>3
    <2>3. rows' \subseteq Nat \ {0}
        BY <1>1, <1>3 DEF RowsOK
    <2> QED BY <2>1, <2>2, <2>3 DEF RowsOK
<1>6. pages.step = "next" => GoesOn(pages)'
    BY <1>1, <1>2 DEF PagesInv, GoesOn
<1> QED BY <1>2, <1>5, <1>6 DEF PagesInv

\* Reading a page keeps the invariant.
LEMMA ReadKeepsPages ==
    ASSUME PagesInv, ReadTaskPage
    PROVE  PagesInv'
<1> DEFINE cursor == pages.cursor
           upper == Upper(cursor)
           range == Ranged(cursor, upper)
           first == IF pages.step = "start" THEN rows ELSE pages.first
<1>1. PICK page : page = IF rows = {} THEN <<>> ELSE Page(cursor)
    OBVIOUS
<1>2. PICK next : next = NextCursor(cursor, page)
    OBVIOUS
<1>3. /\ pages.step \in {"start", "next"}
      /\ pages' = IF ~Valid(cursor) THEN [pages EXCEPT !.step = "error"] ELSE
                    [cursor |-> next, listed |-> pages.listed \o page, first |-> first,
                     step |-> IF next = NoCursor THEN "done" ELSE IF next = cursor THEN "error" ELSE "next"]
      /\ rows' = rows
    BY <1>1, <1>2, Zenon DEF ReadTaskPage
<1>4. /\ RowsOK /\ rows \subseteq Nat /\ 0 \notin rows
      /\ cursor \in CursorType /\ cursor.after \in Nat /\ cursor.upper \in Nat
      /\ pages.listed \in Seq(Nat) /\ Increasing(pages.listed)
      /\ pages.first \in SUBSET Nat
    BY DEF PagesInv, PagesType, RowsOK, CursorType
<1>5. CASE rows = {}
    <2>1. pages.step = "start" /\ cursor = NoCursor /\ pages.listed = <<>>
        BY <1>3, <1>5 DEF PagesInv, GoesOn
    <2>2. page = <<>> /\ next = NoCursor
        BY <1>1, <1>2, <1>5 DEF NextCursor
    <2>3. pages' = [cursor |-> NoCursor, listed |-> <<>> \o <<>>, first |-> {}, step |-> "done"]
        BY <1>3, <1>5, <2>1, <2>2 DEF Valid
    <2>4. <<>> \o <<>> = <<>>
        OBVIOUS
    <2>5. pages' \in PagesType /\ pages'.listed = <<>> /\ pages'.step = "done" /\ pages'.first = {}
        BY <2>3, <2>4 DEF PagesType, CursorType, NoCursor
    <2> QED BY <1>3, <1>4, <2>5 DEF PagesInv, Increasing, RowsOK
<1>6. CASE rows # {}
    <2>1. /\ SoundPage(page, range)
          /\ range # {} => page # <<>>
        BY <1>1, <1>4, <1>6, PageIsSound
    <2>2. Valid(cursor)
        BY <1>3, <1>4 DEF PagesInv, GoesOn, Valid
    <2>3. upper \in rows
        BY <1>3, <1>4, <1>6, UpperIsTheLast DEF PagesInv, GoesOn, Upper
    \* What is asked for: everything after the cursor, of the first page's moment at least.
    <2>4. /\ first \in SUBSET rows
          /\ \A i \in 1..Len(pages.listed) : pages.listed[i] <= cursor.after
          /\ \A task \in first : task <= upper
          /\ \A task \in first : task <= cursor.after => OnList(task, pages.listed)
        <3>1. CASE pages.step = "start"
            <4>1. cursor = NoCursor /\ pages.listed = <<>> /\ first = rows
                BY <3>1 DEF PagesInv
            <4>2. \A row \in rows : row <= upper
                BY <1>4, <1>6, <4>1, UpperIsTheLast
            <4>3. cursor.after = 0
                BY <4>1 DEF NoCursor
            <4>4. \A task \in rows : ~(task <= 0)
                BY <1>4
            <4>5. Len(pages.listed) = 0
                BY <4>1
            <4> QED BY <4>1, <4>2, <4>3, <4>4, <4>5
        <3>2. CASE pages.step = "next"
            <4>1. GoesOn(pages) /\ first = pages.first
                BY <3>2 DEF PagesInv
            <4>2. upper = cursor.upper
                BY <1>4, <4>1 DEF GoesOn, Upper, NoCursor
            <4> QED BY <4>1, <4>2 DEF GoesOn
        <3> QED BY <1>3, <3>1, <3>2
    <2> DEFINE l == Len(page)
               listed == pages.listed \o page
    <2>5. range = {task \in rows : task > cursor.after /\ task <= upper}
        BY DEF Ranged, InRange
    <2> HIDE DEF range, first, upper, cursor
    <2>6. upper \in Nat /\ cursor.after \in Nat /\ \A row \in rows : row \in Nat
        BY <1>4, <2>3
    <2>7. \A task \in first : ~(task <= cursor.after) => task \in range /\ task \in rows /\ task <= upper
        BY <2>6, <2>4, <2>5
    <2>8. /\ page \in Seq(Nat) /\ l \in Nat /\ Increasing(page)
          /\ \A i \in 1..l : page[i] \in range /\ page[i] > cursor.after /\ page[i] <= page[l]
        BY <1>4, <2>1, <2>5 DEF SoundPage
    <2>9. /\ listed \in Seq(Nat) /\ Increasing(listed)
          /\ \A task : OnList(task, listed) <=> OnList(task, pages.listed) \/ OnList(task, page)
        BY <1>4, <2>4, <2>8, InOrderTogether
    <2>10. page # <<>> => /\ Last(page) = page[l] /\ l \in 1..l
                         /\ page[l] \in range
                         /\ \A task \in range : task <= page[l] => OnList(task, page)
        BY <2>1, <2>8 DEF SoundPage, Last
    <2>11. next = IF page # <<>> /\ \E task \in rows : task > Last(page) /\ task <= upper
                 THEN [upper |-> upper, after |-> Last(page)] ELSE NoCursor
        BY <1>2 DEF NextCursor, upper
    <2> HIDE DEF l, listed
    <2>12. CASE page # <<>> /\ \E task \in rows : task > Last(page) /\ task <= upper
        <3>1. next = [upper |-> upper, after |-> page[l]]
            BY <2>10, <2>11, <2>12
        <3>2. page[l] \in rows /\ page[l] \in Nat /\ page[l] > cursor.after
            BY <1>4, <2>5, <2>10, <2>12
        <3>3. next # NoCursor /\ next # cursor
            BY <1>4, <3>1, <3>2 DEF NoCursor
        <3>4. pages' = [cursor |-> next, listed |-> listed, first |-> first, step |-> "next"]
            BY <1>3, <2>2, <3>3, Zenon DEF listed
        <3>5. page[l] < upper
            <4>1. PICK task \in rows : task > page[l] /\ task <= upper
                BY <2>10, <2>12
            <4> QED BY <2>6, <3>2, <4>1
        <3>6. \A i \in 1..Len(listed) : listed[i] <= page[l]
            <4>1. TAKE i \in 1..Len(listed)
            <4>2. OnList(listed[i], listed)
                BY DEF OnList
            <4>3. CASE OnList(listed[i], page)
                BY <2>8, <4>3 DEF OnList, l
            <4>4. CASE OnList(listed[i], pages.listed)
                <5>1. PICK j \in 1..Len(pages.listed) : pages.listed[j] = listed[i]
                    BY <4>4 DEF OnList
                <5>2. listed[i] \in Nat /\ listed[i] <= cursor.after
                    BY <1>4, <2>4, <5>1
                <5> QED BY <1>4, <3>2, <5>2
            <4> QED BY <2>9, <4>2, <4>3, <4>4
        <3>7. ASSUME NEW task \in first, task <= page[l] PROVE OnList(task, listed)
            <4>1. CASE task <= cursor.after
                BY <2>4, <2>9, <3>7, <4>1
            <4>2. CASE ~(task <= cursor.after)
                <5>1. task \in range /\ task \in rows /\ task <= upper
                    BY <2>7, <4>2
                <5> QED BY <2>9, <2>10, <2>12, <3>7, <5>1
            <4> QED BY <4>1, <4>2
        <3>8. first \in SUBSET Nat /\ next \in CursorType
            BY <1>4, <2>3, <2>4, <3>1, <3>2 DEF CursorType
        <3>9. /\ pages'.cursor = next /\ pages'.listed = listed
              /\ pages'.first = first /\ pages'.step = "next"
            BY <3>4
        <3>10. pages' \in PagesType
            BY <2>9, <3>4, <3>8 DEF PagesType
        <3>11. next.upper = upper /\ next.after = page[l]
            BY <3>1
        <3>12. GoesOn(pages)'
            <4>1. rows' = rows
                BY <1>3
            <4>2. \A task \in first : task <= upper /\ (task <= page[l] => OnList(task, listed))
                BY <2>4, <3>7
            <4>3. first \in SUBSET rows
                BY <2>4
            <4> QED BY <2>3, <3>2, <3>5, <3>6, <3>9, <3>11, <4>1, <4>2, <4>3 DEF GoesOn
        <3>13. RowsOK'
            BY <1>3, <1>4 DEF RowsOK
        <3> QED BY <2>9, <3>9, <3>10, <3>12, <3>13 DEF PagesInv
    <2>13. CASE ~(page # <<>> /\ \E task \in rows : task > Last(page) /\ task <= upper)
        <3>1. next = NoCursor
            BY <2>11, <2>13
        <3>2. pages' = [cursor |-> NoCursor, listed |-> listed, first |-> first, step |-> "done"]
            BY <1>3, <2>2, <3>1, Zenon DEF listed
        <3>3. ASSUME NEW task \in first PROVE OnList(task, listed)
            <4>1. CASE task <= cursor.after
                BY <2>4, <2>9, <4>1
            <4>2. CASE ~(task <= cursor.after)
                <5>1. task \in range /\ task \in rows /\ task <= upper
                    BY <2>7, <4>2
                <5>2. page # <<>> /\ ~(task > page[l]) /\ page[l] \in Nat
                    BY <1>4, <2>1, <2>5, <2>10, <2>13, <5>1
                <5>3. task <= page[l]
                    BY <1>4, <5>1, <5>2
                <5> QED BY <2>9, <2>10, <5>1, <5>2, <5>3
            <4> QED BY <4>1, <4>2
        <3>4. first \in SUBSET Nat /\ NoCursor \in CursorType
            BY <1>4, <2>4 DEF CursorType, NoCursor
        <3>5. pages' \in PagesType
            BY <2>9, <3>2, <3>4 DEF PagesType
        <3>6. pages'.listed = listed /\ pages'.first = first /\ pages'.step = "done"
            BY <3>2
        <3>7. RowsOK'
            BY <1>3, <1>4 DEF RowsOK
        <3> QED BY <2>9, <3>3, <3>5, <3>6, <3>7 DEF PagesInv
    <2> QED BY <2>12, <2>13
<1> QED BY <1>5, <1>6

\* Every step keeps the invariant.
LEMMA PagesStep ==
    ASSUME PagesInv, [PagesNext]_pageVars
    PROVE  PagesInv'
<1>1. CASE UNCHANGED pageVars
    BY <1>1 DEF pageVars, PagesInv, RowsOK, GoesOn
<1> QED BY <1>1, AdmitKeepsPages, ReadKeepsPages DEF PagesNext

\* The pages a client reads (pageTaskIds, task-id-cursor.ts; listAllTasks, server-client.ts) end
\* without an error, in order, and with every Task there was at the first of them.
THEOREM PagesAreComplete == PagesSpec => []PagesListEachTaskOnce
<1>1. PagesInv => PagesListEachTaskOnce
    <2>1. SUFFICES ASSUME PagesInv PROVE PagesListEachTaskOnce
        OBVIOUS
    <2>2. pages.listed \in Seq(Nat)
        BY <2>1 DEF PagesInv, PagesType
    <2>3. DOMAIN pages.listed = 1..Len(pages.listed)
        BY <2>2
    <2> QED BY <2>1, <2>3 DEF PagesInv, PagesListEachTaskOnce, Increasing, OnList, ToSet
<1> QED BY PagesInitially, PagesStep, <1>1, PTL DEF PagesSpec

(***************************************************************************)
(* The bridge's hints.                                                     *)
(***************************************************************************)
SignalType ==
    [kind : {"attention", "reconciled", "reconnected", "unavailable", "nothing"},
     about : SUBSET HermesTasks, awaited : BOOLEAN]
HookType ==
    [queue : Seq(SignalType), active : BOOLEAN, pending : BOOLEAN, sending : SignalType]

\* A reconciliation is pending exactly when the queue ends with one, and it is about every Task;
\* without one the queue holds at most one signal, and none while another is being sent.
SoundHook(h) ==
    /\ Len(h.queue) <= 2
    /\ h.pending => h.queue # <<>>
    /\ \A i \in 1..Len(h.queue) : h.queue[i].kind = "reconciled" <=> (h.pending /\ i = Len(h.queue))
    /\ \A i \in 1..Len(h.queue) : h.queue[i].kind = "reconciled" => h.queue[i].about = HermesTasks
    /\ ~h.pending => Len(h.queue) <= 1
    /\ ~h.pending /\ h.queue # <<>> => h.active
    /\ h.sending # Nothing => h.active /\ (h.pending \/ h.queue = <<>>)

SoundHooks == {h \in HookType : SoundHook(h)}

\* Every one of the Tasks has a signal in the queue that is about it.
Covers(h, tasks) == \A t \in tasks : \E i \in 1..Len(h.queue) : t \in h.queue[i].about

Hinted(h, tasks) == h \in SoundHooks /\ tasks \in SUBSET HermesTasks /\ Covers(h, tasks)

HermesInv ==
    /\ Hinted(hook, unheard)
    /\ usine.events \in Seq(HermesTasks)

Offered == {signal \in SignalType : signal.kind # "reconciled"} \cup {Reconciliation}

\* Whatever is offered, the queue is about it afterwards, and still about what it was about.
LEMMA EnqueuedIsHinted ==
    ASSUME NEW h, NEW tasks, Hinted(h, tasks), NEW signal \in Offered
    PROVE  Hinted(Enqueued(h, signal), tasks \cup signal.about)
<1>1. h \in HookType /\ SoundHook(h) /\ tasks \in SUBSET HermesTasks /\ Covers(h, tasks)
    BY DEF SoundHooks, Hinted
<1>2. signal \in SignalType /\ signal.about \in SUBSET HermesTasks
    <2>1. Reconciliation \in SignalType
        BY DEF SignalType, Reconciliation
    <2>2. signal \in SignalType
        BY <2>1 DEF Offered
    <2> QED BY <2>2 DEF SignalType
<1>3. h.queue \in Seq(SignalType) /\ Len(h.queue) \in Nat
    BY <1>1 DEF HookType
<1>4. CASE h.pending
    <2>1. Len(h.queue) \in 1..Len(h.queue)
        BY <1>1, <1>3, <1>4 DEF SoundHook
    <2>2. h.queue[Len(h.queue)].about = HermesTasks
        BY <1>1, <1>4, <2>1 DEF SoundHook
    <2>3. Covers(h, tasks \cup signal.about)
        BY <1>1, <1>2, <2>1, <2>2 DEF Covers
    <2>4. Enqueued(h, signal) = h
        BY <1>4 DEF Enqueued
    <2> QED BY <1>1, <1>2, <2>3, <2>4 DEF Hinted, SoundHooks
<1>5. CASE ~h.pending
    <2> DEFINE given == IF h.active THEN Reconciliation ELSE signal
               replaces == given.kind = "reconciled"
               g == [h EXCEPT !.queue = Append(@, given), !.active = TRUE, !.pending = replaces]
               l == Len(h.queue)
    <2>1. l \in Nat /\ l <= 1 /\ (l # 0 => h.active)
        BY <1>1, <1>3, <1>5 DEF SoundHook
    <2>2. Enqueued(h, signal) = g
        <3>1. ~(h.pending \/ Len(h.queue) = 2)
            BY <1>5, <2>1
        <3> QED BY <3>1, Zenon DEF Enqueued
    <2>3. /\ given \in SignalType
          /\ replaces => given = Reconciliation
          /\ h.active => replaces
          /\ signal.about \in SUBSET given.about
        BY <1>2 DEF Offered, SignalType, Reconciliation
    <2>4. Reconciliation.about = HermesTasks
        BY DEF Reconciliation
    <2>5. replaces \in BOOLEAN /\ (replaces <=> given.kind = "reconciled")
        OBVIOUS
    <2> HIDE DEF given, replaces
    <2> DEFINE q == Append(h.queue, given)
    <2>6. /\ q \in Seq(SignalType)
          /\ Len(q) = l + 1
          /\ \A i \in 1..l : q[i] = h.queue[i]
          /\ q[l + 1] = given
          /\ q # <<>>
        BY <1>3, <2>3, AppendProperties
    <2>7. g.queue = q /\ g.pending = replaces /\ g.active = TRUE /\ g.sending = h.sending
        BY <1>1 DEF HookType
    <2>8. g \in HookType
        BY <1>1, <2>5, <2>6 DEF HookType
    <2>9. \A i \in 1..l : h.queue[i].kind # "reconciled"
        BY <1>1, <1>5 DEF SoundHook
    <2> HIDE DEF q, g, l
    <2>10. \A i \in 1..l + 1 : i \in 1..l \/ i = l + 1
        BY <2>1
    <2>11. \A i \in 1..l + 1 : q[i].kind = "reconciled" <=> (replaces /\ i = l + 1)
        BY <2>1, <2>5, <2>6, <2>9, <2>10
    <2>12. \A i \in 1..l + 1 : q[i].kind = "reconciled" => q[i].about = HermesTasks
        BY <2>3, <2>4, <2>5, <2>6, <2>9, <2>10
    <2>13. ~replaces => l = 0
        BY <2>1, <2>3
    <2>14. h.sending # Nothing => replaces
        BY <1>1, <2>3 DEF SoundHook
    <2>15. SoundHook(g)
        BY <2>1, <2>6, <2>7, <2>11, <2>12, <2>13, <2>14 DEF SoundHook
    <2>16. Covers(g, tasks \cup signal.about)
        <3>1. l \in Nat /\ 1..l \in SUBSET (1..l + 1) /\ l + 1 \in 1..l + 1
            BY <2>1
        <3>2. ASSUME NEW t \in tasks PROVE \E i \in 1..l + 1 : t \in q[i].about
            <4>1. PICK i \in 1..l : t \in h.queue[i].about
                BY <1>1, <3>2 DEF Covers, l
            <4> QED BY <2>6, <3>1, <4>1
        <3>3. ASSUME NEW t \in signal.about PROVE \E i \in 1..l + 1 : t \in q[i].about
            BY <2>3, <2>6, <3>1
        <3> QED BY <2>6, <2>7, <3>2, <3>3 DEF Covers
    <2> QED BY <1>1, <1>2, <2>2, <2>8, <2>15, <2>16 DEF Hinted, SoundHooks
<1> QED BY <1>4, <1>5

LEMMA SignalsAreOffered ==
    /\ \A t \in HermesTasks : Attention(t) \in Offered /\ Attention(t).about = {t}
    /\ Reconciliation \in Offered
    /\ \A kind \in {"reconnected", "unavailable"} :
          Announcement(kind) \in Offered /\ Announcement(kind).about = {}
    /\ Nothing \in SignalType
BY DEF Offered, SignalType, Attention, Reconciliation, Announcement, Nothing

\* So it is after each observation of a reconciliation, and after all of them.
LEMMA AllAreHinted ==
    ASSUME NEW s, Hinted(s.hook, s.unheard), NEW list \in Seq(HermesTasks)
    PROVE  Hinted(ObservedAll(s, list).hook, ObservedAll(s, list).unheard)
<1> DEFINE n == Len(list)
           UpTo(f, m) == f = [k \in 0..m |-> IF k = 0 THEN s ELSE Observed(f[k - 1], list[k])]
           Without == {m \in 0..n : ~\E f : UpTo(f, m)}
           g == CHOOSE f : UpTo(f, n)
           Astray == {m \in 0..n : ~Hinted(g[m].hook, g[m].unheard)}
<1>1. n \in Nat /\ \A k \in 1..n : list[k] \in HermesTasks
    OBVIOUS
<1>2. ObservedAll(s, list) = g[n]
    BY Zenon DEF ObservedAll
<1> HIDE DEF n
<1>3. \E f : UpTo(f, 0)
    <2>1. UpTo([k \in 0..0 |-> s], 0)
        OBVIOUS
    <2> QED BY <2>1
<1>4. ASSUME NEW m \in Nat, NEW f, UpTo(f, m)
      PROVE  \E h : UpTo(h, m + 1)
    <2> DEFINE h == [k \in 0..m + 1 |-> IF k = m + 1 THEN Observed(f[m], list[m + 1]) ELSE f[k]]
    <2>1. \A k \in 0..m + 1 : h[k] = IF k = 0 THEN s ELSE Observed(h[k - 1], list[k])
        <3>1. TAKE k \in 0..m + 1
        <3>2. CASE k = 0
            <4>1. h[k] = f[k] /\ f[k] = s
                BY <1>4, <3>2
            <4> QED BY <3>2, <4>1
        <3>3. CASE k = m + 1
            <4>1. h[k] = Observed(f[m], list[k]) /\ h[k - 1] = f[m]
                BY <3>3
            <4> QED BY <3>3, <4>1
        <3>4. CASE k # 0 /\ k # m + 1
            <4>1. k \in 0..m /\ k - 1 \in 0..m /\ k - 1 # m + 1
                BY <3>4
            <4>2. h[k] = f[k] /\ h[k - 1] = f[k - 1]
                BY <3>4, <4>1
            <4>3. f[k] = Observed(f[k - 1], list[k])
                BY <1>4, <3>4, <4>1
            <4> QED BY <3>4, <4>2, <4>3
        <3> QED BY <3>2, <3>3, <3>4
    <2>2. h = [k \in 0..m + 1 |-> h[k]]
        OBVIOUS
    <2> HIDE DEF h
    <2>3. UpTo(h, m + 1)
        BY <2>1, <2>2
    <2> QED BY <2>3
<1> HIDE DEF UpTo
<1>5. Without = {}
    <2>1. SUFFICES ASSUME Without # {} PROVE FALSE
        OBVIOUS
    <2>2. PICK m \in Without : \A k \in Without : m <= k
        <3>1. Without \in SUBSET Nat
            BY <1>1
        <3> HIDE DEF Without
        <3> QED BY <2>1, <3>1, LeastNumber
    <2>3. m \in 0..n /\ m # 0
        BY <1>3, <2>2
    <2>4. m - 1 \in 0..n /\ m - 1 \notin Without
        BY <1>1, <2>2, <2>3
    <2>5. PICK f : UpTo(f, m - 1)
        BY <2>4
    <2>6. \E h : UpTo(h, (m - 1) + 1)
        BY <1>1, <2>4, <2>5, <1>4
    <2>7. (m - 1) + 1 = m
        BY <1>1, <2>3
    <2> QED BY <2>2, <2>6, <2>7
<1>6. UpTo(g, n)
    <2>1. n \in 0..n
        BY <1>1
    <2>2. \E f : UpTo(f, n)
        BY <1>5, <2>1, Zenon
    <2> QED BY <2>2, Zenon
<1> HIDE DEF g
<1>7. \A k \in 0..n : g[k] = IF k = 0 THEN s ELSE Observed(g[k - 1], list[k])
    BY <1>6 DEF UpTo
<1>8. Astray = {}
    <2>1. SUFFICES ASSUME Astray # {} PROVE FALSE
        OBVIOUS
    <2>2. PICK m \in Astray : \A k \in Astray : m <= k
        <3>1. Astray \in SUBSET Nat
            BY <1>1
        <3> HIDE DEF Astray
        <3> QED BY <2>1, <3>1, LeastNumber
    <2>3. g[0] = s
        BY <1>1, <1>7
    <2>4. m \in 1..n
        BY <1>1, <2>2, <2>3
    <2>5. m - 1 \in 0..n /\ m - 1 \notin Astray
        BY <1>1, <2>2, <2>4
    <2>6. g[m] = Observed(g[m - 1], list[m]) /\ list[m] \in HermesTasks
        BY <1>1, <1>7, <2>4
    <2> DEFINE before == g[m - 1]
               t == list[m]
    <2>7. Hinted(before.hook, before.unheard) /\ t \in HermesTasks
        BY <2>5, <2>6
    <2> HIDE DEF before, t
    <2>8. Hinted(Enqueued(before.hook, Attention(t)), before.unheard \cup {t})
        BY <2>7, EnqueuedIsHinted, SignalsAreOffered
    <2>9. Hinted(Observed(before, t).hook, Observed(before, t).unheard)
        <3>1. CASE NewsOfReconciliation(before.memory, t)
            BY <2>8, <3>1 DEF Observed
        <3>2. CASE ~NewsOfReconciliation(before.memory, t)
            BY <2>7, <3>2 DEF Observed
        <3> QED BY <3>1, <3>2
    <2> QED BY <2>2, <2>6, <2>9 DEF before, t
<1>9. n \in 0..n
    BY <1>1
<1> QED BY <1>2, <1>8, <1>9

\* The invariant of the bridge holds initially.
LEMMA HermesInitially == HermesInit => HermesInv
<1> SUFFICES ASSUME HermesInit PROVE HermesInv
    OBVIOUS
<1>1. /\ hook.queue = <<>> /\ hook.pending = FALSE /\ hook.sending = Nothing
      /\ unheard = {} /\ usine.events = <<>>
    BY DEF HermesInit
<1>2. hook \in HookType
    BY SignalsAreOffered DEF HermesInit, HookType
<1> QED BY <1>1, <1>2 DEF HermesInv, Hinted, Covers, SoundHooks, SoundHook

\* A delivery takes the first signal and what it is about, and leaves the others.
LEMMA TakenIsHinted ==
    ASSUME NEW h, NEW tasks, Hinted(h, tasks), h.queue # <<>>
    PROVE  Hinted(Taken(h), tasks \ Head(h.queue).about)
<1>1. h \in HookType /\ SoundHook(h) /\ tasks \in SUBSET HermesTasks /\ Covers(h, tasks)
    BY DEF SoundHooks, Hinted
<1> DEFINE q == h.queue
           t == Tail(q)
           l == Len(q)
           left == IF Head(h.queue).kind = "reconciled" THEN FALSE ELSE h.pending
           g == [h EXCEPT !.queue = t, !.active = TRUE, !.sending = Head(q), !.pending = left]
<1>2. Taken(h) = g
    BY Zenon DEF Taken
<1>3. q \in Seq(SignalType) /\ q # <<>>
    BY <1>1 DEF HookType
<1>4. l \in Nat /\ l >= 1 /\ l <= 2 /\ (~h.pending => l <= 1)
    BY <1>1, <1>3 DEF SoundHook
<1>5. /\ t \in Seq(SignalType)
      /\ Len(t) = l - 1
      /\ \A i \in 1..l - 1 : t[i] = q[i + 1]
      /\ Head(q) \in SignalType /\ Head(q) = q[1]
    BY <1>3
<1>6. left \in BOOLEAN /\ (left <=> h.pending /\ q[1].kind # "reconciled")
    BY <1>1, <1>5 DEF HookType
<1>7. \A i \in 1..l : /\ q[i].kind = "reconciled" <=> (h.pending /\ i = l)
                      /\ q[i].kind = "reconciled" => q[i].about = HermesTasks
    BY <1>1 DEF SoundHook
<1>8. \A u \in tasks : \E i \in 1..l : u \in q[i].about
    BY <1>1 DEF Covers
<1>9. Head(h.queue).about = q[1].about
    BY <1>5
<1> HIDE DEF t, left
<1>10. g \in HookType
    BY <1>1, <1>5, <1>6 DEF HookType
<1>11. g.queue = t /\ g.pending = left /\ g.active = TRUE
    BY <1>1 DEF HookType
<1> HIDE DEF g, q, l
<1>12. \A i \in 1..l - 1 : i + 1 \in 1..l /\ t[i] = q[i + 1]
    BY <1>4, <1>5
<1>13. 1 \in 1..l /\ (left <=> l = 2)
    <2>1. 1 \in 1..l
        BY <1>4
    <2>2. q[1].kind = "reconciled" <=> (h.pending /\ 1 = l)
        BY <1>7, <2>1
    <2>3. l = 1 \/ l = 2
        BY <1>4
    <2> QED BY <1>4, <1>6, <2>1, <2>2, <2>3
<1>14. \A i \in 1..l - 1 : /\ t[i].kind = "reconciled" <=> (left /\ i = l - 1)
                           /\ t[i].kind = "reconciled" => t[i].about = HermesTasks
    <2>1. TAKE i \in 1..l - 1
    <2>2. i + 1 \in 1..l /\ l = 2 /\ i = 1 /\ t[i] = q[i + 1]
        BY <1>4, <1>12
    <2>3. q[i + 1].kind = "reconciled" <=> (h.pending /\ i + 1 = l)
        BY <1>7, <2>2
    <2>4. q[i + 1].kind = "reconciled" => q[i + 1].about = HermesTasks
        BY <1>7, <2>2
    <2>5. left /\ h.pending
        BY <1>6, <1>13, <2>2
    <2> QED BY <2>2, <2>3, <2>4, <2>5
<1>15. Len(t) = l - 1 /\ l - 1 <= 1 /\ (left => t # <<>>) /\ (~left => l - 1 = 0 /\ t = <<>>)
    BY <1>4, <1>5, <1>13
<1>16. SoundHook(g)
    BY <1>11, <1>14, <1>15 DEF SoundHook
<1>17. Covers(g, tasks \ q[1].about)
    <2>1. ASSUME NEW u \in tasks \ q[1].about PROVE \E i \in 1..l - 1 : u \in t[i].about
        <3>1. PICK i \in 1..l : u \in q[i].about
            BY <1>8
        <3>2. i # 1 /\ i - 1 \in 1..l - 1 /\ (i - 1) + 1 = i
            BY <1>4, <2>1, <3>1
        <3>3. t[i - 1] = q[i]
            BY <1>12, <3>2
        <3> QED BY <3>1, <3>2, <3>3
    <2> QED BY <1>5, <1>11, <2>1 DEF Covers
<1> QED BY <1>1, <1>2, <1>9, <1>10, <1>16, <1>17 DEF Hinted, SoundHooks

\* The Tasks of a reconciliation come in a sequence.
LEMMA OrdersAreSequences ==
    ASSUME NEW tasks \in SUBSET HermesTasks, NEW order \in SetToSeqs(tasks)
    PROVE  order \in Seq(HermesTasks)
<1>1. IsFiniteSet(tasks)
    BY FS_Subset, HermesAssumption
<1>2. Cardinality(tasks) \in Nat
    BY <1>1, FS_CardinalityType
<1>3. order \in [1..Cardinality(tasks) -> tasks]
    BY DEF SetToSeqs
<1> QED BY <1>2, <1>3

\* A reconciliation keeps the invariant.
LEMMA ReconcileKeepsHints ==
    ASSUME HermesInv, NEW initial \in BOOLEAN, NEW succeeded, NEW failed,
           Reconcile(initial, succeeded, failed)
    PROVE  Hinted(hook, unheard)'
<1>1. PICK listed \in SUBSET HermesTasks : \E list \in SetToSeqs(listed) :
        \E answered \in SUBSET {t \in HermesTasks \ listed :
                            \E m \in ToSet(ObservedList(list).memory) : m.task = t} :
        \E rest \in SetToSeqs(answered) :
            LET after == ObservedAll(ObservedList(list), rest)
            IN  /\ hook' = after.hook \/ hook' = Enqueued(after.hook, Reconciliation)
                /\ unheard' = after.unheard
    BY Zenon DEF Reconcile
<1>2. PICK list \in SetToSeqs(listed) :
        \E answered \in SUBSET {t \in HermesTasks \ listed :
                            \E m \in ToSet(ObservedList(list).memory) : m.task = t} :
        \E rest \in SetToSeqs(answered) :
            LET after == ObservedAll(ObservedList(list), rest)
            IN  /\ hook' = after.hook \/ hook' = Enqueued(after.hook, Reconciliation)
                /\ unheard' = after.unheard
    BY <1>1, Zenon
<1> DEFINE others == {t \in HermesTasks \ listed : \E m \in ToSet(ObservedList(list).memory) : m.task = t}
<1>3. PICK answered \in SUBSET others : \E rest \in SetToSeqs(answered) :
            LET after == ObservedAll(ObservedList(list), rest)
            IN  /\ hook' = after.hook \/ hook' = Enqueued(after.hook, Reconciliation)
                /\ unheard' = after.unheard
    BY <1>2, Zenon
<1>4. answered \in SUBSET HermesTasks
    OBVIOUS
<1>5. PICK rest \in SetToSeqs(answered) :
            LET after == ObservedAll(ObservedList(list), rest)
            IN  /\ hook' = after.hook \/ hook' = Enqueued(after.hook, Reconciliation)
                /\ unheard' = after.unheard
    BY <1>3, Zenon
<1> HIDE DEF others
<1> DEFINE s == [memory |-> TrackedAll(list), hook |-> hook, unheard |-> unheard]
           first == ObservedAll(s, list)
           after == ObservedAll(first, rest)
<1>6. list \in Seq(HermesTasks) /\ rest \in Seq(HermesTasks)
    BY <1>4, OrdersAreSequences
<1>7. Hinted(s.hook, s.unheard)
    BY DEF HermesInv
<1> HIDE DEF s
<1>8. Hinted(first.hook, first.unheard)
    BY <1>6, <1>7, AllAreHinted
<1> HIDE DEF first
<1>9. Hinted(after.hook, after.unheard)
    BY <1>6, <1>8, AllAreHinted
<1>10. /\ hook' = after.hook \/ hook' = Enqueued(after.hook, Reconciliation)
       /\ unheard' = after.unheard
    BY <1>5, Zenon DEF ObservedList, s, first
<1> HIDE DEF after
<1>11. Hinted(Enqueued(after.hook, Reconciliation), after.unheard \cup Reconciliation.about)
    BY <1>9, EnqueuedIsHinted, SignalsAreOffered
<1>12. Hinted(Enqueued(after.hook, Reconciliation), after.unheard)
    BY <1>9, <1>11 DEF Hinted, Covers
<1>13. Hinted(hook', unheard')
    BY <1>9, <1>10, <1>12
<1> QED BY <1>13, Zenon

\* Every step keeps the invariant.
LEMMA HermesStep ==
    ASSUME HermesInv, [HermesNext]_hermesVars
    PROVE  HermesInv'
<1>1. Hinted(hook, unheard) /\ usine.events \in Seq(HermesTasks)
    BY DEF HermesInv
<1>2. ASSUME UNCHANGED <<hook, unheard>> PROVE Hinted(hook, unheard)'
    BY <1>1, <1>2
<1>3. ASSUME NEW kind \in {"reconnected", "unavailable"}, Announce(kind), unheard' = unheard
      PROVE  Hinted(hook, unheard)'
    <2>1. Hinted(Enqueued(hook, Announcement(kind)), unheard \cup Announcement(kind).about)
        BY <1>1, EnqueuedIsHinted, SignalsAreOffered
    <2>2. unheard \cup Announcement(kind).about = unheard
        BY SignalsAreOffered
    <2> QED BY <1>3, <2>1, <2>2 DEF Announce
<1>4. CASE TaskChanges
    <2>1. PICK t \in HermesTasks, c \in Classes :
            usine'.events = IF bridge.next = "subscribed" THEN Append(usine.events, t) ELSE <<>>
        BY <1>4 DEF TaskChanges
    <2>2. usine'.events \in Seq(HermesTasks)
        BY <1>1, <2>1
    <2> QED BY <1>2, <1>4, <2>2 DEF TaskChanges, HermesInv
<1>5. CASE TakeSignal
    <2>1. Hinted(Taken(hook), unheard \ Head(hook.queue).about)
        BY <1>1, <1>5, TakenIsHinted DEF TakeSignal
    <2> QED BY <1>1, <1>5, <2>1 DEF TakeSignal, HermesInv
<1>6. CASE SignalSent
    <2> DEFINE g == [hook EXCEPT !.sending = Nothing, !.active = FALSE]
    <2>1. hook' = g /\ unheard' = unheard /\ usine' = usine /\ hook.sending # Nothing
        BY <1>6 DEF SignalSent
    <2>2. hook \in HookType /\ SoundHook(hook) /\ Covers(hook, unheard) /\ unheard \in SUBSET HermesTasks
        BY <1>1 DEF SoundHooks, Hinted
    <2>3. g \in HookType /\ g.queue = hook.queue /\ g.pending = hook.pending /\ g.sending = Nothing
        BY <2>2, SignalsAreOffered DEF HookType
    <2> HIDE DEF g
    <2>4. g \in SoundHooks /\ Covers(g, unheard)
        BY <2>1, <2>2, <2>3 DEF SoundHooks, SoundHook, Covers
    <2> QED BY <1>1, <2>1, <2>2, <2>4 DEF HermesInv, Hinted
<1>7. CASE Startup
    BY <1>1, <1>2, <1>7, ReconcileKeepsHints DEF Startup, NothingIsListed, HermesInv
<1>8. ASSUME NEW next, NotifyReconnected(next) PROVE HermesInv'
    BY <1>1, <1>2, <1>8, ReconcileKeepsHints DEF NotifyReconnected, NothingIsListed, HermesInv
<1>9. CASE Retry
    BY <1>8, <1>9 DEF Retry
<1>10. CASE Ready
    BY <1>8, <1>10 DEF Ready
<1>11. CASE AnnounceReconnected
    BY <1>1, <1>3, <1>11 DEF AnnounceReconnected, HermesInv
<1>12. CASE HandleEvent
    <2> DEFINE t == Head(usine.events)
    <2>1. t \in HermesTasks /\ Tail(usine.events) \in Seq(HermesTasks)
        BY <1>1, <1>12 DEF HandleEvent
    <2>2. usine'.events = Tail(usine.events)
        BY <1>12 DEF HandleEvent
    <2>3. Hinted(Enqueued(hook, Attention(t)), unheard \cup {t})
        BY <1>1, <2>1, EnqueuedIsHinted, SignalsAreOffered
    <2>4. \/ hook' = Enqueued(hook, Attention(t)) /\ unheard' = unheard \cup {t}
          \/ hook' = hook /\ unheard' = unheard
        BY <1>12 DEF HandleEvent
    <2> HIDE DEF t
    <2> QED BY <1>1, <2>1, <2>2, <2>3, <2>4 DEF HermesInv
<1>13. CASE StreamLost
    BY <1>2, <1>13 DEF StreamLost, HermesInv
<1>14. CASE AnnounceUnavailable
    BY <1>1, <1>2, <1>3, <1>14 DEF AnnounceUnavailable, HermesInv
<1>15. CASE TrackTask
    BY <1>1, <1>2, <1>15 DEF TrackTask, HermesInv
<1>16. CASE UNCHANGED hermesVars
    BY <1>1, <1>2, <1>16 DEF hermesVars, HermesInv
<1> QED BY <1>4, <1>5, <1>6, <1>7, <1>9, <1>10, <1>11, <1>12, <1>13, <1>14, <1>15, <1>16
        DEF HermesNext

\* Coalescing loses no hint, and the bounded queue none either (HermesWebhookDispatcher,
\* bridge.ts): a Task whose hint no delivery that began later has covered has a signal in the
\* queue that is about it, its own or a reconciliation.
THEOREM HintsAreKept == HermesSpec => []NoHintIsForgotten
<1>1. HermesInv => NoHintIsForgotten
    <2>1. SUFFICES ASSUME HermesInv, NEW t \in unheard
                   PROVE  t \in UNION {signal.about : signal \in ToSet(hook.queue)}
        BY DEF NoHintIsForgotten
    <2>2. PICK i \in 1..Len(hook.queue) : t \in hook.queue[i].about
        BY <2>1 DEF HermesInv, Hinted, Covers
    <2>3. hook.queue \in Seq(SignalType)
        BY <2>1 DEF HermesInv, Hinted, SoundHooks, HookType
    <2>4. hook.queue[i] \in ToSet(hook.queue)
        BY <2>2, <2>3 DEF ToSet
    <2> QED BY <2>2, <2>4
<1> QED BY HermesInitially, HermesStep, <1>1, PTL DEF HermesSpec

(***************************************************************************)
(* The merge gates.                                                        *)
(***************************************************************************)
ReviewType ==
    [by : Reviewers, state : Decisive \cup {"COMMENTED", "DISMISSED"}, commit : Heads,
     at : Nat, nth : Nat]
Results == {"pending", "success", "failure"}
CheckType == [name : Names, id : Nat, app : Apps, result : Results]
StatusType == [context : Contexts, id : Nat, result : Results]

\* Reviews are as late, in the sense of the fold, as they were submitted.
ReviewsInOrder ==
    /\ reviews \in Seq(ReviewType)
    /\ clock \in Nat
    /\ \A i \in 1..Len(reviews) : reviews[i].at <= clock /\ reviews[i].nth <= Len(reviews)
    /\ \A i, j \in 1..Len(reviews) : IsLaterReview(i, j) <=> reviews[i].nth > reviews[j].nth

\* Checks and statuses are numbered, and none takes the number of another.
Numbered(items) == \A c, d \in items : c.id = d.id => c = d
PipelineInOrder ==
    /\ checkRuns \in SUBSET CheckType /\ IsFiniteSet(checkRuns)
    /\ statuses \in SUBSET StatusType /\ IsFiniteSet(statuses)
    /\ \A c \in checkRuns \cup statuses : c.id <= Cardinality(checkRuns) + Cardinality(statuses)
    /\ Numbered(checkRuns) /\ Numbered(statuses)

GatesInv == ReviewsInOrder /\ PipelineInOrder

\* n is the sequence s of elements of E with e at place i, and those after it moved
\* by one.
Inserted(E, s, i, e, n) ==
    /\ n \in Seq(E)
    /\ Len(n) = Len(s) + 1
    /\ n[i] = e
    /\ \A k \in 1..Len(s) + 1 : /\ k < i => n[k] = s[k]
                                /\ k > i => n[k] = s[k - 1]

\* A review is inserted where it is listed.
LEMMA InsertElements ==
    ASSUME NEW T, NEW s \in Seq(T), NEW i \in 1..Len(s) + 1, NEW e \in T,
           NEW n, n = InsertAt(s, i, e)
    PROVE  Inserted(T, s, i, e, n)
<1> DEFINE front == SubSeq(s, 1, i - 1)
           back == SubSeq(s, i, Len(s))
<1>1. /\ front \in Seq(T) /\ Len(front) = i - 1
      /\ \A k \in 1..i - 1 : front[k] = s[k]
    BY SubSeqProperties
<1>2. /\ back \in Seq(T) /\ Len(back) = Len(s) - i + 1
      /\ \A k \in 1..Len(s) - i + 1 : back[k] = s[i + k - 1]
    <2>1. CASE i <= Len(s)
        BY <2>1, SubSeqProperties
    <2>2. CASE i = Len(s) + 1
        BY <2>2, SubSeqProperties
    <2> QED BY <2>1, <2>2
<1>3. n = (front \o <<e>>) \o back
    BY DEF InsertAt
<1> HIDE DEF front, back
<1> DEFINE head == front \o <<e>>
<1>4. head \in Seq(T) /\ Len(head) = i /\ head[i] = e /\ \A k \in 1..i - 1 : head[k] = s[k]
    BY <1>1
<1>5. n = head \o back
    BY <1>3
<1> HIDE DEF head
<1>6. n \in Seq(T) /\ Len(n) = Len(s) + 1
    <2>1. n \in Seq(T) /\ Len(n) = Len(head) + Len(back)
        <3>1. head \o back \in Seq(T) /\ Len(head \o back) = Len(head) + Len(back)
            BY <1>2, <1>4, ConcatProperties, Zenon
        <3> QED BY <3>1, <1>5, Zenon
    <2> QED BY <2>1, <1>2, <1>4
<1>7. \A k \in 1..Len(n) : n[k] = IF k <= i THEN head[k] ELSE back[k - i]
    <2>1. TAKE k \in 1..Len(n)
    <2>2. k \in 1..Len(head) + Len(back)
        BY <1>2, <1>4, <1>6
    <2>3. (head \o back)[k] = IF k <= Len(head) THEN head[k] ELSE back[k - Len(head)]
        BY <2>2, <1>2, <1>4, ConcatProperties, Zenon
    <2> QED BY <2>3, <1>4, <1>5
<1>8. \A k \in 1..Len(n) : /\ k < i => n[k] = s[k]
                           /\ k = i => n[k] = e
                           /\ k > i => n[k] = s[k - 1]
    <2>1. TAKE k \in 1..Len(n)
    <2>2. CASE k <= i
        BY <2>2, <1>4, <1>7
    <2>3. CASE k > i
        <3>1. k - i \in 1..Len(s) - i + 1
            BY <2>3, <1>6
        <3>2. back[k - i] = s[i + (k - i) - 1]
            BY <3>1, <1>2
        <3> QED BY <2>3, <3>2, <1>7
    <2> QED BY <2>2, <2>3
<1> QED BY <1>6, <1>8 DEF Inserted

(***************************************************************************)
(* The order of reviews.                                                   *)
(***************************************************************************)
LEMMA SubmitKeepsOrder ==
    ASSUME ReviewsInOrder, NEW r \in Reviewers, NEW state \in Decisive \cup {"COMMENTED"},
           NEW commit \in Heads, Submit(r, state, commit)
    PROVE  ReviewsInOrder'
<1> DEFINE review == [by |-> r, state |-> state, commit |-> commit, at |-> clock,
                      nth |-> Len(reviews) + 1]
           n == Len(reviews)
<1>1. PICK i \in 1..n + 1 : /\ \A j \in i..n : reviews[j].at < clock
                            /\ reviews' = InsertAt(reviews, i, review)
    BY DEF Submit
<1>2. /\ review \in ReviewType /\ review.at = clock /\ review.nth = n + 1
    BY DEF ReviewsInOrder, ReviewType
<1>3. n \in Nat /\ clock \in Nat /\ clock' = clock /\ reviews \in Seq(ReviewType)
    BY DEF ReviewsInOrder, Submit
<1> HIDE DEF review
<1>4. /\ reviews' \in Seq(ReviewType) /\ Len(reviews') = n + 1
      /\ reviews'[i] = review
      /\ \A k \in 1..n + 1 : /\ k < i => reviews'[k] = reviews[k]
                             /\ k > i => reviews'[k] = reviews[k - 1]
    <2>1. i \in 1..Len(reviews) + 1
        OBVIOUS
    <2>2. /\ reviews' \in Seq(ReviewType) /\ Len(reviews') = Len(reviews) + 1
          /\ reviews'[i] = review
          /\ \A k \in 1..Len(reviews) + 1 : /\ k < i => reviews'[k] = reviews[k]
                                            /\ k > i => reviews'[k] = reviews[k - 1]
        <3> DEFINE new == reviews'
        <3>1. new = InsertAt(reviews, i, review)
            BY <1>1
        <3> HIDE DEF new
        <3>2. /\ new \in Seq(ReviewType) /\ Len(new) = Len(reviews) + 1
              /\ new[i] = review
              /\ \A k \in 1..Len(reviews) + 1 : /\ k < i => new[k] = reviews[k]
                                                /\ k > i => new[k] = reviews[k - 1]
            <4>1. reviews \in Seq(ReviewType) /\ review \in ReviewType
                BY <1>2, <1>3
            <4>2. Inserted(ReviewType, reviews, i, review, new)
                BY <2>1, <3>1, <4>1, InsertElements, Zenon
            <4> QED BY <4>2 DEF Inserted
        <3> QED BY <3>2 DEF new
    <2> QED BY <2>2
<1> HIDE DEF n
<1>5. \A k \in 1..n + 1 : k # i =>
          \E m \in 1..n : /\ reviews'[k] = reviews[m]
                          /\ (m = k /\ k < i) \/ (m = k - 1 /\ k > i)
    <2>1. TAKE k \in 1..n + 1
    <2>2. CASE k < i
        <3>1. k \in 1..n /\ reviews'[k] = reviews[k]
            <4>1. k \in 1..n
                BY <2>2, <1>3
            <4>2. reviews'[k] = reviews[k]
                BY <2>2, <1>4
            <4> QED BY <4>1, <4>2
        <3> QED BY <3>1, <2>2
    <2>3. CASE k > i
        <3>1. k - 1 \in 1..n /\ reviews'[k] = reviews[k - 1]
            BY <2>3, <1>1, <1>3, <1>4
        <3> QED BY <3>1, <2>3
    <2> QED BY <2>2, <2>3, <1>3
<1>6. \A k \in 1..n : /\ reviews[k].at \in Nat /\ reviews[k].nth \in Nat
                      /\ reviews[k].at <= clock /\ reviews[k].nth <= n
    <2>1. TAKE k \in 1..n
    <2>2. reviews[k] \in ReviewType
        BY <1>3 DEF n
    <2>3. reviews[k].at <= clock /\ reviews[k].nth <= n
        BY DEF ReviewsInOrder, n
    <2> QED BY <2>2, <2>3 DEF ReviewType
<1>7. \A k \in 1..n + 1 : reviews'[k].at <= clock /\ reviews'[k].nth <= n + 1
    <2>1. TAKE k \in 1..n + 1
    <2>2. CASE k = i
        BY <2>2, <1>2, <1>3, <1>4
    <2>3. CASE k # i
        <3>1. PICK m \in 1..n : reviews'[k] = reviews[m]
            BY <2>3, <1>5
        <3> QED BY <3>1, <1>3, <1>6
    <2> QED BY <2>2, <2>3
<1>8. \A j, k \in 1..n + 1 :
          IsLaterReview(j, k)' <=> reviews'[j].nth > reviews'[k].nth
    <2>1. TAKE j, k \in 1..n + 1
    <2>2. IsLaterReview(j, k)' <=>
              IF reviews'[j].at # reviews'[k].at THEN reviews'[j].at > reviews'[k].at ELSE j > k
        BY DEF IsLaterReview
    <2>3. CASE j = i /\ k = i
        BY <2>2, <2>3, <1>2, <1>3, <1>4
    <2>4. CASE j = i /\ k # i
        <3>1. PICK m \in 1..n : /\ reviews'[k] = reviews[m]
                                /\ (m = k /\ k < i) \/ (m = k - 1 /\ k > i)
            BY <2>4, <1>5
        <3>3. /\ reviews'[k].at <= clock /\ reviews'[k].at \in Nat
              /\ reviews'[k].nth <= n /\ reviews'[k].nth \in Nat
            BY <3>1, <1>6
        <3>2. k > i => reviews'[k].at < clock
            BY <2>4, <3>1, <1>1, <1>3
        <3> QED BY <2>2, <2>4, <3>2, <3>3, <1>2, <1>3, <1>4
    <2>5. CASE j # i /\ k = i
        <3>1. PICK m \in 1..n : /\ reviews'[j] = reviews[m]
                                /\ (m = j /\ j < i) \/ (m = j - 1 /\ j > i)
            BY <2>5, <1>5
        <3>3. /\ reviews'[j].at <= clock /\ reviews'[j].at \in Nat
              /\ reviews'[j].nth <= n /\ reviews'[j].nth \in Nat
            BY <3>1, <1>6
        <3>2. j > i => reviews'[j].at < clock
            BY <2>5, <3>1, <1>1, <1>3
        <3> QED BY <2>2, <2>5, <3>2, <3>3, <1>2, <1>3, <1>4
    <2>6. CASE j # i /\ k # i
        <3>1. PICK a \in 1..n : /\ reviews'[j] = reviews[a]
                                /\ (a = j /\ j < i) \/ (a = j - 1 /\ j > i)
            BY <2>6, <1>5
        <3>2. PICK b \in 1..n : /\ reviews'[k] = reviews[b]
                                /\ (b = k /\ k < i) \/ (b = k - 1 /\ k > i)
            BY <2>6, <1>5
        <3>3. IsLaterReview(a, b) <=> reviews[a].nth > reviews[b].nth
            BY DEF ReviewsInOrder, n
        <3>4. j > k <=> a > b
            BY <3>1, <3>2, <1>3
        <3> QED BY <2>2, <3>1, <3>2, <3>3, <3>4 DEF IsLaterReview
    <2> QED BY <2>3, <2>4, <2>5, <2>6
<1> QED BY <1>3, <1>4, <1>7, <1>8 DEF ReviewsInOrder

\* A dismissed review keeps its place and time.
LEMMA DismissKeepsOrder ==
    ASSUME ReviewsInOrder, NEW i \in DOMAIN reviews, Dismiss(i)
    PROVE  ReviewsInOrder'
<1>1. /\ reviews \in Seq(ReviewType) /\ i \in 1..Len(reviews)
    BY DEF ReviewsInOrder
<1>2. reviews' = [reviews EXCEPT ![i].state = "DISMISSED"] /\ clock' = clock
    BY DEF Dismiss
<1> DEFINE new == [reviews[i] EXCEPT !.state = "DISMISSED"]
<1>3. /\ new \in ReviewType /\ new.at = reviews[i].at /\ new.nth = reviews[i].nth
    <2>1. reviews[i] \in ReviewType
        BY <1>1
    <2> QED BY <2>1 DEF ReviewType
<1>4. reviews' = [reviews EXCEPT ![i] = new]
    BY <1>2, Zenon
<1> HIDE DEF new
<1>5. /\ reviews' \in Seq(ReviewType) /\ Len(reviews') = Len(reviews)
      /\ \A k \in 1..Len(reviews) : /\ reviews'[k].at = reviews[k].at
                                    /\ reviews'[k].nth = reviews[k].nth
    BY <1>1, <1>3, <1>4
<1>6. \A j, k \in 1..Len(reviews) : IsLaterReview(j, k)' <=> IsLaterReview(j, k)
    BY <1>5 DEF IsLaterReview
<1> QED BY <1>2, <1>5, <1>6 DEF ReviewsInOrder

\* Reviews stay in order.
LEMMA ReviewStepKeepsOrder ==
    ASSUME GatesInv, ReviewStep
    PROVE  GatesInv'
<1>1. UNCHANGED <<checkRuns, statuses>>
    BY DEF ReviewStep, Submit, Dismiss, Tick
<1>2. PipelineInOrder'
    BY <1>1 DEF GatesInv, PipelineInOrder
<1>3. CASE Tick
    <2>1. reviews' = reviews /\ clock' = clock + 1
        BY <1>3 DEF Tick
    <2>2. \A i \in 1..Len(reviews) : reviews[i].at \in Nat
        <3>1. \A i \in 1..Len(reviews) : reviews[i] \in ReviewType
            BY DEF GatesInv, ReviewsInOrder
        <3> QED BY <3>1 DEF ReviewType
    <2>3. \A i, j \in 1..Len(reviews) : IsLaterReview(i, j)' <=> IsLaterReview(i, j)
        BY <2>1 DEF IsLaterReview
    <2>4. \A i \in 1..Len(reviews) : reviews[i].at <= clock + 1
        BY <2>2 DEF GatesInv, ReviewsInOrder
    <2>5. ReviewsInOrder'
        BY <2>1, <2>3, <2>4 DEF GatesInv, ReviewsInOrder
    <2> QED BY <2>5, <1>2 DEF GatesInv
<1>4. CASE ~Tick
    <2>1. ReviewsInOrder'
        BY <1>4, SubmitKeepsOrder, DismissKeepsOrder DEF ReviewStep, GatesInv
    <2> QED BY <2>1, <1>2 DEF GatesInv
<1> QED BY <1>3, <1>4

(***************************************************************************)
(* The numbers of checks and statuses.                                     *)
(***************************************************************************)
LEMMA StartKeepsNumbers ==
    ASSUME PipelineInOrder, NEW name \in Names, NEW app \in Apps, StartCheck(name, app)
    PROVE  PipelineInOrder'
<1> DEFINE c == [name |-> name, id |-> NextId, app |-> app, result |-> "pending"]
           n == Cardinality(checkRuns)
           m == Cardinality(statuses)
<1>1. /\ n \in Nat /\ m \in Nat
    BY FS_CardinalityType DEF PipelineInOrder
<1>2. NextId = n + m + 1
    BY DEF NextId
<1>3. /\ c \in CheckType /\ c.id = n + m + 1
    BY <1>1, <1>2 DEF CheckType, Results
<1>4. checkRuns' = checkRuns \cup {c} /\ statuses' = statuses
    BY DEF StartCheck
<1> HIDE DEF c
<1>5. c \notin checkRuns
    BY <1>1, <1>3 DEF PipelineInOrder
<1>6. Cardinality(checkRuns') = n + 1 /\ IsFiniteSet(checkRuns')
    BY <1>4, <1>5, FS_AddElement DEF PipelineInOrder
<1>7. \A d \in checkRuns \cup statuses : d.id \in Nat /\ d.id <= n + m
    BY DEF PipelineInOrder, CheckType, StatusType
<1> HIDE DEF n, m
<1>8. Numbered(checkRuns') /\ Numbered(statuses')
    BY <1>1, <1>3, <1>4, <1>7 DEF PipelineInOrder, Numbered
<1>9. \A d \in checkRuns' \cup statuses' : d.id <= n + 1 + m
    BY <1>1, <1>3, <1>4, <1>7
<1> QED BY <1>1, <1>3, <1>4, <1>6, <1>8, <1>9 DEF PipelineInOrder, Numbered, m

\* A check keeps its number when it completes.
LEMMA CompleteKeepsNumbers ==
    ASSUME PipelineInOrder, NEW run \in checkRuns, NEW result \in {"success", "failure"},
           CompleteCheck(run, result)
    PROVE  PipelineInOrder'
<1> DEFINE c == [run EXCEPT !.result = result]
           n == Cardinality(checkRuns)
           m == Cardinality(statuses)
<1>1. run \in CheckType /\ run.result = "pending" /\ statuses' = statuses
    BY DEF PipelineInOrder, CompleteCheck
<1>2. c \in CheckType /\ c.id = run.id /\ c.result # "pending"
    BY <1>1 DEF CheckType, Results
<1>3. checkRuns' = (checkRuns \ {run}) \cup {c}
    BY DEF CompleteCheck
<1> HIDE DEF c
<1>4. c \notin checkRuns
    BY <1>1, <1>2 DEF PipelineInOrder, Numbered
<1>5. n \in Nat /\ m \in Nat
    BY FS_CardinalityType DEF PipelineInOrder
<1>6. IsFiniteSet(checkRuns \ {run}) /\ Cardinality(checkRuns \ {run}) = n - 1
    BY FS_RemoveElement DEF PipelineInOrder
<1>7. IsFiniteSet(checkRuns') /\ Cardinality(checkRuns') = n
    BY <1>3, <1>4, <1>5, <1>6, FS_AddElement
<1>8. \A d \in checkRuns \cup statuses : d.id <= n + m
    BY DEF PipelineInOrder
<1> HIDE DEF n, m
<1>9. Numbered(checkRuns') /\ Numbered(statuses')
    BY <1>1, <1>2, <1>3 DEF PipelineInOrder, Numbered
<1>10. \A d \in checkRuns' \cup statuses' : d.id <= n + m
    BY <1>1, <1>2, <1>3, <1>8
<1> QED BY <1>1, <1>2, <1>3, <1>7, <1>9, <1>10 DEF PipelineInOrder, Numbered, m

\* A new status takes a number of its own.
LEMMA StatusKeepsNumbers ==
    ASSUME PipelineInOrder, NEW context \in Contexts, NEW result \in Results,
           SetStatus(context, result)
    PROVE  PipelineInOrder'
<1> DEFINE c == [context |-> context, id |-> NextId, result |-> result]
           n == Cardinality(checkRuns)
           m == Cardinality(statuses)
<1>1. /\ n \in Nat /\ m \in Nat
    BY FS_CardinalityType DEF PipelineInOrder
<1>2. NextId = n + m + 1
    BY DEF NextId
<1>3. /\ c \in StatusType /\ c.id = n + m + 1
    BY <1>1, <1>2 DEF StatusType
<1>4. statuses' = statuses \cup {c} /\ checkRuns' = checkRuns
    BY DEF SetStatus
<1> HIDE DEF c
<1>5. c \notin statuses
    BY <1>1, <1>3 DEF PipelineInOrder
<1>6. Cardinality(statuses') = m + 1 /\ IsFiniteSet(statuses')
    BY <1>4, <1>5, FS_AddElement DEF PipelineInOrder
<1>7. \A d \in checkRuns \cup statuses : d.id \in Nat /\ d.id <= n + m
    BY DEF PipelineInOrder, CheckType, StatusType
<1> HIDE DEF n, m
<1>8. Numbered(checkRuns') /\ Numbered(statuses')
    BY <1>1, <1>3, <1>4, <1>7 DEF PipelineInOrder, Numbered
<1>9. \A d \in checkRuns' \cup statuses' : d.id <= n + (m + 1)
    BY <1>1, <1>3, <1>4, <1>7
<1> QED BY <1>1, <1>3, <1>4, <1>6, <1>8, <1>9 DEF PipelineInOrder, Numbered, n

\* Checks and statuses keep numbers of their own.
LEMMA PipelineStepKeepsNumbers ==
    ASSUME GatesInv, PipelineStep
    PROVE  GatesInv'
<1>1. UNCHANGED <<reviews, clock>>
    BY DEF PipelineStep, StartCheck, CompleteCheck, SetStatus
<1>2. ReviewsInOrder'
    BY <1>1 DEF GatesInv, ReviewsInOrder, IsLaterReview
<1>3. PipelineInOrder'
    BY StartKeepsNumbers, CompleteKeepsNumbers, StatusKeepsNumbers
       DEF PipelineStep, GatesInv, Results
<1> QED BY <1>2, <1>3 DEF GatesInv

\* Of two reviews the later one is the one submitted later, wherever GitHub lists it; no two
\* checks, and no two statuses, have one number.
THEOREM GatesInvariance == GatesSpec => []GatesInv
<1>1. GatesInit => GatesInv
    <2>1. ASSUME GatesInit PROVE GatesInv
        <3>1. reviews \in Seq(ReviewType) /\ Len(reviews) = 0
            BY <2>1 DEF GatesInit
        <3>2. ReviewsInOrder
            BY <2>1, <3>1 DEF GatesInit, ReviewsInOrder
        <3>3. IsFiniteSet(checkRuns) /\ IsFiniteSet(statuses)
            BY <2>1, FS_EmptySet DEF GatesInit
        <3> QED BY <2>1, <3>2, <3>3 DEF GatesInit, GatesInv, PipelineInOrder, Numbered
    <2> QED BY <2>1
<1>2. GatesInv /\ [GatesNext]_gatesVars => GatesInv'
    <2>1. CASE GatesNext
        BY <2>1, ReviewStepKeepsOrder, PipelineStepKeepsNumbers DEF GatesNext
    <2>2. CASE UNCHANGED gatesVars
        BY <2>2 DEF gatesVars, GatesInv, ReviewsInOrder, PipelineInOrder, IsLaterReview, Numbered
    <2> QED BY <2>1, <2>2
<1> QED BY <1>1, <1>2, PTL DEF GatesSpec

(***************************************************************************)
(* What the gates read.                                                    *)
(***************************************************************************)

\* The entry latestBy selects.
LEMMA LatestIsLast ==
    ASSUME NEW items, items # {}, NEW b \in Nat,
           \A i \in items : i.id \in Nat /\ i.id <= b
    PROVE  LatestBy(items) \in items /\ \A j \in items : j.id <= LatestBy(items).id
<1> DEFINE S == {i.id : i \in items}
<1>1. PICK n \in S : \A m \in S : m <= n
    <2>1. S \in SUBSET Nat /\ S # {} /\ \A n \in S : n <= b
        OBVIOUS
    <2> HIDE DEF S
    <2> QED BY <2>1, GreatestNumber
<1>2. PICK i \in items : n = i.id
    OBVIOUS
<1>3. \A j \in items : j.id <= i.id
    BY <1>1, <1>2
<1> QED BY <1>2, <1>3 DEF LatestBy

\* Of numbered items the one with the greatest number decides.
LEMMA SucceededIsExact ==
    ASSUME NEW items, Numbered(items), NEW b \in Nat,
           \A i \in items : i.id \in Nat /\ i.id <= b
    PROVE  Succeeded(items) <=>
               \E i \in items : i.result = "success" /\ \A j \in items : j.id <= i.id
<1>1. CASE items = {}
    BY <1>1 DEF Succeeded
<1>2. CASE items # {}
    <2>1. LatestBy(items) \in items /\ \A j \in items : j.id <= LatestBy(items).id
        BY <1>2, LatestIsLast
    <2> DEFINE last == LatestBy(items)
    <2> HIDE DEF last
    <2>2. ASSUME NEW i \in items, \A j \in items : j.id <= i.id PROVE i = last
        <3>1. i.id = last.id
            BY <2>1, <2>2 DEF last
        <3> QED BY <2>1, <3>1 DEF Numbered, last
    <2> QED BY <1>2, <2>1, <2>2 DEF Succeeded, last
<1> QED BY <1>1, <1>2

\* At most one source: they all have the same.
LEMMA OneSource ==
    ASSUME NEW items, IsFiniteSet(items)
    PROVE  Cardinality({c.app : c \in items}) <= 1 <=> \A c, d \in items : c.app = d.app
<1> DEFINE sources == {c.app : c \in items}
           f == [c \in items |-> c.app]
<1>1. f \in Surjection(items, sources)
    BY DEF Surjection
<1>2. IsFiniteSet(sources) /\ Cardinality(sources) \in Nat
    BY <1>1, FS_Surjection, FS_CardinalityType
<1>3. ASSUME Cardinality(sources) <= 1, NEW c \in items, NEW d \in items
      PROVE  c.app = d.app
    <2>1. c.app \in sources /\ d.app \in sources
        OBVIOUS
    <2> HIDE DEF sources
    <2>2. Cardinality(sources) # 0
        BY <2>1, <1>2, FS_EmptySet
    <2>3. Cardinality(sources) = 1
        BY <2>2, <1>2, <1>3
    <2>4. PICK x : sources = {x}
        BY <2>3, <1>2, FS_Singleton
    <2> QED BY <2>1, <2>4
<1>4. ASSUME \A c, d \in items : c.app = d.app
      PROVE  Cardinality(sources) <= 1
    <2>1. CASE items = {}
        <3>1. sources = {}
            BY <2>1
        <3> HIDE DEF sources
        <3>2. Cardinality(sources) = 0
            BY <3>1, FS_EmptySet
        <3> QED BY <3>2
    <2>2. CASE items # {}
        <3>1. PICK c \in items : TRUE
            BY <2>2
        <3>2. sources = {c.app}
            BY <1>4, <3>1
        <3> HIDE DEF sources
        <3>3. Cardinality(sources) = 1
            BY <3>2, FS_Singleton
        <3> QED BY <3>3
    <2> QED BY <2>1, <2>2
<1> QED BY <1>3, <1>4

\* The pipeline gate is exact for numbered checks and statuses.
LEMMA PipelineReadsAll ==
    ASSUME PipelineInOrder
    PROVE  PipelineGateIsExact
<1> DEFINE n == Cardinality(checkRuns)
           m == Cardinality(statuses)
<1>1. n \in Nat /\ m \in Nat /\ GatePage \in Nat
    BY FS_CardinalityType, PageAssumption DEF PipelineInOrder
<1> SUFFICES ASSUME NEW p \in RunPages, NEW q \in StatusPages
    PROVE  PipelineGate(p, q) <=>
            /\ Cardinality(checkRuns) <= GatePage /\ Cardinality(statuses) <= GatePage
            /\ \A name \in Names :
                  \E c \in checkRuns :
                     /\ c.name = name /\ c.result = "success"
                     /\ \A d \in checkRuns : d.name = name => d.app = c.app /\ d.id <= c.id
            /\ \A context \in Contexts :
                  \E s \in statuses :
                     /\ s.context = context /\ s.result = "success"
                     /\ \A u \in statuses : u.context = context => u.id <= s.id
    BY DEF PipelineGateIsExact
<1>2. CASE PipelineTruncated
    BY <1>1, <1>2 DEF PipelineGate, PipelineTruncated
<1>3. CASE ~PipelineTruncated
    <2>1. n <= GatePage /\ m <= GatePage
        BY <1>1, <1>3 DEF PipelineTruncated
    <2>2. p \in SUBSET checkRuns /\ Cardinality(p) = n
        BY <1>1, <2>1 DEF RunPages
    <2>3. q \in SUBSET statuses /\ Cardinality(q) = m
        BY <1>1, <2>1 DEF StatusPages
    <2>4. p = checkRuns /\ q = statuses
        BY <2>2, <2>3, FS_Subset DEF PipelineInOrder
    <2>5. \A i \in checkRuns \cup statuses : i.id \in Nat /\ i.id <= n + m
        BY DEF PipelineInOrder, CheckType, StatusType
    <2>6. n + m \in Nat
        BY <1>1
    <2> HIDE DEF n, m
    <2>7. ASSUME NEW name \in Names
          PROVE  LET named == {c \in p : c.name = name} IN
                 Succeeded(named) /\ Cardinality({c.app : c \in named}) <= 1 <=>
                    \E c \in checkRuns :
                     /\ c.name = name /\ c.result = "success"
                     /\ \A d \in checkRuns : d.name = name => d.app = c.app /\ d.id <= c.id
        <3> DEFINE named == {c \in p : c.name = name}
        <3>1. named \in SUBSET checkRuns /\ \A c \in checkRuns : c \in named <=> c.name = name
            BY <2>4
        <3> HIDE DEF named
        <3>2. IsFiniteSet(named) /\ Numbered(named)
            BY <3>1, FS_Subset DEF PipelineInOrder, Numbered
        <3>3. \A i \in named : i.id \in Nat /\ i.id <= n + m
            BY <2>5, <3>1
        <3>4. Succeeded(named) <=>
                  \E i \in named : i.result = "success" /\ \A j \in named : j.id <= i.id
            BY <2>6, <3>2, <3>3, SucceededIsExact
        <3>5. Cardinality({c.app : c \in named}) <= 1 <=> \A c, d \in named : c.app = d.app
            BY <3>2, OneSource
        <3>6. Succeeded(named) /\ Cardinality({c.app : c \in named}) <= 1 <=>
                  \E i \in named : /\ i.result = "success"
                                   /\ \A j \in named : j.app = i.app /\ j.id <= i.id
            BY <3>4, <3>5
        <3>7. (\E i \in named : /\ i.result = "success"
                                /\ \A j \in named : j.app = i.app /\ j.id <= i.id) <=>
              (\E c \in checkRuns :
                     /\ c.name = name /\ c.result = "success"
                     /\ \A d \in checkRuns : d.name = name => d.app = c.app /\ d.id <= c.id)
            BY <3>1
        <3> QED BY <3>6, <3>7 DEF named
    <2>8. ASSUME NEW context \in Contexts
          PROVE  Succeeded({s \in q : s.context = context}) <=>
                  \E s \in statuses :
                     /\ s.context = context /\ s.result = "success"
                     /\ \A u \in statuses : u.context = context => u.id <= s.id
        <3> DEFINE named == {s \in q : s.context = context}
        <3>1. named \in SUBSET statuses /\ \A c \in statuses : c \in named <=> c.context = context
            BY <2>4
        <3> HIDE DEF named
        <3>2. Numbered(named)
            BY <3>1 DEF PipelineInOrder, Numbered
        <3>3. \A i \in named : i.id \in Nat /\ i.id <= n + m
            BY <2>5, <3>1
        <3>4. Succeeded(named) <=>
                  \E i \in named : i.result = "success" /\ \A j \in named : j.id <= i.id
            BY <2>6, <3>2, <3>3, SucceededIsExact
        <3>5. (\E i \in named : i.result = "success" /\ \A j \in named : j.id <= i.id) <=>
              (\E s \in statuses :
                     /\ s.context = context /\ s.result = "success"
                     /\ \A u \in statuses : u.context = context => u.id <= s.id)
            BY <3>1
        <3> QED BY <3>4, <3>5 DEF named
    <2> QED BY <1>3, <2>1, <2>7, <2>8, Zenon DEF PipelineGate, n, m
<1> QED BY <1>2, <1>3

\* The pipeline gate opens exactly on the last results, of any number of checks and
\* statuses and on whatever page of them GitHub answers with.
THEOREM PipelineGateHolds == GatesSpec => []PipelineGateIsExact
BY GatesInvariance, PipelineReadsAll, PTL DEF GatesInv

\* The fold keeps what a reviewer said last, once the page holds all of it.
LEMMA FoldKeepsTheLast ==
    ASSUME ReviewsInOrder, ~ReviewsTruncated, NEW r
    PROVE  /\ Counted(r) = {} => LastDecision(r) = "NONE"
           /\ Counted(r) # {} => /\ LatestReview(r).state = LastDecision(r)
                                 /\ LastDecision(r) \in Decisive
<1> DEFINE said == {v \in ToSet(reviews) :
                        v.by = r /\ v.commit = HeadSha /\ v.state \in Decisive}
           n == Len(reviews)
           last == CHOOSE v \in said : \A w \in said : w.nth <= v.nth
           latest == CHOOSE i \in Counted(r) : \A j \in Counted(r) \ {i} : IsLaterReview(i, j)
<1>1. LastDecision(r) = IF said = {} THEN "NONE" ELSE last.state
    BY DEF LastDecision
<1>2. /\ reviews \in Seq(ReviewType) /\ n \in Nat /\ ReviewPage = 1..n
    BY PageAssumption DEF ReviewsInOrder, ReviewPage, ReviewsTruncated
<1>3. Counted(r) = {i \in 1..n : reviews[i].by = r /\ reviews[i].commit = HeadSha
                                 /\ reviews[i].state \in Decisive}
    BY <1>2 DEF Counted
<1>4. said = {reviews[i] : i \in Counted(r)}
    BY <1>2, <1>3 DEF ToSet
<1>5. \A i \in Counted(r) : /\ i \in 1..n /\ reviews[i].nth \in Nat /\ reviews[i].nth <= n
                            /\ reviews[i].state \in Decisive
    <2>1. \A i \in 1..n : reviews[i] \in ReviewType /\ reviews[i].nth <= n
        BY DEF ReviewsInOrder
    <2> QED BY <2>1, <1>3 DEF ReviewType
<1>6. \A i, j \in Counted(r) : IsLaterReview(i, j) <=> reviews[i].nth > reviews[j].nth
    BY <1>3 DEF ReviewsInOrder
<1>7. \A i, j \in Counted(r) : i # j => reviews[i].nth # reviews[j].nth
    <2>1. \A i, j \in 1..n : i # j => IsLaterReview(i, j) \/ IsLaterReview(j, i)
        <3>1. \A i \in 1..n : reviews[i] \in ReviewType
            BY DEF ReviewsInOrder
        <3> QED BY <3>1 DEF IsLaterReview, ReviewType
    <2> QED BY <2>1, <1>3, <1>5, <1>6
<1> HIDE DEF said, n, last, latest
<1>8. CASE Counted(r) = {}
    BY <1>1, <1>4, <1>8
<1>9. CASE Counted(r) # {}
    <2> DEFINE counts == {reviews[i].nth : i \in Counted(r)}
    <2>1. counts \in SUBSET Nat /\ counts # {} /\ \A k \in counts : k <= n
        BY <1>5, <1>9
    <2>2. \E k \in counts : \A m \in counts : m <= k
        <3> HIDE DEF counts
        <3> QED BY <2>1, <1>2, GreatestNumber
    <2>3. PICK i \in Counted(r) : \A j \in Counted(r) : reviews[j].nth <= reviews[i].nth
        BY <2>2
    <2>4. \A j \in Counted(r) \ {i} : IsLaterReview(i, j)
        BY <2>3, <1>5, <1>6, <1>7
    <2>5. latest \in Counted(r) /\ \A j \in Counted(r) \ {latest} : IsLaterReview(latest, j)
        BY <2>4 DEF latest
    <2>6. last \in said /\ \A w \in said : w.nth <= last.nth
        BY <2>3, <1>4 DEF last
    <2>7. PICK m \in Counted(r) : last = reviews[m]
        BY <2>6, <1>4
    <2>8. m = latest
        BY <2>5, <2>6, <2>7, <1>4, <1>5, <1>6
    <2>9. LatestReview(r) = last
        BY <2>7, <2>8 DEF LatestReview, latest
    <2>10. said # {}
        BY <2>6
    <2> QED BY <2>7, <2>9, <2>10, <1>1, <1>5, <1>9
<1> QED BY <1>8, <1>9

\* The review gate is exact for reviews in order.
LEMMA ReviewsReadAll ==
    ASSUME ReviewsInOrder
    PROVE  ReviewGateIsExact
<1> SUFFICES ASSUME NEW answering \in SUBSET Bots
             PROVE  LET known == {r \in Trusted : r \in Bots => r \in answering} IN
                    ReviewGate(answering) <=>
                        /\ \E r \in known : LastDecision(r) = "APPROVED"
                        /\ \A r \in known : LastDecision(r) # "CHANGES_REQUESTED"
                        /\ Len(reviews) <= GatePage
    BY DEF ReviewGateIsExact
<1> DEFINE known == {r \in Trusted : r \in Bots => r \in answering}
           decisive == {LatestReview(r) : r \in {q \in known : Counted(q) # {}}}
<1>1. ReviewsTruncated <=> ~(Len(reviews) <= GatePage)
    BY PageAssumption DEF ReviewsTruncated, ReviewsInOrder
<1>2. Trusted \cap VerifiedReviewers(answering) = known
    BY TrustAssumption DEF VerifiedReviewers
<1>3. CASE ReviewsTruncated
    BY <1>1, <1>3 DEF ReviewGate
<1>4. CASE ~ReviewsTruncated
    <2>1. ReviewGate(answering) <=> /\ \A v \in decisive : v.state # "CHANGES_REQUESTED"
                                    /\ \E v \in decisive : v.state = "APPROVED"
        BY <1>2, <1>4, Zenon DEF ReviewGate
    <2>2. \A r \in known : /\ Counted(r) = {} => LastDecision(r) = "NONE"
                           /\ Counted(r) # {} => LatestReview(r).state = LastDecision(r)
        BY <1>4, FoldKeepsTheLast
    <2> HIDE DEF known
    <2>3. (\A v \in decisive : v.state # "CHANGES_REQUESTED") <=>
          (\A r \in known : LastDecision(r) # "CHANGES_REQUESTED")
        BY <2>2
    <2>4. (\E v \in decisive : v.state = "APPROVED") <=>
          (\E r \in known : LastDecision(r) = "APPROVED")
        BY <2>2
    <2> QED BY <1>1, <1>4, <2>1, <2>3, <2>4 DEF known
<1> QED BY <1>3, <1>4

\* The review gate opens exactly on the last decisions of the trusted reviewers that the
\* reading could identify, for any number of reviews, wherever GitHub lists the later ones and
\* whichever lookups fail.
THEOREM ReviewGateHolds == GatesSpec => []ReviewGateIsExact
BY GatesInvariance, ReviewsReadAll, PTL DEF GatesInv
====
