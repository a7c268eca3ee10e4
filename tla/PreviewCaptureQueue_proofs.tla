--------------------- MODULE PreviewCaptureQueue_proofs ---------------------
(***************************************************************************)
(* Proofs about PreviewCaptureQueue, for any set of listings and any limit. *)
(* The invariants only hold together: that a listing is captured once needs *)
(* the pending set to cover queue and captures, the counter is exact only   *)
(* while no listing is captured twice, a place can only be given back when  *)
(* the counter is exact, and the queue waits only while no place is free.   *)
(***************************************************************************)
EXTENDS PreviewCaptureQueue, FiniteSetTheorems, TLAPS

QueueInv ==
  TypeOK /\ CapturedOnce /\ CountIsExact /\ NoIdlePlace /\ FetchStillWanted

(* Listing a takes a place, the ends due being those of ended.              *)
TakesPlace(a, ended) ==
  \/ /\ Wanted(a)
     /\ fetching' = [fetching EXCEPT ![a] = @ + 1]
     /\ ending' = ended
  \/ /\ ~Wanted(a)
     /\ fetching' = fetching
     /\ ending' = [ended EXCEPT ![a] = @ + 1]

-----------------------------------------------------------------------------
(* What is left of a queue of distinct listings without its head.           *)
LEMMA TailOfQueue ==
  ASSUME NEW q \in Seq(Listing), q # <<>>
  PROVE  /\ Head(q) \in Listing
         /\ Head(q) = q[1]
         /\ Tail(q) \in Seq(Listing)
         /\ Len(q) \in Nat \ {0}
         /\ Len(Tail(q)) = Len(q) - 1
         /\ \A i \in 1..Len(Tail(q)) : Tail(q)[i] = q[i + 1]
  OBVIOUS

(* An accepted listing takes a free place at once, or waits at the end of   *)
(* the queue while none is free.                                            *)
LEMMA EnqueueCases ==
  ASSUME QueueInv, NEW a \in Listing, EnqueuePreviewCapture(a)
  PROVE  \/ /\ queue = <<>> /\ queue' = <<>>
            /\ running < Concurrency /\ running' = running + 1
            /\ TakesPlace(a, ending)
         \/ /\ running = Concurrency
            /\ queue' = Append(queue, a)
            /\ UNCHANGED <<running, captures>>
<1> USE QueueAssumption DEF QueueInv, TypeOK, NoIdlePlace
<1>1. CASE running < Concurrency
  <2>1. queue = <<>>
    BY <1>1
  <2>2. Append(queue, a) = <<a>> /\ Head(<<a>>) = a /\ Tail(<<a>>) = <<>> /\ <<a>> # <<>>
    BY <2>1
  <2>3. Begin(<<a>>, running, ending)
    BY <1>1, <2>2 DEF EnqueuePreviewCapture, Drain
  <2> QED
    BY <1>1, <2>1, <2>2, <2>3 DEF Begin, TakesPlace
<1>2. CASE ~(running < Concurrency)
  <2>1. running = Concurrency
    BY <1>2
  <2> QED
    BY <1>2, <2>1 DEF EnqueuePreviewCapture, Drain, captures
<1> QED
  BY <1>1, <1>2

(* A place given back goes to the head of the queue, or stays free.         *)
LEMMA FinallyCases ==
  ASSUME QueueInv, NEW a \in Listing, Finally(a)
  PROVE  \/ /\ queue = <<>> /\ queue' = <<>>
            /\ running' = running - 1
            /\ fetching' = fetching
            /\ ending' = [ending EXCEPT ![a] = @ - 1]
         \/ /\ queue # <<>> /\ queue' = Tail(queue)
            /\ running = Concurrency /\ running' = Concurrency
            /\ Head(queue) # a
            /\ TakesPlace(Head(queue), [ending EXCEPT ![a] = @ - 1])
<1> USE QueueAssumption DEF QueueInv, TypeOK, NoIdlePlace
<1>1. CASE queue = <<>>
  BY <1>1 DEF Finally, Drain
<1>2. CASE queue # <<>>
  <2>1. running = Concurrency /\ running - 1 < Concurrency
    BY <1>2
  <2>2. Begin(queue, running - 1, [ending EXCEPT ![a] = @ - 1])
    BY <1>2, <2>1 DEF Finally, Drain
  <2>3. Head(queue) # a
    <3>1. Queued(Head(queue)) /\ Head(queue) \in Listing
      BY <1>2, TailOfQueue DEF Queued
    <3>2. ending[a] > 0
      BY DEF Finally
    <3> QED
      BY <3>1, <3>2 DEF CapturedOnce
  <2> QED
    BY <1>2, <2>1, <2>2, <2>3 DEF Begin, TakesPlace
<1> QED
  BY <1>1, <1>2

-----------------------------------------------------------------------------
(* A place that was free: one listing more is captured.                     *)
LEMMA EnqueueStep ==
  ASSUME QueueInv, NEW a \in Listing, EnqueuePreviewCapture(a)
  PROVE  QueueInv'
<1> USE QueueAssumption DEF QueueInv
<1>1. /\ a \notin pending /\ pending' = pending \cup {a}
      /\ Len(queue) < MaxQueued
      /\ UNCHANGED <<picture, waiting>>
  BY DEF EnqueuePreviewCapture
<1>2. ~Queued(a) /\ fetching[a] = 0 /\ ending[a] = 0
  BY <1>1 DEF CapturedOnce, TypeOK
<1>3. CASE /\ queue = <<>> /\ queue' = <<>>
           /\ running < Concurrency /\ running' = running + 1
           /\ TakesPlace(a, ending)
  <2>1. TypeOK'
    <3>1. fetching' \in [Listing -> Nat] /\ ending' \in [Listing -> Nat]
      BY <1>3 DEF TypeOK, TakesPlace
    <3>2. running' \in 0..Concurrency
      BY <1>3 DEF TypeOK
    <3>3. queue' \in Seq(Listing) /\ Len(queue') <= MaxQueued /\ pending' \subseteq Listing
      BY <1>1, <1>3 DEF TypeOK
    <3> QED
      BY <1>1, <3>1, <3>2, <3>3 DEF TypeOK
  <2>2. /\ fetching'[a] + ending'[a] = 1
        /\ \A b \in Listing \ {a} : fetching'[b] = fetching[b] /\ ending'[b] = ending[b]
    BY <1>2, <1>3 DEF TypeOK, TakesPlace
  <2>3. CapturedOnce'
    BY <1>1, <1>3, <2>1, <2>2 DEF CapturedOnce, Queued, TypeOK
  <2>4. CountIsExact'
    <3>1. Captured' = Captured \cup {a} /\ a \notin Captured
      BY <1>2, <2>2 DEF Captured, TypeOK
    <3> QED
      BY <1>3, <3>1, FS_AddElement DEF CountIsExact, TypeOK
  <2>5. FetchStillWanted'
    BY <1>1, <1>2, <1>3 DEF FetchStillWanted, TakesPlace, Wanted, TypeOK
  <2> QED
    BY <1>3, <2>1, <2>3, <2>4, <2>5 DEF NoIdlePlace
<1>4. CASE /\ running = Concurrency
           /\ queue' = Append(queue, a)
           /\ UNCHANGED <<running, captures>>
  <2>1. /\ Len(queue') = Len(queue) + 1
        /\ queue'[Len(queue) + 1] = a
        /\ \A i \in 1..Len(queue) : queue'[i] = queue[i]
    BY <1>4 DEF TypeOK
  <2>2. TypeOK'
    <3>1. queue' \in Seq(Listing) /\ Len(queue') <= MaxQueued
      BY <1>1, <1>4, <2>1 DEF TypeOK
    <3> QED
      BY <1>1, <1>4, <3>1 DEF TypeOK, captures
  <2>3. CapturedOnce'
    <3>1. Len(queue) \in Nat /\ \A i \in 1..Len(queue) : queue[i] # a
      BY <1>2 DEF Queued, TypeOK
    <3>2. ASSUME NEW i \in 1..Len(queue'), NEW j \in 1..Len(queue'), queue'[i] = queue'[j]
          PROVE  i = j
      <4>1. CASE i = Len(queue) + 1 \/ j = Len(queue) + 1
        BY <2>1, <3>1, <3>2, <4>1
      <4>2. CASE i # Len(queue) + 1 /\ j # Len(queue) + 1
        <5>1. i \in 1..Len(queue) /\ j \in 1..Len(queue)
          BY <2>1, <3>1, <4>2
        <5> QED
          BY <2>1, <3>2, <5>1 DEF CapturedOnce
      <4> QED
        BY <4>1, <4>2
    <3>3. ASSUME NEW b \in Listing, Queued(b)' PROVE b = a \/ Queued(b)
      <4>1. PICK i \in 1..Len(queue') : queue'[i] = b
        BY <3>3 DEF Queued
      <4>2. CASE i = Len(queue) + 1
        BY <2>1, <4>1, <4>2
      <4>3. CASE i # Len(queue) + 1
        <5>1. i \in 1..Len(queue)
          BY <2>1, <3>1, <4>3
        <5> QED
          BY <2>1, <4>1, <5>1 DEF Queued
      <4> QED
        BY <4>2, <4>3
    <3>4. ASSUME NEW b \in Listing
          PROVE  /\ fetching'[b] + ending'[b] <= 1
                 /\ Queued(b)' => fetching'[b] + ending'[b] = 0
                 /\ (Queued(b)' \/ fetching'[b] + ending'[b] > 0) => b \in pending'
      BY <1>1, <1>2, <1>4, <3>3 DEF CapturedOnce, captures
    <3> QED
      BY <3>2, <3>4 DEF CapturedOnce
  <2>4. CountIsExact' /\ NoIdlePlace' /\ FetchStillWanted'
    BY <1>1, <1>4 DEF CountIsExact, Captured, NoIdlePlace, FetchStillWanted, Wanted, captures
  <2> QED
    BY <2>2, <2>3, <2>4
<1> QED
  BY <1>3, <1>4, EnqueueCases

(* A capture whose work is over keeps its place until its finally.          *)
LEMMA EndStep ==
  ASSUME QueueInv, NEW a \in Listing, NEW ok \in BOOLEAN, EndCapture(a, ok)
  PROVE  QueueInv'
<1> USE QueueAssumption DEF QueueInv
<1>1. /\ fetching[a] = 1 /\ ending[a] = 0
      /\ fetching'[a] = 0 /\ ending'[a] = 1
      /\ \A b \in Listing \ {a} : fetching'[b] = fetching[b] /\ ending'[b] = ending[b]
      /\ UNCHANGED <<queue, pending, running, waiting>>
  BY DEF EndCapture, CapturedOnce, TypeOK
<1>2. TypeOK'
  BY DEF EndCapture, TypeOK, Picture
<1>3. CapturedOnce'
  <2>1. \A b \in Listing : fetching'[b] + ending'[b] = fetching[b] + ending[b]
    BY <1>1
  <2>2. \A b \in Listing : Queued(b)' <=> Queued(b)
    BY <1>1 DEF Queued
  <2>3. \A i, j \in 1..Len(queue') : queue'[i] = queue'[j] => i = j
    BY <1>1 DEF CapturedOnce
  <2> QED
    BY <1>1, <2>1, <2>2, <2>3 DEF CapturedOnce
<1>4. CountIsExact'
  <2>1. \A b \in Listing : fetching'[b] + ending'[b] > 0 <=> fetching[b] + ending[b] > 0
    BY <1>1
  <2>2. Captured' = Captured
    BY <2>1 DEF Captured
  <2> QED
    BY <1>1, <2>2 DEF CountIsExact
<1>5. NoIdlePlace'
  BY <1>1 DEF NoIdlePlace
<1>6. FetchStillWanted'
  <2> SUFFICES ASSUME NEW b \in Listing, fetching'[b] > 0 PROVE Wanted(b)'
    BY DEF FetchStillWanted
  <2>1. b # a /\ fetching[b] > 0
    BY <1>1 DEF TypeOK
  <2>2. picture'[b] = picture[b]
    BY <2>1 DEF EndCapture, TypeOK
  <2> QED
    BY <2>1, <2>2 DEF FetchStillWanted, Wanted
<1> QED
  BY <1>2, <1>3, <1>4, <1>5, <1>6

(* A place is given back.                                                   *)
LEMMA FinallyStep ==
  ASSUME QueueInv, NEW a \in Listing, Finally(a)
  PROVE  QueueInv'
<1> USE QueueAssumption DEF QueueInv
<1>1. /\ ending[a] = 1 /\ fetching[a] = 0
      /\ pending' = pending \ {a}
      /\ picture' = picture
      /\ waiting' \in BOOLEAN
      /\ ~Queued(a)
  BY DEF Finally, CapturedOnce, TypeOK
<1>2. a \in Captured
  BY <1>1 DEF Captured
<1>3. CASE /\ queue = <<>> /\ queue' = <<>>
           /\ running' = running - 1
           /\ fetching' = fetching
           /\ ending' = [ending EXCEPT ![a] = @ - 1]
  <2>1. /\ ending'[a] = 0
        /\ \A b \in Listing \ {a} : ending'[b] = ending[b]
    BY <1>1, <1>3 DEF TypeOK
  <2>2. CountIsExact'
    <3>1. Captured' = Captured \ {a}
      BY <1>1, <1>3, <2>1 DEF Captured, TypeOK
    <3> QED
      BY <1>2, <1>3, <3>1, FS_RemoveElement DEF CountIsExact
  <2>3. running' \in Nat
    BY <2>2, FS_CardinalityType DEF CountIsExact
  <2>4. TypeOK'
    BY <1>1, <1>3, <2>3 DEF TypeOK
  <2>5. CapturedOnce'
    BY <1>1, <1>3, <2>1 DEF CapturedOnce, Queued, TypeOK
  <2>6. NoIdlePlace' /\ FetchStillWanted'
    BY <1>1, <1>3 DEF NoIdlePlace, FetchStillWanted, Wanted
  <2> QED
    BY <2>2, <2>4, <2>5, <2>6
<1>4. CASE /\ queue # <<>> /\ queue' = Tail(queue)
           /\ running = Concurrency /\ running' = Concurrency
           /\ Head(queue) # a
           /\ TakesPlace(Head(queue), [ending EXCEPT ![a] = @ - 1])
  <2> DEFINE h == Head(queue)
  <2>1. h \in Listing /\ h # a /\ Queued(h) /\ h = queue[1]
    BY <1>4, TailOfQueue DEF TypeOK, Queued
  <2>2. fetching[h] = 0 /\ ending[h] = 0 /\ h \in pending
    BY <2>1 DEF CapturedOnce, TypeOK
  <2>3. /\ queue' \in Seq(Listing)
        /\ Len(queue') = Len(queue) - 1
        /\ \A i \in 1..Len(queue') : queue'[i] = queue[i + 1]
    BY <1>4, TailOfQueue DEF TypeOK
  <2>4. /\ fetching'[h] + ending'[h] = 1
        /\ fetching'[a] = 0 /\ ending'[a] = 0
        /\ \A b \in Listing \ {a, h} : fetching'[b] = fetching[b] /\ ending'[b] = ending[b]
    BY <1>1, <1>4, <2>1, <2>2 DEF TypeOK, TakesPlace
  <2>5. TypeOK'
    <3>1. queue' \in Seq(Listing) /\ Len(queue') <= MaxQueued
      BY <2>3 DEF TypeOK
    <3>2. fetching' \in [Listing -> Nat] /\ ending' \in [Listing -> Nat]
      <4> DEFINE ended == [ending EXCEPT ![a] = @ - 1]
      <4>1. ended \in [Listing -> Nat]
        BY <1>1 DEF TypeOK
      <4>2. /\ [fetching EXCEPT ![h] = @ + 1] \in [Listing -> Nat]
            /\ [ended EXCEPT ![h] = @ + 1] \in [Listing -> Nat]
        <5>1. h \in Listing /\ fetching \in [Listing -> Nat]
          BY <2>1 DEF TypeOK
        <5> HIDE DEF ended, h
        <5>2. [fetching EXCEPT ![h] = @ + 1] \in [Listing -> Nat]
          BY <5>1
        <5>3. [ended EXCEPT ![h] = @ + 1] \in [Listing -> Nat]
          BY <4>1, <5>1
        <5> QED
          BY <5>2, <5>3
      <4>3. TakesPlace(h, ended)
        BY <1>4
      <4> HIDE DEF ended, h
      <4> QED
        BY <4>1, <4>2, <4>3 DEF TypeOK, TakesPlace
    <3>3. pending' \subseteq Listing /\ picture' \in [Listing -> Picture]
      BY <1>1 DEF TypeOK
    <3>4. running' \in 0..Concurrency
      BY <1>4
    <3> QED
      BY <1>1, <3>1, <3>2, <3>3, <3>4 DEF TypeOK
  <2>6. CapturedOnce'
    <3>0. \A i \in 1..Len(queue') : i + 1 \in 1..Len(queue) /\ i + 1 # 1
      BY <2>3 DEF TypeOK
    <3>1. ASSUME NEW i \in 1..Len(queue'), NEW j \in 1..Len(queue'), queue'[i] = queue'[j]
          PROVE  i = j
      <4>1. i + 1 = j + 1
        BY <2>3, <3>0, <3>1 DEF CapturedOnce
      <4> QED
        BY <4>1
    <3>2. ASSUME NEW i \in 1..Len(queue') PROVE queue'[i] # h /\ Queued(queue'[i])
      <4>1. i + 1 \in 1..Len(queue) /\ i + 1 # 1 /\ 1 \in 1..Len(queue)
        BY <3>0, <2>3, TailOfQueue, <1>4 DEF TypeOK
      <4>2. queue[i + 1] # queue[1]
        BY <4>1 DEF CapturedOnce
      <4> QED
        BY <2>1, <2>3, <4>1, <4>2 DEF Queued
    <3>3. ASSUME NEW b \in Listing
          PROVE  /\ fetching'[b] + ending'[b] <= 1
                 /\ Queued(b)' => fetching'[b] + ending'[b] = 0
                 /\ (Queued(b)' \/ fetching'[b] + ending'[b] > 0) => b \in pending'
      <4>1. Queued(b)' => Queued(b) /\ b # h /\ b # a
        BY <1>1, <3>2 DEF Queued
      <4>2. CASE b = h
        BY <1>1, <2>1, <2>2, <2>4, <4>1, <4>2
      <4>3. CASE b = a
        BY <2>4, <4>1, <4>3
      <4>4. CASE b # h /\ b # a
        <5>1. fetching'[b] = fetching[b] /\ ending'[b] = ending[b] /\ (b \in pending' <=> b \in pending)
          BY <1>1, <2>4, <4>4
        <5> QED
          BY <4>1, <5>1 DEF CapturedOnce
      <4> QED
        BY <4>2, <4>3, <4>4
    <3> QED
      BY <3>1, <3>3 DEF CapturedOnce
  <2>7. CountIsExact'
    <3>1. Captured' = (Captured \ {a}) \cup {h} /\ h \notin Captured \ {a}
      BY <1>1, <2>1, <2>2, <2>4 DEF Captured, TypeOK
    <3>2. IsFiniteSet(Captured \ {a}) /\ Cardinality(Captured \ {a}) = running - 1
      BY <1>2, FS_RemoveElement DEF CountIsExact
    <3>3. IsFiniteSet(Captured') /\ Cardinality(Captured') = running - 1 + 1
      BY <3>1, <3>2, FS_AddElement
    <3> QED
      BY <1>4, <3>3 DEF CountIsExact, TypeOK
  <2>8. NoIdlePlace'
    BY <1>4 DEF NoIdlePlace
  <2>9. FetchStillWanted'
    <3> SUFFICES ASSUME NEW b \in Listing, fetching'[b] > 0 PROVE Wanted(b)
      BY <1>1 DEF FetchStillWanted, Wanted
    <3>1. CASE b = h
      BY <1>4, <2>2, <3>1 DEF TakesPlace
    <3>2. CASE b # h
      BY <1>1, <2>4, <3>2 DEF FetchStillWanted, TypeOK
    <3> QED
      BY <3>1, <3>2
  <2> QED
    BY <2>5, <2>6, <2>7, <2>8, <2>9
<1> QED
  BY <1>3, <1>4, FinallyCases

(* Waiting, deletes, days and restarts leave queue and captures alone or    *)
(* empty them; none makes a picture on the network unwanted.                *)
LEMMA OtherStep ==
  ASSUME QueueInv,
         \/ \E a \in Listing : DeleteListing(a) \/ DayPasses(a)
         \/ WhenPreviewCapturesIdle \/ Restart \/ UNCHANGED vars
  PROVE  QueueInv'
<1> USE QueueAssumption DEF QueueInv
<1>1. ASSUME NEW a \in Listing, DeleteListing(a) \/ DayPasses(a) PROVE QueueInv'
  <2>1. UNCHANGED <<queue, pending, running, captures, waiting>>
    BY <1>1 DEF DeleteListing, DayPasses
  <2>2. TypeOK'
    BY <1>1, <2>1 DEF TypeOK, DeleteListing, DayPasses, Picture, captures
  <2>3. CapturedOnce' /\ CountIsExact' /\ NoIdlePlace'
    BY <2>1 DEF CapturedOnce, CountIsExact, Captured, NoIdlePlace, Queued, captures
  <2>4. FetchStillWanted'
    BY <1>1, <2>1 DEF FetchStillWanted, Wanted, DeleteListing, DayPasses, captures, TypeOK
  <2> QED
    BY <2>2, <2>3, <2>4
<1>2. CASE WhenPreviewCapturesIdle \/ UNCHANGED vars
  <2>1. UNCHANGED <<queue, pending, running, captures, picture>> /\ waiting' \in BOOLEAN
    BY <1>2 DEF WhenPreviewCapturesIdle, vars, TypeOK
  <2> QED
    BY <2>1 DEF TypeOK, CapturedOnce, CountIsExact, Captured, NoIdlePlace, Queued,
                FetchStillWanted, Wanted, captures
<1>3. CASE Restart
  <2>1. Captured' = {}
    BY <1>3 DEF Restart, Captured
  <2>2. CountIsExact'
    BY <1>3, <2>1, FS_EmptySet DEF Restart, CountIsExact
  <2>3. TypeOK'
    <3>1. queue' \in Seq(Listing) /\ Len(queue') <= MaxQueued
      BY <1>3 DEF Restart
    <3>2. /\ pending' \subseteq Listing /\ running' \in 0..Concurrency
          /\ fetching' \in [Listing -> Nat] /\ ending' \in [Listing -> Nat]
          /\ picture' \in [Listing -> Picture]
      BY <1>3 DEF Restart, TypeOK
    <3>3. waiting' \in BOOLEAN
      BY <1>3 DEF Restart
    <3> QED
      BY <3>1, <3>2, <3>3 DEF TypeOK
  <2>4. CapturedOnce' /\ NoIdlePlace' /\ FetchStillWanted'
    BY <1>3 DEF Restart, CapturedOnce, NoIdlePlace, Queued, FetchStillWanted
  <2> QED
    BY <2>2, <2>3, <2>4
<1> QED
  BY <1>1, <1>2, <1>3

-----------------------------------------------------------------------------
(* The conjunction is inductive.                                            *)
LEMMA QueueInvariant == Spec => []QueueInv
<1>1. Init => QueueInv
  <2> SUFFICES ASSUME Init PROVE QueueInv
    OBVIOUS
  <2>1. Captured = {}
    BY DEF Init, Captured
  <2>2. CountIsExact
    BY <2>1, FS_EmptySet DEF Init, CountIsExact
  <2>3. TypeOK
    <3>1. queue \in Seq(Listing) /\ Len(queue) <= MaxQueued
      BY QueueAssumption DEF Init
    <3>2. /\ pending \subseteq Listing /\ running \in 0..Concurrency
          /\ fetching \in [Listing -> Nat] /\ ending \in [Listing -> Nat]
          /\ picture \in [Listing -> Picture]
      BY QueueAssumption DEF Init, Picture
    <3>3. waiting \in BOOLEAN
      BY DEF Init
    <3> QED
      BY <3>1, <3>2, <3>3 DEF TypeOK
  <2>4. CapturedOnce /\ NoIdlePlace /\ FetchStillWanted
    BY DEF Init, CapturedOnce, NoIdlePlace, Queued, FetchStillWanted
  <2> QED
    BY <2>2, <2>3, <2>4 DEF QueueInv
<1>2. QueueInv /\ [Next]_vars => QueueInv'
  BY EnqueueStep, EndStep, FinallyStep, OtherStep DEF Next, Step
<1> QED
  BY <1>1, <1>2, PTL DEF Spec

(* The queue never outgrows its limit, and the counter stays between zero   *)
(* and the number of places.                                                *)
THEOREM TypeCorrect == Spec => []TypeOK
<1>1. QueueInv => TypeOK
  BY DEF QueueInv
<1> QED
  BY <1>1, QueueInvariant, PTL

(* No picture is fetched twice at the same time, however often a listing is *)
(* asked for while it waits or runs.                                        *)
THEOREM CapturesOnce == Spec => []CapturedOnce
<1>1. QueueInv => CapturedOnce
  BY DEF QueueInv
<1> QED
  BY <1>1, QueueInvariant, PTL

(* A picture on the network was neither kept nor marked failed since its    *)
(* capture decided to fetch it.                                             *)
THEOREM FetchesOnlyWanted == Spec => []FetchStillWanted
<1>1. QueueInv => FetchStillWanted
  BY DEF QueueInv
<1> QED
  BY <1>1, QueueInvariant, PTL

(* Nobody waits for a queue that is idle already: the wake-up cannot be     *)
(* lost between the last capture and the one who asked.                     *)
LEMMA WakesWaiters == Spec => []NobodyWaitsForNothing
<1>1. Init => NobodyWaitsForNothing
  BY DEF Init, NobodyWaitsForNothing
<1>2. QueueInv /\ NobodyWaitsForNothing /\ [Next]_vars => NobodyWaitsForNothing'
  <2> SUFFICES ASSUME QueueInv, NobodyWaitsForNothing, [Next]_vars
               PROVE  NobodyWaitsForNothing'
    OBVIOUS
  <2> USE DEF NobodyWaitsForNothing
  <2>1. ASSUME NEW a \in Listing, EnqueuePreviewCapture(a) PROVE NobodyWaitsForNothing'
    <3>1. CASE running' = running + 1
      BY <3>1 DEF QueueInv, TypeOK
    <3>2. CASE queue' = Append(queue, a)
      BY <3>2 DEF QueueInv, TypeOK
    <3> QED
      BY <2>1, <3>1, <3>2, EnqueueCases
  <2>2. ASSUME NEW a \in Listing, NEW ok \in BOOLEAN, EndCapture(a, ok)
        PROVE  NobodyWaitsForNothing'
    BY <2>2 DEF EndCapture
  <2>3. ASSUME NEW a \in Listing, Finally(a) PROVE NobodyWaitsForNothing'
    BY <2>3 DEF Finally
  <2>4. ASSUME NEW a \in Listing, DeleteListing(a) \/ DayPasses(a)
        PROVE  NobodyWaitsForNothing'
    BY <2>4 DEF DeleteListing, DayPasses
  <2>5. CASE WhenPreviewCapturesIdle \/ Restart \/ UNCHANGED vars
    BY <2>5 DEF WhenPreviewCapturesIdle, Restart, vars
  <2> QED
    BY <2>1, <2>2, <2>3, <2>4, <2>5 DEF Next, Step
<1> QED
  BY <1>1, <1>2, QueueInvariant, PTL DEF Spec

(* The counter is the number of listings being captured, a listing only     *)
(* waits while every place is taken, and nobody waits for an idle queue.    *)
THEOREM QueueStaysSound == Spec => []QueueIsSound
<1>1. QueueInv /\ NobodyWaitsForNothing => QueueIsSound
  BY DEF QueueInv, QueueIsSound
<1> QED
  BY <1>1, QueueInvariant, WakesWaiters, PTL
=============================================================================
