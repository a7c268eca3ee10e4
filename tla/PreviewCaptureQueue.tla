------------------------ MODULE PreviewCaptureQueue ------------------------
(***************************************************************************)
(* The queue that keeps the first picture of every listing: filled by the  *)
(* job run and by every view of a listing without a kept picture, drained  *)
(* by at most Concurrency captures.  Whether a picture is still wanted is  *)
(* decided when its turn comes; the download takes its time, and the       *)
(* `finally` that gives the place back runs after the capture has written. *)
(***************************************************************************)
EXTENDS Integers, Sequences, FiniteSets

CONSTANTS
  Listing,
  Concurrency,  \* CONCURRENCY
  MaxQueued     \* MAX_QUEUED

ASSUME QueueAssumption ==
  /\ Concurrency \in Nat \ {0}
  /\ MaxQueued \in Nat \ {0}

VARIABLES
  queue,        \* the waiting captures
  pending,      \* the ids queued or running
  running,      \* how many captures the counter says are running
  fetching,     \* captures of a listing that are on the network
  ending,       \* captures of a listing whose finally is due
  picture,      \* listing_media of the listing
  waiting       \* somebody awaits whenPreviewCapturesIdle

captures == <<fetching, ending>>
vars == <<queue, pending, running, captures, picture, waiting>>

(* "failed" within the last day, "stale" before; "gone" with its listing.   *)
Picture == {"none", "kept", "failed", "stale", "gone"}
Wanted(a) == picture[a] \notin {"kept", "failed"}

TypeOK ==
  /\ queue \in Seq(Listing)
  /\ Len(queue) <= MaxQueued
  /\ pending \subseteq Listing
  /\ running \in 0..Concurrency
  /\ fetching \in [Listing -> Nat]
  /\ ending \in [Listing -> Nat]
  /\ picture \in [Listing -> Picture]
  /\ waiting \in BOOLEAN

Init ==
  /\ queue = <<>>
  /\ pending = {}
  /\ running = 0
  /\ fetching = [a \in Listing |-> 0]
  /\ ending = [a \in Listing |-> 0]
  /\ picture = [a \in Listing |-> "none"]
  /\ waiting = FALSE

-----------------------------------------------------------------------------
(* A bug: only what downloads takes a place.                                *)
BeginUncounted(q, n, ended) ==
  LET a == Head(q)
  IN  /\ queue' = Tail(q)
      /\ running' = IF Wanted(a) THEN n + 1 ELSE n
      /\ fetching' = IF Wanted(a) THEN [fetching EXCEPT ![a] = @ + 1] ELSE fetching
      /\ ending' = IF Wanted(a) THEN ended ELSE [ended EXCEPT ![a] = @ + 1]

(* A bug: pop for shift.                                                    *)
BeginLast(q, n, ended) ==
  LET a == q[Len(q)]
  IN  /\ queue' = SubSeq(q, 1, Len(q) - 1)
      /\ running' = n + 1
      /\ fetching' = IF Wanted(a) THEN [fetching EXCEPT ![a] = @ + 1] ELSE fetching
      /\ ending' = IF Wanted(a) THEN ended ELSE [ended EXCEPT ![a] = @ + 1]

(* The head of the queue gets a place: capture runs up to its first await,  *)
(* which an unwanted picture never reaches.                                 *)
Begin(q, n, ended) ==
  LET a == Head(q)
  IN  /\ queue' = Tail(q)
      /\ running' = n + 1
      /\ fetching' = IF Wanted(a) THEN [fetching EXCEPT ![a] = @ + 1] ELSE fetching
      /\ ending' = IF Wanted(a) THEN ended ELSE [ended EXCEPT ![a] = @ + 1]

(* drain, for a queue and a counter as its callers leave them.  Each gives  *)
(* at most one capture a place: the queue is empty or all places are taken. *)
Drain(q, n, ended) ==
  IF n < Concurrency /\ q # <<>>
  THEN Begin(q, n, ended)
  ELSE queue' = q /\ running' = n /\ ending' = ended /\ UNCHANGED fetching

(* A bug: only what is queued counts as pending.                            *)
EnqueueUnlessQueued(a) ==
  /\ \A i \in 1..Len(queue) : queue[i] # a
  /\ Len(queue) < MaxQueued
  /\ pending' = pending \cup {a}
  /\ Drain(Append(queue, a), running, ending)
  /\ UNCHANGED <<picture, waiting>>

(* enqueuePreviewCapture of a usable url; a picture that is pending, or     *)
(* finds the queue full, is left for the next view.  A job run asks for a   *)
(* listing it just saved, the image route for one without a kept picture.   *)
EnqueuePreviewCapture(a) ==
  /\ picture[a] # "gone"
  /\ a \notin pending
  /\ Len(queue) < MaxQueued
  /\ pending' = pending \cup {a}
  /\ Drain(Append(queue, a), running, ending)
  /\ UNCHANGED <<picture, waiting>>

(* The download and the compression end: storeListingPreview, or            *)
(* markListingPreviewFailed, which leaves kept bytes alone.  Both refuse    *)
(* the id of a listing that is gone.                                        *)
EndCapture(a, ok) ==
  /\ fetching[a] > 0
  /\ fetching' = [fetching EXCEPT ![a] = @ - 1]
  /\ ending' = [ending EXCEPT ![a] = @ + 1]
  /\ picture' = IF picture[a] = "gone" \/ (~ok /\ picture[a] = "kept") THEN picture
                ELSE [picture EXCEPT ![a] = IF ok THEN "kept" ELSE "failed"]
  /\ UNCHANGED <<queue, pending, running, waiting>>

(* A bug: whether the queue ran dry is asked before the place is given back. *)
FinallyTellsFirst(a) ==
  /\ ending[a] > 0
  /\ pending' = pending \ {a}
  /\ Drain(queue, running - 1, [ending EXCEPT ![a] = @ - 1])
  /\ waiting' = (waiting /\ (running > 0 \/ queue # <<>>))
  /\ UNCHANGED picture

(* The finally of drain.                                                    *)
Finally(a) ==
  /\ ending[a] > 0
  /\ pending' = pending \ {a}
  /\ Drain(queue, running - 1, [ending EXCEPT ![a] = @ - 1])
  /\ waiting' = (waiting /\ (running' > 0 \/ queue' # <<>>))
  /\ UNCHANGED picture

(* whenPreviewCapturesIdle.                                                 *)
WhenPreviewCapturesIdle ==
  /\ ~waiting
  /\ running > 0 \/ queue # <<>>
  /\ waiting' = TRUE
  /\ UNCHANGED <<queue, pending, running, captures, picture>>

-----------------------------------------------------------------------------
(* The listing is deleted; PREVIEW_RETRY_AFTER_MS went by; a restart.       *)
DeleteListing(a) ==
  /\ picture[a] # "gone"
  /\ picture' = [picture EXCEPT ![a] = "gone"]
  /\ UNCHANGED <<queue, pending, running, captures, waiting>>

DayPasses(a) ==
  /\ picture[a] = "failed"
  /\ picture' = [picture EXCEPT ![a] = "stale"]
  /\ UNCHANGED <<queue, pending, running, captures, waiting>>

Restart ==
  /\ queue' = <<>>
  /\ pending' = {}
  /\ running' = 0
  /\ fetching' = [a \in Listing |-> 0]
  /\ ending' = [a \in Listing |-> 0]
  /\ waiting' = FALSE
  /\ UNCHANGED picture

-----------------------------------------------------------------------------
Step(a) ==
  \/ EnqueuePreviewCapture(a)
  \/ \E ok \in BOOLEAN : EndCapture(a, ok)
  \/ Finally(a)
  \/ DeleteListing(a)
  \/ DayPasses(a)

Next == (\E a \in Listing : Step(a)) \/ WhenPreviewCapturesIdle \/ Restart

Spec == Init /\ [][Next]_vars

(* A download is aborted after ten seconds, and the microtask of a promise  *)
(* that settled runs.                                                       *)
FairSpec ==
  /\ Spec
  /\ \A a \in Listing : /\ WF_vars(\E ok \in BOOLEAN : EndCapture(a, ok))
                        /\ WF_vars(Finally(a))

-----------------------------------------------------------------------------
(***************************************************************************)
(* Properties                                                              *)
(***************************************************************************)

Queued(a) == \E i \in 1..Len(queue) : queue[i] = a

(* "One picture is never fetched twice at the same time": a listing waits   *)
(* at most once, and not while it is captured; and the set that says so     *)
(* forgets nothing that waits or runs.                                      *)
CapturedOnce ==
  /\ \A i, j \in 1..Len(queue) : queue[i] = queue[j] => i = j
  /\ \A a \in Listing :
       /\ fetching[a] + ending[a] <= 1
       /\ Queued(a) => fetching[a] + ending[a] = 0
       /\ (Queued(a) \/ fetching[a] + ending[a] > 0) => a \in pending

(* The counter is the number of listings being captured, so no more than    *)
(* Concurrency downloads ever run, and none of the places is lost.          *)
Captured == {a \in Listing : fetching[a] + ending[a] > 0}
CountIsExact == IsFiniteSet(Captured) /\ running = Cardinality(Captured)

(* No place stays free while a listing waits for one.                       *)
NoIdlePlace == queue # <<>> => running = Concurrency

(* What is on the network is still wanted: no second download of a picture  *)
(* that was kept, or failed within the day, since the capture decided.      *)
FetchStillWanted == \A a \in Listing : fetching[a] > 0 => Wanted(a)

(* Whoever waits for the queue to run dry waits for something.              *)
NobodyWaitsForNothing == waiting => running > 0 \/ queue # <<>>

(* No place is lost, none stays free while a listing waits for it, and no   *)
(* waiter is forgotten, however captures end and whoever asks meanwhile.    *)
QueueIsSound == CountIsExact /\ NoIdlePlace /\ NobodyWaitsForNothing

(* Every listing that got into the queue gets out: it is taken in its turn, *)
(* whoever asks after it, however captures end and whatever is deleted.     *)
EveryCaptureEnds == \A a \in Listing : a \in pending ~> a \notin pending

(* A waiter is told in the end, unless the queue never runs dry.            *)
WaiterIsTold ==
  \/ []<><<\E a \in Listing : EnqueuePreviewCapture(a)>>_vars
  \/ waiting ~> ~waiting
=============================================================================
