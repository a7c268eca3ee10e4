------------------------- MODULE Connectivity_proofs -------------------------
(***************************************************************************)
(* Proofs about Connectivity, for any registers, buildings and listings,   *)
(* whatever the registers know and however long the list of a run is.      *)
(*                                                                         *)
(* NothingMeansNothing is not inductive: what is stamped may come from the *)
(* cache, and the cache holds failures too.  It never hands one out as an  *)
(* answer because a register whose failure is still cached stands off      *)
(* (FailuresStandOff), and Ask leaves out what stands off; an error that   *)
(* came with status 200 is cached without a stand-off, and is excused.     *)
(***************************************************************************)
EXTENDS Connectivity, TLAPS

(* A cached failure is told from a cached answer by the stand-off of its    *)
(* register.                                                                *)
FailuresStandOff ==
  \A b \in Building : cache[b] = "none" /\ Truth[b] # "empty" => Register[b] \in paused

ConnInv == TypeOK /\ FailuresStandOff /\ NothingMeansNothing

SweepType == [pc : {"idle", "next", "chosen", "asking"}, todo : Seq(Listing),
              switched : [Source -> BOOLEAN], building : Building \cup {Nobody}]

(* What a sweep must have in hand at the step it is at.                     *)
Ready(s) ==
  /\ s \in SweepType
  /\ Len(s.todo) <= Limit
  /\ s.pc \in {"chosen", "asking"} => s.todo # <<>> /\ s.building \in Building
  /\ s.pc = "asking" => Register[s.building] # Nobody

LEMMA TypeIs ==
  TypeOK <=> /\ at \in [Listing -> Building]
             /\ stamp \in [Listing -> {"never", "fresh", "stale"}]
             /\ answer \in [Listing -> Known]
             /\ enabled \in BOOLEAN
             /\ switched \in [Source -> BOOLEAN]
             /\ paused \subseteq Source
             /\ cache \in [Building -> Found \cup {"cold"}]
             /\ Ready(sweep)
             /\ excused \subseteq Listing
BY DEF TypeOK, Ready, SweepType

LEMMA TypeIsNext ==
  TypeOK' <=> /\ at' \in [Listing -> Building]
              /\ stamp' \in [Listing -> {"never", "fresh", "stale"}]
              /\ answer' \in [Listing -> Known]
              /\ enabled' \in BOOLEAN
              /\ switched' \in [Source -> BOOLEAN]
              /\ paused' \subseteq Source
              /\ cache' \in [Building -> Found \cup {"cold"}]
              /\ Ready(sweep')
              /\ excused' \subseteq Listing
BY DEF TypeOK, Ready, SweepType

(* Before a sweep, and after it.                                            *)
LEMMA IdleReady == Ready(NoSweep)
BY ConnectivityAssumption DEF Ready, SweepType, NoSweep

(* The list of a run is one of listings, and no longer than the limit.      *)
LEMMA ListOfARun ==
  ASSUME NEW todo \in Backlog
  PROVE  todo \in Seq(Listing) /\ Len(todo) <= Limit
<1>1. PICK n \in 0 .. Limit : todo \in [1 .. n -> Due]
  BY DEF Backlog, FirstOf
<1>2. todo \in [1 .. n -> Listing]
  BY <1>1 DEF Due
<1>3. n \in Nat /\ n <= Limit
  BY ConnectivityAssumption
<1>4. todo \in Seq(Listing) /\ Len(todo) = n
  BY <1>2, <1>3
<1> QED
  BY <1>3, <1>4

(* One listing less to do.                                                  *)
LEMMA GoingReady ==
  ASSUME Ready(sweep), sweep.todo # <<>>
  PROVE  Ready(Going(sweep))
<1> DEFINE t == sweep.todo
<1>1. t \in Seq(Listing) /\ t # <<>> /\ Len(t) <= Limit
  BY DEF Ready, SweepType
<1>2. Tail(t) \in Seq(Listing) /\ Len(Tail(t)) <= Limit
  <2> HIDE DEF t
  <2>1. Tail(t) \in Seq(Listing) /\ Len(Tail(t)) = Len(t) - 1 /\ Len(t) \in Nat
    BY <1>1
  <2> QED
    BY <1>1, <2>1, ConnectivityAssumption
<1>3. Going(sweep) = [pc |-> "next", todo |-> Tail(t), switched |-> sweep.switched, building |-> Nobody]
  BY DEF Going
<1> QED
  BY <1>2, <1>3 DEF Ready, SweepType

(* The listing whose turn it is, is one.                                    *)
LEMMA TurnIs ==
  ASSUME TypeOK, sweep.pc \in {"chosen", "asking"}
  PROVE  /\ sweep.todo # <<>> /\ sweep.building \in Building
         /\ Head(sweep.todo) \in Listing
<1>1. sweep.todo \in Seq(Listing) /\ sweep.todo # <<>> /\ sweep.building \in Building
  BY DEF TypeOK
<1>2. \A t \in Seq(Listing) : t # <<>> => Head(t) \in Listing
  OBVIOUS
<1> QED
  BY <1>1, <1>2

LEMMA StoreTypes ==
  ASSUME TypeOK, NEW l \in Listing, NEW b, NEW found \in Found, NEW flipped,
         Store(l, b, found, flipped)
  PROVE  /\ at' \in [Listing -> Building]
         /\ stamp' \in [Listing -> {"never", "fresh", "stale"}]
         /\ answer' \in [Listing -> Known]
         /\ excused' \subseteq Listing
BY DEF TypeOK, Store, Found, Known

LEMMA TypeInit == Init => TypeOK
BY IdleReady, TypeIs DEF Init, Known, Found

(* The list is taken, and a listing of it is chosen.                        *)
LEMMA ListTypes == ASSUME TypeOK, StartSweep \/ Choose PROVE TypeOK'
<1>1. /\ at \in [Listing -> Building] /\ Ready(sweep) /\ switched \in [Source -> BOOLEAN]
      /\ UNCHANGED <<at, stamp, answer, enabled, switched, paused, cache, excused>>
  BY TypeIs, TypeIsNext DEF StartSweep, Choose, listing, settings
<1>2. CASE StartSweep
  <2>1. PICK todo \in Backlog : sweep' = [NoSweep EXCEPT !.pc = "next", !.todo = todo, !.switched = switched]
    BY <1>2 DEF StartSweep
  <2>2. todo \in Seq(Listing) /\ Len(todo) <= Limit
    BY ListOfARun
  <2>3. sweep' = [pc |-> "next", todo |-> todo, switched |-> switched, building |-> Nobody]
    BY <2>1 DEF NoSweep
  <2>4. Ready(sweep')
    BY <1>1, <2>2, <2>3 DEF Ready, SweepType
  <2> QED
    BY <1>1, <2>4, TypeIs, TypeIsNext
<1>3. CASE Choose /\ sweep' = NoSweep
  BY <1>1, <1>3, IdleReady, TypeIs, TypeIsNext
<1>4. CASE sweep.todo # <<>> /\ sweep' = [sweep EXCEPT !.pc = "chosen", !.building = at[Head(sweep.todo)]]
  <2>1. sweep.todo \in Seq(Listing)
    BY <1>1 DEF Ready, SweepType
  <2>2. \A t \in Seq(Listing) : t # <<>> => Head(t) \in Listing
    OBVIOUS
  <2>3. at[Head(sweep.todo)] \in Building
    BY <1>1, <1>4, <2>1, <2>2
  <2>4. sweep' = [pc |-> "chosen", todo |-> sweep.todo, switched |-> sweep.switched,
                  building |-> at[Head(sweep.todo)]]
    BY <1>1, <1>4 DEF Ready, SweepType
  <2>5. Ready(sweep')
    BY <1>1, <1>4, <2>3, <2>4 DEF Ready, SweepType
  <2> QED
    BY <1>1, <2>5, TypeIs, TypeIsNext
<1> QED
  BY <1>2, <1>3, <1>4 DEF Choose

(* The three ends of a turn, and its request.                               *)
LEMMA AskTypes == ASSUME TypeOK, Ask PROVE TypeOK'
<1> DEFINE l == Head(sweep.todo)
           b == sweep.building
<1>1. /\ sweep.pc = "chosen" /\ Ready(sweep) /\ sweep.todo # <<>>
      /\ l \in Listing /\ b \in Building
      /\ UNCHANGED <<enabled, switched, paused, cache>>
  BY TurnIs, TypeIs DEF Ask, settings
<1>2. Ready(Going(sweep))
  BY <1>1, GoingReady
<1>3. \/ /\ sweep' = Going(sweep) /\ UNCHANGED <<listing, excused>>
      \/ /\ sweep' = Going(sweep)
         /\ \E found \in {"none", cache[b]} \ {"cold"}, flipped \in BOOLEAN : Store(l, b, found, flipped)
      \/ /\ sweep' = [sweep EXCEPT !.pc = "asking"] /\ Register[b] # Nobody
         /\ UNCHANGED <<listing, excused>>
  BY DEF Ask
<1> HIDE DEF l, b
<1>4. CASE sweep' = Going(sweep) /\ UNCHANGED <<listing, excused>>
  BY <1>1, <1>2, <1>4, TypeIs, TypeIsNext DEF listing
<1>5. CASE /\ sweep' = Going(sweep)
           /\ \E found \in {"none", cache[b]} \ {"cold"}, flipped \in BOOLEAN : Store(l, b, found, flipped)
  <2>1. PICK found \in Found, flipped \in BOOLEAN : Store(l, b, found, flipped)
    BY <1>1, <1>5, TypeIs, TypeIsNext DEF Known, Found
  <2>2. /\ at' \in [Listing -> Building]
        /\ stamp' \in [Listing -> {"never", "fresh", "stale"}]
        /\ answer' \in [Listing -> Known]
        /\ excused' \subseteq Listing
    BY <1>1, <2>1, StoreTypes
  <2> QED
    BY <1>1, <1>2, <1>5, <2>2, TypeIs, TypeIsNext
<1>6. CASE /\ sweep' = [sweep EXCEPT !.pc = "asking"] /\ Register[b] # Nobody
           /\ UNCHANGED <<listing, excused>>
  <2>1. sweep' = [pc |-> "asking", todo |-> sweep.todo, switched |-> sweep.switched, building |-> b]
    BY <1>1, <1>6 DEF Ready, SweepType, b
  <2>2. Ready(sweep')
    BY <1>1, <1>6, <2>1 DEF Ready, SweepType
  <2> QED
    BY <1>1, <1>6, <2>2, TypeIs, TypeIsNext DEF listing
<1> QED
  BY <1>3, <1>4, <1>5, <1>6

LEMMA SettledTypes ==
  ASSUME TypeOK, NEW found \in Found, Settled(found), paused' \subseteq Source
  PROVE  TypeOK'
<1> DEFINE l == Head(sweep.todo)
           b == sweep.building
<1>1. /\ Ready(sweep) /\ sweep.todo # <<>>
      /\ l \in Listing /\ b \in Building
      /\ Store(l, b, found, FALSE)
      /\ cache' = [cache EXCEPT ![b] = found]
      /\ sweep' = Going(sweep)
      /\ UNCHANGED <<enabled, switched>>
  BY TurnIs, TypeIs DEF Settled, settings
<1> HIDE DEF l, b
<1>2. Ready(sweep')
  BY <1>1, GoingReady
<1>3. /\ at' \in [Listing -> Building]
      /\ stamp' \in [Listing -> {"never", "fresh", "stale"}]
      /\ answer' \in [Listing -> Known]
      /\ excused' \subseteq Listing
  BY <1>1, StoreTypes
<1>4. cache' \in [Building -> Found \cup {"cold"}]
  BY <1>1, TypeIs, TypeIsNext
<1> QED
  BY <1>1, <1>2, <1>3, <1>4, TypeIs, TypeIsNext

(* The register that is asked is one.                                       *)
LEMMA AskedIsASource ==
  ASSUME TypeOK, sweep.pc = "asking"
  PROVE  Register[sweep.building] \in Source
BY ConnectivityAssumption DEF TypeOK

(* However a request is answered.                                           *)
Said == Answered \/ HalfAnswered \/ ErrorPassedOn

LEMMA SaidIs ==
  ASSUME TypeOK, Said
  PROVE  \E found \in Found :
           /\ Settled(found)
           /\ paused \subseteq paused' /\ paused' \subseteq Source
           /\ found = "none" => Truth[sweep.building] = "empty"
<1>1. paused \subseteq Source
  BY DEF TypeOK
<1>2. CASE Answered
  BY <1>1, <1>2 DEF Answered, Found, Known
<1>3. CASE HalfAnswered
  <2>1. Settled("half") /\ sweep.pc = "asking"
    BY <1>3 DEF HalfAnswered, Settled
  <2>2. paused' \in {paused, paused \cup {Register[sweep.building]}}
    BY <1>3 DEF HalfAnswered
  <2> QED
    BY <1>1, <2>1, <2>2, AskedIsASource DEF Found, Known
<1>4. CASE ErrorPassedOn
  BY <1>1, <1>4 DEF ErrorPassedOn, Found
<1> QED
  BY <1>2, <1>3, <1>4 DEF Said

LEMMA RefusedTypes == ASSUME TypeOK, Refused PROVE TypeOK'
<1> DEFINE b == sweep.building
<1>1. /\ Ready(sweep) /\ sweep.todo # <<>> /\ b \in Building /\ Register[b] \in Source
      /\ paused' = paused \cup {Register[b]}
      /\ cache' = [cache EXCEPT ![b] = "none"]
      /\ sweep' = Going(sweep)
      /\ UNCHANGED <<at, stamp, answer, enabled, switched, excused>>
  <2>1. Ready(sweep) /\ sweep.todo # <<>> /\ b \in Building /\ sweep.pc = "asking"
    BY TurnIs, TypeIs DEF Refused
  <2>2. Register[b] \in Source
    BY <2>1, ConnectivityAssumption DEF Ready
  <2> QED
    BY <2>1, <2>2 DEF Refused, listing, settings
<1> HIDE DEF b
<1>2. Ready(sweep')
  BY <1>1, GoingReady
<1>3. cache' \in [Building -> Found \cup {"cold"}] /\ paused' \subseteq Source
  BY <1>1, TypeIs, TypeIsNext DEF Known, Found
<1> QED
  BY <1>1, <1>2, <1>3, TypeIs, TypeIsNext

LEMMA TypeStep ==
  ASSUME TypeOK, [Next]_vars
  PROVE  TypeOK'
<1> USE DEF listing, settings
<1>1. CASE StartSweep \/ Choose
  BY <1>1, ListTypes
<1>2. CASE Ask
  BY <1>2, AskTypes
<1>3. CASE Said
  BY <1>3, SaidIs, SettledTypes
<1>4. CASE Refused
  BY <1>4, RefusedTypes
<1>5. ASSUME NEW s \in Source, ResumeSource(s) \/ FlipSource(s) PROVE TypeOK'
  BY <1>5, TypeIs, TypeIsNext DEF ResumeSource, FlipSource, Forget
<1>6. ASSUME NEW b \in Building, Expire(b) PROVE TypeOK'
  BY <1>6, TypeIs, TypeIsNext DEF Expire
<1>7. ASSUME NEW l \in Listing, NEW b \in Building, Place(l, b) PROVE TypeOK'
  BY <1>7, TypeIs, TypeIsNext DEF Place
<1>8. CASE FlipFeature \/ Age
  BY <1>8, TypeIs, TypeIsNext DEF FlipFeature, Age
<1>9. CASE Restart
  BY <1>9, IdleReady, TypeIs, TypeIsNext DEF Restart
<1>10. CASE UNCHANGED vars
  BY <1>10, TypeIs, TypeIsNext DEF vars
<1> QED
  BY <1>1, <1>2, <1>3, <1>4, <1>5, <1>6, <1>7, <1>8, <1>9, <1>10 DEF Next, Sweeping, Said

(* A failure is cached by the step that has its register stand off, and is  *)
(* forgotten by the step that ends the stand-off.                           *)
LEMMA StandOffStep ==
  ASSUME ConnInv, [Next]_vars
  PROVE  FailuresStandOff'
<1> USE DEF ConnInv, TypeOK, FailuresStandOff, listing, settings
<1>1. CASE StartSweep \/ Choose
  BY <1>1 DEF StartSweep, Choose
<1>2. CASE Ask
  BY <1>2 DEF Ask
<1>3. CASE Said
  BY <1>3, SaidIs DEF Settled
<1>4. CASE Refused
  BY <1>4 DEF Refused
<1>5. ASSUME NEW s \in Source, ResumeSource(s) \/ FlipSource(s) PROVE FailuresStandOff'
  BY <1>5 DEF ResumeSource, FlipSource, Forget
<1>6. ASSUME NEW b \in Building, Expire(b) PROVE FailuresStandOff'
  BY <1>6 DEF Expire
<1>7. ASSUME NEW l \in Listing, NEW b \in Building, Place(l, b) PROVE FailuresStandOff'
  BY <1>7 DEF Place
<1>8. CASE FlipFeature \/ Age \/ Restart
  BY <1>8 DEF FlipFeature, Age, Restart
<1>9. CASE UNCHANGED vars
  BY <1>9 DEF vars
<1> QED
  BY <1>1, <1>2, <1>3, <1>4, <1>5, <1>6, <1>7, <1>8, <1>9 DEF Next, Sweeping, Said

(* What Ask stores at once: nothing where no register is, nothing when a    *)
(* switch was flipped meanwhile, and what the cache has of a register that  *)
(* does not stand off.                                                      *)
LEMMA AskStep == ASSUME ConnInv, Ask PROVE NothingMeansNothing'
<1> USE DEF ConnInv, TypeOK
<1> DEFINE l == Head(sweep.todo)
           b == sweep.building
<1>1. CASE UNCHANGED <<listing, excused>>
  BY <1>1 DEF listing, NothingMeansNothing
<1>2. CASE Register[b] = Nobody /\ Store(l, b, "none", FALSE)
  BY <1>2 DEF Store, NothingMeansNothing
<1>3. CASE Store(l, b, "none", TRUE)
  BY <1>3 DEF Store, NothingMeansNothing
<1>4. CASE Register[b] \notin paused /\ Store(l, b, cache[b], FALSE)
  BY <1>4 DEF Store, NothingMeansNothing, FailuresStandOff
<1>5. \/ Register[b] = Nobody /\ Store(l, b, "none", FALSE)
      \/ UNCHANGED <<listing, excused>>
      \/ Store(l, b, "none", TRUE)
      \/ ~Skips(sweep, Register[b]) /\ Store(l, b, cache[b], FALSE)
  <2> HIDE DEF ConnInv, TypeOK
  <2> QED
    BY DEF Ask
<1>6. ASSUME ~Skips(sweep, Register[b]) PROVE Register[b] \notin paused
  BY <1>6 DEF Skips
<1> HIDE DEF l, b, ConnInv, TypeOK
<1> QED
  BY <1>1, <1>2, <1>3, <1>4, <1>5, <1>6

(* No other step stamps a listing as having nothing whose register knows    *)
(* something.                                                               *)
LEMMA AnswerStep ==
  ASSUME ConnInv, [Next]_vars
  PROVE  NothingMeansNothing'
<1> USE DEF ConnInv, TypeOK, NothingMeansNothing, listing, settings
<1>1. CASE StartSweep \/ Choose \/ Refused
  <2> HIDE DEF ConnInv, TypeOK, NothingMeansNothing
  <2>1. UNCHANGED <<listing, excused>>
    BY <1>1 DEF StartSweep, Choose, Refused
  <2> QED
    BY <2>1 DEF NothingMeansNothing, ConnInv
<1>2. CASE Ask
  BY <1>2, AskStep
<1>3. CASE Said
  BY <1>3, SaidIs DEF Settled, Store
<1>4. ASSUME NEW s \in Source, ResumeSource(s) \/ FlipSource(s) PROVE NothingMeansNothing'
  BY <1>4 DEF ResumeSource, FlipSource
<1>5. ASSUME NEW b \in Building, Expire(b) PROVE NothingMeansNothing'
  BY <1>5 DEF Expire
<1>6. ASSUME NEW l \in Listing, NEW b \in Building, Place(l, b) PROVE NothingMeansNothing'
  BY <1>6 DEF Place
<1>7. CASE FlipFeature \/ Restart
  BY <1>7 DEF FlipFeature, Restart
<1>8. CASE Age
  BY <1>8 DEF Age
<1>9. CASE UNCHANGED vars
  BY <1>9 DEF vars
<1> QED
  BY <1>1, <1>2, <1>3, <1>4, <1>5, <1>6, <1>7, <1>8, <1>9 DEF Next, Sweeping, Said

LEMMA InitHolds == Init => ConnInv
BY TypeInit DEF Init, Known, ConnInv, FailuresStandOff, NothingMeansNothing

LEMMA AlwaysConnInv == Spec => []ConnInv
<1>1. ConnInv /\ [Next]_vars => ConnInv'
  BY TypeStep, StandOffStep, AnswerStep DEF ConnInv
<1> QED
  BY InitHolds, <1>1, PTL DEF Spec

(* A run has a bounded list of listings, and a register is asked about a    *)
(* building it is the register of.                                          *)
THEOREM TypeCorrect == Spec => []TypeOK
<1>1. ConnInv => TypeOK
  BY DEF ConnInv
<1> QED
  BY <1>1, AlwaysConnInv, PTL

(* A failure, a stand-off or a switch is never stored as "there is nothing  *)
(* at this address", though the cache that answers holds failures too.      *)
THEOREM NothingIsAnAnswer == Spec => []NothingMeansNothing
<1>1. ConnInv => NothingMeansNothing
  BY DEF ConnInv
<1> QED
  BY <1>1, AlwaysConnInv, PTL
=============================================================================
