---------------------------- MODULE Connectivity ----------------------------
(***************************************************************************)
(* What internet connection a listing's address has.  One sweep at a time  *)
(* works through the listings nobody has asked about for half a year: it   *)
(* takes the settings and a bounded list, and then asks a public register  *)
(* per listing, through a cache, while the operator flips switches, the    *)
(* registers fail and stand off, and listings are placed elsewhere.        *)
(*                                                                         *)
(* A building is what the cache knows a place by; every building has one   *)
(* register or none.  What the register knows of a building does not       *)
(* change here.                                                            *)
(***************************************************************************)
EXTENDS Naturals, Sequences

CONSTANTS
  Source,         \* the registers
  Building,
  Register,       \* Building -> Source or Nobody
  Truth,          \* Building -> "full" or "empty": what its register knows
  Halved,         \* registers whose client passes half an answer on
  Glossing,       \* registers whose client takes an error that comes with
                  \* status 200 for an answer with nothing in it
  Nobody,
  Newest,         \* the listings, newest first
  Limit           \* connectivityLimitPerRun

Listing == {Newest[i] : i \in 1 .. Len(Newest)}

ASSUME ConnectivityAssumption ==
  /\ Newest \in Seq(Listing) /\ Limit \in Nat
  /\ Register \in [Building -> Source \cup {Nobody}]
  /\ Truth \in [Building -> {"full", "empty"}]
  /\ Nobody \notin Source

VARIABLES
  at,             \* the building each listing is at
  stamp,          \* connectivity_at
  answer,         \* connectivity
  enabled,        \* connectivityEnabled
  switched,       \* connectivitySources
  paused,         \* the registers that stand off
  cache,          \* connectivityCache, by building
  sweep,
  excused         \* history: listings stamped after a switch was flipped in
                  \* the middle, on an error that read like nothing, or for
                  \* where they were

settings == <<enabled, switched>>
listing == <<at, stamp, answer>>
vars == <<listing, settings, paused, cache, sweep, excused>>

Known == {"none", "half", "full"}
Found == Known \cup {"error"}      \* an error that reads like "none"
NoSweep == [pc |-> "idle", todo |-> <<>>, switched |-> [s \in Source |-> TRUE], building |-> Nobody]

TypeOK ==
  /\ at \in [Listing -> Building]
  /\ stamp \in [Listing -> {"never", "fresh", "stale"}]
  /\ answer \in [Listing -> Known]
  /\ enabled \in BOOLEAN
  /\ switched \in [Source -> BOOLEAN]
  /\ paused \subseteq Source
  /\ cache \in [Building -> Found \cup {"cold"}]
  /\ sweep \in [pc : {"idle", "next", "chosen", "asking"}, todo : Seq(Listing),
               switched : [Source -> BOOLEAN], building : Building \cup {Nobody}]
  /\ Len(sweep.todo) <= Limit
  /\ sweep.pc \in {"chosen", "asking"} => sweep.todo # <<>> /\ sweep.building \in Building
  /\ sweep.pc = "asking" => Register[sweep.building] # Nobody
  /\ excused \subseteq Listing

Init ==
  /\ at \in [Listing -> Building]
  /\ stamp = [l \in Listing |-> "never"]
  /\ answer = [l \in Listing |-> "none"]
  /\ enabled \in BOOLEAN
  /\ switched = [s \in Source |-> TRUE]
  /\ paused = {}
  /\ cache = [b \in Building |-> "cold"]
  /\ sweep = NoSweep
  /\ excused = {}

-----------------------------------------------------------------------------
Due == {l \in Listing : stamp[l] # "fresh"}
Newer(l, m) == \E i, j \in 1 .. Len(Newest) : i < j /\ Newest[i] = l /\ Newest[j] = m

(* A bug: stale answers are not behind the listings that have none.         *)
BeforeByAge(l, m) == Newer(l, m)

(* getListingsToEnrichConnectivity's ORDER BY: never asked before stale,    *)
(* newest first.                                                            *)
Before(l, m) ==
  IF (stamp[l] = "never") = (stamp[m] = "never") THEN Newer(l, m) ELSE stamp[l] = "never"

(* Its list: the due listings in that order, and the first of them only     *)
(* when there are more than the limit.                                      *)
FirstOf(limit) ==
  {todo \in UNION {[1 .. n -> Due] : n \in 0 .. limit} :
     /\ \A i, j \in DOMAIN todo : i < j => Before(todo[i], todo[j])
     /\ \A l \in Due :
          \/ \E i \in DOMAIN todo : todo[i] = l
          \/ DOMAIN todo = 1 .. limit /\ \A i \in DOMAIN todo : Before(todo[i], l)}

(* A bug: the limit is not applied.                                         *)
BacklogWhole == FirstOf(Len(Newest))

Backlog == FirstOf(Limit)

(* runConnectivitySweep, behind the guard of its cron.                      *)
StartSweep ==
  /\ sweep.pc = "idle"
  /\ enabled
  /\ \E todo \in Backlog \ {<<>>} :
       sweep' = [NoSweep EXCEPT !.pc = "next", !.todo = todo, !.switched = switched]
  /\ UNCHANGED <<listing, settings, paused, cache, excused>>

(* The next listing, while the feature is on; where it is was read with the *)
(* list.                                                                    *)
Choose ==
  /\ sweep.pc = "next"
  /\ sweep' = IF sweep.todo = <<>> \/ ~enabled THEN NoSweep
              ELSE [sweep EXCEPT !.pc = "chosen", !.building = at[Head(sweep.todo)]]
  /\ UNCHANGED <<listing, settings, paused, cache, excused>>

(* The listing is done with.                                                *)
Going(s) == [pc |-> "next", todo |-> Tail(s.todo), switched |-> s.switched, building |-> Nobody]

(* updateListingConnectivity, for the building b.                           *)
Store(l, b, found, flipped) ==
  /\ stamp' = [stamp EXCEPT ![l] = "fresh"]
  /\ answer' = [answer EXCEPT ![l] = IF found = "error" THEN "none" ELSE found]
  /\ excused' = IF flipped \/ found = "error" \/ at[l] # b THEN excused \cup {l} ELSE excused \ {l}
  /\ UNCHANGED at

(* A register that is switched off, or stands off, says nothing here.       *)
Skips(s, source) == ~s.switched[source] \/ source \in paused

(* enrichListing up to the request: no register, nobody to ask, the         *)
(* settings as they are now, the cache.                                     *)
Ask ==
  LET l == Head(sweep.todo)
      b == sweep.building
      source == Register[b]
  IN  /\ sweep.pc = "chosen"
      /\ \/ /\ source = Nobody
            /\ Store(l, b, "none", FALSE)
            /\ sweep' = Going(sweep)
         \/ /\ source # Nobody /\ Skips(sweep, source)
            /\ sweep' = Going(sweep)
            /\ UNCHANGED <<listing, excused>>
         \/ /\ source # Nobody /\ ~Skips(sweep, source)
            /\ ~(enabled /\ switched[source])
            /\ Store(l, b, "none", TRUE)
            /\ sweep' = Going(sweep)
         \/ /\ source # Nobody /\ ~Skips(sweep, source)
            /\ enabled /\ switched[source] /\ cache[b] # "cold"
            /\ Store(l, b, cache[b], FALSE)
            /\ sweep' = Going(sweep)
         \/ /\ source # Nobody /\ ~Skips(sweep, source)
            /\ enabled /\ switched[source] /\ cache[b] = "cold"
            /\ sweep' = [sweep EXCEPT !.pc = "asking"]
            /\ UNCHANGED <<listing, excused>>
      /\ UNCHANGED <<settings, paused, cache>>

(* What came of the request, and is cached.                                 *)
Settled(found) ==
  /\ sweep.pc = "asking"
  /\ Store(Head(sweep.todo), sweep.building, found, FALSE)
  /\ cache' = [cache EXCEPT ![sweep.building] = found]
  /\ sweep' = Going(sweep)
  /\ UNCHANGED settings

(* The register answers what it knows.                                      *)
Answered ==
  /\ Settled(IF Truth[sweep.building] = "empty" THEN "none" ELSE "full")
  /\ UNCHANGED paused

(* One of its two halves has something to say; the other request failed,    *)
(* and the register stands off, or brought an error with status 200.        *)
HalfAnswered ==
  LET source == Register[sweep.building]
  IN  /\ Settled("half")
      /\ Truth[sweep.building] = "full"
      /\ \/ source \in Halved /\ paused' = paused \cup {source}
         \/ source \in Glossing /\ UNCHANGED paused

(* An error with status 200, and nothing else.                              *)
ErrorPassedOn ==
  /\ Settled("error")
  /\ Register[sweep.building] \in Glossing
  /\ UNCHANGED paused

(* A bug: the stand-off is not read again after the request.                *)
RefusedStamps ==
  /\ sweep.pc = "asking"
  /\ paused' = paused \cup {Register[sweep.building]}
  /\ cache' = [cache EXCEPT ![sweep.building] = "none"]
  /\ Store(Head(sweep.todo), sweep.building, "none", FALSE)
  /\ sweep' = Going(sweep)
  /\ UNCHANGED settings

(* It refuses or fails, or half of it does and the rest has nothing to      *)
(* say: it stands off, and the listing stays due.  The failure is cached    *)
(* for a minute, the stand-off lasts a quarter of an hour.                  *)
Refused ==
  /\ sweep.pc = "asking"
  /\ paused' = paused \cup {Register[sweep.building]}
  /\ cache' = [cache EXCEPT ![sweep.building] = "none"]
  /\ sweep' = Going(sweep)
  /\ UNCHANGED <<listing, settings, excused>>

(* By the end of a stand-off the failures before it have left the cache.    *)
Forget(s) ==
  [b \in Building |-> IF Register[b] = s /\ cache[b] \in {"none", "error"} THEN "cold" ELSE cache[b]]

ResumeSource(s) ==
  /\ s \in paused
  /\ paused' = paused \ {s}
  /\ cache' = Forget(s)
  /\ UNCHANGED <<listing, settings, sweep, excused>>

(* An entry of the cache runs out.                                          *)
Expire(b) ==
  /\ cache[b] # "cold"
  /\ cache' = [cache EXCEPT ![b] = "cold"]
  /\ UNCHANGED <<listing, settings, paused, sweep, excused>>

-----------------------------------------------------------------------------
FlipFeature ==
  /\ enabled' = ~enabled
  /\ UNCHANGED <<listing, switched, paused, cache, sweep, excused>>

FlipSource(s) ==
  /\ switched' = [switched EXCEPT ![s] = ~@]
  /\ UNCHANGED <<listing, enabled, paused, cache, sweep, excused>>

(* setListingAddress and the lookups place a listing elsewhere; what was    *)
(* known of its connection stays.                                           *)
Place(l, b) ==
  /\ at[l] # b
  /\ at' = [at EXCEPT ![l] = b]
  /\ excused' = IF stamp[l] = "never" THEN excused ELSE excused \cup {l}
  /\ UNCHANGED <<stamp, answer, settings, paused, cache, sweep>>

(* Half a year passes; no sweep takes that long.                            *)
Age ==
  /\ sweep.pc = "idle"
  /\ stamp' = [l \in Listing |-> IF stamp[l] = "fresh" THEN "stale" ELSE stamp[l]]
  /\ stamp' # stamp
  /\ UNCHANGED <<at, answer, settings, paused, cache, sweep, excused>>

Restart ==
  /\ paused' = {}
  /\ cache' = [b \in Building |-> "cold"]
  /\ sweep' = NoSweep
  /\ UNCHANGED <<listing, settings, excused>>

Sweeping == StartSweep \/ Choose \/ Ask \/ Answered \/ HalfAnswered \/ ErrorPassedOn \/ Refused

Next ==
  \/ Sweeping
  \/ \E s \in Source : ResumeSource(s) \/ FlipSource(s)
  \/ \E b \in Building : Expire(b)
  \/ \E l \in Listing, b \in Building : Place(l, b)
  \/ FlipFeature \/ Age \/ Restart

Spec == Init /\ [][Next]_vars

(* The cron fires every hour, the process is not killed at the same step of *)
(* every sweep, a stand-off ends, and a register that is asked again and    *)
(* again answers in full some day.                                          *)
Fairness ==
  /\ WF_vars(StartSweep)
  /\ SF_vars(Choose) /\ SF_vars(Ask) /\ SF_vars(Answered)
  /\ WF_vars(Refused)
  /\ \A s \in Source : WF_vars(ResumeSource(s))

FairSpec == Spec /\ Fairness

-----------------------------------------------------------------------------
(***************************************************************************)
(* Properties                                                              *)
(***************************************************************************)

(* A listing that is stamped as having nothing is one whose register knows  *)
(* nothing: a failure, a stand-off or a switch is not an answer.  Excused   *)
(* are a switch flipped in the middle of a lookup, a listing that was       *)
(* placed elsewhere since, and an error that came with status 200 to a      *)
(* client that does not look for one.                                       *)
NothingMeansNothing ==
  \A l \in Listing \ excused :
    stamp[l] = "fresh" /\ answer[l] = "none" =>
      Register[at[l]] = Nobody \/ Truth[at[l]] = "empty"

(* With everything switched on for good, no listing waits for its first     *)
(* answer for ever, whatever is refused, however short the list of a run,   *)
(* and however often the process starts over.                               *)
Calm == enabled /\ \A s \in Source : switched[s]
BacklogDrains == <>[]Calm => \A l \in Listing : <>(stamp[l] # "never")

=============================================================================
