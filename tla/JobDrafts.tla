------------------------------ MODULE JobDrafts ------------------------------
(***************************************************************************)
(* A search job put together by interview over MCP.  The server keeps the  *)
(* half-built job of each user, works out the one question to put next and *)
(* records the answers; at the end it checks everything once more and      *)
(* saves the job.  A connection runs its calls side by side, and creating  *)
(* waits between reading the draft and saving it.                          *)
(*                                                                         *)
(* Of the answers only what the next question depends on is told apart:    *)
(* name, deal type and portals are one answer here, which an empty list of *)
(* portals takes back; channels are a whole list; a filter is a refinement.*)
(***************************************************************************)
EXTENDS Naturals, FiniteSets

CONSTANTS
  Writer,          \* users with a connection that may write
  Channel,
  Creation,        \* calls of create_job_from_draft in flight
  MaxInterviews    \* bound: interviews begun

VARIABLES
  usable,          \* the channels a job may be sent to
  draft,           \* drafts
  creating,        \* what each creation read before it waited
  begun,           \* interviews begun so far
  heard,           \* history: interviews that heard of the refinements
  made,            \* history: the jobs saved, by interview
  other,           \* history: interviews saved with other answers than the draft had by then
  crossed          \* history: interviews another call got at while one was being created

vars == <<usable, draft, creating, begun, heard, made, other, crossed>>

Interview == 1 .. MaxInterviews
NoDraft == [interview |-> 0, given |-> FALSE, channels |-> {}, refined |-> FALSE,
            late |-> FALSE]
Draft == [interview : 0 .. MaxInterviews, given : BOOLEAN,
          channels : SUBSET Channel, refined : BOOLEAN, late : BOOLEAN]
NoCreation == [for |-> {}, read |-> NoDraft]

TypeOK ==
  /\ usable \subseteq Channel
  /\ draft \in [Writer -> Draft]
  /\ creating \in [Creation -> [for : {{}} \cup {{u} : u \in Writer}, read : Draft]]
  /\ begun \in 0 .. MaxInterviews
  /\ \A u \in Writer : draft[u].interview <= begun
  /\ \A u, v \in Writer : draft[u].interview = draft[v].interview => u = v \/ draft[u] = NoDraft
  /\ heard \subseteq Interview /\ crossed \subseteq Interview /\ other \subseteq Interview
  /\ made \in [Interview -> Nat]
  /\ \A i \in Interview : made[i] > 0 => i <= begun

Init ==
  /\ usable = Channel
  /\ draft = [u \in Writer |-> NoDraft]
  /\ creating = [x \in Creation |-> NoCreation]
  /\ begun = 0
  /\ heard = {}
  /\ made = [i \in Interview |-> 0]
  /\ other = {}
  /\ crossed = {}

-----------------------------------------------------------------------------
(* sweep, which every access does first.                                    *)
Swept == [u \in Writer |-> IF draft[u].late THEN NoDraft ELSE draft[u]]

(* missingRequired finds nothing.                                           *)
Complete(d) == d.given /\ d.channels # {}

(* nextStep asks for the refinements.                                       *)
AsksToRefine(d) == Complete(d) /\ ~d.refined

(* nextStep has no question left.                                           *)
Ready(d) == Complete(d) /\ d.refined

(* The answer carries the next question.                                    *)
Put(d) == heard' = IF AsksToRefine(d) THEN heard \cup {d.interview} ELSE heard

(* A creation that waits sees nothing of this.                              *)
CrossedBy(u, x) ==
  crossed' = crossed \cup {creating[y].read.interview : y \in {z \in Creation \ x : creating[z].for = {u}}}

(* start_job_draft: startDraft takes up the one under way unless asked to   *)
(* begin anew.                                                              *)
StartDraft(u, replace) ==
  \/ /\ Swept[u] # NoDraft /\ ~replace
     /\ draft' = Swept
     /\ Put(Swept[u])
     /\ UNCHANGED <<usable, creating, begun, made, other, crossed>>
  \/ /\ Swept[u] = NoDraft \/ replace
     /\ begun < MaxInterviews
     /\ begun' = begun + 1
     /\ draft' = [Swept EXCEPT ![u] = [NoDraft EXCEPT !.interview = begun + 1]]
     /\ CrossedBy(u, {})
     /\ UNCHANGED <<usable, creating, heard, made, other>>

(* What an update may carry: name, deal type and portals or an empty list   *)
(* of them, channels, and a refinement volunteered or declined, or whether  *)
(* the job starts switched on.                                              *)
Patch == [given : {"keep", "some", "none"}, channels : SUBSET Channel \cup {{"keep"}},
          refines : {"no", "yes", "enabled"}]

(* A bug: switching the job on counts as an answer at any time.             *)
RefinesWhenever(d, patch) == patch.refines # "no"

(* Switching it on answers the question only where it could have been put.  *)
Refines(d, patch) == patch.refines = "yes" \/ (patch.refines = "enabled" /\ Complete(d))

(* applyDraftUpdate, when every part of the patch is good.                  *)
Applied(d, patch) ==
  [d EXCEPT !.given = IF patch.given = "keep" THEN @ ELSE patch.given = "some",
            !.channels = IF patch.channels = {"keep"} THEN @ ELSE patch.channels,
            !.refined = @ \/ Refines(d, patch)]

(* update_job_draft: updateDraft takes a patch as a whole, and the draft is  *)
(* kept for another half hour.                                              *)
UpdateDraft(u, patch) ==
  LET next == Applied(Swept[u], patch)
  IN  /\ Swept[u] # NoDraft
      /\ patch.channels = {"keep"} \/ patch.channels \subseteq usable
      /\ draft' = [Swept EXCEPT ![u] = next]
      /\ heard' = IF AsksToRefine(next) \/ patch.refines = "yes"
                  THEN heard \cup {next.interview} ELSE heard
      /\ CrossedBy(u, {})
      /\ UNCHANGED <<usable, creating, begun, made, other>>

(* One part of it is not good: nothing is taken, the question is put again. *)
RefuseUpdate(u) ==
  /\ Swept[u] # NoDraft
  /\ draft' = Swept
  /\ Put(Swept[u])
  /\ UNCHANGED <<usable, creating, begun, made, other, crossed>>

(* discard_job_draft: discardDraft.                                         *)
DiscardDraft(u) ==
  /\ draft[u] # NoDraft
  /\ draft' = [Swept EXCEPT ![u] = NoDraft]
  /\ CrossedBy(u, {})
  /\ UNCHANGED <<usable, creating, begun, heard, made, other>>

(* create_job_from_draft reads the draft and waits for the portals.         *)
ReadDraft(x, u) ==
  /\ creating[x] = NoCreation
  /\ Swept[u] # NoDraft
  /\ draft' = Swept
  /\ creating' = [creating EXCEPT ![x] = [for |-> {u}, read |-> Swept[u]]]
  /\ UNCHANGED <<usable, begun, heard, made, other, crossed>>

(* The draft was not answered any further; that it ran out meanwhile does   *)
(* not matter to the one that waits.                                        *)
SameAnswers(now, d) == now = NoDraft \/ [now EXCEPT !.late = FALSE] = [d EXCEPT !.late = FALSE]

(* The rest of it: the draft that was read is checked against what holds    *)
(* now, saved, and whatever draft the user has by then is discarded.  A     *)
(* commute address or a shared user that is gone can refuse any draft.      *)
CreateJob(x, u) ==
  LET d == creating[x].read
  IN  /\ creating[x].for = {u}
      /\ creating' = [creating EXCEPT ![x] = NoCreation]
      /\ \/ /\ d.channels \subseteq usable /\ Complete(d)
            /\ made' = [made EXCEPT ![d.interview] = @ + 1]
            /\ other' = IF SameAnswers(draft[u], d) THEN other ELSE other \cup {d.interview}
            /\ draft' = [Swept EXCEPT ![u] = NoDraft]
            /\ CrossedBy(u, {x})
         \/ UNCHANGED <<made, other, draft, crossed>>
      /\ UNCHANGED <<usable, begun, heard>>

-----------------------------------------------------------------------------
(* A channel is withdrawn, or given back.                                   *)
FlipChannel(c) ==
  /\ usable' = IF c \in usable THEN usable \ {c} ELSE usable \cup {c}
  /\ UNCHANGED <<draft, creating, begun, heard, made, other, crossed>>

(* Half an hour without an answer.                                          *)
RunOut(u) ==
  /\ draft[u] # NoDraft /\ ~draft[u].late
  /\ draft' = [draft EXCEPT ![u].late = TRUE]
  /\ UNCHANGED <<usable, creating, begun, heard, made, other, crossed>>

Restart ==
  /\ draft' = [u \in Writer |-> NoDraft]
  /\ creating' = [x \in Creation |-> NoCreation]
  /\ UNCHANGED <<usable, begun, heard, made, other, crossed>>

Next ==
  \/ \E u \in Writer, replace \in BOOLEAN : StartDraft(u, replace)
  \/ \E u \in Writer, patch \in Patch : UpdateDraft(u, patch)
  \/ \E u \in Writer : RefuseUpdate(u) \/ DiscardDraft(u) \/ RunOut(u)
  \/ \E x \in Creation, u \in Writer : ReadDraft(x, u) \/ CreateJob(x, u)
  \/ \E c \in Channel : FlipChannel(c)
  \/ Restart

Spec == Init /\ [][Next]_vars

-----------------------------------------------------------------------------
(***************************************************************************)
(* Properties                                                              *)
(***************************************************************************)

(* No interview reports that it is ready before its user heard of the       *)
(* optional filters, in whatever order the answers came.                    *)
ReadyMeansAsked == \A u \in Writer : Ready(draft[u]) => draft[u].interview \in heard

(* An interview makes one job, with the answers as they stand when it is    *)
(* saved, unless another call of its user got at the draft in between.      *)
OneJobPerInterview ==
  \A i \in Interview \ crossed : made[i] <= 1 /\ i \notin other
=============================================================================
