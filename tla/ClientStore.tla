------------------------------ MODULE ClientStore ------------------------------
(***************************************************************************)
(* One tab of the user interface: a store filled by the answers to         *)
(* requests that are under way side by side, answered in any order, lost,  *)
(* or turned down because the session is over.  The cookie, and with it    *)
(* the session, is shared with the other tabs of the browser.              *)
(*                                                                         *)
(* A list stands for the three lists whose requests carry a ticket, the    *)
(* setting for one user setting and for the loads that carry none.  The    *)
(* server is external: it answers in the name of the session it finds.     *)
(***************************************************************************)
EXTENDS Naturals, FiniteSets

CONSTANTS
  Account,
  Value,           \* values of the setting
  Request,         \* requests under way at a time
  MaxTickets,      \* bound: list requests of a page load
  Nobody

VARIABLES
  session,         \* whose session the cookie carries
  stored,          \* the setting as the server has it
  request,         \* what is under way
  user,            \* user.currentUser: Nobody is the login screen
  list,            \* listingsData: whose, and which request brought it
  ticket,          \* latestTicket
  setting,         \* userSettings: whose, and its value
  loading,         \* the flags of useIsLoading
  late,            \* history: answers were under way at the reset
  switched,        \* history: another tab changed the session
  blurred          \* history: requests for the setting overlapped, or a save's answer was lost

vars == <<session, stored, request, user, list, ticket, setting, loading, late, switched, blurred>>

Kind == {"list", "load", "save"}
Sub == Account \cup {Nobody}
Idle == [kind |-> "none", step |-> "idle", ticket |-> 0, value |-> CHOOSE v \in Value : TRUE, as |-> Nobody]
NoList == [of |-> Nobody, ticket |-> 0]
NoSetting == [of |-> Nobody, value |-> CHOOSE v \in Value : TRUE]

TypeOK ==
  /\ session \in Sub /\ user \in Sub
  /\ stored \in [Account -> Value]
  /\ request \in [Request -> [kind : Kind \cup {"none"}, step : {"idle", "sent", "answered", "refused"},
                              ticket : 0 .. MaxTickets, value : Value, as : Sub]]
  /\ ticket \in 0 .. MaxTickets
  /\ list \in [of : Sub, ticket : 0 .. ticket]
  /\ setting \in [of : Sub, value : Value]
  /\ loading \in [Kind -> BOOLEAN]
  /\ {late, switched, blurred} \subseteq BOOLEAN
  /\ \A r \in Request : request[r].ticket <= ticket

Running(kind) == {r \in Request : request[r].kind = kind}
AboutSetting == Running("load") \cup Running("save")
UnderWay == {r \in Request : request[r] # Idle}

(* A page load: the store is new, and no answer reaches it any more.        *)
Fresh(u) ==
  /\ user' = u
  /\ request' = [r \in Request |-> Idle]
  /\ list' = NoList /\ ticket' = 0 /\ setting' = NoSetting
  /\ loading' = [k \in Kind |-> FALSE]
  /\ late' = FALSE /\ switched' = FALSE /\ blurred' = FALSE

Init ==
  /\ session = Nobody /\ user = Nobody
  /\ stored \in [Account -> Value]
  /\ request = [r \in Request |-> Idle]
  /\ list = NoList /\ ticket = 0 /\ setting = NoSetting
  /\ loading = [k \in Kind |-> FALSE]
  /\ late = FALSE /\ switched = FALSE /\ blurred = FALSE

-----------------------------------------------------------------------------
(* A bug: signing in changes the route and keeps the page.                  *)
LoginByRoute(a) ==
  /\ user = Nobody
  /\ session' = a
  /\ user' = a
  /\ UNCHANGED <<stored, request, list, ticket, setting, loading, late, switched, blurred>>

(* tryLogin: a full start of the page.                                      *)
Login(a) ==
  /\ user = Nobody
  /\ session' = a
  /\ Fresh(a)
  /\ UNCHANGED stored

(* logout.                                                                  *)
Logout ==
  /\ user # Nobody
  /\ session' = Nobody
  /\ Fresh(Nobody)
  /\ UNCHANGED stored

(* The session runs out, or another tab signs out or signs in.              *)
SessionChanges(a) ==
  /\ a # session
  /\ session' = a
  /\ switched' = (switched \/ (user # Nobody /\ a # Nobody))
  /\ UNCHANGED <<stored, request, user, list, ticket, setting, loading, late, blurred>>

(* The wrapper of the actions raises the flag, and the request goes out.    *)
Send(r, kind, t, v) ==
  /\ user # Nobody /\ request[r] = Idle
  /\ request' = [request EXCEPT ![r] = [kind |-> kind, step |-> "sent", ticket |-> t, value |-> v, as |-> Nobody]]
  /\ loading' = [loading EXCEPT ![kind] = TRUE]
  /\ UNCHANGED <<session, stored, user, list, setting, late, switched>>

(* getListingsData, getListingsForMap, getJobsData.                         *)
GetList(r) ==
  /\ ticket < MaxTickets
  /\ ticket' = ticket + 1
  /\ Send(r, "list", ticket + 1, NoSetting.value)
  /\ UNCHANGED blurred

(* getUserSettings, and the loads that carry no ticket.                     *)
GetUserSettings(r) ==
  /\ Send(r, "load", 0, NoSetting.value)
  /\ blurred' = (blurred \/ AboutSetting # {})
  /\ UNCHANGED ticket

(* setTheme, setLanguage and the others.                                    *)
SetSetting(r, v) ==
  /\ Send(r, "save", 0, v)
  /\ blurred' = (blurred \/ AboutSetting # {})
  /\ UNCHANGED ticket

(* External: the server answers, and without a session it is a 401.         *)
Serve(r) ==
  LET q == request[r]
  IN  /\ q.step = "sent"
      /\ IF session = Nobody
         THEN request' = [request EXCEPT ![r].step = "refused"] /\ UNCHANGED stored
         ELSE /\ stored' = IF q.kind = "save" THEN [stored EXCEPT ![session] = q.value] ELSE stored
              /\ request' = [request EXCEPT ![r].step = "answered", ![r].as = session,
                                            ![r].value = IF q.kind = "load" THEN stored[session] ELSE q.value]
      /\ UNCHANGED <<session, user, list, ticket, setting, loading, late, switched, blurred>>

(* The finally of the wrapper.                                              *)
Done(r) ==
  /\ request' = [request EXCEPT ![r] = Idle]
  /\ loading' = [loading EXCEPT ![request[r].kind] = FALSE]

(* A bug: an answer is shown when it comes.                                 *)
IsAny(q) == q.ticket <= ticket

(* isLatest.                                                                *)
IsLatest(q) == q.ticket = ticket

Answered(r) ==
  LET q == request[r]
  IN  /\ q.step = "answered"
      /\ list' = IF q.kind = "list" /\ IsLatest(q) THEN [of |-> q.as, ticket |-> q.ticket] ELSE list
      /\ setting' = IF q.kind = "list" THEN setting
                    ELSE [of |-> IF q.kind = "load" THEN q.as ELSE setting.of, value |-> q.value]
      /\ Done(r)
      /\ UNCHANGED <<session, stored, user, ticket, late, switched, blurred>>

(* The network drops a request or its answer, or the server fails it.       *)
Lost(r) ==
  /\ request[r].step \in {"sent", "answered"}
  /\ Done(r)
  /\ blurred' = (blurred \/ (request[r].kind = "save" /\ request[r].step = "answered"))
  /\ UNCHANGED <<session, stored, user, list, ticket, setting, late, switched>>

(* A 401: resetCurrentUser drops what the account loaded, and not what is   *)
(* still under way.                                                         *)
Refused(r) ==
  /\ request[r].step = "refused"
  /\ Done(r)
  /\ user' = Nobody
  /\ list' = NoList
  /\ setting' = NoSetting
  /\ late' = \E s \in Request \ {r} : request[s].step # "idle"
  /\ UNCHANGED <<session, stored, ticket, switched, blurred>>

Next ==
  \/ \E a \in Account : Login(a)
  \/ \E a \in Sub : SessionChanges(a)
  \/ Logout
  \/ \E r \in Request : GetList(r) \/ GetUserSettings(r) \/ Serve(r) \/ Answered(r) \/ Lost(r) \/ Refused(r)
  \/ \E r \in Request, v \in Value : SetSetting(r, v)

Spec == Init /\ [][Next]_vars

-----------------------------------------------------------------------------
(***************************************************************************)
(* Properties                                                              *)
(***************************************************************************)

(* However answers overtake each other, a list never goes back to an        *)
(* earlier request than the one it shows: only a start or a reset empties   *)
(* it.                                                                      *)
NeverBack == list.ticket <= list'.ticket \/ list' = NoList
ListNeverGoesBack == [][NeverBack]_vars

(* The store holds nothing of another account: not for the account signed   *)
(* in, unless another tab changed the session under it, and not behind the  *)
(* login screen, unless an answer was under way when it was emptied.        *)
StoreIsOfItsUser ==
  /\ user # Nobody /\ ~switched => {list.of, setting.of} \subseteq {user, Nobody}
  /\ user = Nobody /\ ~late => list = NoList /\ setting = NoSetting

(* Once all is answered, the setting that is shown is the one the server    *)
(* has, also where a save failed, unless requests for it overlapped, the    *)
(* answer of a save was lost or another tab changed the session.            *)
ShownIsStored ==
  user # Nobody /\ setting.of = user /\ AboutSetting = {} /\ ~blurred /\ ~switched
    => setting.value = stored[user]

(* A flag is up only while an action it stands for runs, however that       *)
(* ended: with an answer, lost or turned down.                              *)
NoFlagForever == \A k \in Kind : loading[k] => Running(k) # {}
=============================================================================
