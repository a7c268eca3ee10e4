---------------------------- MODULE Services_proofs ----------------------------
(***************************************************************************)
(* Proofs about the parts of Services, for any number of accounts, ids,    *)
(* requests and values.  A behaviour stays in the part it begins with, so  *)
(* each part has an inductive invariant of its own; what makes the         *)
(* properties of the runs inductive is named where it is defined.          *)
(***************************************************************************)
EXTENDS Services, FiniteSetTheorems, TLAPS

LEMMA NobodyIsNobody == Nobody \notin User /\ Nobody \notin Id /\ Nobody \notin Call /\ Nobody \notin Content
BY ServicesAssumption

(* A behaviour is one of the part it begins with.                           *)
LEMMA PartsApart ==
  ASSUME [Next]_vars
  PROVE  /\ UNCHANGED part
         /\ part = "settings" => [S!Next]_settingsVars
         /\ part = "client" => [C!Next]_clientStoreVars
         /\ part = "drafts" => [D!Next]_draftsVars
         /\ part = "oauth" => [O!Next]_oauthVars
         /\ part = "finance" => [F!Next]_financeVars
         /\ part = "accounts" => [A!Next]_accountsVars
         /\ part = "restore" => [R!Next]_restoreVars
         /\ part = "location" => [L!Next]_locationVars
BY DEF Next, vars

-----------------------------------------------------------------------------
(***************************************************************************)
(* SettingsCache.  That the cache is current is not inductive: a refill in *)
(* flight fills it from the rows it carries, so the invariant has to say   *)
(* that the rows of every refill the generation still lets through are     *)
(* current (RefillsAreCurrent).                                            *)
(***************************************************************************)

SettingsInv == S!TypeOK /\ S!CacheIsCurrent /\ S!RefillsAreCurrent

LEMMA SettingsInit == S!Init => SettingsInv
BY ServicesAssumption DEF S!Init, SettingsInv, S!TypeOK, S!CacheIsCurrent, S!RefillsAreCurrent,
   S!Reader, S!NoRead, S!Excuse

(* Every variable keeps its type, a refill never carries a generation ahead *)
(* of the counter, and only a restore waits between the swap of the         *)
(* database and its refresh.                                                *)
LEMMA SettingsTypes ==
  ASSUME S!TypeOK, [S!Next]_settingsVars
  PROVE  S!TypeOK'
<1> USE ServicesAssumption DEF S!TypeOK, S!Reader, S!NoRead, S!Excuse
<1>1. ASSUME NEW c \in Call, S!AskSettings(c) PROVE S!TypeOK'
  BY <1>1 DEF S!AskSettings, S!TakeRows
<1>2. ASSUME NEW r \in S!Reader, S!ConfigRead(r) PROVE S!TypeOK'
  BY <1>2 DEF S!ConfigRead, S!Fill
<1>3. ASSUME NEW r \in S!Reader, S!ConfigUnreadable(r) PROVE S!TypeOK'
  BY <1>3 DEF S!ConfigUnreadable
<1>4. ASSUME NEW v \in Content, S!UpsertSettings(v) PROVE S!TypeOK'
  BY <1>4 DEF S!UpsertSettings
<1>5. ASSUME NEW v \in Content, S!UpsertThrows(v) PROVE S!TypeOK'
  BY <1>5 DEF S!UpsertThrows
<1>6. ASSUME NEW r \in Writer, NEW v \in Content, S!SwapDatabase(r, v) PROVE S!TypeOK'
  BY <1>6 DEF S!SwapDatabase
<1>7. ASSUME NEW r \in Writer, NEW v \in Content, S!Migrate(r, v) PROVE S!TypeOK'
  BY <1>7 DEF S!Migrate
<1>8. ASSUME NEW r \in Writer, S!MigrationFails(r) PROVE S!TypeOK'
  BY <1>8 DEF S!MigrationFails
<1>9. ASSUME NEW r \in Writer, S!RefreshAfterRestore(r) PROVE S!TypeOK'
  BY <1>9 DEF S!RefreshAfterRestore, S!TakeRows
<1>10. CASE S!Restart
  BY <1>10 DEF S!Restart
<1>11. CASE UNCHANGED settingsVars
  BY <1>11 DEF settingsVars
<1> QED
  BY <1>1, <1>2, <1>3, <1>4, <1>5, <1>6, <1>7, <1>8, <1>9, <1>10, <1>11 DEF S!Next

(* One step keeps the cache and the refills current: a write outdates every *)
(* refill in flight by moving the generation, and a new refill takes the    *)
(* rows and the generation of one moment.                                   *)
LEMMA SettingsStep ==
  ASSUME SettingsInv, [S!Next]_settingsVars
  PROVE  SettingsInv'
<1> USE ServicesAssumption DEF SettingsInv, S!TypeOK, S!CacheIsCurrent, S!RefillsAreCurrent,
                               S!Reader, S!NoRead
<1>0. S!TypeOK'
  BY SettingsTypes
<1>1. ASSUME NEW c \in Call, S!AskSettings(c) PROVE SettingsInv'
  BY <1>0, <1>1 DEF S!AskSettings, S!TakeRows
<1>2. ASSUME NEW r \in S!Reader, S!ConfigRead(r) PROVE SettingsInv'
  <2>1. S!CacheIsCurrent'
    BY <1>2 DEF S!ConfigRead, S!Fill
  <2>2. S!RefillsAreCurrent'
    BY <1>2 DEF S!ConfigRead, S!Fill
  <2> QED
    BY <1>0, <2>1, <2>2
<1>3. ASSUME NEW r \in S!Reader, S!ConfigUnreadable(r) PROVE SettingsInv'
  BY <1>0, <1>3 DEF S!ConfigUnreadable
<1>4. ASSUME NEW v \in Content, S!UpsertSettings(v) PROVE SettingsInv'
  <2>1. \A r \in S!Reader : read[r].gen # generation'
    BY <1>4 DEF S!UpsertSettings
  <2> QED
    BY <1>0, <1>4, <2>1 DEF S!UpsertSettings
<1>5. ASSUME NEW v \in Content, S!UpsertThrows(v) PROVE SettingsInv'
  BY <1>0, <1>5 DEF S!UpsertThrows
<1>6. ASSUME NEW r \in Writer, NEW v \in Content, S!SwapDatabase(r, v) PROVE SettingsInv'
  BY <1>0, <1>6 DEF S!SwapDatabase
<1>7. ASSUME NEW r \in Writer, NEW v \in Content, S!Migrate(r, v) PROVE SettingsInv'
  BY <1>0, <1>7 DEF S!Migrate
<1>8. ASSUME NEW r \in Writer, S!MigrationFails(r) PROVE SettingsInv'
  BY <1>0, <1>8 DEF S!MigrationFails
<1>9. ASSUME NEW r \in Writer, S!RefreshAfterRestore(r) PROVE SettingsInv'
  BY <1>0, <1>9 DEF S!RefreshAfterRestore, S!TakeRows
<1>10. CASE S!Restart
  BY <1>0, <1>10 DEF S!Restart
<1>11. CASE UNCHANGED settingsVars
  BY <1>0, <1>11 DEF settingsVars
<1> QED
  BY <1>1, <1>2, <1>3, <1>4, <1>5, <1>6, <1>7, <1>8, <1>9, <1>10, <1>11 DEF S!Next

(* Whatever overlaps, a setting that was saved is the setting in force for  *)
(* every later call, unless a restore or a torn save went past the cache.   *)
THEOREM CacheStaysCurrent == Spec => []CacheIsCurrent
<1> DEFINE Inv == part = "settings" => SettingsInv
<1>1. Init => Inv
  BY SettingsInit DEF Init
<1>2. Inv /\ [Next]_vars => Inv'
  BY PartsApart, SettingsStep
<1>3. Inv => CacheIsCurrent
  BY DEF CacheIsCurrent, SettingsInv
<1> QED
  BY <1>1, <1>2, <1>3, PTL DEF Spec

-----------------------------------------------------------------------------
(***************************************************************************)
(* ClientStore.  The store is of its user because every answer that is     *)
(* still to come is (AnswersAreOfTheUser), and the login screen hides      *)
(* nothing because nothing is under way behind it; the setting shown is    *)
(* the one stored because one request at a time changes it.                *)
(***************************************************************************)

AnswersAreOfTheUser ==
  user # Nobody /\ ~switched =>
    /\ session \in {user, Nobody}
    /\ \A r \in Call : request[r].as \in {user, Nobody}

NothingBehindTheLogin == user = Nobody /\ ~late => \A r \in Call : request[r].step = "idle"

BusyHasAKind == \A r \in Call : request[r].step # "idle" => request[r].kind # "none"

(* One request about the setting at a time, and once it is answered it      *)
(* carries what the server has.                                             *)
OneAtATime ==
  ~blurred => \A r, s \in C!AboutSetting : r = s

AnsweredIsStored ==
  user # Nobody /\ ~switched /\ ~blurred =>
    /\ \A r \in C!AboutSetting : request[r].step = "answered" => request[r].value = stored[user] /\ request[r].as = user
    /\ setting.of = user /\ (\A r \in C!Running("save") : request[r].step # "answered") => setting.value = stored[user]

ClientInv ==
  /\ C!TypeOK /\ C!StoreIsOfItsUser /\ C!NoFlagForever
  /\ AnswersAreOfTheUser /\ NothingBehindTheLogin /\ BusyHasAKind /\ OneAtATime /\ AnsweredIsStored

ClientRequest == [kind : {"list", "load", "save", "none"}, step : {"idle", "sent", "answered", "refused"},
                  ticket : 0 .. MaxTickets, value : Value, as : User \cup {Nobody}]

LEMMA ClientIdle ==
  /\ C!Idle \in ClientRequest
  /\ C!Idle.kind = "none" /\ C!Idle.step = "idle" /\ C!Idle.ticket = 0 /\ C!Idle.as = Nobody
  /\ C!NoList.of = Nobody /\ C!NoList.ticket = 0 /\ C!NoList \in [of : User \cup {Nobody}, ticket : {0}]
  /\ C!NoSetting.of = Nobody /\ C!NoSetting \in [of : User \cup {Nobody}, value : Value]
BY ServicesAssumption DEF C!Idle, C!NoList, C!NoSetting, ClientRequest

(* A start of the page leaves nothing of what was there.                    *)
LEMMA FreshPage ==
  ASSUME NEW u \in User \cup {Nobody}, C!Fresh(u), session' = u, stored' \in [User -> Value]
  PROVE  ClientInv'
<1>1. C!TypeOK'
  <2> USE ServicesAssumption, ClientIdle DEF C!Fresh, C!Sub, C!Kind, ClientRequest
  <2>1. session' \in C!Sub /\ user' \in C!Sub
    OBVIOUS
  <2>2. request' \in [Call -> ClientRequest]
    OBVIOUS
  <2>3. ticket' \in 0 .. MaxTickets
    OBVIOUS
  <2>4. list' \in [of : C!Sub, ticket : 0 .. ticket']
    OBVIOUS
  <2>5. setting' \in [of : C!Sub, value : Value]
    OBVIOUS
  <2>6. loading' \in [C!Kind -> BOOLEAN]
    OBVIOUS
  <2>7. {late, switched, blurred}' \subseteq BOOLEAN
    OBVIOUS
  <2>8. \A r \in Call : request'[r].ticket <= ticket'
    OBVIOUS
  <2> QED
    BY <2>1, <2>2, <2>3, <2>4, <2>5, <2>6, <2>7, <2>8 DEF C!TypeOK
<1>2. C!StoreIsOfItsUser' /\ C!NoFlagForever' /\ AnswersAreOfTheUser' /\ NothingBehindTheLogin' /\ BusyHasAKind'
  BY ServicesAssumption, ClientIdle DEF C!Fresh, C!StoreIsOfItsUser, C!NoFlagForever, AnswersAreOfTheUser,
     NothingBehindTheLogin, BusyHasAKind
<1>3. OneAtATime' /\ AnsweredIsStored'
  BY NobodyIsNobody, ClientIdle DEF C!Fresh, OneAtATime, AnsweredIsStored, C!AboutSetting, C!Running
<1> QED
  BY <1>1, <1>2, <1>3 DEF ClientInv

LEMMA ClientInit == C!Init => ClientInv
<1> SUFFICES ASSUME C!Init PROVE ClientInv
  OBVIOUS
<1>1. C!TypeOK
  <2> USE ServicesAssumption, ClientIdle DEF C!Init, C!Sub, C!Kind, ClientRequest
  <2>1. session \in C!Sub /\ user \in C!Sub
    OBVIOUS
  <2>2. request \in [Call -> ClientRequest]
    OBVIOUS
  <2>3. ticket \in 0 .. MaxTickets
    OBVIOUS
  <2>4. list \in [of : C!Sub, ticket : 0 .. ticket]
    OBVIOUS
  <2>5. setting \in [of : C!Sub, value : Value]
    OBVIOUS
  <2>6. loading \in [C!Kind -> BOOLEAN]
    OBVIOUS
  <2>7. {late, switched, blurred} \subseteq BOOLEAN
    OBVIOUS
  <2>8. \A r \in Call : request[r].ticket <= ticket
    OBVIOUS
  <2> QED
    BY <2>1, <2>2, <2>3, <2>4, <2>5, <2>6, <2>7, <2>8 DEF C!TypeOK
<1>2. C!StoreIsOfItsUser /\ C!NoFlagForever /\ AnswersAreOfTheUser /\ NothingBehindTheLogin /\ BusyHasAKind
  BY ServicesAssumption, ClientIdle DEF C!Init, C!StoreIsOfItsUser, C!NoFlagForever, AnswersAreOfTheUser,
     NothingBehindTheLogin, BusyHasAKind
<1>3. OneAtATime /\ AnsweredIsStored
  BY NobodyIsNobody, ClientIdle DEF C!Init, OneAtATime, AnsweredIsStored, C!AboutSetting, C!Running
<1> QED
  BY <1>1, <1>2, <1>3 DEF ClientInv

(* One request is sent.                                                     *)
LEMMA ClientSends ==
  ASSUME ClientInv, NEW r \in Call, NEW kind \in C!Kind, NEW t \in 0 .. MaxTickets, NEW v \in Value,
         C!Send(r, kind, t, v), ticket' \in 0 .. MaxTickets, ticket <= ticket', t <= ticket',
         IF kind = "list" THEN UNCHANGED blurred ELSE blurred' = (blurred \/ C!AboutSetting # {})
  PROVE  ClientInv'
<1> USE ServicesAssumption, ClientIdle DEF ClientInv, C!Send, C!Kind
<1>0. /\ \A s \in Call \ {r} : request'[s] = request[s]
      /\ request'[r] = [kind |-> kind, step |-> "sent", ticket |-> t, value |-> v, as |-> Nobody]
  BY DEF C!TypeOK
<1>1. C!TypeOK'
  <2> USE DEF C!TypeOK, C!Sub, ClientRequest
  <2>1. session' \in C!Sub /\ user' \in C!Sub
    OBVIOUS
  <2>2. request' \in [Call -> ClientRequest]
    OBVIOUS
  <2>3. ticket' \in 0 .. MaxTickets
    OBVIOUS
  <2>4. list' \in [of : C!Sub, ticket : 0 .. ticket']
    OBVIOUS
  <2>5. setting' \in [of : C!Sub, value : Value]
    OBVIOUS
  <2>6. loading' \in [C!Kind -> BOOLEAN]
    OBVIOUS
  <2>7. {late, switched, blurred}' \subseteq BOOLEAN
    OBVIOUS
  <2>8. \A s \in Call : request'[s].ticket <= ticket'
    OBVIOUS
  <2> QED
    BY <2>1, <2>2, <2>3, <2>4, <2>5, <2>6, <2>7, <2>8 DEF C!TypeOK
<1>2. C!StoreIsOfItsUser' /\ AnswersAreOfTheUser' /\ NothingBehindTheLogin' /\ BusyHasAKind'
  BY <1>0 DEF C!StoreIsOfItsUser, AnswersAreOfTheUser, NothingBehindTheLogin, BusyHasAKind
<1>3. C!NoFlagForever'
  BY <1>0 DEF C!NoFlagForever, C!Running, C!TypeOK
<1>4. /\ C!AboutSetting' = IF kind = "list" THEN C!AboutSetting ELSE C!AboutSetting \cup {r}
      /\ C!Running("save")' = IF kind = "save" THEN C!Running("save") \cup {r} ELSE C!Running("save")
  BY <1>0 DEF C!AboutSetting, C!Running
<1>5. ~blurred' => ~blurred /\ (kind # "list" => C!AboutSetting = {})
  OBVIOUS
<1>6. OneAtATime'
  BY <1>4, <1>5 DEF OneAtATime
<1>7. AnsweredIsStored'
  <2> SUFFICES ASSUME user' # Nobody /\ ~switched' /\ ~blurred' PROVE AnsweredIsStored'
    BY DEF AnsweredIsStored
  <2>1. user # Nobody /\ ~switched /\ ~blurred /\ UNCHANGED <<user, stored, setting>>
    BY <1>5
  <2>2. \A s \in C!AboutSetting' : request'[s].step = "answered" => s \in C!AboutSetting /\ request'[s] = request[s]
    BY <1>0, <1>4 DEF C!AboutSetting, C!Running
  <2>3. (\A s \in C!Running("save")' : request'[s].step # "answered")
        => \A s \in C!Running("save") : request[s].step # "answered"
    BY <1>0, <1>4 DEF C!Running
  <2> QED
    BY <2>1, <2>2, <2>3 DEF AnsweredIsStored
<1> QED
  BY <1>1, <1>2, <1>3, <1>6, <1>7

(* The server has answered, or turned the request down.                     *)
LEMMA ClientServed ==
  ASSUME ClientInv, NEW r \in Call, C!Serve(r)
  PROVE  ClientInv'
<1> USE ServicesAssumption, ClientIdle DEF ClientInv
<1> DEFINE q == request[r]
           x == request'[r]
<1>0. \A s \in Call \ {r} : request'[s] = request[s]
  BY DEF C!Serve, C!TypeOK
<1>1. /\ x.kind = q.kind /\ x.ticket = q.ticket
      /\ x.step \in {"refused", "answered"}
      /\ x.step = "answered" => session # Nobody /\ x.as = session
                                /\ x.value = (IF q.kind = "load" THEN stored[session] ELSE q.value)
                                /\ stored' = IF q.kind = "save" THEN [stored EXCEPT ![session] = q.value] ELSE stored
      /\ x.step = "refused" => UNCHANGED stored /\ x.as = q.as /\ x.value = q.value
      /\ x \in ClientRequest
      /\ request' = [request EXCEPT ![r] = x]
  <2>1. q \in ClientRequest
    BY DEF C!TypeOK, ClientRequest, C!Kind, C!Sub
  <2>2. CASE session = Nobody
    BY <2>1, <2>2 DEF C!Serve, C!TypeOK, ClientRequest
  <2>3. CASE session # Nobody
    BY <2>1, <2>3 DEF C!Serve, C!TypeOK, ClientRequest
  <2> QED
    BY <2>2, <2>3
<1>2. C!TypeOK'
  BY <1>0, <1>1, SMTT(30) DEF C!TypeOK, C!Sub, C!Kind, C!Serve, ClientRequest
<1>3. C!StoreIsOfItsUser' /\ AnswersAreOfTheUser' /\ NothingBehindTheLogin' /\ BusyHasAKind'
  BY <1>0, <1>1 DEF C!StoreIsOfItsUser, AnswersAreOfTheUser, NothingBehindTheLogin, BusyHasAKind, C!Serve
<1>4. C!NoFlagForever'
  BY <1>0, <1>1 DEF C!NoFlagForever, C!Running, C!Serve
<1>5. C!AboutSetting' = C!AboutSetting /\ C!Running("save")' = C!Running("save")
  BY <1>0, <1>1 DEF C!AboutSetting, C!Running
<1>6. OneAtATime'
  BY <1>5 DEF OneAtATime, C!Serve
<1>7. AnsweredIsStored'
  <2> SUFFICES ASSUME user' # Nobody /\ ~switched' /\ ~blurred' PROVE AnsweredIsStored'
    BY DEF AnsweredIsStored
  <2>1. /\ user # Nobody /\ ~switched /\ ~blurred /\ UNCHANGED <<user, session, setting>>
        /\ session \in {user, Nobody} /\ stored \in [User -> Value] /\ user \in User
    BY DEF C!Serve, AnswersAreOfTheUser, C!TypeOK, C!Sub
  <2>2. r \notin C!AboutSetting => UNCHANGED stored
    BY <1>1 DEF C!AboutSetting, C!Running
  <2>3. \A s \in C!AboutSetting : r \in C!AboutSetting => s = r
    BY <2>1 DEF OneAtATime
  <2>4. ASSUME NEW s \in C!AboutSetting', request'[s].step = "answered"
        PROVE  request'[s].value = stored'[user] /\ request'[s].as = user
    <3>1. CASE s # r
      BY <1>0, <1>5, <2>1, <2>2, <2>3, <2>4, <3>1 DEF AnsweredIsStored, C!AboutSetting, C!Running
    <3>2. CASE s = r
      <4>1. q.kind \in {"load", "save"}
        BY <1>5, <2>4, <3>2 DEF C!AboutSetting, C!Running
      <4> QED
        BY <1>1, <2>1, <2>4, <3>2, <4>1
    <3> QED
      BY <3>1, <3>2
  <2>5. ASSUME setting.of = user, \A s \in C!Running("save") : request'[s].step # "answered"
        PROVE  setting.value = stored'[user]
    <3>1. \A s \in C!Running("save") : request[s].step # "answered"
      BY <1>0, <1>1, <2>5 DEF C!Running, C!Serve
    <3>2. UNCHANGED stored
      BY <1>1, <2>5 DEF C!Running
    <3> QED
      BY <2>1, <2>5, <3>1, <3>2 DEF AnsweredIsStored
  <2> QED
    BY <1>5, <2>1, <2>4, <2>5 DEF AnsweredIsStored
<1> QED
  BY <1>2, <1>3, <1>4, <1>6, <1>7

(* What an action that is over leaves behind.                               *)
LEMMA ClientDone ==
  ASSUME ClientInv, NEW r \in Call, C!Done(r)
  PROVE  /\ request' \in [Call -> ClientRequest]
         /\ loading' \in [C!Kind -> BOOLEAN]
         /\ request'[r] = C!Idle
         /\ \A s \in Call \ {r} : request'[s] = request[s]
         /\ \A s \in Call : request'[s].ticket <= ticket
         /\ C!AboutSetting' = C!AboutSetting \ {r}
         /\ C!Running("save")' = C!Running("save") \ {r}
         /\ C!NoFlagForever'
<1> USE ServicesAssumption, ClientIdle DEF ClientInv, C!Done
<1>1. request \in [Call -> ClientRequest] /\ loading \in [C!Kind -> BOOLEAN]
  BY DEF C!TypeOK, ClientRequest, C!Kind, C!Sub
<1>2. /\ request' \in [Call -> ClientRequest]
      /\ loading' \in [C!Kind -> BOOLEAN]
      /\ request'[r] = C!Idle
      /\ \A s \in Call \ {r} : request'[s] = request[s]
  BY <1>1
<1>3. \A s \in Call : request'[s].ticket <= ticket
  BY <1>1, <1>2 DEF C!TypeOK
<1>4. /\ C!AboutSetting' = C!AboutSetting \ {r}
      /\ C!Running("save")' = C!Running("save") \ {r}
  BY <1>2 DEF C!AboutSetting, C!Running
<1>5. ASSUME NEW k \in C!Kind, loading'[k] PROVE C!Running(k)' # {}
  <2>1. loading[k] /\ k # request[r].kind
    BY <1>1, <1>5
  <2>2. PICK s \in Call : request[s].kind = k
    BY <2>1 DEF C!NoFlagForever, C!Running
  <2> QED
    BY <1>2, <2>1, <2>2 DEF C!Running
<1> QED
  BY <1>2, <1>3, <1>4, <1>5 DEF C!NoFlagForever

(* The store after an answer.                                               *)
LEMMA ClientAnswered ==
  ASSUME ClientInv, NEW r \in Call, C!Answered(r)
  PROVE  ClientInv'
<1> USE ServicesAssumption, ClientIdle DEF ClientInv
<1> DEFINE q == request[r]
<1>0. /\ C!Done(r) /\ q.step = "answered"
      /\ list' = IF q.kind = "list" /\ q.ticket = ticket THEN [of |-> q.as, ticket |-> q.ticket] ELSE list
      /\ setting' = IF q.kind = "list" THEN setting
                    ELSE [of |-> IF q.kind = "load" THEN q.as ELSE setting.of, value |-> q.value]
      /\ UNCHANGED <<session, stored, user, ticket, late, switched, blurred>>
  BY DEF C!Answered, C!IsLatest
<1>1. /\ request' \in [Call -> ClientRequest]
      /\ loading' \in [C!Kind -> BOOLEAN]
      /\ request'[r] = C!Idle
      /\ \A s \in Call \ {r} : request'[s] = request[s]
      /\ \A s \in Call : request'[s].ticket <= ticket
      /\ C!AboutSetting' = C!AboutSetting \ {r}
      /\ C!Running("save")' = C!Running("save") \ {r}
      /\ C!NoFlagForever'
  BY <1>0, ClientDone
<1>2. q \in ClientRequest /\ q.ticket <= ticket
  BY DEF C!TypeOK, ClientRequest, C!Kind, C!Sub
<1>3. C!TypeOK'
  <2>1. list' \in [of : C!Sub, ticket : 0 .. ticket']
    BY <1>0, <1>2 DEF C!TypeOK, ClientRequest, C!Sub
  <2>2. setting' \in [of : C!Sub, value : Value]
    BY <1>0, <1>2 DEF C!TypeOK, ClientRequest, C!Sub
  <2>3. /\ session' \in C!Sub /\ user' \in C!Sub /\ stored' \in [User -> Value]
        /\ ticket' \in 0 .. MaxTickets /\ {late, switched, blurred}' \subseteq BOOLEAN
    BY <1>0 DEF C!TypeOK
  <2> QED
    BY <1>0, <1>1, <2>1, <2>2, <2>3 DEF C!TypeOK, ClientRequest, C!Kind, C!Sub
<1>4. user = Nobody => late
  BY <1>0 DEF NothingBehindTheLogin
<1>5. C!StoreIsOfItsUser' /\ AnswersAreOfTheUser' /\ NothingBehindTheLogin' /\ BusyHasAKind'
  <2>1. ASSUME user # Nobody, ~switched PROVE {list.of, setting.of}' \subseteq {user, Nobody}
    BY <1>0, <2>1 DEF C!StoreIsOfItsUser, AnswersAreOfTheUser
  <2> QED
    BY <1>0, <1>1, <1>4, <2>1 DEF C!StoreIsOfItsUser, AnswersAreOfTheUser, NothingBehindTheLogin, BusyHasAKind
<1>6. OneAtATime'
  BY <1>0, <1>1 DEF OneAtATime
<1>7. AnsweredIsStored'
  <2> SUFFICES ASSUME user # Nobody, ~switched, ~blurred
               PROVE  /\ \A s \in C!AboutSetting' : request'[s].step = "answered"
                                => request'[s].value = stored[user] /\ request'[s].as = user
                      /\ setting'.of = user /\ (\A s \in C!Running("save")' : request'[s].step # "answered")
                         => setting'.value = stored[user]
    BY <1>0 DEF AnsweredIsStored
  <2>1. \A s \in C!AboutSetting' : request'[s] = request[s] /\ s \in C!AboutSetting
    BY <1>1 DEF C!AboutSetting, C!Running
  <2>2. CASE q.kind \in {"load", "save"}
    <3>1. q.value = stored[user]
      BY <1>0, <2>2 DEF AnsweredIsStored, C!AboutSetting, C!Running
    <3> QED
      BY <1>0, <2>1, <2>2, <3>1 DEF AnsweredIsStored
  <2>3. CASE q.kind = "list"
    BY <1>0, <1>1, <2>1, <2>3 DEF AnsweredIsStored, C!Running
  <2>4. q.kind # "none"
    BY <1>0 DEF BusyHasAKind
  <2> QED
    BY <1>2, <2>2, <2>3, <2>4 DEF ClientRequest
<1> QED
  BY <1>1, <1>3, <1>5, <1>6, <1>7

(* The store after a request that got no answer.                            *)
LEMMA ClientLost ==
  ASSUME ClientInv, NEW r \in Call, C!Lost(r)
  PROVE  ClientInv'
<1> USE ServicesAssumption, ClientIdle DEF ClientInv
<1>0. /\ C!Done(r)
      /\ UNCHANGED <<session, stored, user, list, ticket, setting, late, switched>>
      /\ blurred' \in BOOLEAN
      /\ ~blurred' => ~blurred /\ ~(request[r].kind = "save" /\ request[r].step = "answered")
  BY DEF C!Lost
<1>1. /\ request' \in [Call -> ClientRequest]
      /\ loading' \in [C!Kind -> BOOLEAN]
      /\ request'[r] = C!Idle
      /\ \A s \in Call \ {r} : request'[s] = request[s]
      /\ \A s \in Call : request'[s].ticket <= ticket
      /\ C!AboutSetting' = C!AboutSetting \ {r}
      /\ C!Running("save")' = C!Running("save") \ {r}
      /\ C!NoFlagForever'
  BY <1>0, ClientDone
<1>2. C!TypeOK'
  <2>1. /\ session' \in C!Sub /\ user' \in C!Sub /\ stored' \in [User -> Value]
        /\ ticket' \in 0 .. MaxTickets /\ list' \in [of : C!Sub, ticket : 0 .. ticket']
        /\ setting' \in [of : C!Sub, value : Value]
    BY <1>0 DEF C!TypeOK
  <2>2. {late, switched, blurred}' \subseteq BOOLEAN
    BY <1>0 DEF C!TypeOK
  <2> QED
    BY <1>0, <1>1, <2>1, <2>2 DEF C!TypeOK, ClientRequest, C!Kind, C!Sub
<1>3. C!StoreIsOfItsUser' /\ AnswersAreOfTheUser' /\ NothingBehindTheLogin' /\ BusyHasAKind'
  BY <1>0, <1>1 DEF C!StoreIsOfItsUser, AnswersAreOfTheUser, NothingBehindTheLogin, BusyHasAKind
<1>4. OneAtATime'
  BY <1>0, <1>1 DEF OneAtATime
<1>5. AnsweredIsStored'
  <2> SUFFICES ASSUME user # Nobody, ~switched, ~blurred'
               PROVE  /\ \A s \in C!AboutSetting' : request'[s].step = "answered"
                                => request'[s].value = stored[user] /\ request'[s].as = user
                      /\ setting.of = user /\ (\A s \in C!Running("save")' : request'[s].step # "answered")
                         => setting.value = stored[user]
    BY <1>0 DEF AnsweredIsStored
  <2>1. \A s \in C!AboutSetting' : request'[s] = request[s] /\ s \in C!AboutSetting
    BY <1>1 DEF C!AboutSetting, C!Running
  <2>2. (\A s \in C!Running("save")' : request'[s].step # "answered")
        => \A s \in C!Running("save") : request[s].step # "answered"
    BY <1>0, <1>1 DEF C!Running
  <2> QED
    BY <1>0, <2>1, <2>2 DEF AnsweredIsStored
<1> QED
  BY <1>1, <1>2, <1>3, <1>4, <1>5

(* A 401 empties the store.                                                 *)
LEMMA ClientRefused ==
  ASSUME ClientInv, NEW r \in Call, C!Refused(r)
  PROVE  ClientInv'
<1> USE ServicesAssumption, ClientIdle DEF ClientInv
<1>0. /\ C!Done(r)
      /\ UNCHANGED <<session, stored, ticket, switched, blurred>>
      /\ user' = Nobody /\ list' = C!NoList /\ setting' = C!NoSetting
      /\ late' \in BOOLEAN
      /\ ~late' => \A s \in Call \ {r} : request[s].step = "idle"
  BY DEF C!Refused
<1>1. /\ request' \in [Call -> ClientRequest]
      /\ loading' \in [C!Kind -> BOOLEAN]
      /\ request'[r] = C!Idle
      /\ \A s \in Call \ {r} : request'[s] = request[s]
      /\ \A s \in Call : request'[s].ticket <= ticket
      /\ C!AboutSetting' = C!AboutSetting \ {r}
      /\ C!NoFlagForever'
  BY <1>0, ClientDone
<1>2. C!TypeOK'
  <2>1. /\ session' \in C!Sub /\ user' \in C!Sub /\ stored' \in [User -> Value]
        /\ ticket' \in 0 .. MaxTickets /\ setting' \in [of : C!Sub, value : Value]
    BY <1>0 DEF C!TypeOK, C!Sub
  <2>2. list' \in [of : C!Sub, ticket : 0 .. ticket']
    BY <1>0 DEF C!TypeOK, C!Sub
  <2>3. {late, switched, blurred}' \subseteq BOOLEAN
    BY <1>0 DEF C!TypeOK
  <2> QED
    BY <1>0, <1>1, <2>1, <2>2, <2>3 DEF C!TypeOK, ClientRequest, C!Kind, C!Sub
<1>3. C!StoreIsOfItsUser' /\ AnswersAreOfTheUser' /\ NothingBehindTheLogin' /\ BusyHasAKind' /\ AnsweredIsStored'
  BY <1>0, <1>1 DEF C!StoreIsOfItsUser, AnswersAreOfTheUser, NothingBehindTheLogin, BusyHasAKind, AnsweredIsStored
<1>4. OneAtATime'
  BY <1>0, <1>1 DEF OneAtATime
<1> QED
  BY <1>1, <1>2, <1>3, <1>4

(* Another tab has the cookie.                                              *)
LEMMA ClientSessionChanges ==
  ASSUME ClientInv, NEW a \in User \cup {Nobody}, C!SessionChanges(a)
  PROVE  ClientInv'
<1> USE ServicesAssumption DEF ClientInv
<1>0. /\ session' = a
      /\ switched' \in BOOLEAN
      /\ ~switched' => ~switched /\ (user = Nobody \/ a = Nobody)
      /\ UNCHANGED <<stored, request, user, list, ticket, setting, loading, late, blurred>>
  BY DEF C!SessionChanges
<1>1. C!TypeOK'
  <2>1. session' \in C!Sub /\ {late, switched, blurred}' \subseteq BOOLEAN
    BY <1>0 DEF C!TypeOK, C!Sub
  <2> QED
    BY <1>0, <2>1 DEF C!TypeOK
<1>2. C!StoreIsOfItsUser' /\ C!NoFlagForever' /\ AnswersAreOfTheUser' /\ NothingBehindTheLogin' /\ BusyHasAKind'
  BY <1>0 DEF C!StoreIsOfItsUser, C!NoFlagForever, C!Running, AnswersAreOfTheUser, NothingBehindTheLogin, BusyHasAKind
<1>3. OneAtATime' /\ AnsweredIsStored'
  BY <1>0 DEF OneAtATime, AnsweredIsStored, C!AboutSetting, C!Running
<1> QED
  BY <1>1, <1>2, <1>3

LEMMA ClientStep ==
  ASSUME ClientInv, [C!Next]_clientStoreVars
  PROVE  ClientInv'
<1> USE ServicesAssumption, ClientIdle
<1>1. ASSUME NEW a \in User, C!Login(a) PROVE ClientInv'
  BY <1>1, FreshPage DEF C!Login, ClientInv, C!TypeOK
<1>2. ASSUME NEW a \in User \cup {Nobody}, C!SessionChanges(a) PROVE ClientInv'
  BY <1>2, ClientSessionChanges
<1>3. CASE C!Logout
  BY <1>3, FreshPage DEF C!Logout, ClientInv, C!TypeOK
<1>4. ASSUME NEW r \in Call, C!GetList(r) PROVE ClientInv'
  <2>1. ticket + 1 \in 0 .. MaxTickets /\ ticket' \in 0 .. MaxTickets /\ ticket <= ticket' /\ ticket + 1 <= ticket'
    BY <1>4 DEF C!GetList, ClientInv, C!TypeOK
  <2>2. C!NoSetting.value \in Value /\ "list" \in C!Kind
    BY DEF C!Kind, C!NoSetting
  <2> QED
    BY <1>4, <2>1, <2>2, ClientSends DEF C!GetList
<1>5. ASSUME NEW r \in Call, C!GetUserSettings(r) PROVE ClientInv'
  <2>1. 0 \in 0 .. MaxTickets /\ ticket' \in 0 .. MaxTickets /\ ticket <= ticket' /\ 0 <= ticket'
    BY <1>5 DEF C!GetUserSettings, ClientInv, C!TypeOK
  <2>2. C!NoSetting.value \in Value /\ "load" \in C!Kind /\ "load" # "list"
    BY DEF C!Kind, C!NoSetting
  <2> QED
    BY <1>5, <2>1, <2>2, ClientSends DEF C!GetUserSettings
<1>6. ASSUME NEW r \in Call, NEW v \in Value, C!SetSetting(r, v) PROVE ClientInv'
  <2>1. 0 \in 0 .. MaxTickets /\ ticket' \in 0 .. MaxTickets /\ ticket <= ticket' /\ 0 <= ticket'
    BY <1>6 DEF C!SetSetting, ClientInv, C!TypeOK
  <2>2. "save" \in C!Kind /\ "save" # "list"
    BY DEF C!Kind
  <2> QED
    BY <1>6, <2>1, <2>2, ClientSends DEF C!SetSetting
<1>7. ASSUME NEW r \in Call, C!Serve(r) \/ C!Answered(r) \/ C!Lost(r) \/ C!Refused(r) PROVE ClientInv'
  BY <1>7, ClientServed, ClientAnswered, ClientLost, ClientRefused
<1>8. CASE UNCHANGED clientStoreVars
  <2>1. C!TypeOK' /\ C!StoreIsOfItsUser' /\ C!NoFlagForever'
    BY <1>8 DEF clientStoreVars, ClientInv, C!TypeOK, C!StoreIsOfItsUser, C!NoFlagForever, C!Running
  <2>2. AnswersAreOfTheUser' /\ NothingBehindTheLogin' /\ BusyHasAKind'
    BY <1>8 DEF clientStoreVars, ClientInv, AnswersAreOfTheUser, NothingBehindTheLogin, BusyHasAKind
  <2>3. OneAtATime' /\ AnsweredIsStored'
    BY <1>8 DEF clientStoreVars, ClientInv, OneAtATime, AnsweredIsStored, C!AboutSetting, C!Running
  <2> QED
    BY <2>1, <2>2, <2>3 DEF ClientInv
<1> QED
  BY <1>1, <1>2, <1>3, <1>4, <1>5, <1>6, <1>7, <1>8 DEF C!Next, C!Sub

(* Once nothing about the setting is under way, what is shown is stored.    *)
LEMMA ShownIsStoredFollows == ClientInv => C!ShownIsStored
<1> SUFFICES ASSUME ClientInv, user # Nobody, setting.of = user, C!AboutSetting = {}, ~blurred, ~switched
             PROVE  setting.value = stored[user]
  BY DEF C!ShownIsStored
<1>1. \A r \in C!Running("save") : request[r].step # "answered"
  BY DEF C!AboutSetting
<1> QED
  BY <1>1 DEF ClientInv, AnsweredIsStored

(* However answers overtake each other and wherever the session changes,    *)
(* the tab shows nothing of another account, shows what is stored, and      *)
(* waits for nothing that is over - with the exceptions the property names. *)
THEOREM StoreStaysSound == Spec => []StoreSound
<1> DEFINE Inv == part = "client" => ClientInv
<1>1. Init => Inv
  BY ClientInit DEF Init
<1>2. Inv /\ [Next]_vars => Inv'
  BY PartsApart, ClientStep
<1>3. Inv => StoreSound
  BY ShownIsStoredFollows DEF StoreSound, ClientInv
<1> QED
  BY <1>1, <1>2, <1>3, PTL DEF Spec

(* A list only moves on to the answer of a later request: the answer that   *)
(* is shown is that of the newest ticket.                                   *)
LEMMA ListStep ==
  ASSUME ClientInv, [C!Next]_clientStoreVars
  PROVE  C!NeverBack
<1> USE DEF C!NeverBack
<1>0. list.ticket <= ticket /\ list.ticket \in Nat
  BY ServicesAssumption DEF ClientInv, C!TypeOK
<1>1. ASSUME NEW a \in User, C!Login(a) PROVE C!NeverBack
  BY <1>1 DEF C!Login, C!Fresh
<1>2. ASSUME NEW a \in User \cup {Nobody}, C!SessionChanges(a) PROVE C!NeverBack
  BY <1>0, <1>2 DEF C!SessionChanges
<1>3. CASE C!Logout
  BY <1>3 DEF C!Logout, C!Fresh
<1>4. ASSUME NEW r \in Call, C!GetList(r) \/ C!GetUserSettings(r) PROVE C!NeverBack
  BY <1>0, <1>4 DEF C!GetList, C!GetUserSettings, C!Send
<1>5. ASSUME NEW r \in Call, NEW v \in Value, C!SetSetting(r, v) PROVE C!NeverBack
  BY <1>0, <1>5 DEF C!SetSetting, C!Send
<1>6. ASSUME NEW r \in Call, C!Serve(r) \/ C!Lost(r) PROVE C!NeverBack
  BY <1>0, <1>6 DEF C!Serve, C!Lost
<1>7. ASSUME NEW r \in Call, C!Answered(r) PROVE C!NeverBack
  BY <1>0, <1>7 DEF C!Answered, C!IsLatest
<1>8. ASSUME NEW r \in Call, C!Refused(r) PROVE C!NeverBack
  BY <1>8 DEF C!Refused
<1>9. CASE UNCHANGED clientStoreVars
  BY <1>0, <1>9 DEF clientStoreVars
<1> QED
  BY <1>1, <1>2, <1>3, <1>4, <1>5, <1>6, <1>7, <1>8, <1>9 DEF C!Next, C!Sub

THEOREM ListsNeverGoBack == Spec => ListNeverGoesBack
<1> DEFINE Inv == part = "client" => ClientInv
<1>1. Init => Inv
  BY ClientInit DEF Init
<1>2. Inv /\ [Next]_vars => Inv'
  BY PartsApart, ClientStep
<1>3. Inv /\ [Next]_vars => [part = "client" => C!NeverBack]_clientStoreVars
  BY PartsApart, ListStep
<1> QED
  BY <1>1, <1>2, <1>3, PTL DEF Spec, ListNeverGoesBack

-----------------------------------------------------------------------------
(***************************************************************************)
(* JobDrafts.  The question is put with the answer that makes it due, so   *)
(* every draft that is complete or refined was heard of (EveryoneHeard).   *)
(* That an interview makes one job needs to know whose it is               *)
(* (InterviewsAreOwned), that nothing is left of an interview that was     *)
(* saved, and that a creation which waits was not overtaken               *)
(* (NothingIsLeft, NothingOvertook).                                       *)
(***************************************************************************)

EveryoneHeard ==
  \A u \in Writer : D!Complete(draft[u]) \/ draft[u].refined => draft[u].interview \in heard

Creating(x, u) == creating[x].for = {u}

InterviewsAreOwned ==
  /\ \A u \in Writer : draft[u] # D!NoDraft => draft[u].interview # 0
  /\ \A x \in Call : creating[x] = D!NoCreation
                     \/ /\ \E u \in Writer : Creating(x, u)
                        /\ creating[x].read.interview \in 1 .. begun
  /\ \A x \in Call, u, v \in Writer :
       Creating(x, u) /\ draft[v].interview = creating[x].read.interview => u = v
  /\ \A x, y \in Call, u, v \in Writer :
       Creating(x, u) /\ Creating(y, v) /\ creating[x].read.interview = creating[y].read.interview => u = v

NothingIsLeft ==
  \A i \in D!Interview \ crossed : made[i] > 0 =>
    /\ \A u \in Writer : draft[u].interview # i
    /\ \A x \in Call : creating[x].read.interview # i

NothingOvertook ==
  \A x \in Call, u \in Writer :
    Creating(x, u) /\ creating[x].read.interview \notin crossed => D!SameAnswers(draft[u], creating[x].read)

DraftsInv ==
  /\ D!TypeOK /\ EveryoneHeard /\ D!OneJobPerInterview
  /\ InterviewsAreOwned /\ NothingIsLeft /\ NothingOvertook

LEMMA NoDraftIs ==
  /\ D!NoDraft \in D!Draft /\ D!NoDraft.interview = 0 /\ ~D!NoDraft.given /\ ~D!NoDraft.refined
  /\ ~D!NoDraft.late
  /\ D!NoCreation.for = {} /\ D!NoCreation.read = D!NoDraft
  /\ ~D!Complete(D!NoDraft)
BY ServicesAssumption DEF D!NoDraft, D!Draft, D!NoCreation, D!Complete

LEMMA DraftIs ==
  ASSUME NEW d \in D!Draft
  PROVE  /\ d.interview \in 0 .. MaxInterviews /\ d.given \in BOOLEAN /\ d.refined \in BOOLEAN /\ d.late \in BOOLEAN
         /\ d.channels \subseteq Channel
BY DEF D!Draft

(* Two drafts have the same answers when they differ in nothing but their   *)
(* age.                                                                     *)
LEMMA SameAnswersIs ==
  ASSUME NEW now \in D!Draft, NEW d \in D!Draft
  PROVE  D!SameAnswers(now, d) <=> \/ now = D!NoDraft
                                   \/ /\ now.interview = d.interview /\ now.given = d.given
                                      /\ now.channels = d.channels /\ now.refined = d.refined
<1> DEFINE x == [now EXCEPT !.late = FALSE]
           y == [d EXCEPT !.late = FALSE]
<1>1. /\ x \in D!Draft /\ x.interview = now.interview /\ x.given = now.given
      /\ x.channels = now.channels /\ x.refined = now.refined /\ x.late = FALSE
  BY DEF D!Draft
<1>2. /\ y \in D!Draft /\ y.interview = d.interview /\ y.given = d.given
      /\ y.channels = d.channels /\ y.refined = d.refined /\ y.late = FALSE
  BY DEF D!Draft
<1>3. x = y <=> /\ x.interview = y.interview /\ x.given = y.given /\ x.channels = y.channels
                /\ x.refined = y.refined /\ x.late = y.late
  <2> HIDE DEF x, y
  <2> QED
    BY <1>1, <1>2 DEF D!Draft
<1>4. D!SameAnswers(now, d) <=> now = D!NoDraft \/ x = y
  BY DEF D!SameAnswers
<1> QED
  BY <1>1, <1>2, <1>3, <1>4

LEMMA SweptIs ==
  ASSUME D!TypeOK
  PROVE  /\ D!Swept \in [Writer -> D!Draft]
         /\ \A u \in Writer : D!Swept[u] \in {draft[u], D!NoDraft}
BY NoDraftIs DEF D!TypeOK, D!Swept

LEMMA DraftsInit == D!Init => DraftsInv
<1> SUFFICES ASSUME D!Init PROVE DraftsInv
  OBVIOUS
<1>1. D!TypeOK
  BY ServicesAssumption, NoDraftIs DEF D!Init, D!TypeOK, D!Interview, D!NoCreation
<1>2. EveryoneHeard /\ D!OneJobPerInterview
  BY NoDraftIs DEF D!Init, EveryoneHeard, D!OneJobPerInterview
<1>3. InterviewsAreOwned /\ NothingIsLeft /\ NothingOvertook
  BY NoDraftIs DEF D!Init, InterviewsAreOwned, NothingIsLeft, NothingOvertook, Creating
<1> QED
  BY <1>1, <1>2, <1>3 DEF DraftsInv

(* A call that gets at a draft crosses every creation of its user that      *)
(* waits, but x.                                                            *)
LEMMA CrossedIs ==
  ASSUME DraftsInv, NEW u \in Writer, NEW x \in SUBSET Call, D!CrossedBy(u, x)
  PROVE  /\ crossed \subseteq crossed' /\ crossed' \subseteq D!Interview
         /\ \A y \in Call \ x : Creating(y, u) => creating[y].read.interview \in crossed'
<1>1. \A y \in Call : Creating(y, u) => creating[y].read.interview \in D!Interview
  <2> SUFFICES ASSUME NEW y \in Call, Creating(y, u) PROVE creating[y].read.interview \in 1 .. begun
    BY ServicesAssumption DEF D!Interview, DraftsInv, D!TypeOK
  <2> QED
    BY NoDraftIs DEF Creating, DraftsInv, InterviewsAreOwned
<1> QED
  BY <1>1 DEF D!CrossedBy, Creating, DraftsInv, D!TypeOK

(* Most calls get at the draft of one user: it goes, keeps its answers, or  *)
(* is another one by then, which every creation that waits is told.         *)
LEMMA DraftMoves ==
  ASSUME DraftsInv, NEW u \in Writer, NEW d \in D!Draft,
         draft' \in [Writer -> D!Draft], draft'[u] = d,
         \A v \in Writer \ {u} : draft'[v] \in {draft[v], D!NoDraft},
         UNCHANGED <<creating, made, other>>, usable' \subseteq Channel,
         begun' \in 0 .. MaxInterviews, begun <= begun',
         heard \subseteq heard', heard' \subseteq D!Interview,
         crossed \subseteq crossed', crossed' \subseteq D!Interview,
         D!Complete(d) \/ d.refined => d.interview \in heard',
         \/ d = D!NoDraft
         \/ d.interview = draft[u].interview /\ draft[u] # D!NoDraft
         \/ d.interview = begun + 1 /\ begun' = begun + 1,
         \/ d = D!NoDraft
         \/ /\ d.interview = draft[u].interview /\ d.given = draft[u].given
            /\ d.channels = draft[u].channels /\ d.refined = draft[u].refined /\ draft[u] # D!NoDraft
         \/ \A x \in Call : Creating(x, u) => creating[x].read.interview \in crossed'
  PROVE  DraftsInv'
<1> USE NoDraftIs, NobodyIsNobody DEF DraftsInv
<1>0. /\ draft \in [Writer -> D!Draft] /\ begun \in Nat /\ begun' \in Nat
      /\ \A v \in Writer : draft[v].interview \in Nat /\ draft[v].interview <= begun
      /\ \A v, w \in Writer : draft[v].interview = draft[w].interview => v = w \/ draft[v] = D!NoDraft
      /\ \A v \in Writer : draft[v] # D!NoDraft => draft[v].interview # 0
      /\ \A x \in Call, v \in Writer : Creating(x, v) => creating[x].read.interview \in 1 .. begun
      /\ \A x \in Call : creating[x].read \in D!Draft
  <2>1. /\ draft \in [Writer -> D!Draft] /\ begun \in Nat /\ begun' \in Nat
        /\ \A v, w \in Writer : draft[v].interview = draft[w].interview => v = w \/ draft[v] = D!NoDraft
        /\ \A v \in Writer : draft[v].interview <= begun
        /\ \A x \in Call : creating[x].read \in D!Draft
    BY ServicesAssumption DEF D!TypeOK
  <2>2. \A v \in Writer : draft[v].interview \in Nat
    BY <2>1 DEF D!Draft
  <2>3. \A x \in Call, v \in Writer : Creating(x, v) => creating[x].read.interview \in 1 .. begun
    BY DEF InterviewsAreOwned, Creating
  <2> QED
    BY <2>1, <2>2, <2>3 DEF InterviewsAreOwned
<1>1. \A v \in Writer : draft'[v] # D!NoDraft => draft'[v].interview # 0
  BY <1>0
<1>2. \A v \in Writer \ {u} : draft'[v] = D!NoDraft \/ draft'[v] = draft[v]
  OBVIOUS
<1>3. D!TypeOK'
  <2>1. \A v \in Writer : draft'[v].interview <= begun'
    <3>1. CASE d.interview = begun + 1 /\ begun' = begun + 1
      BY <1>0, <1>2, <3>1
    <3>2. CASE d = D!NoDraft \/ d.interview = draft[u].interview
      BY <1>0, <1>2, <3>2
    <3> QED
      BY <3>1, <3>2
  <2>2. ASSUME NEW v \in Writer, NEW w \in Writer, draft'[v].interview = draft'[w].interview
        PROVE  v = w \/ draft'[v] = D!NoDraft
    <3>1. CASE d.interview = begun + 1
      BY <1>0, <1>2, <2>2, <3>1
    <3>2. CASE d = D!NoDraft \/ (d.interview = draft[u].interview /\ draft[u] # D!NoDraft)
      BY <1>0, <1>2, <2>2, <3>2
    <3> QED
      BY <3>1, <3>2
  <2>3. /\ \A i \in D!Interview : made'[i] > 0 => i <= begun'
        /\ other' \subseteq D!Interview
        /\ made' \in [D!Interview -> Nat]
        /\ creating' \in [Call -> [for : {{}} \cup {{v} : v \in Writer}, read : D!Draft]]
    <3>1. \A i \in D!Interview : made[i] > 0 => i <= begun'
      BY <1>0, ServicesAssumption DEF D!TypeOK, D!Interview
    <3> QED
      BY <3>1 DEF D!TypeOK
  <2> QED
    BY <2>1, <2>2, <2>3 DEF D!TypeOK
<1>4. EveryoneHeard'
  BY <1>2 DEF EveryoneHeard, D!Complete
<1>5. D!OneJobPerInterview'
  BY DEF D!OneJobPerInterview
<1>6. InterviewsAreOwned'
  <2>1. ASSUME NEW x \in Call, NEW w \in Writer, NEW v \in Writer, Creating(x, w),
               draft'[v].interview = creating[x].read.interview
        PROVE  w = v
    <3>1. creating[x].read.interview \in 1 .. begun
      BY <1>0, <2>1
    <3>2. draft'[v].interview = draft[v].interview
      BY <1>0, <1>2, <2>1, <3>1
    <3> QED
      BY <2>1, <3>2 DEF InterviewsAreOwned
  <2>2. ASSUME NEW x \in Call, creating[x] # D!NoCreation PROVE creating[x].read.interview \in 1 .. begun'
    BY <1>0, <2>2 DEF InterviewsAreOwned
  <2> QED
    BY <1>1, <2>1, <2>2 DEF InterviewsAreOwned, Creating
<1>7. NothingIsLeft'
  <2> SUFFICES ASSUME NEW i \in D!Interview \ crossed', made[i] > 0, NEW v \in Writer, draft'[v].interview = i
               PROVE  FALSE
    BY DEF NothingIsLeft
  <2>1. i <= begun /\ i # 0
    BY DEF D!TypeOK, D!Interview
  <2>2. draft'[v].interview = draft[v].interview
    BY <1>0, <1>2, <2>1
  <2> QED
    BY <2>2 DEF NothingIsLeft
<1>8. NothingOvertook'
  <2> SUFFICES ASSUME NEW x \in Call, NEW v \in Writer, Creating(x, v), creating[x].read.interview \notin crossed'
               PROVE  D!SameAnswers(draft'[v], creating[x].read)
    BY DEF NothingOvertook, Creating, D!SameAnswers
  <2>1. D!SameAnswers(draft[v], creating[x].read)
    BY DEF NothingOvertook
  <2>2. CASE draft'[v] = D!NoDraft \/ draft'[v] = draft[v]
    BY <2>1, <2>2 DEF D!SameAnswers
  <2>3. CASE v = u /\ draft'[v] # D!NoDraft
    BY <1>0, <2>1, <2>3, SameAnswersIs
  <2> QED
    BY <1>2, <2>2, <2>3
<1> QED
  BY <1>3, <1>4, <1>5, <1>6, <1>7, <1>8

LEMMA DraftStarted ==
  ASSUME DraftsInv, NEW u \in Writer, NEW replace \in BOOLEAN, D!StartDraft(u, replace)
  PROVE  DraftsInv'
<1> USE NoDraftIs
<1>0. D!TypeOK /\ D!Swept \in [Writer -> D!Draft] /\ \A v \in Writer : D!Swept[v] \in {draft[v], D!NoDraft}
  BY SweptIs DEF DraftsInv
<1>1. CASE /\ D!Swept[u] # D!NoDraft
           /\ draft' = D!Swept
           /\ D!Put(D!Swept[u])
           /\ UNCHANGED <<usable, creating, begun, made, other, crossed>>
  <2>1. D!Swept[u] = draft[u] /\ draft[u] # D!NoDraft /\ draft[u] \in D!Draft
    BY <1>0, <1>1 DEF D!TypeOK
  <2>2. draft[u].interview \in D!Interview
    BY <1>0, <2>1, ServicesAssumption DEF DraftsInv, InterviewsAreOwned, D!Interview, D!Draft
  <2>3. /\ heard \subseteq heard' /\ heard' \subseteq D!Interview
        /\ D!Complete(draft[u]) \/ draft[u].refined => draft[u].interview \in heard'
    BY <1>1, <2>1, <2>2 DEF D!Put, DraftsInv, EveryoneHeard, D!TypeOK
  <2> QED
    BY <1>0, <1>1, <2>1, <2>3, DraftMoves, ServicesAssumption DEF D!TypeOK
<1>2. CASE /\ begun < MaxInterviews
           /\ begun' = begun + 1
           /\ draft' = [D!Swept EXCEPT ![u] = [D!NoDraft EXCEPT !.interview = begun + 1]]
           /\ D!CrossedBy(u, {})
           /\ UNCHANGED <<usable, creating, heard, made, other>>
  <2> DEFINE d == [D!NoDraft EXCEPT !.interview = begun + 1]
  <2>1. begun + 1 \in 1 .. MaxInterviews
    BY <1>0, <1>2, ServicesAssumption DEF D!TypeOK
  <2>2. d \in D!Draft /\ d.interview = begun + 1 /\ ~d.given /\ ~d.refined
    BY <2>1 DEF D!Draft
  <2> HIDE DEF d
  <2>3. ~D!Complete(d)
    BY <2>2 DEF D!Complete
  <2>4. draft' \in [Writer -> D!Draft] /\ draft'[u] = d /\ \A v \in Writer \ {u} : draft'[v] \in {draft[v], D!NoDraft}
    BY <1>0, <1>2, <2>2 DEF d
  <2>5. /\ crossed \subseteq crossed' /\ crossed' \subseteq D!Interview
        /\ \A x \in Call : Creating(x, u) => creating[x].read.interview \in crossed'
    BY <1>0, <1>2, CrossedIs
  <2> QED
    BY <1>0, <1>2, <2>1, <2>2, <2>3, <2>4, <2>5, DraftMoves DEF D!TypeOK
<1> QED
  BY <1>1, <1>2 DEF D!StartDraft

LEMMA DraftUpdated ==
  ASSUME DraftsInv, NEW u \in Writer, NEW patch \in D!Patch, D!UpdateDraft(u, patch)
  PROVE  DraftsInv'
<1> USE NoDraftIs
<1> DEFINE next == D!Applied(D!Swept[u], patch)
<1>0. D!TypeOK /\ D!Swept \in [Writer -> D!Draft] /\ \A v \in Writer : D!Swept[v] \in {draft[v], D!NoDraft}
  BY SweptIs DEF DraftsInv
<1>1. /\ patch.channels = {"keep"} \/ patch.channels \subseteq usable
      /\ draft' = [D!Swept EXCEPT ![u] = next]
      /\ heard' = IF D!AsksToRefine(next) \/ patch.refines = "yes"
                  THEN heard \cup {next.interview} ELSE heard
      /\ D!CrossedBy(u, {})
      /\ UNCHANGED <<usable, creating, begun, made, other>>
      /\ D!Swept[u] # D!NoDraft
  BY DEF D!UpdateDraft
<1>2. D!Swept[u] = draft[u] /\ draft[u] # D!NoDraft /\ draft[u] \in D!Draft
  BY <1>0, <1>1 DEF D!TypeOK
<1>3. draft[u].interview \in D!Interview
  BY <1>0, <1>2, ServicesAssumption DEF DraftsInv, InterviewsAreOwned, D!Interview, D!Draft
<1>4. /\ next \in D!Draft /\ next.interview = draft[u].interview
      /\ next.refined = (draft[u].refined \/ D!Refines(draft[u], patch))
  <2>1. patch.channels = {"keep"} \/ patch.channels \subseteq Channel
    BY <1>0, <1>1 DEF D!TypeOK
  <2>2. D!Refines(draft[u], patch) \in BOOLEAN
    BY DEF D!Refines, D!Complete
  <2>3. next \in D!Draft
    BY <1>2, <2>1, <2>2 DEF D!Applied, D!Draft
  <2>4. next.interview = draft[u].interview
    BY <1>2 DEF D!Applied, D!Draft
  <2>5. next.refined = (draft[u].refined \/ D!Refines(draft[u], patch))
    BY <1>2 DEF D!Applied, D!Draft
  <2> QED
    BY <2>3, <2>4, <2>5
<1> HIDE DEF next
<1>5. draft' \in [Writer -> D!Draft] /\ draft'[u] = next /\ \A v \in Writer \ {u} : draft'[v] \in {draft[v], D!NoDraft}
  BY <1>0, <1>1, <1>4
<1>6. /\ crossed \subseteq crossed' /\ crossed' \subseteq D!Interview
      /\ \A x \in Call : Creating(x, u) => creating[x].read.interview \in crossed'
  BY <1>0, <1>1, CrossedIs
<1>7. heard \subseteq heard' /\ heard' \subseteq D!Interview
  BY <1>0, <1>1, <1>3, <1>4 DEF D!TypeOK
<1>8. ASSUME D!Complete(next) \/ next.refined PROVE next.interview \in heard'
  <2>1. CASE draft[u].refined \/ D!Complete(draft[u])
    BY <1>4, <1>7, <2>1 DEF DraftsInv, EveryoneHeard
  <2>2. CASE next.refined /\ ~draft[u].refined /\ ~D!Complete(draft[u])
    BY <1>1, <1>4, <2>2 DEF D!Refines
  <2>3. CASE D!Complete(next) /\ ~next.refined
    BY <1>1, <2>3 DEF D!AsksToRefine
  <2> QED
    BY <1>8, <2>1, <2>2, <2>3
<1> QED
  BY <1>0, <1>1, <1>2, <1>4, <1>5, <1>6, <1>7, <1>8, DraftMoves, ServicesAssumption DEF D!TypeOK

LEMMA DraftRefused ==
  ASSUME DraftsInv, NEW u \in Writer, D!RefuseUpdate(u)
  PROVE  DraftsInv'
<1>1. D!StartDraft(u, FALSE)
  BY DEF D!StartDraft, D!RefuseUpdate
<1> QED
  BY <1>1, DraftStarted

LEMMA DraftDiscarded ==
  ASSUME DraftsInv, NEW u \in Writer, D!DiscardDraft(u)
  PROVE  DraftsInv'
<1> USE NoDraftIs
<1>0. D!TypeOK /\ D!Swept \in [Writer -> D!Draft] /\ \A v \in Writer : D!Swept[v] \in {draft[v], D!NoDraft}
  BY SweptIs DEF DraftsInv
<1>1. /\ draft' \in [Writer -> D!Draft] /\ draft'[u] = D!NoDraft
      /\ \A v \in Writer \ {u} : draft'[v] \in {draft[v], D!NoDraft}
  BY <1>0 DEF D!DiscardDraft
<1>2. crossed \subseteq crossed' /\ crossed' \subseteq D!Interview
  BY <1>0, CrossedIs DEF D!DiscardDraft
<1> QED
  BY <1>0, <1>1, <1>2, DraftMoves, ServicesAssumption DEF D!TypeOK, D!DiscardDraft

LEMMA DraftRunsOut ==
  ASSUME DraftsInv, NEW u \in Writer, D!RunOut(u)
  PROVE  DraftsInv'
<1> USE NoDraftIs
<1> DEFINE d == [draft[u] EXCEPT !.late = TRUE]
<1>0. D!TypeOK /\ draft[u] \in D!Draft /\ draft \in [Writer -> D!Draft]
  BY DEF DraftsInv, D!TypeOK
<1>1. /\ d \in D!Draft /\ d.interview = draft[u].interview /\ d.given = draft[u].given
      /\ d.channels = draft[u].channels /\ d.refined = draft[u].refined
  BY <1>0 DEF D!Draft
<1>2. draft' = [draft EXCEPT ![u] = d] /\ draft[u] # D!NoDraft
      /\ UNCHANGED <<usable, creating, begun, heard, made, other, crossed>>
  BY <1>0 DEF D!RunOut
<1> HIDE DEF d
<1>3. draft' \in [Writer -> D!Draft] /\ draft'[u] = d /\ \A v \in Writer \ {u} : draft'[v] = draft[v]
  BY <1>0, <1>1, <1>2
<1>4. D!Complete(d) \/ d.refined => d.interview \in heard
  BY <1>0, <1>1 DEF DraftsInv, EveryoneHeard, D!Complete
<1> QED
  BY <1>0, <1>1, <1>2, <1>3, <1>4, DraftMoves, ServicesAssumption DEF D!TypeOK

(* A creation takes the draft as it stands.                                 *)
LEMMA DraftRead ==
  ASSUME DraftsInv, NEW x \in Call, NEW u \in Writer, D!ReadDraft(x, u)
  PROVE  DraftsInv'
<1> USE NoDraftIs
<1>0. D!TypeOK /\ D!Swept \in [Writer -> D!Draft] /\ \A v \in Writer : D!Swept[v] \in {draft[v], D!NoDraft}
  BY SweptIs DEF DraftsInv
<1> DEFINE c == [for |-> {u}, read |-> D!Swept[u]]
<1>1. /\ creating[x] = D!NoCreation /\ D!Swept[u] # D!NoDraft
      /\ draft' = D!Swept
      /\ creating' = [creating EXCEPT ![x] = c]
      /\ UNCHANGED <<usable, begun, heard, made, other, crossed>>
  BY DEF D!ReadDraft
<1>2. D!Swept[u] = draft[u] /\ draft[u] # D!NoDraft /\ draft[u] \in D!Draft
  BY <1>0, <1>1 DEF D!TypeOK
<1>3. draft[u].interview \in 1 .. begun
  BY <1>0, <1>2, ServicesAssumption DEF DraftsInv, InterviewsAreOwned, D!TypeOK, D!Draft
<1>4. \A y \in Call \ {x} : creating'[y] = creating[y]
  BY <1>0, <1>1 DEF D!TypeOK
<1>5. creating'[x].for = {u} /\ creating'[x].read = draft[u]
  BY <1>0, <1>1, <1>2 DEF D!TypeOK
<1>6. \A v \in Writer : draft'[v] \in {draft[v], D!NoDraft}
  BY <1>0, <1>1
<1>7. draft'[u] = draft[u]
  BY <1>1, <1>2
<1>8. D!TypeOK'
  <2>1. creating' \in [Call -> [for : {{}} \cup {{v} : v \in Writer}, read : D!Draft]]
    BY <1>0, <1>1, <1>2 DEF D!TypeOK
  <2>2. /\ draft' \in [Writer -> D!Draft]
        /\ \A v \in Writer : draft'[v].interview <= begun'
    BY <1>0, <1>1, <1>6, ServicesAssumption DEF D!TypeOK
  <2>3. \A v, w \in Writer : draft'[v].interview = draft'[w].interview => v = w \/ draft'[v] = D!NoDraft
    <3>1. \A v \in Writer : draft[v] = D!NoDraft \/ draft[v].interview # 0
      BY DEF DraftsInv, InterviewsAreOwned
    <3> QED
      BY <1>0, <1>6, <3>1 DEF D!TypeOK
  <2> QED
    BY <1>0, <1>1, <2>1, <2>2, <2>3 DEF D!TypeOK
<1>9. EveryoneHeard' /\ D!OneJobPerInterview'
  BY <1>1, <1>6 DEF DraftsInv, EveryoneHeard, D!OneJobPerInterview, D!Complete
<1>10. InterviewsAreOwned'
  <2>1. \A v \in Writer : draft'[v] # D!NoDraft => draft'[v].interview # 0
    BY <1>6 DEF DraftsInv, InterviewsAreOwned
  <2>2. \A y \in Call : creating'[y] = D!NoCreation
                        \/ /\ \E v \in Writer : Creating(y, v)'
                           /\ creating'[y].read.interview \in 1 .. begun'
    <3>1. Creating(x, u)' /\ creating'[x].read.interview \in 1 .. begun'
      BY <1>1, <1>3, <1>5 DEF Creating
    <3>2. ASSUME NEW y \in Call \ {x}, creating[y] # D!NoCreation
          PROVE  (\E v \in Writer : Creating(y, v)') /\ creating'[y].read.interview \in 1 .. begun'
      BY <1>1, <1>4, <3>2 DEF DraftsInv, InterviewsAreOwned, Creating
    <3> QED
      BY <1>4, <3>1, <3>2 DEF Creating
  <2>3. \A y \in Call, v \in Writer : Creating(y, v) => creating[y].read.interview \in 1 .. begun
    BY DEF Creating, DraftsInv, InterviewsAreOwned
  <2>4. ASSUME NEW y \in Call, NEW w \in Writer, NEW v \in Writer, Creating(y, w)',
               draft'[v].interview = creating'[y].read.interview
        PROVE  w = v
    <3>1. CASE y = x
      <4>1. w = u /\ draft'[v].interview = draft[u].interview
        BY <1>5, <2>4, <3>1 DEF Creating
      <4>2. draft'[v] = draft[v]
        BY <1>3, <1>6, <4>1
      <4> QED
        BY <1>0, <1>2, <4>1, <4>2 DEF D!TypeOK
    <3>2. CASE y # x
      <4>1. Creating(y, w) /\ creating'[y] = creating[y] /\ creating[y].read.interview \in 1 .. begun
        BY <1>4, <2>3, <2>4, <3>2 DEF Creating
      <4>2. draft'[v] = draft[v]
        BY <1>6, <2>4, <4>1
      <4> QED
        BY <2>4, <4>1, <4>2 DEF DraftsInv, InterviewsAreOwned
    <3> QED
      BY <3>1, <3>2
  <2>5. ASSUME NEW y \in Call, NEW z \in Call, NEW w \in Writer, NEW v \in Writer, Creating(y, w)', Creating(z, v)',
               creating'[y].read.interview = creating'[z].read.interview
        PROVE  w = v
    <3>1. CASE y = x /\ z = x
      BY <1>5, <2>5, <3>1 DEF Creating
    <3>2. CASE y = x /\ z # x
      BY <1>4, <1>5, <2>5, <3>2 DEF Creating, DraftsInv, InterviewsAreOwned
    <3>3. CASE y # x /\ z = x
      BY <1>4, <1>5, <2>5, <3>3 DEF Creating, DraftsInv, InterviewsAreOwned
    <3>4. CASE y # x /\ z # x
      BY <1>4, <2>5, <3>4 DEF Creating, DraftsInv, InterviewsAreOwned
    <3> QED
      BY <3>1, <3>2, <3>3, <3>4
  <2> QED
    BY <2>1, <2>2, <2>4, <2>5 DEF InterviewsAreOwned
<1>11. NothingIsLeft'
  <2> SUFFICES ASSUME NEW i \in D!Interview \ crossed, made[i] > 0
               PROVE  /\ \A v \in Writer : draft'[v].interview # i
                      /\ \A y \in Call : creating'[y].read.interview # i
    BY <1>1 DEF NothingIsLeft
  <2>1. /\ \A v \in Writer : draft[v].interview # i
        /\ \A y \in Call : creating[y].read.interview # i
        /\ i # 0
    BY ServicesAssumption DEF DraftsInv, NothingIsLeft, D!Interview
  <2> QED
    BY <1>4, <1>5, <1>6, <2>1
<1>12. NothingOvertook'
  <2> SUFFICES ASSUME NEW y \in Call, NEW v \in Writer, Creating(y, v)', creating'[y].read.interview \notin crossed
               PROVE  D!SameAnswers(draft'[v], creating'[y].read)
    BY <1>1 DEF NothingOvertook, Creating, D!SameAnswers
  <2>1. CASE y = x
    BY <1>2, <1>5, <1>7, <2>1, SameAnswersIs DEF Creating
  <2>2. CASE y # x
    <3>1. D!SameAnswers(draft[v], creating'[y].read)
      BY <1>4, <2>2 DEF DraftsInv, NothingOvertook, Creating
    <3> QED
      BY <1>6, <3>1 DEF D!SameAnswers
  <2> QED
    BY <2>1, <2>2
<1> QED
  BY <1>8, <1>9, <1>10, <1>11, <1>12 DEF DraftsInv

(* A creation saves what it read, if it still may, and the draft goes.      *)
LEMMA JobCreated ==
  ASSUME DraftsInv, NEW x \in Call, NEW u \in Writer, D!CreateJob(x, u)
  PROVE  DraftsInv'
<1> USE NoDraftIs
<1> DEFINE d == creating[x].read
           i == d.interview
<1>0. D!TypeOK /\ D!Swept \in [Writer -> D!Draft] /\ \A v \in Writer : D!Swept[v] \in {draft[v], D!NoDraft}
  BY SweptIs DEF DraftsInv
<1>1. /\ Creating(x, u)
      /\ creating' = [creating EXCEPT ![x] = D!NoCreation]
      /\ UNCHANGED <<usable, begun, heard>>
      /\ \/ UNCHANGED <<made, other, draft, crossed>>
         \/ /\ made' = [made EXCEPT ![i] = @ + 1]
            /\ other' = IF D!SameAnswers(draft[u], d) THEN other ELSE other \cup {i}
            /\ draft' = [D!Swept EXCEPT ![u] = D!NoDraft]
            /\ D!CrossedBy(u, {x})
  BY DEF D!CreateJob, Creating
<1>2. creating'[x] = D!NoCreation /\ \A y \in Call \ {x} : creating'[y] = creating[y]
  BY <1>0, <1>1 DEF D!TypeOK
<1>3. d \in D!Draft /\ i \in 1 .. begun /\ i \in D!Interview
  <2>1. d \in D!Draft /\ i \in 1 .. begun
    BY <1>1 DEF DraftsInv, InterviewsAreOwned, Creating, D!TypeOK
  <2> QED
    BY <1>0, <2>1, ServicesAssumption DEF D!TypeOK, D!Interview
<1>4. \A v \in Writer : draft'[v] \in {draft[v], D!NoDraft}
  BY <1>0, <1>1 DEF D!TypeOK
<1>5. crossed \subseteq crossed' /\ crossed' \subseteq D!Interview
  BY <1>0, <1>1, CrossedIs DEF D!TypeOK
<1>6. \A y \in Call, v \in Writer : Creating(y, v)' => Creating(y, v) /\ creating'[y] = creating[y]
  BY <1>2 DEF Creating
<1>7. D!TypeOK'
  <2>1. creating' \in [Call -> [for : {{}} \cup {{v} : v \in Writer}, read : D!Draft]]
    <3>1. D!NoCreation \in [for : {{}} \cup {{v} : v \in Writer}, read : D!Draft]
      BY DEF D!NoCreation
    <3> QED
      BY <1>0, <1>1, <3>1 DEF D!TypeOK
  <2>2. /\ draft' \in [Writer -> D!Draft]
        /\ \A v \in Writer : draft'[v].interview <= begun'
    BY <1>0, <1>1, <1>4, ServicesAssumption, SMTT(30) DEF D!TypeOK
  <2>3. \A v, w \in Writer : draft'[v].interview = draft'[w].interview => v = w \/ draft'[v] = D!NoDraft
    <3>1. \A v \in Writer : draft[v] = D!NoDraft \/ draft[v].interview # 0
      BY DEF DraftsInv, InterviewsAreOwned
    <3> QED
      BY <1>0, <1>4, <3>1 DEF D!TypeOK
  <2>4. made' \in [D!Interview -> Nat] /\ \A j \in D!Interview : made'[j] > 0 => j <= begun'
    BY <1>0, <1>1, <1>3 DEF D!TypeOK
  <2>5. other' \subseteq D!Interview
    BY <1>0, <1>1, <1>3 DEF D!TypeOK
  <2> QED
    BY <1>0, <1>1, <1>5, <2>1, <2>2, <2>3, <2>4, <2>5 DEF D!TypeOK
<1>8. EveryoneHeard'
  BY <1>1, <1>4 DEF DraftsInv, EveryoneHeard, D!Complete
<1>9. InterviewsAreOwned'
  <2>1. \A v \in Writer : draft'[v] # D!NoDraft => draft'[v].interview # 0
    BY <1>4 DEF DraftsInv, InterviewsAreOwned
  <2>2. \A y \in Call : creating'[y] = D!NoCreation
                        \/ /\ \E v \in Writer : Creating(y, v)'
                           /\ creating'[y].read.interview \in 1 .. begun'
    <3>1. ASSUME NEW y \in Call \ {x}, creating[y] # D!NoCreation
          PROVE  (\E v \in Writer : Creating(y, v)') /\ creating'[y].read.interview \in 1 .. begun'
      BY <1>1, <1>2, <3>1 DEF DraftsInv, InterviewsAreOwned, Creating
    <3> QED
      BY <1>2, <3>1 DEF Creating
  <2>3. ASSUME NEW y \in Call, NEW w \in Writer, NEW v \in Writer, Creating(y, w)',
               draft'[v].interview = creating'[y].read.interview
        PROVE  w = v
    <3>1. Creating(y, w) /\ creating'[y] = creating[y]
      BY <1>6, <2>3
    <3>2. creating[y].read.interview \in 1 .. begun
      BY <3>1 DEF Creating, DraftsInv, InterviewsAreOwned
    <3>3. draft'[v] = draft[v]
      BY <1>4, <2>3, <3>1, <3>2
    <3> QED
      BY <2>3, <3>1, <3>3 DEF DraftsInv, InterviewsAreOwned
  <2>4. \A y, z \in Call, w, v \in Writer :
          Creating(y, w)' /\ Creating(z, v)' /\ creating'[y].read.interview = creating'[z].read.interview => w = v
    BY <1>6 DEF DraftsInv, InterviewsAreOwned
  <2> QED
    BY <2>1, <2>2, <2>3, <2>4 DEF InterviewsAreOwned
<1>10. \A j \in D!Interview \ crossed' : /\ j # i => made'[j] = made[j]
                                         /\ made'[i] > 0 /\ i \notin crossed' => made'[i] = 1 \/ UNCHANGED <<made, draft>>
                                         /\ j \notin crossed /\ j # 0
  <2>1. i \notin crossed => made[i] = 0
    BY <1>3, <1>0 DEF DraftsInv, NothingIsLeft, D!TypeOK
  <2>2. made' = [made EXCEPT ![i] = @ + 1] \/ UNCHANGED <<made, draft>>
    BY <1>1
  <2>3. made \in [D!Interview -> Nat] /\ 0 \notin D!Interview
    BY <1>0 DEF D!TypeOK, D!Interview
  <2> HIDE DEF d, i
  <2>4. \A j \in D!Interview : j # i => made'[j] = made[j]
    BY <2>2, <2>3
  <2>5. made'[i] > 0 /\ i \notin crossed' => made'[i] = 1 \/ UNCHANGED <<made, draft>>
    BY <1>3, <1>5, <2>1, <2>2, <2>3
  <2> QED
    BY <1>5, <2>3, <2>4, <2>5
<1>11. NothingIsLeft'
  <2> SUFFICES ASSUME NEW j \in D!Interview \ crossed', made'[j] > 0
               PROVE  /\ \A v \in Writer : draft'[v].interview # j
                      /\ \A y \in Call : creating'[y].read.interview # j
    BY DEF NothingIsLeft
  <2>1. CASE made[j] > 0
    <3>1. /\ \A v \in Writer : draft[v].interview # j
          /\ \A y \in Call : creating[y].read.interview # j
          /\ j # 0
      BY <1>10, <2>1 DEF DraftsInv, NothingIsLeft
    <3> QED
      BY <1>2, <1>4, <3>1
  <2>2. CASE ~(made[j] > 0)
    <3>1. j = i /\ draft' = [D!Swept EXCEPT ![u] = D!NoDraft] /\ D!CrossedBy(u, {x})
      BY <1>1, <1>10, <2>2
    <3>2. ASSUME NEW v \in Writer, draft'[v].interview = i PROVE FALSE
      <4>1. draft'[v] = draft[v] /\ v # u
        BY <1>0, <1>3, <1>4, <3>1, <3>2
      <4> QED
        BY <1>1, <3>2, <4>1 DEF DraftsInv, InterviewsAreOwned
    <3>3. ASSUME NEW y \in Call, creating'[y].read.interview = i PROVE FALSE
      <4>1. y # x /\ creating'[y] = creating[y] /\ creating[y] # D!NoCreation
        BY <1>2, <1>3, <3>3
      <4>2. PICK v \in Writer : Creating(y, v)
        BY <4>1 DEF DraftsInv, InterviewsAreOwned
      <4>3. v = u
        BY <1>1, <3>3, <4>1, <4>2 DEF DraftsInv, InterviewsAreOwned
      <4>4. i \in crossed'
        BY <3>1, <3>3, <4>1, <4>2, <4>3, CrossedIs
      <4> QED
        BY <3>1, <4>4
    <3> QED
      BY <3>1, <3>2, <3>3
  <2> QED
    BY <2>1, <2>2
<1>12. D!OneJobPerInterview'
  <2> SUFFICES ASSUME NEW j \in D!Interview \ crossed' PROVE made'[j] <= 1 /\ j \notin other'
    BY DEF D!OneJobPerInterview
  <2>1. made[j] <= 1 /\ j \notin other /\ made[j] \in Nat
    BY <1>0, <1>5 DEF DraftsInv, D!OneJobPerInterview, D!TypeOK
  <2>2. CASE j # i
    BY <1>1, <1>10, <2>1, <2>2
  <2>3. CASE j = i
    <3>1. D!SameAnswers(draft[u], d)
      BY <1>1, <1>5, <2>3 DEF DraftsInv, NothingOvertook
    <3>2. made[i] = 0
      BY <1>3, <1>5, <2>1, <2>3 DEF DraftsInv, NothingIsLeft
    <3> QED
      BY <1>0, <1>1, <1>3, <2>1, <2>3, <3>1, <3>2 DEF D!TypeOK
  <2> QED
    BY <2>2, <2>3
<1>13. NothingOvertook'
  <2> SUFFICES ASSUME NEW y \in Call, NEW v \in Writer, Creating(y, v)', creating'[y].read.interview \notin crossed'
               PROVE  D!SameAnswers(draft'[v], creating'[y].read)
    BY DEF NothingOvertook, Creating, D!SameAnswers
  <2>1. D!SameAnswers(draft[v], creating'[y].read)
    BY <1>5, <1>6 DEF DraftsInv, NothingOvertook
  <2> QED
    BY <1>4, <2>1 DEF D!SameAnswers
<1> QED
  BY <1>7, <1>8, <1>9, <1>11, <1>12, <1>13 DEF DraftsInv

LEMMA ServerRestarts ==
  ASSUME DraftsInv, D!Restart
  PROVE  DraftsInv'
<1> USE NoDraftIs DEF D!Restart
<1>1. D!TypeOK'
  <2>1. D!NoCreation \in [for : {{}} \cup {{v} : v \in Writer}, read : D!Draft]
    BY DEF D!NoCreation
  <2>2. begun \in Nat /\ begun >= 0
    BY ServicesAssumption DEF DraftsInv, D!TypeOK
  <2> QED
    BY <2>1, <2>2 DEF D!TypeOK, DraftsInv
<1>2. EveryoneHeard' /\ D!OneJobPerInterview'
  BY DEF DraftsInv, EveryoneHeard, D!OneJobPerInterview
<1>3. InterviewsAreOwned' /\ NothingOvertook'
  BY DEF InterviewsAreOwned, NothingOvertook, Creating
<1>4. NothingIsLeft'
  BY ServicesAssumption DEF NothingIsLeft, D!Interview
<1> QED
  BY <1>1, <1>2, <1>3, <1>4 DEF DraftsInv

LEMMA DraftsStep ==
  ASSUME DraftsInv, [D!Next]_draftsVars
  PROVE  DraftsInv'
<1>1. ASSUME NEW u \in Writer, NEW replace \in BOOLEAN, D!StartDraft(u, replace) PROVE DraftsInv'
  BY <1>1, DraftStarted
<1>2. ASSUME NEW u \in Writer, NEW patch \in D!Patch, D!UpdateDraft(u, patch) PROVE DraftsInv'
  BY <1>2, DraftUpdated
<1>3. ASSUME NEW u \in Writer, D!RefuseUpdate(u) \/ D!DiscardDraft(u) \/ D!RunOut(u) PROVE DraftsInv'
  BY <1>3, DraftRefused, DraftDiscarded, DraftRunsOut
<1>4. ASSUME NEW x \in Call, NEW u \in Writer, D!ReadDraft(x, u) \/ D!CreateJob(x, u) PROVE DraftsInv'
  BY <1>4, DraftRead, JobCreated
<1>5. CASE UNCHANGED <<draft, creating, begun, heard, made, other, crossed>> /\ usable' \subseteq Channel
  <2>1. D!TypeOK'
    BY <1>5 DEF DraftsInv, D!TypeOK
  <2>2. EveryoneHeard' /\ D!OneJobPerInterview'
    BY <1>5 DEF DraftsInv, EveryoneHeard, D!OneJobPerInterview
  <2>3. InterviewsAreOwned' /\ NothingIsLeft' /\ NothingOvertook'
    BY <1>5 DEF DraftsInv, InterviewsAreOwned, NothingIsLeft, NothingOvertook, Creating, D!SameAnswers
  <2> QED
    BY <2>1, <2>2, <2>3 DEF DraftsInv
<1>6. ASSUME NEW c \in Channel, D!FlipChannel(c) PROVE DraftsInv'
  BY <1>5, <1>6 DEF D!FlipChannel, DraftsInv, D!TypeOK
<1>7. CASE D!Restart
  BY <1>7, ServerRestarts
<1>8. CASE UNCHANGED draftsVars
  BY <1>5, <1>8 DEF draftsVars, DraftsInv, D!TypeOK
<1> QED
  BY <1>1, <1>2, <1>3, <1>4, <1>6, <1>7, <1>8 DEF D!Next

(* In whatever order the answers come and however many creations wait side  *)
(* by side, no interview is ready before its user heard of the refinements, *)
(* and each makes one job of its answers, unless it was crossed.            *)
THEOREM DraftsStaySound == Spec => []DraftsSound
<1> DEFINE Inv == part = "drafts" => DraftsInv
<1>1. Init => Inv
  BY DraftsInit DEF Init
<1>2. Inv /\ [Next]_vars => Inv'
  BY PartsApart, DraftsStep
<1>3. Inv => DraftsSound
  BY DEF DraftsSound, DraftsInv, EveryoneHeard, D!ReadyMeansAsked, D!Ready
<1> QED
  BY <1>1, <1>2, <1>3, PTL DEF Spec

-----------------------------------------------------------------------------
(***************************************************************************)
(* OAuthGrants.  One refresh token per consent rests on two facts: a code  *)
(* is redeemed once, so that a family is a consent (FamiliesAreConsents),  *)
(* and the only token of a family that is good is its newest (LastIsLive). *)
(* The second also says why whoever can call is listed: what is issued     *)
(* first runs out first, so a family with a young access token has a       *)
(* refresh token that has not run out (FamilyIsListed).                    *)
(***************************************************************************)

GrantPair == [family : 0 .. MaxPairs, code : Id \cup {Nobody}, client : Call \cup {Nobody},
              holder : User \cup {Nobody}, age : O!Age, access : O!Row, refresh : O!Row]
GrantCode == [is : {"none", "pending", "late", "gone"}, client : Call \cup {Nobody}, holder : User \cup {Nobody}]

CodesAreGood ==
  \A k \in Id : code[k].is \in {"pending", "late"} =>
    code[k].holder \in holder /\ code[k].client \in Call /\ O!Registered(code[k].client)

FamiliesAreConsents ==
  /\ \A p \in 1 .. issued : /\ pair[p].code \in Id /\ code[pair[p].code].is = "gone"
                            /\ pair[p].client \in Call
  /\ \A p, q \in 1 .. issued :
       /\ pair[p].code = pair[q].code => pair[p].family = pair[q].family
       /\ pair[p].family = pair[q].family => /\ pair[p].code = pair[q].code
                                             /\ pair[p].client = pair[q].client
                                             /\ pair[p].holder = pair[q].holder

LastIsLive ==
  \A p, q \in 1 .. issued : pair[q].refresh = "live" /\ pair[p].family = pair[q].family => p <= q

FamilyIsListed ==
  \A p \in 1 .. issued : O!MayCall(p) =>
    \E q \in 1 .. issued : O!MayRefresh(q) /\ pair[q].family = pair[p].family

GrantsInv ==
  /\ O!TypeOK /\ O!EndedFamiliesStayEnded
  /\ CodesAreGood /\ FamiliesAreConsents /\ LastIsLive /\ FamilyIsListed

LEMMA NoPairIs ==
  /\ O!NoPair \in GrantPair /\ O!NoPair.family = 0 /\ O!NoPair.client = Nobody /\ O!NoPair.holder = Nobody
  /\ O!NoPair.access = "none" /\ O!NoPair.refresh = "none" /\ O!NoPair.age = "young"
  /\ O!NoPair.code = Nobody
  /\ O!NoCode \in GrantCode /\ O!NoCode.is = "none"
BY ServicesAssumption DEF O!NoPair, O!NoCode, GrantPair, GrantCode, O!Age, O!Row

(* The types by name, and what follows for the pairs that were issued.      *)
LEMMA GrantsTyped ==
  ASSUME O!TypeOK
  PROVE  /\ issued \in Nat /\ issued <= MaxPairs /\ MaxPairs \in Nat
         /\ \A p \in 1 .. issued : p \in O!Pair /\ pair[p].family \in 1 .. p
         /\ \A p \in O!Pair : p \in 1 .. issued \/ (p > issued /\ pair[p] = O!NoPair)
         /\ pair \in [O!Pair -> GrantPair] /\ code \in [Id -> GrantCode]
         /\ \A p \in O!Pair : {pair[p].access, pair[p].refresh} # {"none"} =>
              pair[p].holder \in holder /\ O!Registered(pair[p].client)
         /\ ended \subseteq 1 .. issued
<1>1. issued \in Nat /\ issued <= MaxPairs /\ MaxPairs \in Nat /\ ended \subseteq 1 .. issued
  BY ServicesAssumption DEF O!TypeOK
<1>2. pair \in [O!Pair -> GrantPair] /\ code \in [Id -> GrantCode]
  BY DEF O!TypeOK, GrantPair, GrantCode
<1>3. \A p \in 1 .. issued : p \in O!Pair /\ ~(p > issued)
  BY <1>1 DEF O!Pair
<1>4. \A p \in O!Pair : p \in 1 .. issued \/ p > issued
  BY <1>1 DEF O!Pair
<1>5. \A p \in O!Pair : IF p > issued THEN pair[p] = O!NoPair ELSE pair[p].family \in 1 .. p
  BY DEF O!TypeOK
<1>6. \A p \in O!Pair : {pair[p].access, pair[p].refresh} # {"none"} =>
        pair[p].holder \in holder /\ O!Registered(pair[p].client)
  BY DEF O!TypeOK, O!Registered
<1> QED
  BY <1>1, <1>2, <1>3, <1>4, <1>5, <1>6

LEMMA BothNone == \A a, b : {a, b} = {"none"} <=> a = "none" /\ b = "none"
<1> SUFFICES ASSUME NEW a, NEW b PROVE {a, b} = {"none"} <=> a = "none" /\ b = "none"
  OBVIOUS
<1>1. ASSUME {a, b} = {"none"} PROVE a = "none" /\ b = "none"
  <2>1. a \in {a, b} /\ b \in {a, b}
    OBVIOUS
  <2>2. a \in {"none"} /\ b \in {"none"}
    BY <1>1, <2>1
  <2> QED
    BY <2>2
<1> QED
  BY <1>1

LEMMA SamePair ==
  ASSUME NEW p \in GrantPair, NEW q \in GrantPair,
         p.family = q.family, p.code = q.code, p.client = q.client, p.holder = q.holder,
         p.age = q.age, p.access = q.access, p.refresh = q.refresh
  PROVE  p = q
BY DEF GrantPair

LEMMA GrantsInit == O!Init => GrantsInv
<1> SUFFICES ASSUME O!Init PROVE GrantsInv
  OBVIOUS
<1>1. O!TypeOK
  BY NoPairIs, ServicesAssumption DEF O!Init, O!TypeOK, GrantPair, GrantCode, O!Pair
<1>2. O!EndedFamiliesStayEnded /\ CodesAreGood
  BY NoPairIs DEF O!Init, O!EndedFamiliesStayEnded, CodesAreGood
<1>3. FamiliesAreConsents /\ LastIsLive /\ FamilyIsListed
  BY DEF O!Init, FamiliesAreConsents, LastIsLive, FamilyIsListed
<1> QED
  BY <1>1, <1>2, <1>3 DEF GrantsInv

(* Whatever issues no pair only takes away: rows are revoked or dropped,    *)
(* time passes, and what was used stays used.                               *)
LEMMA GrantsFade ==
  ASSUME GrantsInv, pair' \in [O!Pair -> GrantPair], code' \in [Id -> GrantCode], UNCHANGED issued,
         client' \in [Call -> {"unknown", "new", "settled", "dropped"}], holder' \subseteq User,
         \A p \in 1 .. issued :
           /\ pair'[p].family = pair[p].family /\ pair'[p].code = pair[p].code
           /\ pair'[p].client = pair[p].client /\ pair'[p].holder = pair[p].holder
           /\ pair'[p].access = "live" => pair[p].access = "live"
           /\ pair'[p].refresh = "live" => pair[p].refresh = "live"
           /\ pair'[p].age = "young" => pair[p].age = "young"
           /\ pair'[p].age # "expired" => pair[p].age # "expired"
           /\ {pair'[p].access, pair'[p].refresh} # {"none"} => pair'[p].holder \in holder' /\ client'[pair'[p].client] \in {"new", "settled"},
         \A p \in O!Pair : p > issued => pair'[p] = O!NoPair,
         \A k \in Id : code[k].is = "gone" => code'[k].is = "gone",
         CodesAreGood',
         \A p, q \in 1 .. issued :
           O!MayCall(p)' /\ O!MayRefresh(q) /\ pair[p].family = pair[q].family => O!MayRefresh(q)',
         ended' \subseteq 1 .. issued,
         \A p \in ended' \ ended : ~O!MayCall(p)' /\ ~O!MayRefresh(p)'
  PROVE  GrantsInv'
<1> USE NoPairIs, GrantsTyped DEF GrantsInv
<1>1. \A p \in 1 .. issued : (O!MayCall(p)' => O!MayCall(p)) /\ (O!MayRefresh(p)' => O!MayRefresh(p))
  BY DEF O!MayCall, O!MayRefresh
<1>2. O!TypeOK'
  <2>1. \A p \in O!Pair : IF p > issued' THEN pair'[p] = O!NoPair ELSE pair'[p].family \in 1 .. p
    <3>1. \A p \in O!Pair : ~(p > issued) => p \in 1 .. issued
      BY DEF O!Pair
    <3> QED
      BY <3>1
  <2>2. \A p \in O!Pair : {pair'[p].access, pair'[p].refresh} # {"none"} =>
          pair'[p].holder \in holder' /\ client'[pair'[p].client] \in {"new", "settled"}
    <3>1. \A p \in O!Pair : p \in 1 .. issued \/ pair'[p] = O!NoPair
      OBVIOUS
    <3>2. {O!NoPair.access, O!NoPair.refresh} = {"none"}
      OBVIOUS
    <3> QED
      BY <3>1, <3>2
  <2>3. /\ pair' \in [O!Pair -> [family : 0 .. MaxPairs, code : Id \cup {Nobody}, client : Call \cup {Nobody},
                        holder : User \cup {Nobody}, age : O!Age, access : O!Row, refresh : O!Row]]
        /\ code' \in [Id -> [is : {"none", "pending", "late", "gone"}, client : Call \cup {Nobody},
                        holder : User \cup {Nobody}]]
    BY DEF GrantPair, GrantCode
  <2> QED
    BY <2>1, <2>2, <2>3 DEF O!TypeOK
<1>3. O!EndedFamiliesStayEnded'
  BY <1>1 DEF O!EndedFamiliesStayEnded
<1>4. FamiliesAreConsents'
  BY DEF FamiliesAreConsents
<1>5. LastIsLive'
  BY DEF LastIsLive
<1>6. FamilyIsListed'
  <2> SUFFICES ASSUME NEW p \in 1 .. issued, O!MayCall(p)'
               PROVE  \E q \in 1 .. issued : O!MayRefresh(q)' /\ pair'[q].family = pair'[p].family
    BY DEF FamilyIsListed, O!MayCall, O!MayRefresh
  <2>1. PICK q \in 1 .. issued : O!MayRefresh(q) /\ pair[q].family = pair[p].family
    BY <1>1 DEF FamilyIsListed
  <2> QED
    BY <2>1
<1> QED
  BY <1>2, <1>3, <1>4, <1>5, <1>6

(* A pair is issued: for a code that was not redeemed, or in the family of  *)
(* the token it takes the place of.                                         *)
LEMMA PairIssued ==
  ASSUME GrantsInv, issued < MaxPairs, NEW n \in Nat, n = issued + 1, issued' = n,
         NEW k \in Id, NEW c \in Call, NEW u \in holder, NEW family \in 1 .. n,
         O!Registered(c), UNCHANGED <<holder, client, ended>>,
         pair' \in [O!Pair -> GrantPair], pair'[n] = O!NextPair(family, k, c, u),
         \A p \in O!Pair \ {n} :
           /\ pair'[p].family = pair[p].family /\ pair'[p].code = pair[p].code
           /\ pair'[p].client = pair[p].client /\ pair'[p].holder = pair[p].holder
           /\ pair'[p].age = pair[p].age /\ pair'[p].access = pair[p].access
           /\ pair'[p].refresh = pair[p].refresh
              \/ (pair[p].refresh = "live" /\ pair'[p].refresh = "revoked" /\ p \in 1 .. issued),
         \A p \in 1 .. issued : pair[p].family = family =>
           /\ pair[p].code = k /\ pair[p].client = c /\ pair[p].holder = u
           /\ pair'[p].refresh # "live",
         \A p \in 1 .. issued : pair[p].family # family =>
           pair[p].code # k /\ pair'[p].refresh = pair[p].refresh,
         code' \in [Id -> GrantCode], code'[k].is = "gone",
         \A j \in Id \ {k} : code'[j] = code[j]
  PROVE  GrantsInv'
<1> USE NoPairIs, GrantsTyped DEF GrantsInv
<1>1. /\ pair'[n].family = family /\ pair'[n].code = k /\ pair'[n].client = c /\ pair'[n].holder = u
      /\ pair'[n].age = "young" /\ pair'[n].access = "live" /\ pair'[n].refresh = "live"
  BY DEF O!NextPair
<1>2. /\ n \in O!Pair /\ n \in 1 .. issued' /\ n \notin 1 .. issued
      /\ \A p \in 1 .. issued' : p = n \/ p \in 1 .. issued
      /\ \A p \in 1 .. issued : p \in O!Pair \ {n} /\ p < n /\ p \in 1 .. issued'
  BY DEF O!Pair
<1>3. O!MayRefresh(n)' /\ O!MayCall(n)'
  BY <1>1 DEF O!MayRefresh, O!MayCall
<1>4. O!TypeOK'
  <2>1. \A p \in O!Pair : IF p > issued' THEN pair'[p] = O!NoPair ELSE pair'[p].family \in 1 .. p
    <3>1. ASSUME NEW p \in O!Pair, p > issued' PROVE pair'[p] = O!NoPair
      <4>1. p > issued /\ p # n /\ p \notin 1 .. issued /\ pair[p] = O!NoPair
        BY <3>1
      <4> QED
        BY <4>1, SamePair
    <3>2. ASSUME NEW p \in O!Pair, ~(p > issued') PROVE pair'[p].family \in 1 .. p
      <4>1. p = n \/ (p \in 1 .. issued /\ p # n)
        BY <3>2 DEF O!Pair
      <4> QED
        BY <1>1, <4>1
    <3> QED
      BY <3>1, <3>2
  <2>2. ASSUME NEW p \in O!Pair, {pair'[p].access, pair'[p].refresh} # {"none"}
        PROVE  pair'[p].holder \in holder' /\ client'[pair'[p].client] \in {"new", "settled"}
    <3>1. CASE p = n
      BY <1>1, <3>1 DEF O!Registered
    <3>2. CASE p # n
      <4>1. pair[p].access # "none" \/ pair[p].refresh # "none"
        BY <2>2, <3>2
      <4> QED
        <5>1. {pair[p].access, pair[p].refresh} # {"none"}
          BY ONLY <4>1, BothNone
        <5>2. pair[p].holder \in holder /\ client[pair[p].client] \in {"new", "settled"}
          BY <5>1 DEF O!TypeOK
        <5> QED
          BY <3>2, <5>2
    <3> QED
      BY <3>1, <3>2
  <2>3. /\ pair' \in [O!Pair -> [family : 0 .. MaxPairs, code : Id \cup {Nobody}, client : Call \cup {Nobody},
                        holder : User \cup {Nobody}, age : O!Age, access : O!Row, refresh : O!Row]]
        /\ code' \in [Id -> [is : {"none", "pending", "late", "gone"}, client : Call \cup {Nobody},
                        holder : User \cup {Nobody}]]
    BY DEF GrantPair, GrantCode
  <2>4. issued' \in 0 .. MaxPairs /\ ended' \subseteq 1 .. issued'
    OBVIOUS
  <2> QED
    BY <2>1, <2>2, <2>3, <2>4 DEF O!TypeOK
<1>5. O!EndedFamiliesStayEnded'
  BY <1>2 DEF O!EndedFamiliesStayEnded, O!MayCall, O!MayRefresh
<1>6. CodesAreGood'
  BY DEF CodesAreGood, O!Registered
<1>7. FamiliesAreConsents'
  <2>1. \A p \in 1 .. issued' : /\ pair'[p].code \in Id /\ code'[pair'[p].code].is = "gone"
                                /\ pair'[p].client \in Call
    BY <1>1, <1>2 DEF FamiliesAreConsents
  <2>2. ASSUME NEW p \in 1 .. issued', NEW q \in 1 .. issued'
        PROVE  /\ pair'[p].code = pair'[q].code => pair'[p].family = pair'[q].family
               /\ pair'[p].family = pair'[q].family => /\ pair'[p].code = pair'[q].code
                                                       /\ pair'[p].client = pair'[q].client
                                                       /\ pair'[p].holder = pair'[q].holder
    <3>1. CASE p = n /\ q = n
      BY <3>1
    <3>2. CASE p = n /\ q \in 1 .. issued
      BY <1>1, <1>2, <3>2
    <3>3. CASE p \in 1 .. issued /\ q = n
      BY <1>1, <1>2, <3>3
    <3>4. CASE p \in 1 .. issued /\ q \in 1 .. issued
      BY <1>2, <3>4 DEF FamiliesAreConsents
    <3> QED
      BY <1>2, <3>1, <3>2, <3>3, <3>4
  <2> QED
    BY <2>1, <2>2 DEF FamiliesAreConsents
<1>8. LastIsLive'
  <2> SUFFICES ASSUME NEW p \in 1 .. issued', NEW q \in 1 .. issued', pair'[q].refresh = "live",
                      pair'[p].family = pair'[q].family
               PROVE  p <= q
    BY DEF LastIsLive
  <2>1. CASE q = n
    BY <2>1
  <2>2. CASE q \in 1 .. issued
    <3>1. pair[q].family # family /\ p # n
      BY <1>1, <1>2, <2>2
    <3> QED
      BY <1>2, <2>2, <3>1 DEF LastIsLive
  <2> QED
    BY <1>2, <2>1, <2>2
<1>9. FamilyIsListed'
  <2> SUFFICES ASSUME NEW p \in 1 .. issued', O!MayCall(p)'
               PROVE  \E q \in 1 .. issued' : O!MayRefresh(q)' /\ pair'[q].family = pair'[p].family
    BY DEF FamilyIsListed, O!MayCall, O!MayRefresh
  <2>1. CASE pair'[p].family = family
    BY <1>1, <1>2, <1>3, <2>1
  <2>2. CASE pair'[p].family # family
    <3>1. p \in 1 .. issued /\ O!MayCall(p)
      BY <1>1, <1>2, <2>2 DEF O!MayCall
    <3>2. PICK q \in 1 .. issued : O!MayRefresh(q) /\ pair[q].family = pair[p].family
      BY <3>1 DEF FamilyIsListed
    <3>3. O!MayRefresh(q)' /\ pair'[q].family = pair'[p].family
      BY <1>2, <2>2, <3>1, <3>2 DEF O!MayRefresh
    <3> QED
      BY <1>2, <3>3
  <2> QED
    BY <2>1, <2>2
<1> QED
  BY <1>4, <1>5, <1>6, <1>7, <1>8, <1>9

LEMMA NextPairIs ==
  ASSUME NEW family \in 0 .. MaxPairs, NEW k \in Id, NEW c \in Call, NEW u \in User
  PROVE  O!NextPair(family, k, c, u) \in GrantPair
BY NoPairIs DEF O!NextPair, GrantPair, O!Age, O!Row

LEMMA CodeRedeemed ==
  ASSUME GrantsInv, NEW k \in Id, NEW c \in Call, O!RedeemAuthorizationCode(k, c)
  PROVE  GrantsInv'
<1> USE NoPairIs, GrantsTyped DEF GrantsInv
<1>1. PICK n \in Nat : n = issued + 1
  OBVIOUS
<1>2. PICK u : u = code[k].holder
  OBVIOUS
<1>3. PICK x : x = O!NextPair(n, k, c, u)
  OBVIOUS
<1>4. /\ issued < MaxPairs /\ issued' = n /\ code[k].is = "pending" /\ code[k].client = c
      /\ code' = [code EXCEPT ![k].is = "gone"]
      /\ pair' = [pair EXCEPT ![n] = x]
      /\ UNCHANGED <<holder, client, ended>>
  BY <1>1, <1>2, <1>3 DEF O!RedeemAuthorizationCode
<1>5. u \in holder /\ O!Registered(c) /\ u \in User /\ n \in O!Pair /\ n \in 0 .. MaxPairs /\ n \in 1 .. n
  <2>1. u \in holder /\ O!Registered(c) /\ u \in User
    BY <1>2, <1>4 DEF CodesAreGood, O!TypeOK
  <2>2. n \in O!Pair /\ n \in 0 .. MaxPairs /\ n \in 1 .. n
    BY <1>1, <1>4 DEF O!Pair
  <2> QED
    BY <2>1, <2>2
<1>6. x \in GrantPair
  BY <1>3, <1>5, NextPairIs
<1>7. /\ pair' \in [O!Pair -> GrantPair] /\ pair'[n] = x
      /\ \A p \in O!Pair \ {n} : pair'[p] = pair[p]
  BY <1>4, <1>5, <1>6
<1>8. /\ code' \in [Id -> GrantCode] /\ code'[k].is = "gone"
      /\ \A j \in Id \ {k} : code'[j] = code[j]
  BY <1>4 DEF GrantCode
<1>9. \A p \in 1 .. issued : p # n /\ p \in O!Pair /\ pair[p].family # n /\ pair[p].code # k
  BY <1>1, <1>4 DEF FamiliesAreConsents
<1> QED
  BY <1>1, <1>3, <1>4, <1>5, <1>7, <1>8, <1>9, PairIssued

LEMMA TokenRotated ==
  ASSUME GrantsInv, NEW p \in O!Pair, NEW c \in Call, O!Rotate(p, c)
  PROVE  GrantsInv'
<1> USE NoPairIs, GrantsTyped DEF GrantsInv
<1>1. PICK n \in Nat : n = issued + 1
  OBVIOUS
<1>2. PICK u, k, family : u = pair[p].holder /\ k = pair[p].code /\ family = pair[p].family
  OBVIOUS
<1>3. PICK x : x = O!NextPair(family, k, c, u)
  OBVIOUS
<1>4. PICK y : y = [pair[p] EXCEPT !.refresh = "revoked"]
  OBVIOUS
<1>5. p \in 1 .. issued /\ p # n /\ n \in O!Pair /\ n \in 0 .. MaxPairs
  BY <1>1 DEF O!Rotate, O!MayRefresh, O!Pair
<1>6. /\ issued < MaxPairs /\ issued' = n /\ O!MayRefresh(p) /\ pair[p].client = c
      /\ UNCHANGED <<holder, client, code, ended>>
      /\ pair' = [pair EXCEPT ![p] = y, ![n] = x]
  BY <1>1, <1>2, <1>3, <1>4, <1>5 DEF O!Rotate
<1>7. pair[p].refresh = "live" /\ {pair[p].access, pair[p].refresh} # {"none"}
  <2>1. pair[p].refresh = "live"
    BY <1>6 DEF O!MayRefresh
  <2> QED
    BY ONLY <2>1, BothNone
<1>8. /\ u \in holder /\ O!Registered(c) /\ u \in User /\ k \in Id /\ code[k].is = "gone"
      /\ family \in 0 .. MaxPairs /\ family \in 1 .. n
  <2>1. u \in holder /\ O!Registered(c)
    BY <1>2, <1>5, <1>6, <1>7
  <2>2. u \in User
    BY <2>1 DEF O!TypeOK
  <2>3. k \in Id /\ code[k].is = "gone"
    BY <1>2, <1>5 DEF FamiliesAreConsents
  <2>4. family \in 0 .. MaxPairs /\ family \in 1 .. n
    BY <1>1, <1>2, <1>5
  <2> QED
    BY <2>1, <2>2, <2>3, <2>4
<1>9. x \in GrantPair
  BY <1>3, <1>8, NextPairIs
<1>10. /\ y \in GrantPair /\ y.family = pair[p].family /\ y.code = pair[p].code /\ y.client = pair[p].client
       /\ y.holder = pair[p].holder /\ y.age = pair[p].age /\ y.access = pair[p].access /\ y.refresh = "revoked"
  BY <1>4 DEF GrantPair, O!Row
<1>11. /\ pair' \in [O!Pair -> GrantPair] /\ pair'[n] = x /\ pair'[p] = y
       /\ \A q \in O!Pair \ {n, p} : pair'[q] = pair[q]
  BY <1>5, <1>6, <1>9, <1>10
<1>12. \A q \in 1 .. issued : q \in O!Pair /\ q # n
  BY <1>1
<1>13. ASSUME NEW q \in 1 .. issued, pair[q].family = family
       PROVE  pair[q].code = k /\ pair[q].client = c /\ pair[q].holder = u /\ pair'[q].refresh # "live"
  <2>1. pair[q].code = k /\ pair[q].client = c /\ pair[q].holder = u
    BY <1>2, <1>5, <1>6, <1>13 DEF FamiliesAreConsents
  <2>2. pair'[q].refresh # "live"
    <3>1. CASE q = p
      BY <1>10, <1>11, <3>1
    <3>2. CASE q # p
      <4>1. q <= p
        BY <1>2, <1>5, <1>7, <1>13 DEF LastIsLive
      <4>2. pair[q].refresh = "live" => p <= q
        BY <1>2, <1>5, <1>13 DEF LastIsLive
      <4> QED
        BY <1>5, <1>11, <1>12, <3>2, <4>1, <4>2
    <3> QED
      BY <3>1, <3>2
  <2> QED
    BY <2>1, <2>2
<1>14. ASSUME NEW q \in 1 .. issued, pair[q].family # family
       PROVE  pair[q].code # k /\ pair'[q].refresh = pair[q].refresh
  BY <1>2, <1>5, <1>11, <1>12, <1>14 DEF FamiliesAreConsents
<1>15. \A q \in O!Pair \ {n} :
         /\ pair'[q].family = pair[q].family /\ pair'[q].code = pair[q].code
         /\ pair'[q].client = pair[q].client /\ pair'[q].holder = pair[q].holder
         /\ pair'[q].age = pair[q].age /\ pair'[q].access = pair[q].access
         /\ pair'[q].refresh = pair[q].refresh
            \/ (pair[q].refresh = "live" /\ pair'[q].refresh = "revoked" /\ q \in 1 .. issued)
  BY <1>5, <1>7, <1>10, <1>11
<1>16. \A j \in Id \ {k} : code'[j] = code[j]
  BY <1>6
<1>17. code' \in [Id -> GrantCode] /\ code'[k].is = "gone"
  BY <1>6, <1>8
<1> QED
  BY <1>1, <1>3, <1>6, <1>8, <1>11, <1>13, <1>14, <1>15, <1>16, <1>17, PairIssued, SMTT(30)

(* revokeFamilies takes whole families.                                     *)
LEMMA RevokedIs ==
  ASSUME GrantsInv, NEW families \in SUBSET (1 .. MaxPairs), pair' = O!Revoked(families)
  PROVE  /\ pair' \in [O!Pair -> GrantPair]
         /\ \A p \in 1 .. issued :
              /\ pair'[p].family = pair[p].family /\ pair'[p].code = pair[p].code
              /\ pair'[p].client = pair[p].client /\ pair'[p].holder = pair[p].holder
              /\ pair'[p].age = pair[p].age
              /\ pair[p].family \in families => pair'[p].access # "live" /\ pair'[p].refresh # "live"
              /\ pair[p].family \notin families => pair'[p] = pair[p]
              /\ pair'[p].access = "live" => pair[p].access = "live"
              /\ pair'[p].refresh = "live" => pair[p].refresh = "live"
              /\ pair'[p].access = "none" <=> pair[p].access = "none"
              /\ pair'[p].refresh = "none" <=> pair[p].refresh = "none"
         /\ \A p \in O!Pair : p > issued => pair'[p] = O!NoPair
<1> USE NoPairIs, GrantsTyped DEF GrantsInv
<1>1. ASSUME NEW p \in O!Pair, pair[p].family \in families
      PROVE  LET x == [pair[p] EXCEPT !.refresh = O!Revoke(@), !.access = O!Revoke(@)]
             IN  /\ x \in GrantPair /\ x.family = pair[p].family /\ x.code = pair[p].code
                 /\ x.client = pair[p].client /\ x.holder = pair[p].holder /\ x.age = pair[p].age
                 /\ x.access = O!Revoke(pair[p].access) /\ x.refresh = O!Revoke(pair[p].refresh)
  BY DEF GrantPair, O!Row, O!Revoke
<1>2. \A p \in O!Pair : pair[p].family \notin families => pair'[p] = pair[p]
  BY DEF O!Revoked
<1>3. \A p \in O!Pair : pair[p].family \in families =>
        /\ pair'[p] \in GrantPair /\ pair'[p].family = pair[p].family /\ pair'[p].code = pair[p].code
        /\ pair'[p].client = pair[p].client /\ pair'[p].holder = pair[p].holder /\ pair'[p].age = pair[p].age
        /\ pair'[p].access = O!Revoke(pair[p].access) /\ pair'[p].refresh = O!Revoke(pair[p].refresh)
  BY <1>1 DEF O!Revoked
<1>4. pair' \in [O!Pair -> GrantPair]
  BY <1>2, <1>3 DEF O!Revoked
<1>5. \A p \in O!Pair : p > issued => pair'[p] = O!NoPair
  BY <1>2
<1> QED
  BY <1>2, <1>3, <1>4, <1>5 DEF O!Revoke

LEMMA RevokedGrants ==
  ASSUME GrantsInv, NEW families \in SUBSET (1 .. MaxPairs), pair' = O!Revoked(families),
         UNCHANGED <<holder, client, code, issued>>, ended' \subseteq 1 .. issued,
         \A p \in ended' \ ended : pair[p].family \in families \/ (~O!MayCall(p) /\ ~O!MayRefresh(p))
  PROVE  GrantsInv'
<1> USE NoPairIs, GrantsTyped DEF GrantsInv
<1>1. /\ pair' \in [O!Pair -> GrantPair]
      /\ \A p \in 1 .. issued :
           /\ pair'[p].family = pair[p].family /\ pair'[p].code = pair[p].code
           /\ pair'[p].client = pair[p].client /\ pair'[p].holder = pair[p].holder
           /\ pair'[p].age = pair[p].age
           /\ pair[p].family \in families => pair'[p].access # "live" /\ pair'[p].refresh # "live"
           /\ pair[p].family \notin families => pair'[p] = pair[p]
           /\ pair'[p].access = "live" => pair[p].access = "live"
           /\ pair'[p].refresh = "live" => pair[p].refresh = "live"
           /\ pair'[p].access = "none" <=> pair[p].access = "none"
           /\ pair'[p].refresh = "none" <=> pair[p].refresh = "none"
      /\ \A p \in O!Pair : p > issued => pair'[p] = O!NoPair
  BY RevokedIs
<1>2. ASSUME NEW p \in 1 .. issued, {pair'[p].access, pair'[p].refresh} # {"none"}
      PROVE  pair'[p].holder \in holder' /\ client'[pair'[p].client] \in {"new", "settled"}
  <2>1. {pair[p].access, pair[p].refresh} # {"none"}
    <3>1. pair'[p].access # "none" \/ pair'[p].refresh # "none"
      BY ONLY <1>2, BothNone
    <3>2. pair[p].access # "none" \/ pair[p].refresh # "none"
      BY <1>1, <3>1
    <3> QED
      BY ONLY <3>2, BothNone
  <2>2. pair[p].holder \in holder /\ client[pair[p].client] \in {"new", "settled"}
    BY <2>1 DEF O!Registered
  <2> QED
    BY <1>1, <2>2
<1>3. \A p, q \in 1 .. issued :
        O!MayCall(p)' /\ O!MayRefresh(q) /\ pair[p].family = pair[q].family => O!MayRefresh(q)'
  BY <1>1 DEF O!MayCall, O!MayRefresh
<1>4. \A p \in ended' \ ended : ~O!MayCall(p)' /\ ~O!MayRefresh(p)'
  BY <1>1 DEF O!MayCall, O!MayRefresh
<1>5. /\ client' \in [Call -> {"unknown", "new", "settled", "dropped"}] /\ holder' \subseteq User
      /\ code' \in [Id -> GrantCode] /\ CodesAreGood'
  <2>1. client \in [Call -> {"unknown", "new", "settled", "dropped"}] /\ holder \subseteq User
        /\ code \in [Id -> GrantCode] /\ CodesAreGood
    BY DEF O!TypeOK
  <2>2. CodesAreGood'
    BY ONLY <2>1, UNCHANGED <<holder, client, code, issued>> DEF CodesAreGood, O!Registered
  <2> QED
    BY <2>1, <2>2
<1>6. \A p \in 1 .. issued :
        /\ pair'[p].family = pair[p].family /\ pair'[p].code = pair[p].code
        /\ pair'[p].client = pair[p].client /\ pair'[p].holder = pair[p].holder
        /\ pair'[p].access = "live" => pair[p].access = "live"
        /\ pair'[p].refresh = "live" => pair[p].refresh = "live"
        /\ pair'[p].age = "young" => pair[p].age = "young"
        /\ pair'[p].age # "expired" => pair[p].age # "expired"
        /\ {pair'[p].access, pair'[p].refresh} # {"none"} => pair'[p].holder \in holder' /\ client'[pair'[p].client] \in {"new", "settled"}
  BY <1>1, <1>2, ZenonT(60)
<1>7. GrantsInv /\ UNCHANGED <<code, issued>> /\ ended' \subseteq 1 .. issued
  OBVIOUS
<1>8. \A p \in O!Pair : p > issued => pair'[p] = O!NoPair
  BY <1>1
<1> QED
  BY ONLY <1>1, <1>3, <1>4, <1>5, <1>6, <1>7, <1>8, GrantsFade

LEMMA TokenReplayed ==
  ASSUME GrantsInv, NEW p \in O!Pair, NEW c \in Call, O!Replay(p, c)
  PROVE  GrantsInv'
<1> USE NoPairIs, GrantsTyped DEF GrantsInv
<1>1. PICK family : family = pair[p].family
  OBVIOUS
<1>2. p \in 1 .. issued
  BY DEF O!Replay
<1>3. /\ family \in 1 .. MaxPairs /\ pair' = O!Revoked({family}) /\ ended' = ended \cup O!Of({family})
      /\ UNCHANGED <<holder, client, code, issued>>
  BY <1>1, <1>2 DEF O!Replay
<1> QED
  BY <1>3, RevokedGrants DEF O!Of

LEMMA GrantRevoked ==
  ASSUME GrantsInv, NEW u \in User, NEW c \in Call, O!RevokeGrant(u, c)
  PROVE  GrantsInv'
<1> USE NoPairIs, GrantsTyped DEF GrantsInv
<1>1. PICK families : families = {pair[p].family : p \in {q \in O!Pair : O!MayRefresh(q) /\ pair[q].holder = u
                                                                         /\ pair[q].client = c}}
  OBVIOUS
<1>2. \A p \in O!Pair : O!MayRefresh(p) => p \in 1 .. issued
  BY DEF O!MayRefresh
<1>3. /\ families \subseteq 1 .. MaxPairs /\ pair' = O!Revoked(families)
      /\ ended' = ended \cup {p \in 1 .. issued : pair[p].holder = u /\ pair[p].client = c}
      /\ UNCHANGED <<holder, client, code, issued>>
  BY <1>1, <1>2 DEF O!RevokeGrant
<1>4. ASSUME NEW p \in 1 .. issued, pair[p].holder = u, pair[p].client = c, pair[p].family \notin families
      PROVE  ~O!MayCall(p) /\ ~O!MayRefresh(p)
  <2>1. ~O!MayRefresh(p)
    BY <1>1, <1>4
  <2>2. ASSUME O!MayCall(p) PROVE FALSE
    <3>1. PICK q \in 1 .. issued : O!MayRefresh(q) /\ pair[q].family = pair[p].family
      BY <2>2 DEF FamilyIsListed
    <3>2. pair[q].holder = u /\ pair[q].client = c
      BY <1>4, <3>1 DEF FamiliesAreConsents
    <3> QED
      BY <1>1, <1>4, <3>1, <3>2
  <2> QED
    BY <2>1, <2>2
<1> QED
  BY <1>3, <1>4, RevokedGrants

LEMMA HolderRemoved ==
  ASSUME GrantsInv, NEW u \in User, O!RemoveHolder(u)
  PROVE  GrantsInv'
<1> USE NoPairIs, NobodyIsNobody, GrantsTyped DEF GrantsInv
<1>1. /\ u \in holder /\ holder' = holder \ {u}
      /\ UNCHANGED <<client, issued, ended>>
      /\ code' = [k \in Id |-> IF code[k].is \in {"pending", "late"} /\ code[k].holder = u
                               THEN [code[k] EXCEPT !.is = "gone"] ELSE code[k]]
      /\ pair' = [p \in O!Pair |-> IF pair[p].holder = u
                                   THEN [pair[p] EXCEPT !.access = "none", !.refresh = "none"] ELSE pair[p]]
  BY DEF O!RemoveHolder, O!CodesWithout, O!PairsWithout
<1>2. /\ code' \in [Id -> GrantCode]
      /\ \A k \in Id : code[k].is = "gone" => code'[k].is = "gone"
      /\ \A k \in Id : code'[k].is \in {"pending", "late"} => code'[k] = code[k] /\ code[k].holder # u
  <2>1. ASSUME NEW k \in Id PROVE LET x == [code[k] EXCEPT !.is = "gone"] IN x \in GrantCode /\ x.is = "gone"
    BY DEF GrantCode
  <2> QED
    BY <1>1, <2>1
<1>3. CodesAreGood'
  BY <1>1, <1>2 DEF CodesAreGood, O!Registered
<1>4. \A p \in O!Pair : pair[p].holder # u => pair'[p] = pair[p]
  BY <1>1
<1>5. \A p \in O!Pair : pair[p].holder = u =>
        /\ pair'[p] \in GrantPair /\ pair'[p].family = pair[p].family /\ pair'[p].code = pair[p].code
        /\ pair'[p].client = pair[p].client /\ pair'[p].holder = pair[p].holder /\ pair'[p].age = pair[p].age
        /\ pair'[p].access = "none" /\ pair'[p].refresh = "none"
  <2>1. ASSUME NEW p \in O!Pair
        PROVE  LET x == [pair[p] EXCEPT !.access = "none", !.refresh = "none"]
               IN  /\ x \in GrantPair /\ x.family = pair[p].family /\ x.code = pair[p].code
                   /\ x.client = pair[p].client /\ x.holder = pair[p].holder /\ x.age = pair[p].age
                   /\ x.access = "none" /\ x.refresh = "none"
    BY DEF GrantPair, O!Row
  <2> QED
    BY <1>1, <2>1
<1>6. pair' \in [O!Pair -> GrantPair]
  BY <1>1, <1>4, <1>5
<1>7. ASSUME NEW p \in 1 .. issued, {pair'[p].access, pair'[p].refresh} # {"none"}
      PROVE  pair'[p].holder \in holder' /\ client'[pair'[p].client] \in {"new", "settled"}
  <2>1. pair'[p].access # "none" \/ pair'[p].refresh # "none"
    BY ONLY <1>7, BothNone
  <2>2. pair[p].holder # u /\ pair'[p] = pair[p]
    BY <1>4, <1>5, <2>1
  <2>3. pair[p].holder \in holder /\ client[pair[p].client] \in {"new", "settled"}
    BY <1>7, <2>2 DEF O!Registered
  <2> QED
    BY <1>1, <2>2, <2>3
<1>8. \A p \in 1 .. issued :
        /\ pair'[p].family = pair[p].family /\ pair'[p].code = pair[p].code
        /\ pair'[p].client = pair[p].client /\ pair'[p].holder = pair[p].holder
        /\ pair'[p].access = "live" => pair[p].access = "live"
        /\ pair'[p].refresh = "live" => pair[p].refresh = "live"
        /\ pair'[p].age = pair[p].age
  BY <1>4, <1>5
<1>9. ASSUME NEW p \in 1 .. issued, NEW q \in 1 .. issued,
             O!MayCall(p)', O!MayRefresh(q), pair[p].family = pair[q].family
      PROVE  O!MayRefresh(q)'
  <2>1. pair[p].holder # u
    BY <1>5, <1>9 DEF O!MayCall
  <2>2. pair[q].holder # u
    BY <1>9, <2>1 DEF FamiliesAreConsents
  <2> QED
    BY <1>4, <1>9, <2>2 DEF O!MayRefresh
<1>10. \A p \in O!Pair : p > issued => pair'[p] = O!NoPair
  BY <1>4
<1>11. client' \in [Call -> {"unknown", "new", "settled", "dropped"}] /\ holder' \subseteq User
  BY <1>1 DEF O!TypeOK
<1>12. ended' \subseteq 1 .. issued /\ ended' \ ended = {} /\ UNCHANGED issued
  BY <1>1
<1> QED
  BY <1>2, <1>3, <1>6, <1>7, <1>8, <1>9, <1>10, <1>11, <1>12, GrantsFade, ZenonT(60)

(* The sweep takes the tokens that have run out and the clients nothing     *)
(* refers to any more.                                                      *)
LEMMA SweptPairs ==
  ASSUME O!TypeOK, O!SweepExpired
  PROVE  /\ UNCHANGED <<holder, issued, ended>>
         /\ pair' \in [O!Pair -> GrantPair] /\ code' \in [Id -> GrantCode]
         /\ \A k \in Id : code'[k].client = code[k].client /\ code'[k].holder = code[k].holder
                          /\ code'[k].is = IF code[k].is = "late" THEN "gone" ELSE code[k].is
         /\ \A p \in O!Pair :
              /\ pair'[p].family = pair[p].family /\ pair'[p].code = pair[p].code
              /\ pair'[p].client = pair[p].client /\ pair'[p].holder = pair[p].holder /\ pair'[p].age = pair[p].age
              /\ pair'[p].access \in {pair[p].access, "none"} /\ pair'[p].refresh \in {pair[p].refresh, "none"}
              /\ pair[p].access # "none" /\ pair[p].age = "young" => pair'[p].access = pair[p].access
              /\ pair[p].refresh # "none" /\ pair[p].age # "expired" => pair'[p].refresh = pair[p].refresh
         /\ client' \in [Call -> {"unknown", "new", "settled", "dropped"}]
         /\ \A c \in Call : client'[c] = client[c]
                            \/ /\ \A k \in Id : code'[k].is \in {"pending", "late"} => code'[k].client # c
                               /\ \A p \in O!Pair : {pair'[p].access, pair'[p].refresh} # {"none"} => pair'[p].client # c
<1> USE NoPairIs, GrantsTyped
<1>1. PICK codes : codes = [k \in Id |-> IF code[k].is = "late" THEN [code[k] EXCEPT !.is = "gone"] ELSE code[k]]
  OBVIOUS
<1>2. PICK pairs : pairs = [p \in O!Pair |-> [pair[p] EXCEPT !.access = IF pair[p].age = "young" THEN @ ELSE "none",
                                               !.refresh = IF pair[p].age = "expired" THEN "none" ELSE @]]
  OBVIOUS
<1>3. PICK unused : unused = O!Unused(codes, pairs)
  OBVIOUS
<1>4. /\ code' = codes
      /\ pair' = [p \in O!Pair |-> IF pairs[p].client \in unused
                                   THEN [pairs[p] EXCEPT !.access = "none", !.refresh = "none"] ELSE pairs[p]]
      /\ client' = [c \in Call |-> IF c \in unused THEN "dropped" ELSE client[c]]
      /\ UNCHANGED <<holder, issued, ended>>
  BY <1>1, <1>2, <1>3 DEF O!SweepExpired
<1>5. /\ codes \in [Id -> GrantCode]
      /\ \A k \in Id : codes[k].client = code[k].client /\ codes[k].holder = code[k].holder
                       /\ codes[k].is = IF code[k].is = "late" THEN "gone" ELSE code[k].is
  <2>1. ASSUME NEW k \in Id
        PROVE  LET x == [code[k] EXCEPT !.is = "gone"]
               IN  x \in GrantCode /\ x.is = "gone" /\ x.client = code[k].client /\ x.holder = code[k].holder
    BY DEF GrantCode
  <2> QED
    BY <1>1, <2>1
<1>6. /\ pairs \in [O!Pair -> GrantPair]
      /\ \A p \in O!Pair :
           /\ pairs[p].family = pair[p].family /\ pairs[p].code = pair[p].code
           /\ pairs[p].client = pair[p].client /\ pairs[p].holder = pair[p].holder /\ pairs[p].age = pair[p].age
           /\ pairs[p].access = IF pair[p].age = "young" THEN pair[p].access ELSE "none"
           /\ pairs[p].refresh = IF pair[p].age = "expired" THEN "none" ELSE pair[p].refresh
  <2>1. ASSUME NEW p \in O!Pair
        PROVE  LET x == [pair[p] EXCEPT !.access = IF pair[p].age = "young" THEN @ ELSE "none",
                                        !.refresh = IF pair[p].age = "expired" THEN "none" ELSE @]
               IN  /\ x \in GrantPair /\ x.family = pair[p].family /\ x.code = pair[p].code
                   /\ x.client = pair[p].client /\ x.holder = pair[p].holder /\ x.age = pair[p].age
                   /\ x.access = IF pair[p].age = "young" THEN pair[p].access ELSE "none"
                   /\ x.refresh = IF pair[p].age = "expired" THEN "none" ELSE pair[p].refresh
    BY DEF GrantPair, O!Row
  <2> QED
    BY <1>2, <2>1
<1>7. \A p \in O!Pair : IF pairs[p].client \in unused
        THEN /\ pair'[p] \in GrantPair /\ pair'[p].family = pairs[p].family /\ pair'[p].code = pairs[p].code
             /\ pair'[p].client = pairs[p].client /\ pair'[p].holder = pairs[p].holder /\ pair'[p].age = pairs[p].age
             /\ pair'[p].access = "none" /\ pair'[p].refresh = "none"
        ELSE pair'[p] = pairs[p]
  <2>1. ASSUME NEW p \in O!Pair
        PROVE  LET x == [pairs[p] EXCEPT !.access = "none", !.refresh = "none"]
               IN  /\ x \in GrantPair /\ x.family = pairs[p].family /\ x.code = pairs[p].code
                   /\ x.client = pairs[p].client /\ x.holder = pairs[p].holder /\ x.age = pairs[p].age
                   /\ x.access = "none" /\ x.refresh = "none"
    BY <1>6 DEF GrantPair, O!Row
  <2> QED
    BY <1>4, <2>1
<1>8. \A c \in unused :
        /\ c \in Call
        /\ \A k \in Id : codes[k].is \in {"pending", "late"} => codes[k].client # c
        /\ \A p \in O!Pair : {pairs[p].access, pairs[p].refresh} # {"none"} => pairs[p].client # c
  BY <1>3 DEF O!Unused
<1>9. \A p \in O!Pair : pairs[p].client \in unused => pairs[p].access = "none" /\ pairs[p].refresh = "none"
  <2> SUFFICES ASSUME NEW p \in O!Pair, pairs[p].client \in unused PROVE pairs[p].access = "none" /\ pairs[p].refresh = "none"
    OBVIOUS
  <2>1. {pairs[p].access, pairs[p].refresh} = {"none"}
    BY <1>8
  <2> QED
    BY ONLY <2>1, BothNone
<1>10. pair' \in [O!Pair -> GrantPair]
  BY <1>4, <1>6, <1>7
<1>11. \A c \in Call : client'[c] = client[c]
                       \/ /\ \A k \in Id : code'[k].is \in {"pending", "late"} => code'[k].client # c
                          /\ \A p \in O!Pair : {pair'[p].access, pair'[p].refresh} # {"none"} => pair'[p].client # c
  <2> SUFFICES ASSUME NEW c \in unused
               PROVE  /\ \A k \in Id : code'[k].is \in {"pending", "late"} => code'[k].client # c
                      /\ \A p \in O!Pair : {pair'[p].access, pair'[p].refresh} # {"none"} => pair'[p].client # c
    BY <1>4
  <2>1. \A k \in Id : code'[k].is \in {"pending", "late"} => code'[k].client # c
    BY <1>4, <1>8
  <2>2. ASSUME NEW p \in O!Pair, pair'[p].client = c PROVE {pair'[p].access, pair'[p].refresh} = {"none"}
    <3>1. pair'[p].access = "none" /\ pair'[p].refresh = "none"
      BY <1>7, <2>2
    <3> QED
      BY ONLY <3>1, BothNone
  <2> QED
    BY <2>1, <2>2
<1>12. client' \in [Call -> {"unknown", "new", "settled", "dropped"}]
  BY <1>4 DEF O!TypeOK
<1>13. \A p \in O!Pair :
         /\ pair'[p].family = pair[p].family /\ pair'[p].code = pair[p].code
         /\ pair'[p].client = pair[p].client /\ pair'[p].holder = pair[p].holder /\ pair'[p].age = pair[p].age
         /\ pair'[p].access \in {pair[p].access, "none"} /\ pair'[p].refresh \in {pair[p].refresh, "none"}
         /\ pair[p].access # "none" /\ pair[p].age = "young" => pair'[p].access = pair[p].access
         /\ pair[p].refresh # "none" /\ pair[p].age # "expired" => pair'[p].refresh = pair[p].refresh
  BY <1>6, <1>7, <1>9
<1> QED
  BY <1>4, <1>5, <1>10, <1>11, <1>12, <1>13

LEMMA GrantsSwept ==
  ASSUME GrantsInv, O!SweepExpired
  PROVE  GrantsInv'
<1> USE NoPairIs, GrantsTyped, SweptPairs DEF GrantsInv
<1>1. ASSUME NEW p \in 1 .. issued, {pair'[p].access, pair'[p].refresh} # {"none"}
      PROVE  pair'[p].holder \in holder' /\ client'[pair'[p].client] \in {"new", "settled"}
  <2>1. pair'[p].access # "none" \/ pair'[p].refresh # "none"
    BY ONLY <1>1, BothNone
  <2>2. pair[p].access # "none" \/ pair[p].refresh # "none"
    BY <2>1
  <2>3. {pair[p].access, pair[p].refresh} # {"none"}
    BY ONLY <2>2, BothNone
  <2>4. pair[p].holder \in holder /\ client[pair[p].client] \in {"new", "settled"} /\ pair[p].client \in Call
    BY <2>3 DEF O!Registered, FamiliesAreConsents
  <2>5. client'[pair'[p].client] = client[pair[p].client]
    BY <1>1, <2>4
  <2> QED
    BY <2>4, <2>5
<1>2. CodesAreGood'
  BY DEF CodesAreGood, O!Registered
<1>3. \A p, q \in 1 .. issued :
        O!MayCall(p)' /\ O!MayRefresh(q) /\ pair[p].family = pair[q].family => O!MayRefresh(q)'
  BY DEF O!MayRefresh
<1>4. ASSUME NEW p \in O!Pair, p > issued PROVE pair'[p] = O!NoPair
  <2>1. pair[p] = O!NoPair
    BY <1>4
  <2> QED
    BY <2>1, SamePair
<1>5. holder' \subseteq User /\ ended' \subseteq 1 .. issued /\ ended' \ ended = {}
  BY DEF O!TypeOK
<1>6. \A p \in 1 .. issued :
        /\ pair'[p].family = pair[p].family /\ pair'[p].code = pair[p].code
        /\ pair'[p].client = pair[p].client /\ pair'[p].holder = pair[p].holder
        /\ pair'[p].access = "live" => pair[p].access = "live"
        /\ pair'[p].refresh = "live" => pair[p].refresh = "live"
        /\ pair'[p].age = pair[p].age
  OBVIOUS
<1>7. \A k \in Id : code[k].is = "gone" => code'[k].is = "gone"
  OBVIOUS
<1> QED
  BY <1>1, <1>2, <1>3, <1>4, <1>5, <1>6, <1>7, GrantsFade, ZenonT(60)

(* A client registers or settles, a user consents, a code runs out: the     *)
(* pairs are as they were.                                                  *)
LEMMA PairsStay ==
  ASSUME GrantsInv, UNCHANGED <<holder, pair, issued, ended>>, code' \in [Id -> GrantCode],
         client' \in [Call -> {"unknown", "new", "settled", "dropped"}],
         \A c \in Call : O!Registered(c) => client'[c] \in {"new", "settled"},
         \A k \in Id : code[k].is = "gone" => code'[k].is = "gone",
         \A k \in Id : code'[k].is \in {"pending", "late"} =>
           code'[k].holder \in holder /\ code'[k].client \in Call /\ O!Registered(code'[k].client)
  PROVE  GrantsInv'
<1> USE GrantsTyped DEF GrantsInv
<1>1. CodesAreGood'
  BY DEF CodesAreGood, O!Registered
<1>2. ASSUME NEW p \in 1 .. issued, {pair[p].access, pair[p].refresh} # {"none"}
      PROVE  pair[p].holder \in holder /\ client'[pair[p].client] \in {"new", "settled"}
  <2>1. pair[p].holder \in holder /\ O!Registered(pair[p].client) /\ pair[p].client \in Call
    BY <1>2 DEF FamiliesAreConsents
  <2> QED
    BY <2>1
<1>3. \A p \in 1 .. issued : O!MayRefresh(p) => O!MayRefresh(p)'
  BY DEF O!MayRefresh
<1>4. holder' \subseteq User /\ ended' \ ended = {}
  BY DEF O!TypeOK
<1>5. \A p \in O!Pair : p > issued => pair'[p] = O!NoPair
  OBVIOUS
<1> QED
  BY <1>1, <1>2, <1>3, <1>4, <1>5, GrantsFade

LEMMA PairAges ==
  ASSUME GrantsInv, NEW p \in O!Pair, O!PairGrowsOld(p)
  PROVE  GrantsInv'
<1> USE NoPairIs, GrantsTyped DEF GrantsInv
<1>1. PICK x : x = [pair[p] EXCEPT !.age = IF @ = "young" THEN "old" ELSE "expired"]
  OBVIOUS
<1>2. /\ p \in 1 .. issued /\ pair[p].age # "expired"
      /\ pair' = [pair EXCEPT ![p] = x]
      /\ UNCHANGED <<holder, client, code, issued, ended>>
      /\ \A q \in 1 .. p - 1 : pair[p].age = "old" => pair[q].age = "expired"
  BY <1>1 DEF O!PairGrowsOld, O!Pair
<1>3. /\ x \in GrantPair /\ x.family = pair[p].family /\ x.code = pair[p].code /\ x.client = pair[p].client
      /\ x.holder = pair[p].holder /\ x.access = pair[p].access /\ x.refresh = pair[p].refresh
      /\ x.age = IF pair[p].age = "young" THEN "old" ELSE "expired"
  BY <1>1 DEF GrantPair, O!Age
<1>4. pair' \in [O!Pair -> GrantPair] /\ pair'[p] = x /\ \A q \in O!Pair \ {p} : pair'[q] = pair[q]
  BY <1>2, <1>3
<1>5. \A q \in O!Pair :
        /\ pair'[q].family = pair[q].family /\ pair'[q].code = pair[q].code
        /\ pair'[q].client = pair[q].client /\ pair'[q].holder = pair[q].holder
        /\ pair'[q].access = pair[q].access /\ pair'[q].refresh = pair[q].refresh
        /\ pair'[q].age = "young" => pair[q].age = "young"
        /\ pair'[q].age # "expired" => pair[q].age # "expired"
  BY <1>2, <1>3, <1>4
<1>6. ASSUME NEW q \in 1 .. issued, NEW r \in 1 .. issued,
             O!MayCall(q)', O!MayRefresh(r), pair[q].family = pair[r].family
      PROVE  O!MayRefresh(r)'
  <2>1. CASE r # p
    BY <1>4, <1>6, <2>1 DEF O!MayRefresh
  <2>2. CASE r = p /\ pair[p].age = "young"
    BY <1>3, <1>4, <1>6, <2>2 DEF O!MayRefresh
  <2>3. CASE r = p /\ pair[p].age # "young"
    <3>1. pair[p].age = "old"
      BY <1>2, <2>3 DEF GrantPair, O!Age
    <3>2. q <= p /\ q # p /\ pair[q].age = "young"
      BY <1>3, <1>4, <1>5, <1>6, <2>3, <3>1 DEF O!MayCall, O!MayRefresh, LastIsLive
    <3>3. q \in 1 .. p - 1
      BY <1>2, <3>2
    <3> QED
      BY <1>2, <3>1, <3>2, <3>3
  <2> QED
    BY <2>1, <2>2, <2>3
<1>7. ASSUME NEW q \in 1 .. issued, {pair'[q].access, pair'[q].refresh} # {"none"}
      PROVE  pair'[q].holder \in holder' /\ client'[pair'[q].client] \in {"new", "settled"}
  <2>1. pair[q].holder \in holder /\ client[pair[q].client] \in {"new", "settled"}
    BY <1>5, <1>7 DEF O!Registered
  <2> QED
    BY <1>2, <1>5, <2>1
<1>8. \A q \in O!Pair : q > issued => pair'[q] = O!NoPair
  BY <1>2, <1>4
<1>9. /\ code' \in [Id -> GrantCode] /\ CodesAreGood' /\ holder' \subseteq User
      /\ client' \in [Call -> {"unknown", "new", "settled", "dropped"}]
      /\ ended' \subseteq 1 .. issued /\ ended' \ ended = {} /\ UNCHANGED <<issued, code>>
  BY <1>2 DEF O!TypeOK, CodesAreGood, O!Registered
<1> QED
  BY <1>4, <1>5, <1>6, <1>7, <1>8, <1>9, GrantsFade, ZenonT(60)

LEMMA GrantsStep ==
  ASSUME GrantsInv, [O!Next]_oauthVars
  PROVE  GrantsInv'
<1> USE NoPairIs
<1>0. O!TypeOK /\ code \in [Id -> GrantCode] /\ CodesAreGood
  BY GrantsTyped DEF GrantsInv
<1>1. ASSUME NEW c \in Call, O!CreateClient(c) \/ O!ClientSettles(c) PROVE GrantsInv'
  <2>1. /\ client' \in [Call -> {"unknown", "new", "settled", "dropped"}]
        /\ \A d \in Call : O!Registered(d) => client'[d] \in {"new", "settled"}
        /\ UNCHANGED <<holder, code, pair, issued, ended>>
    BY <1>0, <1>1 DEF O!TypeOK, O!CreateClient, O!ClientSettles, O!Registered
  <2> QED
    BY <1>0, <2>1, PairsStay DEF CodesAreGood
<1>2. ASSUME NEW k \in Id, NEW c \in Call, NEW u \in User, O!CreateAuthorizationCode(k, c, u) PROVE GrantsInv'
  <2>1. PICK x : x = [is |-> "pending", client |-> c, holder |-> u]
    OBVIOUS
  <2>2. x \in GrantCode /\ x.is = "pending" /\ x.client = c /\ x.holder = u
    BY <2>1 DEF GrantCode
  <2>3. /\ code[k].is = "none" /\ O!Registered(c) /\ u \in holder
        /\ code' = [code EXCEPT ![k] = x]
        /\ UNCHANGED <<holder, client, pair, issued, ended>>
    BY <1>2, <2>1 DEF O!CreateAuthorizationCode
  <2>4. code' \in [Id -> GrantCode] /\ code'[k] = x /\ \A j \in Id \ {k} : code'[j] = code[j]
    BY <1>0, <2>2, <2>3
  <2>5. client' \in [Call -> {"unknown", "new", "settled", "dropped"}]
        /\ \A d \in Call : O!Registered(d) => client'[d] \in {"new", "settled"}
    BY <1>0, <2>3 DEF O!TypeOK, O!Registered
  <2>6. \A j \in Id : code[j].is = "gone" => code'[j].is = "gone"
    BY <2>3, <2>4
  <2>7. \A j \in Id : code'[j].is \in {"pending", "late"} =>
          code'[j].holder \in holder /\ code'[j].client \in Call /\ O!Registered(code'[j].client)
    BY <1>0, <2>2, <2>3, <2>4 DEF CodesAreGood
  <2> QED
    BY <2>3, <2>4, <2>5, <2>6, <2>7, PairsStay
<1>3. ASSUME NEW k \in Id, O!CodeRunsOut(k) PROVE GrantsInv'
  <2>1. PICK x : x = [code[k] EXCEPT !.is = "late"]
    OBVIOUS
  <2>2. x \in GrantCode /\ x.is = "late" /\ x.client = code[k].client /\ x.holder = code[k].holder
    BY <1>0, <2>1 DEF GrantCode
  <2>3. /\ code[k].is = "pending" /\ code' = [code EXCEPT ![k] = x]
        /\ UNCHANGED <<holder, client, pair, issued, ended>>
    BY <1>3, <2>1 DEF O!CodeRunsOut
  <2>4. code' \in [Id -> GrantCode] /\ code'[k] = x /\ \A j \in Id \ {k} : code'[j] = code[j]
    BY <1>0, <2>2, <2>3
  <2>5. client' \in [Call -> {"unknown", "new", "settled", "dropped"}]
        /\ \A d \in Call : O!Registered(d) => client'[d] \in {"new", "settled"}
    BY <1>0, <2>3 DEF O!TypeOK, O!Registered
  <2>6. \A j \in Id : code[j].is = "gone" => code'[j].is = "gone"
    BY <2>3, <2>4
  <2>7. \A j \in Id : code'[j].is \in {"pending", "late"} =>
          code'[j].holder \in holder /\ code'[j].client \in Call /\ O!Registered(code'[j].client)
    BY <1>0, <2>2, <2>3, <2>4 DEF CodesAreGood
  <2> QED
    BY <2>3, <2>4, <2>5, <2>6, <2>7, PairsStay
<1>4. ASSUME NEW k \in Id, NEW c \in Call, O!RedeemAuthorizationCode(k, c) PROVE GrantsInv'
  BY <1>4, CodeRedeemed
<1>5. ASSUME NEW p \in O!Pair, NEW c \in Call, O!Rotate(p, c) \/ O!Replay(p, c) PROVE GrantsInv'
  BY <1>5, TokenRotated, TokenReplayed
<1>6. ASSUME NEW u \in User, NEW c \in Call, O!RevokeGrant(u, c) PROVE GrantsInv'
  BY <1>6, GrantRevoked
<1>7. ASSUME NEW u \in User, O!RemoveHolder(u) PROVE GrantsInv'
  BY <1>7, HolderRemoved
<1>8. ASSUME NEW p \in O!Pair, O!PairGrowsOld(p) PROVE GrantsInv'
  BY <1>8, PairAges
<1>9. CASE O!SweepExpired
  BY <1>9, GrantsSwept
<1>10. CASE UNCHANGED oauthVars
  <2>1. /\ client' \in [Call -> {"unknown", "new", "settled", "dropped"}]
        /\ \A d \in Call : O!Registered(d) => client'[d] \in {"new", "settled"}
        /\ UNCHANGED <<holder, code, pair, issued, ended>>
    BY <1>0, <1>10 DEF O!TypeOK, oauthVars, O!Registered
  <2> QED
    BY <1>0, <2>1, PairsStay DEF CodesAreGood
<1> QED
  BY <1>1, <1>2, <1>3, <1>4, <1>5, <1>6, <1>7, <1>8, <1>9, <1>10 DEF O!Next

LEMMA GrantsAreSound ==
  ASSUME GrantsInv
  PROVE  O!TypeOK /\ O!OneTokenPerConsent /\ O!EndedFamiliesStayEnded /\ O!WhoCallsIsListed
<1> USE NoPairIs, GrantsTyped DEF GrantsInv
<1>1. \A p \in O!Pair : O!MayRefresh(p) \/ O!MayCall(p) => p \in 1 .. issued
  BY DEF O!MayRefresh, O!MayCall
<1>2. O!OneTokenPerConsent
  <2> SUFFICES ASSUME NEW p \in O!Pair, NEW q \in O!Pair, O!MayRefresh(p), O!MayRefresh(q), pair[p].code = pair[q].code
               PROVE  p = q
    BY DEF O!OneTokenPerConsent
  <2>1. p \in 1 .. issued /\ q \in 1 .. issued /\ pair[p].refresh = "live" /\ pair[q].refresh = "live"
    BY <1>1 DEF O!MayRefresh
  <2>2. pair[p].family = pair[q].family
    BY <2>1 DEF FamiliesAreConsents
  <2>3. p <= q /\ q <= p
    BY <2>1, <2>2 DEF LastIsLive
  <2> QED
    BY <2>1, <2>3
<1>3. O!WhoCallsIsListed
  <2> SUFFICES ASSUME NEW p \in O!Pair, O!MayCall(p)
               PROVE  \E q \in O!Pair : O!MayRefresh(q) /\ pair[q].client = pair[p].client
                                        /\ pair[q].holder = pair[p].holder
    BY DEF O!WhoCallsIsListed
  <2>1. PICK q \in 1 .. issued : O!MayRefresh(q) /\ pair[q].family = pair[p].family
    BY <1>1 DEF FamilyIsListed
  <2>2. p \in 1 .. issued
    BY <1>1
  <2> QED
    BY <2>1, <2>2 DEF FamiliesAreConsents
<1> QED
  BY <1>2, <1>3

(* However codes and tokens come back, a consent has one refresh token that *)
(* is good at most, what was ended stays ended, and whoever can call is on  *)
(* the list to revoke from.                                                 *)
THEOREM GrantsStaySound == Spec => []GrantsSound
<1> DEFINE Inv == part = "oauth" => GrantsInv
<1>1. Init => Inv
  BY GrantsInit DEF Init
<1>2. Inv /\ [Next]_vars => Inv'
  BY PartsApart, GrantsStep
<1>3. Inv => GrantsSound
  BY GrantsAreSound DEF GrantsSound
<1> QED
  BY <1>1, <1>2, <1>3, PTL DEF Spec

(* The sweep never costs a client what it could still use.                  *)
THEOREM TheSweepCostsNothing == Spec => SweepCostsNothing
<1> DEFINE Inv == part = "oauth" => GrantsInv
<1>1. Init => Inv
  BY GrantsInit DEF Init
<1>2. Inv /\ [Next]_vars => Inv'
  BY PartsApart, GrantsStep
<1>3. ASSUME O!TypeOK, O!SweepExpired PROVE O!StillUsable
  <2>1. \A p \in O!Pair : O!MayRefresh(p) => O!MayRefresh(p)'
    BY <1>3, SweptPairs DEF O!MayRefresh
  <2>2. \A p \in O!Pair : O!MayCall(p) => O!MayCall(p)'
    BY <1>3, SweptPairs DEF O!MayCall
  <2> QED
    BY <2>1, <2>2 DEF O!StillUsable
<1>4. Inv /\ [Next]_vars => [part = "oauth" /\ O!SweepExpired => O!StillUsable]_oauthVars
  BY <1>3 DEF GrantsInv
<1> QED
  BY <1>1, <1>2, <1>4, PTL DEF Spec, SweepCostsNothing

-----------------------------------------------------------------------------
(***************************************************************************)
(* FinanceVerdicts.  The verdicts are functions of one profile and one     *)
(* listing; what has to be shown is arithmetic: the ceilings are in order, *)
(* however they are rounded, and a rate is below a ceiling exactly when it *)
(* is below both of the limits the ceiling is the least of.                *)
(***************************************************************************)

FinanceInv ==
  /\ profile \in [household : Households, renting : {{}} \cup {{x} : x \in F!Renting},
                  financing : {{}} \cup {{x} : x \in F!Financing}]
  /\ listing \in F!Listing

LEMMA FinanceInit == F!Init => FinanceInv
BY DEF F!Init, FinanceInv

LEMMA FinanceStep ==
  ASSUME FinanceInv, [F!Next]_financeVars
  PROVE  FinanceInv'
<1> USE DEF FinanceInv
<1>1. ASSUME NEW h \in Households, NEW x \in F!Renting, F!SaveRenting(h, x) PROVE FinanceInv'
  BY <1>1 DEF F!SaveRenting
<1>2. ASSUME NEW h \in Households, NEW x \in F!Financing, F!SaveFinancing(h, x) PROVE FinanceInv'
  BY <1>2 DEF F!SaveFinancing
<1>3. CASE F!RemoveRenting
  BY <1>3 DEF F!RemoveRenting
<1>4. CASE F!RemoveFinancing
  BY <1>4 DEF F!RemoveFinancing
<1>5. CASE UNCHANGED financeVars
  BY <1>5 DEF financeVars
<1> QED
  BY <1>1, <1>2, <1>3, <1>4, <1>5 DEF F!Next

(* The numbers behind a verdict.                                            *)
LEMMA FinanceNumbers ==
  ASSUME FinanceInv
  PROVE  /\ F!Income \in Int /\ F!Disposable \in Int
         /\ F!Headroom(35) \in Int /\ F!Headroom(40) \in Int
         /\ F!Income > 0 => F!Headroom(35) <= F!Headroom(40)
         /\ listing.price \in Nat /\ listing.charges \in BOOLEAN /\ Threshold \in Nat
         /\ profile.renting # {} => F!Surcharge \in Nat
         /\ profile.financing # {} => F!Percent \in Nat /\ F!Loan.equity \in Nat /\ F!Loan.payment \in Nat
<1> USE ServicesAssumption DEF FinanceInv
<1>1. /\ profile.household.income \in Int /\ profile.household.costs \in Int /\ profile.household.debt \in Int
  OBVIOUS
<1>2. F!Income \in Int /\ F!Disposable \in Int
  BY <1>1 DEF F!Income, F!Disposable
<1>3. /\ F!Headroom(35) \in Int /\ F!Headroom(40) \in Int
      /\ F!Income > 0 => F!Headroom(35) <= F!Headroom(40)
  BY <1>1 DEF F!Headroom, F!Income
<1>4. listing.price \in Nat /\ listing.charges \in BOOLEAN
  BY DEF F!Listing
<1>5. ASSUME profile.renting # {} PROVE F!Surcharge \in Nat
  <2>1. PICK x \in F!Renting : profile.renting = {x}
    BY <1>5
  <2>2. (CHOOSE y \in profile.renting : TRUE) = x
    BY <2>1
  <2> QED
    BY <2>2 DEF F!Surcharge, F!Renting
<1>6. ASSUME profile.financing # {}
      PROVE  F!Percent \in Nat /\ F!Loan.equity \in Nat /\ F!Loan.payment \in Nat
  <2>1. PICK x \in F!Financing : profile.financing = {x}
    BY <1>6
  <2>2. F!Loan = x
    BY <2>1 DEF F!Loan
  <2>3. x.equity \in Nat /\ x.payment \in Nat /\ x.terms[1] \in Nat /\ x.terms[2] \in Nat
    BY DEF F!Financing
  <2> QED
    BY <2>2, <2>3 DEF F!Percent
<1> QED
  BY <1>2, <1>3, <1>4, <1>5, <1>6

LEMMA Products ==
  ASSUME NEW a \in Int, NEW b \in Nat
  PROVE  /\ a * b \in Int
         /\ a > 0 /\ b > 0 => a * b > 0
         /\ a <= 0 => a * b <= 0
OBVIOUS

(* A rate is within a ceiling when it is within the limits the ceiling is   *)
(* the least of.                                                            *)
LEMMA CeilingIs ==
  ASSUME FinanceInv, NEW percent \in {35, 40}
  PROVE  /\ F!Ceiling(percent) \in Nat
         /\ \A rate \in Int : rate > 0 =>
              (rate <= F!Ceiling(percent) <=> rate <= F!Headroom(percent) /\ rate <= F!Disposable)
BY FinanceNumbers DEF F!Ceiling, F!AtLeast0, F!Least

LEMMA CeilingsInOrder ==
  ASSUME FinanceInv, F!Income > 0
  PROVE  F!Ceiling(35) <= F!Ceiling(40)
BY FinanceNumbers DEF F!Ceiling, F!AtLeast0, F!Least

(* Of two ceilings that come to the same, the one for 35 percent is not      *)
(* rounded above the one for 40.                                            *)
LEMMA TurnedInOrder ==
  ASSUME FinanceInv
  PROVE  /\ F!Turned("ceiling", 40) => F!Turned("ceiling", 35)
         /\ F!Turned("nothing", 35) => F!Turned("nothing", 40)
BY RoundingAssumption DEF FinanceInv, F!Turned, F!Roundings, F!InOrder

LEMMA FitsInOrder ==
  ASSUME FinanceInv, F!Income > 0, NEW amount \in Int, F!Fits("ceiling", 35, amount, F!Ceiling(35))
  PROVE  F!Fits("ceiling", 40, amount, F!Ceiling(40))
<1>1. F!Ceiling(35) \in Nat /\ F!Ceiling(40) \in Nat /\ F!Ceiling(35) <= F!Ceiling(40)
  BY CeilingIs, CeilingsInOrder
<1> QED
  BY <1>1, TurnedInOrder DEF F!Fits

LEMMA CarriesInOrder ==
  ASSUME FinanceInv, F!Income > 0, F!Carries(35)
  PROVE  F!Carries(40)
BY FinanceNumbers, TurnedInOrder DEF F!Carries, F!Ceiling, F!AtLeast0, F!Least

(* What the rent arm and the buy arm compare with the ceilings.             *)
LEMMA WindowsInOrder ==
  ASSUME FinanceInv
  PROVE  /\ F!RentComplete => \A charges \in BOOLEAN :
              F!RentWithin(listing.price, charges, 35) => F!RentWithin(listing.price, charges, 40)
         /\ F!BuyComplete => (F!PriceWithin(listing.price, 35) => F!PriceWithin(listing.price, 40))
<1>1. ASSUME F!RentComplete, NEW charges \in BOOLEAN, F!RentWithin(listing.price, charges, 35)
      PROVE  F!RentWithin(listing.price, charges, 40)
  <2>1. PICK amount \in Int :
          amount = IF charges THEN 12000 * listing.price ELSE 120 * (100 + F!Surcharge) * listing.price
    BY <1>1, FinanceNumbers DEF F!RentComplete
  <2> QED
    BY <1>1, <2>1, FitsInOrder DEF F!RentWithin, F!RentComplete
<1>2. ASSUME F!BuyComplete, F!PriceWithin(listing.price, 35)
      PROVE  F!PriceWithin(listing.price, 40)
  <2>1. PICK amount \in Int : amount = (11 * listing.price - 10 * F!Loan.equity) * F!Percent
    BY <1>2, FinanceNumbers DEF F!BuyComplete
  <2> QED
    BY <1>2, <2>1, FitsInOrder, CarriesInOrder DEF F!PriceWithin, F!BuyComplete
<1> QED
  BY <1>1, <1>2

LEMMA FilterFollowsChip == FinanceInv => F!FilterIsChip
<1> SUFFICES ASSUME FinanceInv, listing.deal # "unknown", F!RentComplete \/ F!BuyComplete, NEW band \in F!Bands
             PROVE  F!RentArm(listing, band) \/ F!BuyArm(listing, band) <=> F!Chip(listing) = band
  BY DEF F!FilterIsChip, F!Filtered
<1>1. listing.deal \in {"rent", "buy"} /\ listing.price \in Nat /\ Threshold \in Nat /\ listing.charges \in BOOLEAN
  BY FinanceNumbers DEF FinanceInv, F!Listing
<1>2. CASE listing.deal = "rent"
  <2> DEFINE within(percent) == F!RentWithin(listing.price, listing.charges, percent)
  <2>1. F!RentArm(listing, band) <=> /\ F!RentComplete /\ listing.price > 0
                                     /\ F!RentWindow(listing.price, listing.charges, band)
    <3>1. CASE listing.charges
      BY <1>2, <3>1 DEF F!RentArm
    <3>2. CASE ~listing.charges
      <4>1. listing.charges = FALSE
        BY <1>1, <3>2
      <4> QED
        BY <1>2, <4>1 DEF F!RentArm
    <3> QED
      BY <3>1, <3>2
  <2>2. F!RentWindow(listing.price, listing.charges, band)
        <=> \/ band = "affordable" /\ within(35)
            \/ band = "stretch" /\ ~within(35) /\ within(40)
            \/ band = "unaffordable" /\ ~within(40)
    BY DEF F!RentWindow, F!InWindow, F!Bands
  <2>3. F!RentComplete => (within(35) => within(40))
    BY <1>1, WindowsInOrder
  <2>4. ~F!BuyArm(listing, band) /\ F!Chip(listing) = F!VerdictForRent(listing.price, listing.charges)
    BY <1>2 DEF F!BuyArm, F!Chip
  <2>5. F!VerdictForRent(listing.price, listing.charges) =
          IF ~F!RentComplete \/ ~(listing.price > 0) THEN "none"
          ELSE IF within(35) THEN "affordable" ELSE IF within(40) THEN "stretch" ELSE "unaffordable"
    BY <1>1 DEF F!VerdictForRent
  <2> HIDE DEF within
  <2> QED
    BY <2>1, <2>2, <2>3, <2>4, <2>5 DEF F!Bands
<1>3. CASE listing.deal = "buy"
  <2> DEFINE within(percent) == F!PriceWithin(listing.price, percent)
  <2>1. F!BuyArm(listing, band) <=> /\ F!BuyComplete /\ listing.price >= Threshold
                                    /\ F!InWindow(within(35), within(40), band)
    BY <1>3 DEF F!BuyArm
  <2>2. F!InWindow(within(35), within(40), band)
        <=> \/ band = "affordable" /\ within(35)
            \/ band = "stretch" /\ ~within(35) /\ within(40)
            \/ band = "unaffordable" /\ ~within(40)
    BY DEF F!InWindow, F!Bands
  <2>3. F!BuyComplete => (within(35) => within(40))
    BY WindowsInOrder
  <2>4. ~F!RentArm(listing, band) /\ F!Chip(listing) = F!VerdictForPrice(listing.price)
    BY <1>3 DEF F!RentArm, F!Chip
  <2>5. F!VerdictForPrice(listing.price) =
          IF ~F!BuyComplete \/ ~(listing.price >= Threshold) THEN "none"
          ELSE IF within(35) THEN "affordable" ELSE IF within(40) THEN "stretch" ELSE "unaffordable"
    BY <1>1 DEF F!VerdictForPrice
  <2> HIDE DEF within
  <2> QED
    BY <2>1, <2>2, <2>3, <2>4, <2>5 DEF F!Bands
<1> QED
  BY <1>1, <1>2, <1>3

(* classify is what the ceilings come to, for a rate that is one and lies    *)
(* on no limit.                                                             *)
LEMMA ClassifyIs ==
  ASSUME FinanceInv, F!Income > 0, NEW rate \in Int, rate > 0,
         rate \notin {F!Headroom(35), F!Headroom(40), F!Disposable}
  PROVE  F!Classify(rate) = IF F!Fits("ceiling", 35, rate, F!Ceiling(35)) THEN "affordable"
                            ELSE IF F!Fits("ceiling", 40, rate, F!Ceiling(40)) THEN "stretch" ELSE "unaffordable"
<1>1. ASSUME NEW percent \in {35, 40}
      PROVE  F!Fits("ceiling", percent, rate, F!Ceiling(percent))
               <=> rate < F!Headroom(percent) /\ rate < F!Disposable
  <2>1. F!Ceiling(percent) \in Nat
        /\ (rate <= F!Ceiling(percent) <=> rate <= F!Headroom(percent) /\ rate <= F!Disposable)
    BY CeilingIs
  <2>2. rate # F!Ceiling(percent)
    BY FinanceNumbers DEF F!Ceiling, F!AtLeast0, F!Least
  <2> QED
    BY <2>1, <2>2, FinanceNumbers DEF F!Fits
<1>2. /\ F!Fits("cash", 100, rate, F!Disposable) <=> rate < F!Disposable
      /\ \A percent \in {35, 40} : F!Fits("share", percent, rate, F!Headroom(percent)) <=> rate < F!Headroom(percent)
  BY FinanceNumbers DEF F!Fits
<1> QED
  BY <1>1, <1>2, FinanceNumbers DEF F!Classify

LEMMA ScanFollowsChip == FinanceInv => F!ScanIsChip
<1> SUFFICES ASSUME FinanceInv, listing.deal # "unknown", F!Chip(listing) # "none", F!Scan(listing) # "none",
                    ~F!OnALimit(listing),
                    ~(listing.deal = "buy" /\ (F!LoanFor(listing.price) = 0 \/ F!NeverPaysOff(listing.price)))
             PROVE  F!Scan(listing) = F!Chip(listing)
  BY DEF F!ScanIsChip
<1>1. listing.deal \in {"rent", "buy"} /\ listing.price \in Nat /\ listing.charges \in BOOLEAN
      /\ F!DealType(listing) = listing.deal
  BY FinanceNumbers DEF FinanceInv, F!Listing, F!DealType
<1>2. CASE listing.deal = "rent"
  <2>1. F!RentComplete /\ listing.price > 0 /\ F!Income > 0 /\ F!Surcharge \in Nat
    BY <1>1, <1>2, FinanceNumbers DEF F!Chip, F!VerdictForRent, F!RentComplete
  <2>2. PICK rate \in Int : rate = F!WarmRent(listing) /\ rate > 0
    <3>1. 12000 * listing.price \in Int /\ 12000 * listing.price > 0
      BY <1>1, <2>1
    <3>2. 120 * (100 + F!Surcharge) * listing.price \in Int /\ 120 * (100 + F!Surcharge) * listing.price > 0
      BY <1>1, <2>1, Products
    <3> QED
      BY <1>1, <3>1, <3>2 DEF F!WarmRent
  <2>3. F!Scan(listing) = F!Classify(rate)
    BY <1>1, <1>2, <2>1, <2>2 DEF F!Scan
  <2>4. F!Chip(listing) = IF F!Fits("ceiling", 35, rate, F!Ceiling(35)) THEN "affordable"
                          ELSE IF F!Fits("ceiling", 40, rate, F!Ceiling(40)) THEN "stretch" ELSE "unaffordable"
    BY <1>1, <1>2, <2>1, <2>2 DEF F!Chip, F!VerdictForRent, F!RentWithin, F!WarmRent
  <2>5. rate \notin {F!Headroom(35), F!Headroom(40), F!Disposable}
    BY <1>2, <2>2 DEF F!OnALimit
  <2> QED
    BY <2>1, <2>2, <2>3, <2>4, <2>5, ClassifyIs
<1>3. CASE listing.deal = "buy"
  <2>1. F!BuyComplete /\ F!Income > 0 /\ F!Percent \in Nat /\ F!Percent > 0
        /\ F!Loan.equity \in Nat /\ F!Loan.payment \in Nat
        /\ F!Chip(listing) = F!VerdictForPrice(listing.price)
    BY <1>1, <1>3, FinanceNumbers DEF F!Chip, F!VerdictForPrice, F!BuyComplete
  <2>2. CASE F!Loan.payment > 0
    BY <1>1, <1>3, <2>1, <2>2 DEF F!Scan
  <2>3. CASE ~(F!Loan.payment > 0)
    <3>1. PICK a \in Int : a = 11 * listing.price - 10 * F!Loan.equity
      BY <1>1, <2>1
    <3>2. a > 0 /\ F!LoanFor(listing.price) = a
      BY <1>3, <3>1 DEF F!LoanFor, F!AtLeast0
    <3>3. PICK rate \in Int : rate = a * F!Percent /\ rate > 0
      BY <2>1, <3>1, <3>2, Products
    <3>4. F!Instalment(listing.price) = rate
      BY <2>3, <3>2, <3>3 DEF F!Instalment
    <3>5. F!Scan(listing) = F!Classify(rate)
      BY <1>1, <1>3, <2>1, <2>3, <3>4 DEF F!Scan
    <3>6. listing.price > 0
      BY <1>1, <2>1, <3>1, <3>2
    <3>7. ASSUME NEW percent \in {35, 40}
          PROVE  F!PriceWithin(listing.price, percent) <=> F!Fits("ceiling", percent, rate, F!Ceiling(percent))
      <4>1. F!Ceiling(percent) \in Nat
        BY CeilingIs
      <4>2. F!Fits("ceiling", percent, rate, F!Ceiling(percent)) => F!Carries(percent)
        BY <3>3, <4>1 DEF F!Fits, F!Carries
      <4> QED
        BY <1>1, <3>1, <3>3, <3>6, <4>2 DEF F!PriceWithin
    <3>8. F!Chip(listing) = IF F!Fits("ceiling", 35, rate, F!Ceiling(35)) THEN "affordable"
                            ELSE IF F!Fits("ceiling", 40, rate, F!Ceiling(40)) THEN "stretch" ELSE "unaffordable"
      BY <2>1, <3>7 DEF F!VerdictForPrice
    <3>9. rate \notin {F!Headroom(35), F!Headroom(40), F!Disposable}
      BY <1>3, <2>1, <2>3, <3>4 DEF F!OnALimit
    <3> QED
      BY <2>1, <3>3, <3>5, <3>8, <3>9, ClassifyIs
  <2> QED
    BY <2>2, <2>3
<1> QED
  BY <1>1, <1>2, <1>3

(* For every household, surcharge, loan and price, and however comparisons   *)
(* of equals are rounded: the filter finds a listing under the band its     *)
(* chip names, and the scan comes to the same, except exactly on a limit.   *)
THEOREM VerdictsStayAgreed == Spec => []VerdictsAgree
<1> DEFINE Inv == part = "finance" => FinanceInv
<1>1. Init => Inv
  BY FinanceInit DEF Init
<1>2. Inv /\ [Next]_vars => Inv'
  BY PartsApart, FinanceStep
<1>3. FinanceInv => F!TypeOK
  BY DEF FinanceInv, F!TypeOK
<1>4. Inv => VerdictsAgree
  BY <1>3, FilterFollowsChip, ScanFollowsChip DEF VerdictsAgree
<1> QED
  BY <1>1, <1>2, <1>4, PTL DEF Spec

-----------------------------------------------------------------------------
(***************************************************************************)
(* Accounts.  Which rows there are is not enough: what a request in flight *)
(* may still write has to be right as well, when its turn comes.           *)
(***************************************************************************)

RequestType == [pc : {"none", "loaded", "verifying", "rehashing", "hashing", "done"},
                sid : Id \cup {Nobody}, user : User \cup {Nobody}, age : {"live", "idle"},
                touched : BOOLEAN, fresh : BOOLEAN, target : User \cup {Nobody},
                admin : BOOLEAN, since : SUBSET {"account", "password"}]
RowType == [user : User \cup {Nobody}, age : A!Age, signed : A!Signed]
AccountType == [is : {"none", "there", "gone"}, admin : BOOLEAN, password : {"legacy", "hashed", "taken back"}]

(* What a request has in hand: an id it may save under, once somebody is    *)
(* signed in, and that somebody is the one its row names.                   *)
InHand(q) ==
  /\ q.user \in User => q.sid \in Id
  /\ q.sid \in Id => q.sid \in used
  /\ q.touched \/ q.fresh \/ q.pc \in {"rehashing", "hashing"} => q.user \in User
  /\ q.pc \in {"verifying", "hashing"} => q.target \in User
  /\ ~q.fresh /\ q.user \in User /\ A!Issued(q.sid) => rows[q.sid].user = q.user

(* A sign-in under way is to an account that is there, and a save under way *)
(* leaves another administrator, unless it was told otherwise.              *)
NotTold(q) ==
  /\ q.fresh /\ "password" \notin q.since => A!There(q.user)
  /\ q.pc = "verifying" /\ "password" \notin q.since => A!There(q.target)
  /\ q.pc = "hashing" /\ ~q.admin /\ "account" \notin q.since => A!AdminBeside(q.target)

(* The id of a sign-in that was not answered has no row and is in no other  *)
(* hand.                                                                    *)
OwnId(r, q) ==
  q.fresh => /\ rows[q.sid] = A!NoRow
             /\ \A s \in Call : req[s].sid = q.sid => s = r

AccountsInv ==
  /\ A!TypeOK /\ A!SignedInWithThePassword /\ A!SomebodyAdministers
  /\ \A r \in Call : InHand(req[r]) /\ NotTold(req[r]) /\ OwnId(r, req[r])

(* The types, by name.                                                      *)
LEMMA AccountsTypes ==
  A!TypeOK <=> /\ account \in [User -> AccountType] /\ rows \in [Id -> RowType] /\ used \subseteq Id
               /\ \A s \in Id : A!Issued(s) => s \in used /\ rows[s].user # Nobody
               /\ req \in [Call -> RequestType] /\ crowded \in BOOLEAN
<1>1. A!Age \ {"expired"} = {"live", "idle"}
  BY DEF A!Age
<1> QED
  BY <1>1 DEF A!TypeOK, AccountType, RowType, RequestType

LEMMA AccountsTypesNext ==
  A!TypeOK' <=> /\ account' \in [User -> AccountType] /\ rows' \in [Id -> RowType] /\ used' \subseteq Id
                /\ \A s \in Id : A!Issued(s)' => s \in used' /\ rows'[s].user # Nobody
                /\ req' \in [Call -> RequestType] /\ crowded' \in BOOLEAN
<1>1. A!Age \ {"expired"} = {"live", "idle"}
  BY DEF A!Age
<1> QED
  BY <1>1 DEF A!TypeOK, AccountType, RowType, RequestType

LEMMA IdleIsARequest ==
  /\ A!Idle \in RequestType /\ A!Idle.pc = "none" /\ A!Idle.user = Nobody /\ A!Idle.sid = Nobody
  /\ ~A!Idle.touched /\ ~A!Idle.fresh /\ A!NoRow \in RowType
BY DEF A!Idle, A!NoRow, RequestType, RowType, A!Age, A!Signed

LEMMA AccountsInit == A!Init => AccountsInv
<1> SUFFICES ASSUME A!Init PROVE AccountsInv
  OBVIOUS
<1>1. A!TypeOK
  <2>1. PICK a \in User, old \in BOOLEAN :
          account = [u \in User |-> [is |-> IF u = a THEN "there" ELSE "none", admin |-> u = a,
                                     password |-> IF u = a /\ old THEN "legacy" ELSE "hashed"]]
    BY DEF A!Init
  <2>2. ASSUME NEW u \in User
        PROVE  [is |-> IF u = a THEN "there" ELSE "none", admin |-> u = a,
                password |-> IF u = a /\ old THEN "legacy" ELSE "hashed"] \in AccountType
    <3>1. (u = a) \in BOOLEAN
      OBVIOUS
    <3>2. (IF u = a THEN "there" ELSE "none") \in {"none", "there", "gone"}
      OBVIOUS
    <3>3. (IF u = a /\ old THEN "legacy" ELSE "hashed") \in {"legacy", "hashed", "taken back"}
      OBVIOUS
    <3> QED
      BY <3>1, <3>2, <3>3 DEF AccountType
  <2>3. account \in [User -> AccountType]
    BY <2>1, <2>2
  <2> QED
    BY <2>3, IdleIsARequest, AccountsTypes DEF A!Init, A!Issued
<1>2. A!SignedInWithThePassword
  BY DEF A!Init, A!SignedInWithThePassword, A!Issued
<1>3. A!SomebodyAdministers
  <2>1. PICK a \in User, old \in BOOLEAN :
          account = [u \in User |-> [is |-> IF u = a THEN "there" ELSE "none", admin |-> u = a,
                                     password |-> IF u = a /\ old THEN "legacy" ELSE "hashed"]]
    BY DEF A!Init
  <2>2. account[a].is = "there" /\ account[a].admin
    BY <2>1
  <2> QED
    BY <2>2 DEF A!SomebodyAdministers, A!NoAdmin, A!Admins, A!There
<1>4. ASSUME NEW r \in Call PROVE InHand(req[r]) /\ NotTold(req[r]) /\ OwnId(r, req[r])
  <2>1. req[r] = A!Idle
    BY DEF A!Init
  <2> QED
    BY <2>1, IdleIsARequest, NobodyIsNobody DEF InHand, NotTold, OwnId
<1> QED
  BY <1>1, <1>2, <1>3, <1>4 DEF AccountsInv

-----------------------------------------------------------------------------
(* A row that is left is the row that was.                                  *)
RowKept(s) ==
  rows'[s] # A!NoRow => rows[s] # A!NoRow /\ rows'[s].user = rows[s].user /\ rows'[s].signed = rows[s].signed

(* A request that only hears of what another one does.                      *)
GoesOn(q, x) ==
  /\ x.pc = q.pc /\ x.sid = q.sid /\ x.user = q.user /\ x.touched = q.touched
  /\ x.fresh = q.fresh /\ x.target = q.target /\ x.admin = q.admin /\ q.since \subseteq x.since

LEMMA StaysInHand ==
  ASSUME NEW q \in RequestType, NEW x \in RequestType, GoesOn(q, x), InHand(q), NotTold(q),
         q.sid \in Id => RowKept(q.sid), used \subseteq used',
         x.fresh /\ "password" \notin x.since /\ A!There(q.user) => A!There(q.user)',
         x.pc = "verifying" /\ "password" \notin x.since /\ A!There(q.target) => A!There(q.target)',
         x.pc = "hashing" /\ "account" \notin x.since => A!Admins' = A!Admins
  PROVE  InHand(x)' /\ NotTold(x)'
<1>1. InHand(x)'
  BY DEF InHand, GoesOn, RowKept, A!Issued
<1>2. (x.fresh /\ "password" \notin x.since => A!There(x.user))'
  BY DEF NotTold, GoesOn
<1>3. (x.pc = "verifying" /\ "password" \notin x.since => A!There(x.target))'
  BY DEF NotTold, GoesOn
<1>4. (x.pc = "hashing" /\ ~x.admin /\ "account" \notin x.since => A!AdminBeside(x.target))'
  <2> SUFFICES ASSUME x.pc = "hashing", ~x.admin, "account" \notin x.since PROVE A!AdminBeside(x.target)'
    OBVIOUS
  <2>1. A!AdminBeside(q.target) /\ x.target = q.target /\ A!Admins' = A!Admins
    BY DEF NotTold, GoesOn
  <2> QED
    BY <2>1 DEF A!AdminBeside
<1> QED
  BY <1>1, <1>2, <1>3, <1>4 DEF NotTold

(* One request moves, the others go on.                                     *)
LEMMA OneRequestMoves ==
  ASSUME AccountsInv, A!TypeOK', NEW r \in Call, used \subseteq used',
         \A t \in Call \ {r} :
           /\ GoesOn(req[t], req'[t])
           /\ req[t].sid \in Id => RowKept(req[t].sid)
           /\ req[t].fresh => req[t].sid # req'[r].sid
           /\ req'[t].fresh /\ "password" \notin req'[t].since /\ A!There(req[t].user)
                => account'[req[t].user].is = "there"
           /\ req'[t].pc = "verifying" /\ "password" \notin req'[t].since /\ A!There(req[t].target)
                => account'[req[t].target].is = "there"
           /\ req'[t].pc = "hashing" /\ "account" \notin req'[t].since => A!Admins' = A!Admins,
         InHand(req[r])', NotTold(req[r])',
         req'[r].fresh => rows'[req'[r].sid] = A!NoRow /\ \A t \in Call \ {r} : req[t].sid # req'[r].sid
  PROVE  \A t \in Call : (InHand(req[t]) /\ NotTold(req[t]) /\ OwnId(t, req[t]))'
<1> SUFFICES ASSUME NEW t \in Call PROVE (InHand(req[t]) /\ NotTold(req[t]) /\ OwnId(t, req[t]))'
  OBVIOUS
<1>1. /\ req[t] \in RequestType /\ req'[t] \in RequestType
      /\ InHand(req[t]) /\ NotTold(req[t]) /\ OwnId(t, req[t])
  BY AccountsTypes, AccountsTypesNext DEF AccountsInv
<1>2. \A s \in Call \ {r} : req'[s].sid = req[s].sid
  BY DEF GoesOn
<1>3. CASE t = r
  BY <1>2, <1>3 DEF OwnId
<1>4. CASE t # r
  <2>1. PICK q \in RequestType : q = req[t]
    BY <1>1
  <2>2. PICK x \in RequestType : x = req'[t]
    BY <1>1
  <2>3. GoesOn(q, x) /\ InHand(q) /\ NotTold(q) /\ (q.sid \in Id => RowKept(q.sid))
    BY <1>1, <1>4, <2>1, <2>2
  <2>4. /\ x.fresh /\ "password" \notin x.since /\ A!There(q.user) => A!There(q.user)'
        /\ x.pc = "verifying" /\ "password" \notin x.since /\ A!There(q.target) => A!There(q.target)'
        /\ x.pc = "hashing" /\ "account" \notin x.since => A!Admins' = A!Admins
    BY <1>4, <2>1, <2>2 DEF A!There
  <2>5. InHand(x)' /\ NotTold(x)'
    BY <2>3, <2>4, StaysInHand
  <2>6. OwnId(t, req[t])'
    <3> SUFFICES ASSUME x.fresh
                 PROVE  rows'[x.sid] = A!NoRow /\ \A s \in Call : req'[s].sid = x.sid => s = t
      BY <2>2 DEF OwnId
    <3>1. q.fresh /\ q.sid \in Id /\ x.sid = q.sid
      BY <2>3 DEF GoesOn, InHand
    <3>2. rows[q.sid] = A!NoRow /\ \A s \in Call : req[s].sid = q.sid => s = t
      BY <1>1, <2>1, <3>1 DEF OwnId
    <3>3. rows'[q.sid] = A!NoRow
      BY <2>3, <3>1, <3>2 DEF RowKept
    <3>4. req'[r].sid # q.sid
      BY <1>4, <2>1, <3>1
    <3> QED
      BY <1>2, <3>1, <3>2, <3>3, <3>4
  <2> QED
    BY <2>2, <2>5, <2>6
<1> QED
  BY <1>3, <1>4

(* While rows are kept or dropped and nobody leaves, who is signed in stays *)
(* so rightly.                                                              *)
LEMMA SignedStays ==
  ASSUME A!SignedInWithThePassword, NEW gone \in SUBSET User,
         \A s \in Id : RowKept(s) /\ (rows'[s] # A!NoRow => rows[s].user \notin gone),
         \A u \in User \ gone : A!There(u) => account'[u].is = "there",
         \A s \in Id : rows[s] # A!NoRow => rows[s].user \in User
  PROVE  A!SignedInWithThePassword'
BY DEF A!SignedInWithThePassword, RowKept, A!Issued, A!There

(* Most steps move one request on, drop rows at most, and leave alone who   *)
(* is there and who administers.                                            *)
LEMMA OneRequest ==
  ASSUME AccountsInv, NEW r \in Call, NEW x \in RequestType, req' = [req EXCEPT ![r] = x],
         account' \in [User -> AccountType], UNCHANGED crowded,
         \A u \in User : account'[u].is = account[u].is /\ account'[u].admin = account[u].admin,
         rows' \in [Id -> RowType], \A s \in Id : rows'[s] \in {rows[s], A!NoRow},
         used' \subseteq Id, used \subseteq used',
         InHand(x)', NotTold(x)',
         x.fresh => rows'[x.sid] = A!NoRow /\ \A t \in Call \ {r} : req[t].sid # x.sid,
         \A t \in Call \ {r} : req[t].fresh => req[t].sid # x.sid
  PROVE  AccountsInv'
<1>1. /\ account \in [User -> AccountType] /\ rows \in [Id -> RowType] /\ req \in [Call -> RequestType]
      /\ \A s \in Id : A!Issued(s) => s \in used /\ rows[s].user # Nobody
      /\ crowded \in BOOLEAN
  BY AccountsTypes DEF AccountsInv
<1>2. A!TypeOK'
  <2>1. \A s \in Id : A!Issued(s)' => s \in used' /\ rows'[s].user # Nobody
    BY <1>1 DEF A!Issued
  <2>2. req' \in [Call -> RequestType]
    BY <1>1
  <2> QED
    BY <1>1, <2>1, <2>2, AccountsTypesNext
<1>3. A!Admins' = A!Admins
  BY DEF A!Admins, A!There
<1>4. A!SomebodyAdministers'
  BY <1>3 DEF AccountsInv, A!SomebodyAdministers, A!NoAdmin
<1>5. \A s \in Id : RowKept(s)
  BY DEF RowKept
<1>6. A!SignedInWithThePassword'
  <2>1. \A s \in Id : rows[s] # A!NoRow => rows[s].user \in User
    BY <1>1 DEF RowType, A!Issued
  <2>2. \A u \in User \ {} : A!There(u) => account'[u].is = "there"
    BY DEF A!There
  <2>3. A!SignedInWithThePassword
    BY DEF AccountsInv
  <2>4. \A s \in Id : RowKept(s) /\ (rows'[s] # A!NoRow => rows[s].user \notin {})
    BY <1>5
  <2>5. {} \in SUBSET User
    OBVIOUS
  <2> HIDE DEF RowKept
  <2> QED
    BY <2>1, <2>2, <2>3, <2>4, <2>5, SignedStays
<1>7. req'[r] = x /\ \A t \in Call \ {r} : req'[t] = req[t]
  BY <1>1
<1>8. \A t \in Call \ {r} :
           /\ GoesOn(req[t], req'[t])
           /\ req[t].sid \in Id => RowKept(req[t].sid)
           /\ req[t].fresh => req[t].sid # req'[r].sid
           /\ req'[t].fresh /\ "password" \notin req'[t].since /\ A!There(req[t].user)
                => account'[req[t].user].is = "there"
           /\ req'[t].pc = "verifying" /\ "password" \notin req'[t].since /\ A!There(req[t].target)
                => account'[req[t].target].is = "there"
           /\ req'[t].pc = "hashing" /\ "account" \notin req'[t].since => A!Admins' = A!Admins
  <2> SUFFICES ASSUME NEW t \in Call \ {r}
               PROVE  /\ GoesOn(req[t], req'[t])
                      /\ req[t].sid \in Id => RowKept(req[t].sid)
                      /\ req[t].fresh => req[t].sid # req'[r].sid
                      /\ req'[t].fresh /\ "password" \notin req'[t].since /\ A!There(req[t].user)
                           => account'[req[t].user].is = "there"
                      /\ req'[t].pc = "verifying" /\ "password" \notin req'[t].since /\ A!There(req[t].target)
                           => account'[req[t].target].is = "there"
    BY <1>3
  <2>1. GoesOn(req[t], req'[t])
    BY <1>7 DEF GoesOn
  <2>2. InHand(req[t]) /\ req[t] \in RequestType
    BY <1>1 DEF AccountsInv
  <2>3. req'[t].fresh /\ A!There(req[t].user) => account'[req[t].user].is = "there"
    BY <1>7, <2>2 DEF InHand, A!There
  <2>4. req'[t].pc = "verifying" /\ A!There(req[t].target) => account'[req[t].target].is = "there"
    BY <1>7, <2>2 DEF InHand, A!There
  <2> QED
    BY <1>5, <1>7, <2>1, <2>3, <2>4
<1>9. InHand(req[r])' /\ NotTold(req[r])'
  BY <1>7
<1>10. \A t \in Call : (InHand(req[t]) /\ NotTold(req[t]) /\ OwnId(t, req[t]))'
  <2> HIDE DEF InHand, NotTold, RowKept, GoesOn
  <2>1. req'[r].fresh => rows'[req'[r].sid] = A!NoRow /\ \A t \in Call \ {r} : req[t].sid # req'[r].sid
    BY <1>7
  <2> QED
    BY <1>2, <1>8, <1>9, <2>1, OneRequestMoves
<1> QED
  BY <1>2, <1>4, <1>6, <1>10 DEF AccountsInv

(* A request that moves on with what it has in hand.                        *)
LEMMA MovesOn ==
  ASSUME AccountsInv, NEW r \in Call, NEW x \in RequestType, req' = [req EXCEPT ![r] = x],
         x.sid = req[r].sid, x.user = req[r].user, x.fresh = req[r].fresh,
         x.touched \/ x.pc \in {"rehashing", "hashing"} => x.user \in User,
         x.pc \in {"verifying", "hashing"} => x.target \in User,
         x.fresh /\ "password" \notin x.since => "password" \notin req[r].since,
         x.pc = "verifying" /\ "password" \notin x.since => A!There(x.target),
         x.pc = "hashing" /\ ~x.admin /\ "account" \notin x.since => A!AdminBeside(x.target),
         account' \in [User -> AccountType], UNCHANGED <<rows, used, crowded>>,
         \A u \in User : account'[u].is = account[u].is /\ account'[u].admin = account[u].admin
  PROVE  AccountsInv'
<1>1. /\ rows \in [Id -> RowType] /\ req \in [Call -> RequestType] /\ used \subseteq Id
      /\ InHand(req[r]) /\ NotTold(req[r]) /\ OwnId(r, req[r])
      /\ \A t \in Call : OwnId(t, req[t])
  BY AccountsTypes DEF AccountsInv
<1>2. A!Admins' = A!Admins
  BY DEF A!Admins, A!There
<1>3. InHand(x)'
  BY <1>1 DEF InHand, A!Issued
<1>4. NotTold(x)'
  <2>1. (x.fresh /\ "password" \notin x.since => A!There(x.user))'
    BY <1>1 DEF NotTold, InHand, A!There
  <2>2. (x.pc = "verifying" /\ "password" \notin x.since => A!There(x.target))'
    BY DEF A!There
  <2>3. (x.pc = "hashing" /\ ~x.admin /\ "account" \notin x.since => A!AdminBeside(x.target))'
    BY <1>2 DEF A!AdminBeside
  <2> QED
    BY <2>1, <2>2, <2>3 DEF NotTold
<1>5. x.fresh => rows'[x.sid] = A!NoRow /\ \A t \in Call \ {r} : req[t].sid # x.sid
  BY <1>1 DEF OwnId
<1>6. \A t \in Call \ {r} : req[t].fresh => req[t].sid # x.sid
  BY <1>1 DEF OwnId
<1>7. \A s \in Id : rows'[s] \in {rows[s], A!NoRow}
  OBVIOUS
<1> HIDE DEF InHand, NotTold
<1> QED
  BY <1>1, <1>3, <1>4, <1>5, <1>6, <1>7, OneRequest

(* A request that is over, or that begins with nothing in hand.             *)
LEMMA EmptyHanded ==
  ASSUME AccountsInv, NEW r \in Call, NEW x \in RequestType, req' = [req EXCEPT ![r] = x],
         x.user = Nobody, x.sid = Nobody, ~x.touched, ~x.fresh, x.pc \in {"none", "loaded"},
         rows' \in [Id -> RowType], \A s \in Id : rows'[s] \in {rows[s], A!NoRow},
         UNCHANGED <<account, used, crowded>>
  PROVE  AccountsInv'
<1>1. account \in [User -> AccountType] /\ used \subseteq Id
  BY AccountsTypes DEF AccountsInv
<1>2. InHand(x)'
  BY NobodyIsNobody DEF InHand
<1>3. NotTold(x)'
  BY DEF NotTold
<1>4. \A t \in Call \ {r} : req[t].fresh => req[t].sid # x.sid
  BY NobodyIsNobody, AccountsTypes DEF AccountsInv, InHand, RequestType
<1> HIDE DEF InHand, NotTold
<1> QED
  BY <1>1, <1>2, <1>3, <1>4, OneRequest

(* Dropping rows leaves rows.                                               *)
LEMMA DroppedRows ==
  ASSUME rows \in [Id -> RowType], NEW gone
  PROVE  A!Without(gone) \in [Id -> RowType] /\ \A s \in Id : A!Without(gone)[s] = IF s \in gone THEN A!NoRow ELSE rows[s]
BY IdleIsARequest DEF A!Without

-----------------------------------------------------------------------------
(* The invariant of one request, and its type.                              *)
LEMMA OfOne ==
  ASSUME AccountsInv, NEW r \in Call
  PROVE  /\ req[r] \in RequestType /\ req \in [Call -> RequestType] /\ rows \in [Id -> RowType]
         /\ account \in [User -> AccountType] /\ used \subseteq Id
         /\ InHand(req[r]) /\ NotTold(req[r]) /\ OwnId(r, req[r])
BY AccountsTypes DEF AccountsInv

LEMMA OthersIds ==
  ASSUME AccountsInv, NEW r \in Call
  PROVE  \A t \in Call \ {r} : req[t].fresh => /\ req[t].sid # req[r].sid /\ rows[req[t].sid] = A!NoRow
                                               /\ req[t].sid \in Id /\ req[t].sid \in used
<1> SUFFICES ASSUME NEW t \in Call \ {r}, req[t].fresh
             PROVE  req[t].sid # req[r].sid /\ rows[req[t].sid] = A!NoRow /\ req[t].sid \in Id /\ req[t].sid \in used
  OBVIOUS
<1>1. OwnId(t, req[t]) /\ InHand(req[t])
  BY OfOne
<1> QED
  BY <1>1 DEF OwnId, InHand

(* The copy with its timestamp set, as an answer leaves it.                 *)
LEMMA LeftBehind ==
  ASSUME NEW q \in RequestType, NEW x, x = A!Leave(q)
  PROVE  /\ x \in RequestType
         /\ q.touched => x = [q EXCEPT !.pc = "done"]
         /\ ~q.touched => x = A!Idle
BY IdleIsARequest DEF A!Leave, RequestType

LEMMA TouchedCopy ==
  ASSUME NEW q \in RequestType, NEW touch \in BOOLEAN, NEW x, x = A!Touched(q, touch)
  PROVE  /\ x \in RequestType /\ x.pc = q.pc /\ x.sid = q.sid /\ x.user = q.user /\ x.age = q.age
         /\ x.fresh = q.fresh /\ x.target = q.target /\ x.admin = q.admin /\ x.since = q.since
         /\ x.touched => q.touched \/ touch
<1>1. (q.touched \/ touch) \in BOOLEAN
  OBVIOUS
<1>2. x = [q EXCEPT !.touched = q.touched \/ touch]
  BY DEF A!Touched
<1> QED
  BY <1>1, <1>2 DEF RequestType

(* A request that answers with the session it has, or is over.              *)
LEMMA Answers ==
  ASSUME AccountsInv, NEW r \in Call, NEW q \in RequestType, NEW x, x = A!Leave(q), req' = [req EXCEPT ![r] = x],
         q.sid = req[r].sid, q.user = req[r].user, q.fresh = req[r].fresh, q.touched => q.user \in User,
         "password" \in req[r].since => "password" \in q.since,
         account' \in [User -> AccountType], UNCHANGED <<rows, used, crowded>>,
         \A u \in User : account'[u].is = account[u].is /\ account'[u].admin = account[u].admin
  PROVE  AccountsInv'
<1>1. x \in RequestType
  BY LeftBehind
<1>2. CASE q.touched
  <2>1. x = [q EXCEPT !.pc = "done"]
    BY <1>2, LeftBehind
  <2>2. x.sid = req[r].sid /\ x.user = req[r].user /\ x.fresh = req[r].fresh /\ x.pc = "done" /\ x.since = q.since
    BY <2>1 DEF RequestType
  <2> QED
    BY <1>1, <1>2, <2>2, MovesOn
<1>3. CASE ~q.touched
  <2>1. x = A!Idle
    BY <1>3, LeftBehind
  <2>2. InHand(x)' /\ NotTold(x)'
    BY <2>1, IdleIsARequest, NobodyIsNobody DEF InHand, NotTold
  <2>3. ~x.fresh /\ \A t \in Call \ {r} : req[t].fresh => req[t].sid # x.sid
    BY <2>1, IdleIsARequest, NobodyIsNobody, OfOne DEF InHand, RequestType
  <2>4. \A s \in Id : rows'[s] \in {rows[s], A!NoRow}
    OBVIOUS
  <2>5. rows \in [Id -> RowType] /\ used \subseteq Id
    BY OfOne
  <2> HIDE DEF InHand, NotTold
  <2> QED
    BY <1>1, <2>2, <2>3, <2>4, <2>5, OneRequest
<1> QED
  BY <1>2, <1>3

LEMMA ArriveStep ==
  ASSUME AccountsInv, NEW r \in Call, NEW s \in Id \cup {Nobody}, A!Arrive(r, s)
  PROVE  AccountsInv'
<1>1. OwnId(r, req[r]) /\ req[r] \in RequestType /\ InHand(req[r])
  BY OfOne
<1>2. CASE s # Nobody /\ A!Get(s) # A!NoRow
  <2>1. s \in Id /\ rows[s] # A!NoRow /\ A!Issued(s) /\ rows[s].age \in {"live", "idle"}
    BY <1>2, OfOne DEF A!Get, A!Issued, A!NoRow, RowType, A!Age
  <2>2. s \in used /\ rows[s].user \in User
    BY <2>1, AccountsTypes DEF AccountsInv, RowType
  <2>0. PICK x : x = [A!Idle EXCEPT !.pc = "loaded", !.sid = s, !.user = rows[s].user, !.age = rows[s].age]
    OBVIOUS
  <2>3. x \in RequestType /\ x.pc = "loaded" /\ x.sid = s /\ x.user = rows[s].user /\ ~x.fresh /\ ~x.touched
    BY <2>0, <2>1, <2>2, IdleIsARequest DEF RequestType
  <2>4. req' = [req EXCEPT ![r] = x] /\ UNCHANGED <<rows, account, used, crowded>>
    BY <1>2, <2>0 DEF A!Arrive
  <2>5. InHand(x)'
    BY <2>1, <2>2, <2>3, <2>4 DEF InHand
  <2>6. NotTold(x)'
    BY <2>3 DEF NotTold
  <2>7. \A t \in Call \ {r} : req[t].fresh => req[t].sid # x.sid
    BY <2>1, <2>3, OthersIds
  <2>8. \A t \in Id : rows'[t] \in {rows[t], A!NoRow}
    BY <2>4
  <2> HIDE DEF InHand, NotTold
  <2> QED
    BY <2>3, <2>4, <2>5, <2>6, <2>7, <2>8, OfOne, OneRequest
<1>3. CASE ~(s # Nobody /\ A!Get(s) # A!NoRow)
  <2>0. PICK x : x = [req[r] EXCEPT !.pc = "loaded"]
    OBVIOUS
  <2>1. req' = [req EXCEPT ![r] = x] /\ UNCHANGED <<account, used, crowded>>
    BY <1>3, <2>0, OfOne DEF A!Arrive
  <2>2. rows' \in [Id -> RowType] /\ \A t \in Id : rows'[t] \in {rows[t], A!NoRow}
    BY <1>3, OfOne, DroppedRows DEF A!Arrive
  <2>3. req[r].pc = "none"
    BY DEF A!Arrive
  <2>4. x \in RequestType /\ x.pc = "loaded" /\ x.sid = req[r].sid /\ x.user = req[r].user /\ x.fresh = req[r].fresh
        /\ x.touched = req[r].touched /\ x.since = req[r].since
    BY <1>1, <2>0 DEF RequestType
  <2>5. InHand(x)'
    <3>1. \A t \in Id : A!Issued(t)' => rows'[t] = rows[t] /\ A!Issued(t)
      BY <2>2 DEF A!Issued
    <3> QED
      BY <1>1, <2>1, <2>4, <3>1 DEF InHand
  <2>6. NotTold(x)'
    BY <1>1, <2>1, <2>4, OfOne DEF NotTold, A!There
  <2>7. x.fresh => rows'[x.sid] = A!NoRow /\ \A t \in Call \ {r} : req[t].sid # x.sid
    <3>1. x.fresh => x.sid \in Id
      BY <1>1, <2>4 DEF InHand
    <3> QED
      BY <1>1, <2>2, <2>4, <3>1 DEF OwnId
  <2>8. \A t \in Call \ {r} : req[t].fresh => req[t].sid # x.sid
    BY <2>4, OthersIds
  <2> HIDE DEF InHand, NotTold
  <2> QED
    BY <2>1, <2>2, <2>4, <2>5, <2>6, <2>7, <2>8, OfOne, OneRequest
<1> QED
  BY <1>2, <1>3

LEMMA AnswerStep ==
  ASSUME AccountsInv, NEW r \in Call, NEW touch \in BOOLEAN, A!Answer(r, touch)
  PROVE  AccountsInv'
<1>1. PICK q \in RequestType : q = A!Touched(req[r], touch)
  BY OfOne, TouchedCopy
<1>2. PICK x : x = A!Leave(q)
  OBVIOUS
<1>3. req' = [req EXCEPT ![r] = x] /\ UNCHANGED <<account, rows, used, crowded>>
  BY <1>1, <1>2, OfOne DEF A!Answer
<1>4. q.sid = req[r].sid /\ q.user = req[r].user /\ q.fresh = req[r].fresh /\ q.since = req[r].since
  BY <1>1, OfOne, TouchedCopy
<1>5. q.touched => q.user \in User
  <2>1. req[r] \in RequestType /\ InHand(req[r])
    BY OfOne
  <2>2. touch => req[r].user # Nobody
    BY DEF A!Answer, A!SignedIn, A!Unauthorized
  <2>3. q.touched => req[r].touched \/ touch
    BY <1>1, <2>1, TouchedCopy
  <2> QED
    BY <1>4, <2>1, <2>2, <2>3 DEF InHand, RequestType
<1> QED
  BY <1>2, <1>3, <1>4, <1>5, OfOne, Answers

LEMMA WrongPasswordStep ==
  ASSUME AccountsInv, NEW r \in Call, A!WrongPassword(r)
  PROVE  AccountsInv'
<1>1. PICK q : q = A!LetGo(req[r])
  OBVIOUS
<1>2. PICK x : x = A!Leave(q)
  OBVIOUS
<1>3. req' = [req EXCEPT ![r] = x] /\ UNCHANGED <<account, rows, used, crowded>>
  BY <1>1, <1>2 DEF A!WrongPassword
<1>4. req[r] \in RequestType /\ InHand(req[r])
  BY OfOne
<1>5. q \in RequestType /\ q.sid = req[r].sid /\ q.user = req[r].user /\ q.fresh = req[r].fresh
      /\ q.touched = req[r].touched /\ q.since = req[r].since \ {"account"}
  BY <1>1, <1>4 DEF A!LetGo, RequestType
<1>6. q.touched => q.user \in User
  BY <1>4, <1>5 DEF InHand
<1> QED
  BY <1>2, <1>3, <1>5, <1>6, OfOne, Answers

LEMMA LoginStep ==
  ASSUME AccountsInv, NEW r \in Call, NEW u \in User, A!Login(r, u)
  PROVE  AccountsInv'
<1>1. req[r] \in RequestType /\ InHand(req[r]) /\ NotTold(req[r]) /\ OwnId(r, req[r])
  BY OfOne
<1>2. PICK copy : copy = IF req[r].fresh THEN req[r] ELSE [A!Idle EXCEPT !.sid = req[r].sid]
  OBVIOUS
<1>3. /\ copy \in RequestType /\ copy.sid = req[r].sid /\ copy.fresh = req[r].fresh
      /\ req[r].fresh => copy.user = req[r].user /\ copy.touched = req[r].touched /\ copy.since = req[r].since
      /\ ~req[r].fresh => copy.user = Nobody /\ ~copy.touched
  BY <1>1, <1>2, IdleIsARequest DEF RequestType
<1>4. PICK x : x = [copy EXCEPT !.pc = "verifying", !.target = u, !.admin = account[u].password = "legacy"]
  OBVIOUS
<1>5. /\ x \in RequestType /\ x.sid = copy.sid /\ x.fresh = copy.fresh /\ x.user = copy.user /\ x.touched = copy.touched
      /\ x.since = copy.since /\ x.pc = "verifying" /\ x.target = u
  <2>1. (account[u].password = "legacy") \in BOOLEAN
    OBVIOUS
  <2> QED
    BY <1>3, <1>4, <2>1 DEF RequestType
<1>6. req' = [req EXCEPT ![r] = x] /\ UNCHANGED <<account, rows, used, crowded>> /\ A!There(u)
  BY <1>2, <1>4 DEF A!Login
<1>7. InHand(x)'
  BY <1>1, <1>3, <1>5, <1>6, NobodyIsNobody DEF InHand, A!Issued
<1>8. NotTold(x)'
  BY <1>1, <1>3, <1>5, <1>6 DEF NotTold, A!There
<1>9. x.fresh => rows'[x.sid] = A!NoRow /\ \A t \in Call \ {r} : req[t].sid # x.sid
  BY <1>1, <1>3, <1>5, <1>6 DEF OwnId
<1>10. \A t \in Call \ {r} : req[t].fresh => req[t].sid # x.sid
  BY <1>3, <1>5, OthersIds
<1>11. \A s \in Id : rows'[s] \in {rows[s], A!NoRow}
  BY <1>6
<1> HIDE DEF InHand, NotTold
<1> QED
  BY <1>5, <1>6, <1>7, <1>8, <1>9, <1>10, <1>11, OfOne, OneRequest

LEMMA UpdatePasswordHashStep ==
  ASSUME AccountsInv, NEW r \in Call, A!UpdatePasswordHash(r)
  PROVE  AccountsInv'
<1>1. req[r] \in RequestType /\ InHand(req[r]) /\ NotTold(req[r]) /\ account \in [User -> AccountType]
  BY OfOne
<1>2. PICK x : x = [req[r] EXCEPT !.pc = "done"]
  OBVIOUS
<1>3. /\ x \in RequestType /\ x.sid = req[r].sid /\ x.user = req[r].user /\ x.fresh = req[r].fresh
      /\ x.touched = req[r].touched /\ x.since = req[r].since /\ x.pc = "done"
  BY <1>1, <1>2 DEF RequestType
<1>4. req' = [req EXCEPT ![r] = x] /\ UNCHANGED <<rows, used, crowded>> /\ req[r].user \in User
  BY <1>1, <1>2 DEF A!UpdatePasswordHash, InHand
<1>5. PICK a : a = IF account[req[r].user].is = "gone" THEN account[req[r].user]
                   ELSE [account[req[r].user] EXCEPT !.password =
                           IF "password" \in req[r].since THEN "taken back" ELSE "hashed"]
  OBVIOUS
<1>6. a \in AccountType /\ a.is = account[req[r].user].is /\ a.admin = account[req[r].user].admin
  BY <1>1, <1>4, <1>5 DEF AccountType
<1>7. account' = [account EXCEPT ![req[r].user] = a]
  BY <1>1, <1>4, <1>5 DEF A!UpdatePasswordHash
<1>8. account' \in [User -> AccountType]
      /\ \A u \in User : account'[u].is = account[u].is /\ account'[u].admin = account[u].admin
  BY <1>1, <1>4, <1>6, <1>7
<1> QED
  BY <1>3, <1>4, <1>8, MovesOn

LEMMA LogoutStep ==
  ASSUME AccountsInv, NEW r \in Call, A!Logout(r)
  PROVE  AccountsInv'
<1>1. rows' \in [Id -> RowType] /\ \A t \in Id : rows'[t] \in {rows[t], A!NoRow}
  BY OfOne, DroppedRows DEF A!Logout
<1>2. req' = [req EXCEPT ![r] = A!Idle] /\ UNCHANGED <<account, used, crowded>>
  BY DEF A!Logout
<1> QED
  BY <1>1, <1>2, IdleIsARequest, EmptyHanded

(* A sign-in: the id is nobody else's and has no row.                       *)
LEMMA StartSessionStep ==
  ASSUME AccountsInv, NEW r \in Call, NEW s \in Id, NEW u \in User, NEW since \in SUBSET {"account", "password"},
         NEW next \in {"rehashing", "done", "loaded"}, A!StartSession(r, s, u, since, next),
         "password" \notin since => A!There(u), UNCHANGED <<account, crowded>>
  PROVE  AccountsInv'
<1>1. PICK x : x = [A!Idle EXCEPT !.pc = next, !.sid = s, !.user = u, !.touched = TRUE, !.fresh = TRUE, !.since = since]
  OBVIOUS
<1>2. /\ x \in RequestType /\ x.pc = next /\ x.sid = s /\ x.user = u /\ x.fresh /\ x.since = since
  BY <1>1, IdleIsARequest DEF RequestType
<1>3. req' = [req EXCEPT ![r] = x] /\ s \notin used /\ used' = used \cup {s}
  BY <1>1 DEF A!StartSession
<1>4. rows' \in [Id -> RowType] /\ \A t \in Id : rows'[t] \in {rows[t], A!NoRow}
  BY OfOne, DroppedRows DEF A!StartSession
<1>5. rows[s] = A!NoRow
  BY <1>3, AccountsTypes DEF AccountsInv, A!Issued
<1>6. InHand(x)'
  BY <1>2, <1>3 DEF InHand
<1>7. NotTold(x)'
  BY <1>2 DEF NotTold, A!There
<1>8. \A t \in Call : req[t].sid # s
  <2> TAKE t \in Call
  <2>1. InHand(req[t]) /\ req[t] \in RequestType
    BY OfOne
  <2> QED
    BY <1>3, <2>1 DEF InHand
<1>9. x.fresh => rows'[x.sid] = A!NoRow /\ \A t \in Call \ {r} : req[t].sid # x.sid
  BY <1>2, <1>4, <1>5, <1>8
<1>10. used' \subseteq Id /\ used \subseteq used' /\ account' \in [User -> AccountType]
  BY <1>3, OfOne
<1> HIDE DEF InHand, NotTold
<1> QED
  BY <1>2, <1>3, <1>4, <1>6, <1>7, <1>8, <1>9, <1>10, OneRequest

LEMMA RightPasswordStep ==
  ASSUME AccountsInv, NEW r \in Call, NEW s \in Id, A!RightPassword(r, s)
  PROVE  AccountsInv'
<1>1. req[r] \in RequestType /\ InHand(req[r]) /\ NotTold(req[r])
  BY OfOne
<1>2. req[r].target \in User /\ req[r].since \in SUBSET {"account", "password"}
      /\ ("password" \notin req[r].since => A!There(req[r].target))
  BY <1>1 DEF A!RightPassword, InHand, NotTold, RequestType
<1>3. PICK next \in {"rehashing", "done", "loaded"} : next = IF req[r].admin THEN "rehashing" ELSE "done"
  OBVIOUS
<1>4. A!StartSession(r, s, req[r].target, req[r].since, next) /\ UNCHANGED <<account, crowded>>
  BY <1>3 DEF A!RightPassword
<1> QED
  BY <1>2, <1>4, StartSessionStep

LEMMA ProxyAuthStep ==
  ASSUME AccountsInv, NEW r \in Call, NEW s \in Id, NEW u \in User, A!ProxyAuth(r, s, u)
  PROVE  AccountsInv'
<1>1. A!StartSession(r, s, u, {}, "loaded") /\ UNCHANGED <<account, crowded>> /\ A!There(u)
  BY DEF A!ProxyAuth
<1>2. {} \in SUBSET {"account", "password"} /\ "loaded" \in {"rehashing", "done", "loaded"}
  OBVIOUS
<1> QED
  BY <1>1, <1>2, StartSessionStep

(* Who asks for a change of the accounts is signed in.                      *)
LEMMA AskedByAnAdmin ==
  ASSUME AccountsInv, NEW r \in Call, A!IsAdmin(r)
  PROVE  req[r].pc = "loaded" /\ req[r].user \in User /\ req[r].user \in A!Admins
BY DEF A!IsAdmin, A!SignedIn, A!Admins

(* The first half of a save with a password: it looked for another admin.   *)
LEMMA SaveWithPasswordStep ==
  ASSUME AccountsInv, NEW r \in Call, NEW u \in User, NEW admin \in BOOLEAN, NEW touch \in BOOLEAN,
         A!SaveUser(r, u, admin, TRUE, touch)
  PROVE  AccountsInv'
<1>1. req[r] \in RequestType /\ InHand(req[r]) /\ NotTold(req[r])
  BY OfOne
<1>2. PICK q \in RequestType : q = A!Touched(req[r], touch)
  BY <1>1, TouchedCopy
<1>3. q.sid = req[r].sid /\ q.user = req[r].user /\ q.fresh = req[r].fresh /\ q.since = req[r].since
  BY <1>1, <1>2, TouchedCopy
<1>4. PICK x : x = [q EXCEPT !.pc = "hashing", !.target = u, !.admin = admin]
  OBVIOUS
<1>5. /\ x \in RequestType /\ x.sid = q.sid /\ x.user = q.user /\ x.fresh = q.fresh /\ x.since = q.since
      /\ x.pc = "hashing" /\ x.target = u /\ x.admin = admin
  BY <1>4 DEF RequestType
<1>6. /\ req' = [req EXCEPT ![r] = x] /\ UNCHANGED <<account, crowded, rows, used>>
      /\ A!IsAdmin(r) /\ (admin \/ A!AdminBeside(u))
  BY <1>2, <1>4 DEF A!SaveUser
<1>7. req[r].user \in User
  BY <1>6, AskedByAnAdmin
<1> QED
  BY <1>3, <1>5, <1>6, <1>7, OfOne, MovesOn

-----------------------------------------------------------------------------
(* Nobody moves and nothing but rows is lost or grows older.                *)
LEMMA OnlyRows ==
  ASSUME AccountsInv, rows' \in [Id -> RowType], \A s \in Id : RowKept(s), UNCHANGED <<account, used, crowded>>,
         req' = req \/ req' = [r \in Call |-> A!Idle]
  PROVE  AccountsInv'
<1>1. /\ account \in [User -> AccountType] /\ rows \in [Id -> RowType] /\ req \in [Call -> RequestType]
      /\ \A s \in Id : A!Issued(s) => s \in used /\ rows[s].user # Nobody
      /\ crowded \in BOOLEAN /\ used \subseteq Id
  BY AccountsTypes DEF AccountsInv
<1>2. A!TypeOK'
  <2>1. \A s \in Id : A!Issued(s)' => s \in used' /\ rows'[s].user # Nobody
    BY <1>1 DEF A!Issued, RowKept
  <2>2. req' \in [Call -> RequestType]
    BY <1>1, IdleIsARequest
  <2> QED
    BY <1>1, <2>1, <2>2, AccountsTypesNext
<1>3. A!SomebodyAdministers'
  BY DEF AccountsInv, A!SomebodyAdministers, A!NoAdmin, A!Admins, A!There
<1>4. A!SignedInWithThePassword'
  BY <1>1 DEF AccountsInv, A!SignedInWithThePassword, RowKept, A!Issued, A!There, RowType
<1>5. ASSUME NEW r \in Call PROVE (InHand(req[r]) /\ NotTold(req[r]) /\ OwnId(r, req[r]))'
  <2>1. CASE req' = [q \in Call |-> A!Idle]
    <3>1. req'[r] = A!Idle
      BY <2>1
    <3> QED
      BY <3>1, IdleIsARequest, NobodyIsNobody DEF InHand, NotTold, OwnId
  <2>2. CASE req' = req
    <3>1. req[r] \in RequestType /\ InHand(req[r]) /\ NotTold(req[r]) /\ OwnId(r, req[r])
      BY OfOne
    <3>2. InHand(req[r])'
      BY <2>2, <3>1 DEF InHand, A!Issued, RowKept
    <3>3. NotTold(req[r])'
      BY <2>2, <3>1 DEF NotTold, A!There, A!AdminBeside, A!Admins
    <3>4. OwnId(r, req[r])'
      BY <2>2, <3>1 DEF OwnId, InHand, RowKept
    <3> QED
      BY <3>2, <3>3, <3>4
  <2> QED
    BY <2>1, <2>2
<1> QED
  BY <1>2, <1>3, <1>4, <1>5 DEF AccountsInv

LEMMA OlderStep ==
  ASSUME AccountsInv, NEW s \in Id, A!Older(s)
  PROVE  AccountsInv'
<1>1. rows \in [Id -> RowType]
  BY AccountsTypes DEF AccountsInv
<1>2. PICK x : x = [rows[s] EXCEPT !.age = IF rows[s].age = "live" THEN "idle" ELSE "expired"]
  OBVIOUS
<1>3. x \in RowType /\ x.user = rows[s].user /\ x.signed = rows[s].signed
  BY <1>1, <1>2 DEF RowType, A!Age
<1>4. rows' = [rows EXCEPT ![s] = x] /\ rows[s] # A!NoRow /\ UNCHANGED <<account, used, req, crowded>>
  BY <1>1, <1>2 DEF A!Older, A!Issued
<1>5. rows' \in [Id -> RowType] /\ \A t \in Id : RowKept(t)
  BY <1>1, <1>3, <1>4 DEF RowKept
<1> QED
  BY <1>4, <1>5, OnlyRows

LEMMA SweepStep ==
  ASSUME AccountsInv, A!SweepExpiredSessions \/ A!Restart
  PROVE  AccountsInv'
<1>1. rows \in [Id -> RowType]
  BY AccountsTypes DEF AccountsInv
<1>2. rows' \in [Id -> RowType] /\ \A t \in Id : RowKept(t)
  BY <1>1, DroppedRows DEF RowKept, A!SweepExpiredSessions, A!Restart
<1>3. UNCHANGED <<account, used, crowded>> /\ (req' = req \/ req' = [r \in Call |-> A!Idle])
  BY DEF A!SweepExpiredSessions, A!Restart
<1> QED
  BY <1>2, <1>3, OnlyRows

-----------------------------------------------------------------------------
(* The answer writes a row of its own sign-in, or one that is there.        *)
LEMMA SavedRows ==
  ASSUME AccountsInv, NEW r \in Call, NEW q \in RequestType, q = req[r], NEW saved, saved = A!Saved(q)
  PROVE  /\ saved \in [Id -> RowType]
         /\ \A s \in Id : saved[s] # A!NoRow => \/ q.fresh /\ q.touched /\ s = q.sid
                                                \/ /\ rows[s] # A!NoRow /\ saved[s].user = rows[s].user
                                                   /\ saved[s].signed = rows[s].signed
         /\ q.fresh /\ q.touched =>
              q.sid \in Id /\ saved[q.sid].user = q.user /\ q.user \in User
              /\ saved[q.sid].signed = (IF "password" \in q.since THEN "late" ELSE "now")
<1>1. rows \in [Id -> RowType] /\ InHand(q)
  BY OfOne
<1>2. CASE q.touched /\ q.fresh
  <2>1. q.sid \in Id /\ q.user \in User
    BY <1>1, <1>2 DEF InHand
  <2>2. PICK y : y = [user |-> q.user, age |-> q.age, signed |-> IF "password" \in q.since THEN "late" ELSE "now"]
    OBVIOUS
  <2>3. y \in RowType /\ y.user = q.user /\ y.signed = IF "password" \in q.since THEN "late" ELSE "now"
    BY <2>1, <2>2 DEF RowType, RequestType, A!Age, A!Signed
  <2>4. saved = [rows EXCEPT ![q.sid] = y]
    BY <1>2, <2>2 DEF A!Saved, A!SetRow
  <2> QED
    BY <1>1, <1>2, <2>1, <2>3, <2>4
<1>3. CASE ~q.fresh /\ q.touched /\ A!Issued(q.sid) /\ rows[q.sid].age # "expired"
  <2>1. q.sid \in Id /\ q.user \in User /\ rows[q.sid].user = q.user
    BY <1>1, <1>3 DEF InHand
  <2>2. PICK y : y = [rows[q.sid] EXCEPT !.user = q.user, !.age = q.age]
    OBVIOUS
  <2>7. rows[q.sid] \in RowType /\ q.age \in A!Age
    BY <1>1, <2>1 DEF RequestType, A!Age
  <2>3. y \in RowType /\ y.user = rows[q.sid].user /\ y.signed = rows[q.sid].signed
    BY <2>1, <2>2, <2>7 DEF RowType
  <2>4. saved = [rows EXCEPT ![q.sid].user = q.user, ![q.sid].age = q.age]
    BY <1>3 DEF A!Saved
  <2>5. saved = [rows EXCEPT ![q.sid] = y]
    BY <1>1, <2>1, <2>2, <2>4
  <2>6. rows[q.sid] # A!NoRow
    BY <1>3 DEF A!Issued
  <2> QED
    BY <1>1, <1>3, <2>1, <2>3, <2>5, <2>6
<1>4. CASE ~(q.touched /\ q.fresh) /\ ~(~q.fresh /\ q.touched /\ A!Issued(q.sid) /\ rows[q.sid].age # "expired")
  <2>1. saved = rows
    BY <1>4 DEF A!Saved
  <2> QED
    BY <1>1, <1>4, <2>1
<1> QED
  BY <1>2, <1>3, <1>4

LEMMA RespondStep ==
  ASSUME AccountsInv, NEW r \in Call, A!Respond(r)
  PROVE  AccountsInv'
<1>1. PICK q \in RequestType : q = req[r]
  BY OfOne
<1>2. InHand(q) /\ NotTold(q) /\ OwnId(r, q)
  BY <1>1, OfOne
<1>3. rows' = A!Saved(q) /\ req' = [req EXCEPT ![r] = A!Idle] /\ UNCHANGED <<account, used, crowded>>
  BY <1>1 DEF A!Respond
<1>4. /\ rows' \in [Id -> RowType]
      /\ \A s \in Id : rows'[s] # A!NoRow => \/ q.fresh /\ q.touched /\ s = q.sid
                                             \/ /\ rows[s] # A!NoRow /\ rows'[s].user = rows[s].user
                                                /\ rows'[s].signed = rows[s].signed
      /\ q.fresh /\ q.touched =>
           q.sid \in Id /\ rows'[q.sid].user = q.user /\ q.user \in User
           /\ rows'[q.sid].signed = (IF "password" \in q.since THEN "late" ELSE "now")
  BY <1>1, <1>3, SavedRows
<1>5. /\ account \in [User -> AccountType] /\ rows \in [Id -> RowType] /\ req \in [Call -> RequestType]
      /\ \A s \in Id : A!Issued(s) => s \in used /\ rows[s].user # Nobody
      /\ crowded \in BOOLEAN /\ used \subseteq Id
  BY AccountsTypes DEF AccountsInv
<1>6. req'[r] = A!Idle /\ \A t \in Call \ {r} : req'[t] = req[t]
  BY <1>3, <1>5
<1>7. A!TypeOK'
  <2>1. q.sid \in Id => q.sid \in used
    BY <1>2 DEF InHand
  <2>2. \A s \in Id : A!Issued(s)' => s \in used' /\ rows'[s].user # Nobody
    BY <1>3, <1>4, <1>5, <2>1, NobodyIsNobody DEF A!Issued
  <2>3. req' \in [Call -> RequestType]
    BY <1>3, <1>5, IdleIsARequest
  <2> QED
    BY <1>3, <1>4, <1>5, <2>2, <2>3, AccountsTypesNext
<1>8. A!SomebodyAdministers'
  BY <1>3 DEF AccountsInv, A!SomebodyAdministers, A!NoAdmin, A!Admins, A!There
<1>9. A!SignedInWithThePassword'
  <2> SUFFICES ASSUME NEW s \in Id, rows'[s] # A!NoRow
               PROVE  rows'[s].signed # "before" /\ (rows'[s].signed = "now" => account'[rows'[s].user].is = "there")
    BY DEF A!SignedInWithThePassword, A!Issued, A!There
  <2>1. CASE q.fresh /\ q.touched /\ s = q.sid
    BY <1>2, <1>3, <1>4, <2>1 DEF NotTold, A!There
  <2>2. CASE rows[s] # A!NoRow /\ rows'[s].user = rows[s].user /\ rows'[s].signed = rows[s].signed
    BY <1>3, <2>2 DEF AccountsInv, A!SignedInWithThePassword, A!Issued, A!There
  <2> QED
    BY <1>4, <2>1, <2>2
<1>10. InHand(req[r])' /\ NotTold(req[r])'
  BY <1>6, IdleIsARequest, NobodyIsNobody DEF InHand, NotTold
<1>11. A!Admins' = A!Admins
  BY <1>3 DEF A!Admins, A!There
<1>12. ASSUME NEW t \in Call \ {r}
       PROVE  /\ GoesOn(req[t], req'[t])
              /\ req[t].sid \in Id => RowKept(req[t].sid)
              /\ req[t].fresh => req[t].sid # req'[r].sid
              /\ req'[t].fresh /\ A!There(req[t].user) => account'[req[t].user].is = "there"
              /\ req'[t].pc = "verifying" /\ A!There(req[t].target) => account'[req[t].target].is = "there"
  <2>1. GoesOn(req[t], req'[t])
    BY <1>6 DEF GoesOn
  <2>2. req[t].sid \in Id => RowKept(req[t].sid)
    BY <1>1, <1>2, <1>4 DEF RowKept, OwnId
  <2>3. req[t].fresh => req[t].sid # req'[r].sid
    BY <1>6, OthersIds, IdleIsARequest, NobodyIsNobody
  <2> QED
    BY <1>3, <2>1, <2>2, <2>3 DEF A!There
<1>13. \A t \in Call : (InHand(req[t]) /\ NotTold(req[t]) /\ OwnId(t, req[t]))'
  <2> HIDE DEF InHand, NotTold, RowKept, GoesOn
  <2>1. ~req'[r].fresh /\ used \subseteq used'
    BY <1>3, <1>6, IdleIsARequest
  <2> QED
    BY <1>7, <1>10, <1>11, <1>12, <2>1, OneRequestMoves
<1> QED
  BY <1>7, <1>8, <1>9, <1>13 DEF AccountsInv

-----------------------------------------------------------------------------
(* The steps that change an account tell the requests under way.            *)
LEMMA LeftInHand ==
  ASSUME AccountsInv, NEW r \in Call, NEW q \in RequestType, NEW x, x = A!Leave(q),
         q.sid = req[r].sid, q.user = req[r].user, q.fresh = req[r].fresh, q.touched => q.user \in User,
         "password" \in req[r].since => "password" \in q.since
  PROVE  /\ x \in RequestType /\ InHand(x) /\ NotTold(x) /\ x.pc \in {"none", "done"}
         /\ x.sid \in {req[r].sid, Nobody} /\ (x.fresh => req[r].fresh /\ x.sid = req[r].sid)
<1>1. x \in RequestType /\ InHand(req[r]) /\ NotTold(req[r])
  BY LeftBehind, OfOne
<1>2. CASE q.touched
  <2>1. x = [q EXCEPT !.pc = "done"]
    BY <1>2, LeftBehind
  <2>2. /\ x.sid = q.sid /\ x.user = q.user /\ x.fresh = q.fresh /\ x.pc = "done" /\ x.since = q.since
        /\ x.touched = q.touched
    BY <2>1 DEF RequestType
  <2>3. InHand(x)
    BY <1>1, <1>2, <2>2 DEF InHand
  <2>4. NotTold(x)
    BY <1>1, <1>2, <2>2 DEF NotTold
  <2> QED
    BY <1>1, <2>2, <2>3, <2>4
<1>3. CASE ~q.touched
  <2>1. x = A!Idle
    BY <1>3, LeftBehind
  <2>2. InHand(x) /\ NotTold(x)
    BY <2>1, IdleIsARequest, NobodyIsNobody DEF InHand, NotTold
  <2> QED
    BY <1>1, <2>1, <2>2, IdleIsARequest
<1> QED
  BY <1>2, <1>3

LEMMA ToldOne ==
  ASSUME AccountsInv, NEW r \in Call, NEW x \in RequestType, x.pc \in {"none", "done"},
         NEW left, left = [req EXCEPT ![r] = x], NEW told, told = A!Told(left)
  PROVE  /\ told \in [Call -> RequestType] /\ told[r] = x
         /\ \A t \in Call \ {r} : GoesOn(req[t], told[t])
         /\ \A t \in Call : told[t].pc = "hashing" => "account" \in told[t].since
<1>1. req \in [Call -> RequestType] /\ left \in [Call -> RequestType] /\ left[r] = x
      /\ \A t \in Call \ {r} : left[t] = req[t]
  BY OfOne
<1>2. told = [t \in Call |-> IF left[t].pc = "hashing" THEN [left[t] EXCEPT !.since = @ \cup {"account"}] ELSE left[t]]
  BY DEF A!Told
<1>3. ASSUME NEW t \in Call
      PROVE  /\ told[t] \in RequestType /\ GoesOn(left[t], told[t])
             /\ told[t].pc = "hashing" => "account" \in told[t].since
  <2>1. CASE left[t].pc = "hashing"
    <3>1. PICK y : y = [left[t] EXCEPT !.since = left[t].since \cup {"account"}]
      OBVIOUS
    <3>2. told[t] = y /\ left[t] \in RequestType
      BY <1>1, <1>2, <2>1, <3>1
    <3>3. /\ y \in RequestType /\ y.pc = left[t].pc /\ y.sid = left[t].sid /\ y.user = left[t].user
          /\ y.touched = left[t].touched /\ y.fresh = left[t].fresh /\ y.target = left[t].target
          /\ y.admin = left[t].admin /\ y.since = left[t].since \cup {"account"}
      BY <3>1, <3>2 DEF RequestType
    <3> QED
      BY <3>2, <3>3 DEF GoesOn
  <2>2. CASE left[t].pc # "hashing"
    <3>1. told[t] = left[t]
      BY <1>2, <2>2
    <3> QED
      BY <1>1, <2>2, <3>1 DEF GoesOn
  <2> QED
    BY <2>1, <2>2
<1>4. told \in [Call -> RequestType]
  BY <1>2, <1>3
<1>5. told[r] = x
  BY <1>1, <1>2
<1> QED
  BY <1>1, <1>3, <1>4, <1>5

(* Nothing under way for u goes on without knowing of its new password.     *)
Warned(q, u) ==
  /\ q.pc = "hashing" => "account" \in q.since
  /\ q.fresh /\ "password" \notin q.since => q.user # u
  /\ q.pc = "verifying" /\ "password" \notin q.since => q.target # u

LEMMA ToldOneOfPassword ==
  ASSUME AccountsInv, NEW r \in Call, NEW x \in RequestType, x.pc \in {"none", "done"}, NEW u \in User,
         NEW left, left = [req EXCEPT ![r] = x], NEW told, told = A!ToldOfPassword(left, u)
  PROVE  /\ told \in [Call -> RequestType] /\ GoesOn(x, told[r])
         /\ \A t \in Call \ {r} : GoesOn(req[t], told[t])
         /\ \A t \in Call : Warned(told[t], u)
<1>1. PICK first : first = A!Told(left)
  OBVIOUS
<1>2. /\ first \in [Call -> RequestType] /\ first[r] = x
      /\ \A t \in Call \ {r} : GoesOn(req[t], first[t])
      /\ \A t \in Call : first[t].pc = "hashing" => "account" \in first[t].since
  BY <1>1, ToldOne
<1>3. req \in [Call -> RequestType] /\ left[r] = x /\ \A t \in Call \ {r} : left[t] = req[t]
  BY OfOne
<1>4. told = [t \in Call |-> IF \/ left[t].pc = "verifying" /\ left[t].target = u
                                \/ left[t].fresh /\ left[t].user = u
                             THEN [first[t] EXCEPT !.since = @ \cup {"password"}] ELSE first[t]]
  BY <1>1 DEF A!ToldOfPassword
<1>5. \A t \in Call : /\ first[t].pc = left[t].pc /\ first[t].target = left[t].target
                      /\ first[t].fresh = left[t].fresh /\ first[t].user = left[t].user
  BY <1>2, <1>3 DEF GoesOn
<1>6. ASSUME NEW t \in Call
      PROVE  /\ told[t] \in RequestType /\ GoesOn(first[t], told[t])
             /\ told[t].pc = "hashing" => "account" \in told[t].since
             /\ told[t].fresh /\ "password" \notin told[t].since => told[t].user # u
             /\ told[t].pc = "verifying" /\ "password" \notin told[t].since => told[t].target # u
  <2>0. first[t] \in RequestType /\ (first[t].pc = "hashing" => "account" \in first[t].since)
    BY <1>2
  <2>1. CASE (left[t].pc = "verifying" /\ left[t].target = u) \/ (left[t].fresh /\ left[t].user = u)
    <3>1. PICK y : y = [first[t] EXCEPT !.since = first[t].since \cup {"password"}]
      OBVIOUS
    <3>2. told[t] = y
      BY <1>4, <2>1, <3>1
    <3>3. /\ y \in RequestType /\ y.pc = first[t].pc /\ y.sid = first[t].sid /\ y.user = first[t].user
          /\ y.touched = first[t].touched /\ y.fresh = first[t].fresh /\ y.target = first[t].target
          /\ y.admin = first[t].admin /\ y.since = first[t].since \cup {"password"}
      BY <2>0, <3>1 DEF RequestType
    <3> QED
      BY <2>0, <3>2, <3>3 DEF GoesOn
  <2>2. CASE ~((left[t].pc = "verifying" /\ left[t].target = u) \/ (left[t].fresh /\ left[t].user = u))
    <3>0. left[t].fresh \in BOOLEAN
      BY <1>3 DEF RequestType
    <3>7. ~(left[t].fresh /\ left[t].user = u) /\ ~(left[t].pc = "verifying" /\ left[t].target = u)
      BY <2>2, <3>0
    <3>1. told[t] = first[t]
      BY <1>4, <3>0, <3>7
    <3>2. GoesOn(first[t], told[t])
      BY <3>1 DEF GoesOn
    <3>3. ~(first[t].fresh /\ first[t].user = u)
      BY <1>5, <3>7
    <3>4. ~(first[t].pc = "verifying" /\ first[t].target = u)
      BY <1>5, <3>7
    <3>5. told[t].fresh /\ "password" \notin told[t].since => told[t].user # u
      BY <3>1, <3>3
    <3>6. told[t].pc = "verifying" /\ "password" \notin told[t].since => told[t].target # u
      BY <3>1, <3>4
    <3> QED
      BY <2>0, <3>1, <3>2, <3>5, <3>6
  <2> QED
    BY <2>1, <2>2
<1>7. told \in [Call -> RequestType]
  BY <1>4, <1>6
<1>8. GoesOn(x, told[r])
  BY <1>2, <1>6
<1>9. ASSUME NEW t \in Call \ {r} PROVE GoesOn(req[t], told[t])
  <2>1. GoesOn(req[t], first[t]) /\ GoesOn(first[t], told[t])
    BY <1>2, <1>6
  <2> QED
    BY <2>1 DEF GoesOn
<1> QED
  BY <1>6, <1>7, <1>8, <1>9 DEF Warned

LEMMA ToldMoves ==
  ASSUME AccountsInv, A!TypeOK', NEW r \in Call, UNCHANGED used, \A s \in Id : RowKept(s),
         NEW x \in RequestType, InHand(x), NotTold(x), x.pc \in {"none", "done"},
         x.sid \in {req[r].sid, Nobody}, x.fresh => req[r].fresh /\ x.sid = req[r].sid,
         GoesOn(x, req'[r]), \A t \in Call \ {r} : GoesOn(req[t], req'[t]),
         \A t \in Call :
           /\ req'[t].pc = "hashing" /\ "account" \notin req'[t].since => A!Admins' = A!Admins
           /\ req'[t].fresh /\ "password" \notin req'[t].since /\ A!There(req'[t].user)
                => account'[req'[t].user].is = "there"
           /\ req'[t].pc = "verifying" /\ "password" \notin req'[t].since /\ A!There(req'[t].target)
                => account'[req'[t].target].is = "there"
  PROVE  \A t \in Call : (InHand(req[t]) /\ NotTold(req[t]) /\ OwnId(t, req[t]))'
<1>1. InHand(req[r])' /\ NotTold(req[r])'
  <2>1. PICK y \in RequestType : y = req'[r]
    BY AccountsTypesNext
  <2>2. GoesOn(x, y) /\ y.user = x.user /\ y.target = x.target /\ (x.sid \in Id => RowKept(x.sid)) /\ used \subseteq used'
    BY <2>1 DEF GoesOn
  <2>3. /\ y.fresh /\ "password" \notin y.since /\ A!There(x.user) => A!There(x.user)'
        /\ y.pc = "verifying" /\ "password" \notin y.since /\ A!There(x.target) => A!There(x.target)'
        /\ y.pc = "hashing" /\ "account" \notin y.since => A!Admins' = A!Admins
    BY <2>1, <2>2 DEF A!There
  <2>4. InHand(y)' /\ NotTold(y)'
    BY <2>2, <2>3, StaysInHand
  <2> QED
    BY <2>1, <2>4
<1>2. req'[r].sid = x.sid /\ req'[r].fresh = x.fresh
  BY DEF GoesOn
<1>3. ASSUME NEW t \in Call \ {r}
      PROVE  /\ GoesOn(req[t], req'[t])
             /\ req[t].sid \in Id => RowKept(req[t].sid)
             /\ req[t].fresh => req[t].sid # req'[r].sid
             /\ req'[t].fresh /\ "password" \notin req'[t].since /\ A!There(req[t].user)
                  => account'[req[t].user].is = "there"
             /\ req'[t].pc = "verifying" /\ "password" \notin req'[t].since /\ A!There(req[t].target)
                  => account'[req[t].target].is = "there"
             /\ req'[t].pc = "hashing" /\ "account" \notin req'[t].since => A!Admins' = A!Admins
  <2>1. req[t].fresh => req[t].sid # req'[r].sid
    BY <1>2, OthersIds, NobodyIsNobody
  <2>2. req'[t].user = req[t].user /\ req'[t].target = req[t].target
    BY DEF GoesOn
  <2> QED
    BY <2>1, <2>2
<1>4. req'[r].fresh => rows'[req'[r].sid] = A!NoRow /\ \A t \in Call \ {r} : req[t].sid # req'[r].sid
  <2> SUFFICES ASSUME x.fresh
               PROVE  rows'[x.sid] = A!NoRow /\ \A t \in Call \ {r} : req[t].sid # x.sid
    BY <1>2
  <2>1. req[r].fresh /\ x.sid = req[r].sid /\ OwnId(r, req[r]) /\ InHand(req[r])
    BY OfOne
  <2>2. x.sid \in Id
    BY <2>1 DEF InHand
  <2> QED
    BY <2>1, <2>2 DEF OwnId, RowKept
<1> HIDE DEF InHand, NotTold, RowKept, GoesOn
<1> QED
  BY <1>1, <1>3, <1>4, OneRequestMoves

(* The sessions of an account are dropped with its password, but the one    *)
(* that is kept: no row is left to be of an older password.                 *)
LEMMA EndedRows ==
  ASSUME rows \in [Id -> RowType], NEW u \in User, NEW keep, NEW left, left = A!Replaced(A!Without(A!EndedBy(u, keep)), u, keep)
  PROVE  /\ left \in [Id -> RowType] /\ left = A!Without(A!EndedBy(u, keep))
         /\ \A s \in Id : left[s] # A!NoRow => left[s] = rows[s] /\ (rows[s].user # u \/ s = keep)
<1>1. PICK w : w = A!Without(A!EndedBy(u, keep))
  OBVIOUS
<1>2. /\ w \in [Id -> RowType]
      /\ \A s \in Id : w[s] = IF s \in A!EndedBy(u, keep) THEN A!NoRow ELSE rows[s]
  BY <1>1, DroppedRows
<1>3. \A s \in Id : w[s] # A!NoRow => w[s] = rows[s] /\ (rows[s].user # u \/ s = keep)
  BY <1>2 DEF A!EndedBy
<1>4. \A s \in Id : ~(w[s].user = u /\ s # keep /\ w[s].signed = "now")
  <2>1. A!NoRow.user = Nobody
    BY DEF A!NoRow
  <2> QED
    BY <1>3, <2>1, NobodyIsNobody
<1>5. left = [s \in Id |-> w[s]]
  BY <1>1, <1>4 DEF A!Replaced
<1> QED
  BY <1>1, <1>2, <1>3, <1>5

(* The route again, once the hash is there.                                 *)
LEMMA LetGoCopy ==
  ASSUME NEW q \in RequestType, NEW x, x = A!LetGo(q)
  PROVE  /\ x \in RequestType /\ x.sid = q.sid /\ x.user = q.user /\ x.fresh = q.fresh /\ x.touched = q.touched
         /\ x.since = q.since \ {"account"}
BY DEF A!LetGo, RequestType

LEMMA PasswordHashedStep ==
  ASSUME AccountsInv, NEW r \in Call, A!PasswordHashed(r)
  PROVE  AccountsInv'
<1>1. PICK q \in RequestType : q = req[r]
  BY OfOne
<1>2. PICK u : u = q.target
  OBVIOUS
<1>3. InHand(q) /\ NotTold(q) /\ q.pc = "hashing" /\ u \in User /\ q.user \in User /\ q.sid \in Id
  BY <1>1, <1>2, OfOne DEF InHand, A!PasswordHashed
<1>4. PICK g \in RequestType : g = A!LetGo(q)
  BY LetGoCopy
<1>5. PICK x : x = A!Leave(g)
  OBVIOUS
<1>6. PICK left : left = [req EXCEPT ![r] = x]
  OBVIOUS
<1>7. /\ x \in RequestType /\ InHand(x) /\ NotTold(x) /\ x.pc \in {"none", "done"}
      /\ x.sid \in {req[r].sid, Nobody} /\ (x.fresh => req[r].fresh /\ x.sid = req[r].sid)
  BY <1>1, <1>3, <1>4, <1>5, LetGoCopy, LeftInHand
<1>8. /\ account \in [User -> AccountType] /\ rows \in [Id -> RowType] /\ req \in [Call -> RequestType]
      /\ \A s \in Id : A!Issued(s) => s \in used /\ rows[s].user # Nobody
      /\ crowded \in BOOLEAN /\ used \subseteq Id
  BY AccountsTypes DEF AccountsInv
<1>9. left \in [Call -> RequestType] /\ left[r] = x /\ \A t \in Call \ {r} : left[t] = req[t]
  BY <1>6, <1>7, <1>8
<1>10. UNCHANGED used /\ crowded' \in BOOLEAN
       /\ crowded' = (A!NoAdmin' /\ (crowded \/ "account" \in q.since))
  BY <1>1 DEF A!PasswordHashed
<1>11. /\ account[u].is = "gone" => /\ rows' = A!Without(A!EndedBy(u, q.sid)) /\ req' = left
                                    /\ UNCHANGED account
       /\ account[u].is # "gone" =>
            /\ account' = [account EXCEPT ![u] = [is |-> "there", admin |-> q.admin, password |-> "hashed"]]
            /\ rows' = A!Replaced(A!Without(A!EndedBy(u, q.sid)), u, q.sid)
            /\ req' = A!ToldOfPassword(left, u)
  BY <1>1, <1>2, <1>4, <1>5, <1>6 DEF A!PasswordHashed
<1>12. rows' \in [Id -> RowType] /\ \A s \in Id : rows'[s] # A!NoRow => rows'[s] = rows[s]
  BY <1>3, <1>8, <1>11, EndedRows
<1>13. \A s \in Id : RowKept(s)
  BY <1>12 DEF RowKept
<1>14. \A s \in Id : A!Issued(s)' => s \in used' /\ rows'[s].user # Nobody
  BY <1>8, <1>10, <1>12 DEF A!Issued
<1>15. account' \in [User -> AccountType] /\ \A v \in User : A!There(v) => account'[v].is = "there"
  <2>1. [is |-> "there", admin |-> q.admin, password |-> "hashed"] \in AccountType
    BY DEF AccountType, RequestType
  <2> QED
    BY <1>8, <1>11, <2>1 DEF A!There
<1>16. A!SignedInWithThePassword'
  <2>1. \A s \in Id : rows[s] # A!NoRow => rows[s].user \in User
    BY <1>8 DEF RowType, A!Issued
  <2>2. A!SignedInWithThePassword /\ {} \in SUBSET User
    BY DEF AccountsInv
  <2> HIDE DEF RowKept
  <2> QED
    BY <1>13, <1>15, <2>1, <2>2, SignedStays
<1>17. A!SomebodyAdministers'
  <2> SUFFICES ASSUME A!NoAdmin', ~crowded, "account" \notin q.since PROVE FALSE
    BY <1>10 DEF A!SomebodyAdministers
  <2>1. CASE account[u].is = "gone"
    BY <1>11, <2>1 DEF AccountsInv, A!SomebodyAdministers, A!NoAdmin, A!Admins, A!There
  <2>2. CASE account[u].is # "gone"
    <3>1. PICK a : a = [is |-> "there", admin |-> q.admin, password |-> "hashed"]
      OBVIOUS
    <3>2. account' = [account EXCEPT ![u] = a] /\ a.is = "there" /\ a.admin = q.admin
      BY <1>11, <2>2, <3>1
    <3>3. CASE q.admin
      <4>1. account'[u].is = "there" /\ account'[u].admin
        BY <1>3, <1>8, <3>2, <3>3
      <4> QED
        BY <1>3, <4>1 DEF A!NoAdmin, A!Admins, A!There
    <3>4. CASE ~q.admin
      <4>1. PICK v \in A!Admins : v # u
        BY <1>2, <1>3, <3>4 DEF NotTold, A!AdminBeside
      <4>2. v \in User /\ account'[v] = account[v] /\ account[v].is = "there" /\ account[v].admin
        BY <1>8, <3>2, <4>1 DEF A!Admins, A!There
      <4> QED
        BY <4>2 DEF A!NoAdmin, A!Admins, A!There
    <3> QED
      BY <3>3, <3>4
  <2> QED
    BY <2>1, <2>2
<1>18. /\ req' \in [Call -> RequestType]
       /\ GoesOn(x, req'[r]) /\ \A t \in Call \ {r} : GoesOn(req[t], req'[t])
       /\ \A t \in Call : req'[t].pc = "hashing" /\ "account" \notin req'[t].since => A!Admins' = A!Admins
  <2>1. CASE account[u].is = "gone"
    <3>1. A!Admins' = A!Admins
      BY <1>11, <2>1 DEF A!Admins, A!There
    <3> QED
      BY <1>9, <1>11, <2>1, <3>1 DEF GoesOn
  <2>2. CASE account[u].is # "gone"
    <3>1. req' = A!ToldOfPassword(left, u)
      BY <1>11, <2>2
    <3>2. GoesOn(x, req'[r]) /\ \A t \in Call \ {r} : GoesOn(req[t], req'[t])
      BY <1>3, <1>6, <1>7, <3>1, ToldOneOfPassword
    <3>3. req' \in [Call -> RequestType] /\ \A t \in Call : Warned(req'[t], u)
      BY <1>3, <1>6, <1>7, <3>1, ToldOneOfPassword
    <3> QED
      BY <3>2, <3>3 DEF Warned
  <2> QED
    BY <2>1, <2>2
<1>19. A!TypeOK'
  BY <1>8, <1>10, <1>12, <1>14, <1>15, <1>18, AccountsTypesNext
<1>20. \A t \in Call :
           /\ req'[t].fresh /\ "password" \notin req'[t].since /\ A!There(req'[t].user)
                => account'[req'[t].user].is = "there"
           /\ req'[t].pc = "verifying" /\ "password" \notin req'[t].since /\ A!There(req'[t].target)
                => account'[req'[t].target].is = "there"
  <2> SUFFICES ASSUME NEW t \in Call
               PROVE  /\ req'[t].fresh /\ A!There(req'[t].user) => account'[req'[t].user].is = "there"
                      /\ req'[t].pc = "verifying" /\ A!There(req'[t].target) => account'[req'[t].target].is = "there"
    OBVIOUS
  <2>1. PICK y \in RequestType : y = IF t = r THEN x ELSE req[t]
    BY <1>7, <1>8
  <2>2. InHand(y) /\ GoesOn(y, req'[t])
    BY <1>7, <1>18, <2>1, OfOne
  <2> QED
    BY <1>15, <2>2 DEF InHand, GoesOn
<1>21. \A t \in Call : (InHand(req[t]) /\ NotTold(req[t]) /\ OwnId(t, req[t]))'
  <2> HIDE DEF InHand, NotTold, RowKept, GoesOn
  <2> QED
    BY <1>7, <1>10, <1>13, <1>18, <1>19, <1>20, ToldMoves
<1> QED
  BY <1>16, <1>17, <1>19, <1>21 DEF AccountsInv

(* An account that is removed: whoever signs in to it is told, and its rows *)
(* are gone.                                                                *)
LEMMA RemoveUserStep ==
  ASSUME AccountsInv, NEW r \in Call, NEW u \in User, NEW touch \in BOOLEAN, A!RemoveUser(r, u, touch)
  PROVE  AccountsInv'
<1>1. PICK q \in RequestType : q = A!Touched(req[r], touch)
  BY OfOne, TouchedCopy
<1>2. PICK x : x = A!Leave(q)
  OBVIOUS
<1>3. PICK left : left = [req EXCEPT ![r] = x]
  OBVIOUS
<1>4. A!IsAdmin(r) /\ A!There(u) /\ A!AdminBeside(u) /\ UNCHANGED <<used, crowded>>
  BY DEF A!RemoveUser
<1>5. PICK a : a = [is |-> "gone", admin |-> FALSE, password |-> "hashed"]
  OBVIOUS
<1>6. a \in AccountType
  BY <1>5 DEF AccountType
<1>7. account' = [account EXCEPT ![u] = a]
  BY <1>5 DEF A!RemoveUser
<1>8. rows' = A!Replaced(A!Without(A!EndedBy(u, Nobody)), u, Nobody)
  BY DEF A!RemoveUser
<1>9. req' = A!ToldOfPassword(left, u)
  BY <1>1, <1>2, <1>3, OfOne DEF A!RemoveUser
<1>10. /\ account \in [User -> AccountType] /\ rows \in [Id -> RowType] /\ req \in [Call -> RequestType]
       /\ \A s \in Id : A!Issued(s) => s \in used /\ rows[s].user # Nobody
       /\ crowded \in BOOLEAN /\ used \subseteq Id
  BY AccountsTypes DEF AccountsInv
<1>11. q.sid = req[r].sid /\ q.user = req[r].user /\ q.fresh = req[r].fresh /\ q.since = req[r].since
  BY <1>1, <1>10, TouchedCopy
<1>12. q.user \in User
  BY <1>4, <1>11, AskedByAnAdmin
<1>13. /\ x \in RequestType /\ InHand(x) /\ NotTold(x) /\ x.pc \in {"none", "done"}
       /\ x.sid \in {req[r].sid, Nobody} /\ (x.fresh => req[r].fresh /\ x.sid = req[r].sid)
  BY <1>2, <1>11, <1>12, LeftInHand
<1>14. /\ req' \in [Call -> RequestType] /\ GoesOn(x, req'[r])
       /\ \A t \in Call \ {r} : GoesOn(req[t], req'[t])
       /\ \A t \in Call :
            /\ req'[t].pc = "hashing" => "account" \in req'[t].since
            /\ req'[t].fresh /\ "password" \notin req'[t].since => req'[t].user # u
            /\ req'[t].pc = "verifying" /\ "password" \notin req'[t].since => req'[t].target # u
  <2>1. PICK told : told = A!ToldOfPassword(left, u)
    OBVIOUS
  <2>2. /\ told \in [Call -> RequestType] /\ GoesOn(x, told[r])
        /\ \A t \in Call \ {r} : GoesOn(req[t], told[t])
        /\ \A t \in Call : Warned(told[t], u)
    BY <1>3, <1>13, <2>1, ToldOneOfPassword
  <2>3. req' = told
    BY <1>9, <2>1
  <2> QED
    BY <2>2, <2>3 DEF Warned
<1>15. rows' \in [Id -> RowType] /\ \A s \in Id : rows'[s] # A!NoRow => rows'[s] = rows[s] /\ rows[s].user # u
  BY <1>8, <1>10, EndedRows, NobodyIsNobody
<1>16. \A s \in Id : RowKept(s) /\ (rows'[s] # A!NoRow => rows[s].user \notin {u})
  BY <1>15 DEF RowKept
<1>17. account' \in [User -> AccountType] /\ \A v \in User \ {u} : account'[v] = account[v]
  BY <1>6, <1>7, <1>10
<1>18. A!TypeOK'
  <2>1. \A s \in Id : A!Issued(s)' => s \in used' /\ rows'[s].user # Nobody
    BY <1>4, <1>10, <1>15 DEF A!Issued
  <2> QED
    BY <1>4, <1>10, <1>14, <1>15, <1>17, <2>1, AccountsTypesNext
<1>19. A!SignedInWithThePassword'
  <2>1. \A s \in Id : rows[s] # A!NoRow => rows[s].user \in User
    BY <1>10 DEF RowType, A!Issued
  <2>2. A!SignedInWithThePassword /\ {u} \in SUBSET User
    BY DEF AccountsInv
  <2>3. \A v \in User \ {u} : A!There(v) => account'[v].is = "there"
    BY <1>17 DEF A!There
  <2> HIDE DEF RowKept
  <2> QED
    BY <1>16, <2>1, <2>2, <2>3, SignedStays
<1>20. A!SomebodyAdministers'
  <2>1. PICK v \in A!Admins : v # u
    BY <1>4 DEF A!AdminBeside
  <2>2. v \in User /\ account'[v] = account[v] /\ account[v].is = "there" /\ account[v].admin
    BY <1>17, <2>1 DEF A!Admins, A!There
  <2> QED
    BY <2>2 DEF A!SomebodyAdministers, A!NoAdmin, A!Admins, A!There
<1>21. \A t \in Call :
           /\ req'[t].pc = "hashing" /\ "account" \notin req'[t].since => A!Admins' = A!Admins
           /\ req'[t].fresh /\ "password" \notin req'[t].since /\ A!There(req'[t].user)
                => account'[req'[t].user].is = "there"
           /\ req'[t].pc = "verifying" /\ "password" \notin req'[t].since /\ A!There(req'[t].target)
                => account'[req'[t].target].is = "there"
  <2> SUFFICES ASSUME NEW t \in Call
               PROVE  /\ req'[t].fresh /\ req'[t].user # u /\ A!There(req'[t].user)
                           => account'[req'[t].user].is = "there"
                      /\ req'[t].pc = "verifying" /\ req'[t].target # u /\ A!There(req'[t].target)
                           => account'[req'[t].target].is = "there"
    BY <1>14
  <2>1. PICK y \in RequestType : y = IF t = r THEN x ELSE req[t]
    BY <1>10, <1>13
  <2>2. InHand(y) /\ GoesOn(y, req'[t])
    BY <1>13, <1>14, <2>1, OfOne
  <2> QED
    BY <1>17, <2>2 DEF InHand, GoesOn, A!There
<1>22. \A t \in Call : (InHand(req[t]) /\ NotTold(req[t]) /\ OwnId(t, req[t]))'
  <2>1. UNCHANGED used /\ \A s \in Id : RowKept(s)
    BY <1>4, <1>16
  <2> HIDE DEF InHand, NotTold, RowKept, GoesOn
  <2> QED
    BY <1>13, <1>14, <1>18, <1>21, <2>1, ToldMoves
<1> QED
  BY <1>18, <1>19, <1>20, <1>22 DEF AccountsInv

(* A role alone is written in the turn that looked for another admin.       *)
LEMMA SaveRoleStep ==
  ASSUME AccountsInv, NEW r \in Call, NEW u \in User, NEW admin \in BOOLEAN, NEW touch \in BOOLEAN,
         A!SaveUser(r, u, admin, FALSE, touch)
  PROVE  AccountsInv'
<1>1. PICK q \in RequestType : q = A!Touched(req[r], touch)
  BY OfOne, TouchedCopy
<1>2. PICK x : x = A!Leave(q)
  OBVIOUS
<1>3. PICK left : left = [req EXCEPT ![r] = x]
  OBVIOUS
<1>4. /\ A!IsAdmin(r) /\ (admin \/ A!AdminBeside(u)) /\ UNCHANGED <<used, crowded, rows>>
      /\ account[u].is # "gone" /\ account[u].is # "none"
      /\ account' = [account EXCEPT ![u].admin = admin]
  BY DEF A!SaveUser
<1>5. req' = A!Told(left)
  BY <1>1, <1>2, <1>3, OfOne DEF A!SaveUser
<1>6. /\ account \in [User -> AccountType] /\ rows \in [Id -> RowType] /\ req \in [Call -> RequestType]
      /\ \A s \in Id : A!Issued(s) => s \in used /\ rows[s].user # Nobody
      /\ crowded \in BOOLEAN /\ used \subseteq Id
  BY AccountsTypes DEF AccountsInv
<1>7. PICK a : a = [account[u] EXCEPT !.admin = admin]
  OBVIOUS
<1>8. a \in AccountType /\ a.is = account[u].is /\ a.admin = admin
  <2>1. account[u] \in AccountType
    BY <1>6
  <2> QED
    BY <1>7, <2>1 DEF AccountType
<1>9. account' = [account EXCEPT ![u] = a]
  BY <1>4, <1>6, <1>7
<1>10. /\ account' \in [User -> AccountType] /\ account'[u] = a
       /\ \A v \in User \ {u} : account'[v] = account[v]
       /\ \A v \in User : account'[v].is = account[v].is
  BY <1>6, <1>8, <1>9
<1>11. q.sid = req[r].sid /\ q.user = req[r].user /\ q.fresh = req[r].fresh /\ q.since = req[r].since
  BY <1>1, <1>6, TouchedCopy
<1>12. q.user \in User
  BY <1>4, <1>11, AskedByAnAdmin
<1>13. /\ x \in RequestType /\ InHand(x) /\ NotTold(x) /\ x.pc \in {"none", "done"}
       /\ x.sid \in {req[r].sid, Nobody} /\ (x.fresh => req[r].fresh /\ x.sid = req[r].sid)
  BY <1>2, <1>11, <1>12, LeftInHand
<1>14. /\ req' \in [Call -> RequestType] /\ req'[r] = x
       /\ \A t \in Call \ {r} : GoesOn(req[t], req'[t])
       /\ \A t \in Call : req'[t].pc = "hashing" => "account" \in req'[t].since
  BY <1>3, <1>5, <1>13, ToldOne, ZenonT(60)
<1>15. A!TypeOK'
  <2>1. \A s \in Id : A!Issued(s)' => s \in used' /\ rows'[s].user # Nobody
    BY <1>4, <1>6 DEF A!Issued
  <2> QED
    BY <1>4, <1>6, <1>10, <1>14, <2>1, AccountsTypesNext
<1>16. A!SignedInWithThePassword'
  BY <1>4, <1>6, <1>10 DEF AccountsInv, A!SignedInWithThePassword, A!Issued, A!There, RowType
<1>17. A!SomebodyAdministers'
  <2>1. CASE admin
    <3>1. account'[u].is = "there" /\ account'[u].admin
      <4>1. account[u] \in AccountType
        BY <1>6
      <4> QED
        BY <1>4, <1>8, <1>10, <2>1, <4>1 DEF AccountType
    <3> QED
      BY <3>1 DEF A!SomebodyAdministers, A!NoAdmin, A!Admins, A!There
  <2>2. CASE A!AdminBeside(u)
    <3>1. PICK v \in A!Admins : v # u
      BY <2>2 DEF A!AdminBeside
    <3>2. v \in User /\ account'[v] = account[v] /\ account[v].is = "there" /\ account[v].admin
      BY <1>10, <3>1 DEF A!Admins, A!There
    <3> QED
      BY <3>2 DEF A!SomebodyAdministers, A!NoAdmin, A!Admins, A!There
  <2> QED
    BY <1>4, <2>1, <2>2
<1>18. \A t \in Call :
           /\ req'[t].pc = "hashing" /\ "account" \notin req'[t].since => A!Admins' = A!Admins
           /\ req'[t].fresh /\ "password" \notin req'[t].since /\ A!There(req'[t].user)
                => account'[req'[t].user].is = "there"
           /\ req'[t].pc = "verifying" /\ "password" \notin req'[t].since /\ A!There(req'[t].target)
                => account'[req'[t].target].is = "there"
  <2> SUFFICES ASSUME NEW t \in Call
               PROVE  /\ req'[t].fresh /\ A!There(req'[t].user) => account'[req'[t].user].is = "there"
                      /\ req'[t].pc = "verifying" /\ A!There(req'[t].target) => account'[req'[t].target].is = "there"
    BY <1>14
  <2>1. PICK y \in RequestType : y = IF t = r THEN x ELSE req[t]
    BY <1>6, <1>13
  <2>2. InHand(y) /\ y.user = req'[t].user /\ y.target = req'[t].target /\ y.fresh = req'[t].fresh /\ y.pc = req'[t].pc
    BY <1>13, <1>14, <2>1, OfOne DEF GoesOn
  <2> QED
    BY <1>10, <2>2 DEF InHand, A!There
<1>19. \A t \in Call : (InHand(req[t]) /\ NotTold(req[t]) /\ OwnId(t, req[t]))'
  <2>1. UNCHANGED used /\ \A s \in Id : RowKept(s)
    BY <1>4 DEF RowKept
  <2>2. GoesOn(x, req'[r])
    BY <1>14 DEF GoesOn
  <2> HIDE DEF InHand, NotTold, RowKept, GoesOn
  <2> QED
    BY <1>13, <1>14, <1>15, <1>18, <2>1, <2>2, ToldMoves
<1> QED
  BY <1>15, <1>16, <1>17, <1>19 DEF AccountsInv

-----------------------------------------------------------------------------
LEMMA AccountsStep == AccountsInv /\ [A!Next]_accountsVars => AccountsInv'
<1> SUFFICES ASSUME AccountsInv, [A!Next]_accountsVars PROVE AccountsInv'
  OBVIOUS
<1>1. CASE UNCHANGED accountsVars
  <2>1. rows' \in [Id -> RowType] /\ \A s \in Id : RowKept(s)
    BY <1>1, AccountsTypes DEF AccountsInv, accountsVars, RowKept
  <2> QED
    BY <1>1, <2>1, OnlyRows DEF accountsVars
<1>2. ASSUME NEW r \in Call, NEW s \in Id \cup {Nobody}, A!Arrive(r, s) PROVE AccountsInv'
  BY <1>2, ArriveStep
<1>3. ASSUME NEW r \in Call,
             A!WrongPassword(r) \/ A!UpdatePasswordHash(r) \/ A!Logout(r) \/ A!Respond(r) \/ A!PasswordHashed(r)
      PROVE  AccountsInv'
  BY <1>3, WrongPasswordStep, UpdatePasswordHashStep, LogoutStep, RespondStep, PasswordHashedStep
<1>4. ASSUME NEW r \in Call, NEW u \in User, A!Login(r, u) PROVE AccountsInv'
  BY <1>4, LoginStep
<1>5. ASSUME NEW r \in Call, NEW touch \in BOOLEAN, A!Answer(r, touch) PROVE AccountsInv'
  BY <1>5, AnswerStep
<1>6. ASSUME NEW r \in Call, NEW u \in User, NEW touch \in BOOLEAN, A!RemoveUser(r, u, touch) PROVE AccountsInv'
  BY <1>6, RemoveUserStep
<1>7. ASSUME NEW r \in Call, NEW s \in Id, A!RightPassword(r, s) PROVE AccountsInv'
  BY <1>7, RightPasswordStep
<1>8. ASSUME NEW r \in Call, NEW s \in Id, NEW u \in User, A!ProxyAuth(r, s, u) PROVE AccountsInv'
  BY <1>8, ProxyAuthStep
<1>9. ASSUME NEW r \in Call, NEW u \in User, NEW admin \in BOOLEAN, NEW password \in BOOLEAN, NEW touch \in BOOLEAN,
             A!SaveUser(r, u, admin, password, touch)
      PROVE  AccountsInv'
  <2>1. CASE password = TRUE
    BY <1>9, <2>1, SaveWithPasswordStep
  <2>2. CASE password = FALSE
    BY <1>9, <2>2, SaveRoleStep
  <2> QED
    BY <2>1, <2>2
<1>10. ASSUME NEW s \in Id, A!Older(s) PROVE AccountsInv'
  BY <1>10, OlderStep
<1>11. CASE A!SweepExpiredSessions \/ A!Restart
  BY <1>11, SweepStep
<1> QED
  BY <1>1, <1>2, <1>3, <1>4, <1>5, <1>6, <1>7, <1>8, <1>9, <1>10, <1>11 DEF A!Next

(* Whatever requests are under way when accounts change: every session that *)
(* is stored belongs to an account that is there and was signed in with the *)
(* password in force (or while it changed), and an admin is left unless the *)
(* last role went with a save that had looked before others changed         *)
(* (sqliteSessionStore.js, userStorage.js, userRoute.js).                   *)
THEOREM AccountsStaySound == Spec => []AccountsSound
<1> DEFINE Inv == part = "accounts" => AccountsInv
<1>1. Init => Inv
  BY AccountsInit DEF Init
<1>2. Inv /\ [Next]_vars => Inv'
  BY PartsApart, AccountsStep
<1>3. Inv => AccountsSound
  BY DEF AccountsInv, AccountsSound
<1> QED
  BY <1>1, <1>2, <1>3, PTL DEF Spec

-----------------------------------------------------------------------------
(* No step but an answer makes a row.                                       *)
Kept == \A s \in Id : rows'[s] # A!NoRow => rows[s] # A!NoRow

LEMMA NoRowIsMade ==
  ASSUME AccountsInv, A!Next, \A r \in Call : ~A!Respond(r)
  PROVE  Kept
<1> USE DEF Kept
<1>0. rows \in [Id -> RowType]
  BY AccountsTypes DEF AccountsInv
<1>1. ASSUME NEW r \in Call, NEW s \in Id \cup {Nobody}, A!Arrive(r, s) PROVE Kept
  BY <1>0, <1>1, DroppedRows DEF A!Arrive
<1>2. ASSUME NEW r \in Call, A!WrongPassword(r) \/ A!UpdatePasswordHash(r) PROVE Kept
  BY <1>2 DEF A!WrongPassword, A!UpdatePasswordHash
<1>3. ASSUME NEW r \in Call, A!Logout(r) PROVE Kept
  BY <1>0, <1>3, DroppedRows DEF A!Logout
<1>4. ASSUME NEW r \in Call, A!PasswordHashed(r) PROVE Kept
  <2>1. req[r].target \in User
    BY <1>4, OfOne DEF InHand, A!PasswordHashed
  <2>2. \/ rows' = A!Without(A!EndedBy(req[r].target, req[r].sid))
        \/ rows' = A!Replaced(A!Without(A!EndedBy(req[r].target, req[r].sid)), req[r].target, req[r].sid)
    BY <1>4 DEF A!PasswordHashed
  <2> QED
    BY <1>0, <2>1, <2>2, DroppedRows, EndedRows
<1>5. ASSUME NEW r \in Call, NEW u \in User, A!Login(r, u) PROVE Kept
  BY <1>5 DEF A!Login
<1>6. ASSUME NEW r \in Call, NEW touch \in BOOLEAN, A!Answer(r, touch) PROVE Kept
  BY <1>6 DEF A!Answer
<1>7. ASSUME NEW r \in Call, NEW u \in User, NEW touch \in BOOLEAN, A!RemoveUser(r, u, touch) PROVE Kept
  <2>1. rows' = A!Replaced(A!Without(A!EndedBy(u, Nobody)), u, Nobody)
    BY <1>7 DEF A!RemoveUser
  <2> QED
    BY <1>0, <2>1, EndedRows
<1>8. ASSUME NEW r \in Call, NEW s \in Id, NEW u, NEW since, NEW next, A!StartSession(r, s, u, since, next)
      PROVE  Kept
  BY <1>0, <1>8, DroppedRows DEF A!StartSession
<1>9. ASSUME NEW r \in Call, NEW s \in Id, A!RightPassword(r, s) PROVE Kept
  BY <1>8, <1>9 DEF A!RightPassword
<1>10. ASSUME NEW r \in Call, NEW s \in Id, NEW u \in User, A!ProxyAuth(r, s, u) PROVE Kept
  BY <1>8, <1>10 DEF A!ProxyAuth
<1>11. ASSUME NEW r \in Call, NEW u \in User, NEW admin \in BOOLEAN, NEW password \in BOOLEAN, NEW touch \in BOOLEAN,
              A!SaveUser(r, u, admin, password, touch)
       PROVE  Kept
  BY <1>11 DEF A!SaveUser
<1>12. ASSUME NEW s \in Id, A!Older(s) PROVE Kept
  BY <1>0, <1>12 DEF A!Older, A!Issued
<1>13. CASE A!SweepExpiredSessions \/ A!Restart
  BY <1>0, <1>13, DroppedRows DEF A!SweepExpiredSessions, A!Restart
<1>14. ASSUME NEW r \in Call,
              A!WrongPassword(r) \/ A!UpdatePasswordHash(r) \/ A!Logout(r) \/ A!Respond(r) \/ A!PasswordHashed(r)
       PROVE  Kept
  <2> HIDE DEF Kept
  <2> QED
    BY <1>2, <1>3, <1>4, <1>14
<1> HIDE DEF Kept
<1> QED
  BY <1>1, <1>5, <1>6, <1>7, <1>9, <1>10, <1>11, <1>12, <1>13, <1>14 DEF A!Next

LEMMA OnlyItsOwnAnswer ==
  ASSUME AccountsInv, A!Next
  PROVE  A!OnlyFreshRows
<1> SUFFICES ASSUME NEW s \in Id, rows[s] = A!NoRow, rows'[s] # A!NoRow
             PROVE  \E r \in Call : req[r].sid = s /\ req[r].fresh
  BY DEF A!OnlyFreshRows, A!Issued
<1>1. PICK r \in Call : A!Respond(r)
  BY NoRowIsMade DEF Kept
<1>2. rows' = A!Saved(req[r]) /\ req[r] \in RequestType
  BY <1>1, OfOne DEF A!Respond
<1>3. req[r].fresh /\ s = req[r].sid
  BY <1>2, SavedRows
<1> QED
  BY <1>3

(* A session that a logout, a sign-in, a new password, a removed account or *)
(* its expiry ended stays ended, whoever had loaded it before: compareAndSet*)
(* replaces only a row that is there (sqliteSessionStore.js).               *)
THEOREM EndedSessionsStayEnded == Spec => EndedStaysEnded
<1> DEFINE Inv == part = "accounts" => AccountsInv
<1>1. Init => Inv
  BY AccountsInit DEF Init
<1>2. Inv /\ [Next]_vars => Inv'
  BY PartsApart, AccountsStep
<1>3. Inv /\ [Next]_vars => [part = "accounts" => A!OnlyFreshRows]_accountsVars
  BY PartsApart, OnlyItsOwnAnswer
<1> QED
  BY <1>1, <1>2, <1>3, PTL DEF Spec, EndedStaysEnded

-----------------------------------------------------------------------------
(***************************************************************************)
(* Restore.  The file is only written over once the database in it is kept *)
(* or excused, and nobody is served from it again before it is whole; a    *)
(* database that no restore migrates is on the schema of this version      *)
(* (Steady); each loop of runMigrations works on a prefix of its own.      *)
(***************************************************************************)

FileType == [of : R!Data, applied : SUBSET R!Migration, whole : BOOLEAN]
CallType == [step : {"none", "checkpoint", "close", "keep", "sidecars", "copy", "written", "migrate"},
             zip : R!Data, schema : SUBSET R!Migration, marked : BOOLEAN, executed : SUBSET R!Migration]
AtWork == {"checkpoint", "close", "keep", "sidecars", "copy", "written"}

(* The types; at most one restore runs at a time until it migrates.         *)
RestoreTypes ==
  /\ file \in FileType
  /\ wal \subseteq R!Data /\ kept \subseteq R!Data /\ had \subseteq R!Data /\ excused \subseteq R!Data
  /\ up \in BOOLEAN /\ overtaken \in BOOLEAN /\ behind \in BOOLEAN
  /\ call \in [Call -> CallType]
  /\ blocked = {} \/ \E r \in Call : blocked = {r}
  /\ \A r \in Call : r \in blocked <=> call[r].step \in AtWork
  /\ \A r \in Call : call[r].step = "none" => call[r] = R!NoCall
  /\ blocked # {} => up
  /\ ~up => \A r \in Call : call[r] = R!NoCall

(* What a restore has done by the step it is at.                            *)
HasDone(q) ==
  /\ q.step \in {"sidecars", "copy"} => file.of \in kept \cup excused \/ ~file.whole
  /\ q.step = "written" => ~file.whole

(* What it read: the schema of a version, and what was executed since.      *)
HasRead(q) ==
  /\ \E k \in 0 .. Latest + 1 : q.schema = R!Upto(k)
  /\ q.step = "migrate" => \E k \in 0 .. Latest : k < Latest /\ q.executed = R!Upto(k)

(* Unless one began while another migrated, there is one restore at a time, *)
(* and what it executed is what the database has.                           *)
Alone ==
  ~overtaken =>
    /\ \A r, s \in Call : call[r] # R!NoCall /\ call[s] # R!NoCall => r = s
    /\ \A r \in Call : call[r].step = "migrate" => call[r].executed = file.applied

(* A restore that ends before it wrote anything leaves a database that was  *)
(* fit to be served.                                                        *)
Steady ==
  up /\ file.whole /\ ~behind /\ ~overtaken /\ (\A r \in Call : call[r].step # "migrate")
    => R!Upto(Latest) \subseteq file.applied

RestoreInv ==
  /\ RestoreTypes /\ Alone
  /\ \A r \in Call : HasDone(call[r]) /\ HasRead(call[r])
  /\ R!NothingIsLost /\ R!SchemaHasNoGap /\ Steady

LEMMA NoCallIsACall ==
  /\ R!NoCall \in CallType /\ R!NoCall.step = "none" /\ R!NoCall.schema = {} /\ R!NoCall.zip = 0
  /\ \A x \in CallType : x.step # "none" => x # R!NoCall
<1>1. 0 \in R!Data
  BY ServicesAssumption DEF R!Data
<1> QED
  BY <1>1 DEF R!NoCall, CallType

LEMMA PrefixesAreMigrations ==
  /\ R!Upto(0) = {}
  /\ \A k \in 0 .. Latest + 1 : R!Upto(k) \in SUBSET R!Migration
BY ServicesAssumption DEF R!Upto, R!Migration

LEMMA SameCardinality ==
  ASSUME NEW X
  PROVE  R!Cardinality(X) = Cardinality(X)
BY DEF R!Cardinality, Cardinality

LEMMA RestoreTypesAreTypes == RestoreTypes => R!TypeOK
<1> SUFFICES ASSUME RestoreTypes PROVE R!TypeOK
  OBVIOUS
<1>1. R!Cardinality(blocked) <= 1
  <2>1. CASE blocked = {}
    BY <2>1, FS_EmptySet, SameCardinality
  <2>2. ASSUME NEW r \in Call, blocked = {r} PROVE R!Cardinality(blocked) <= 1
    BY <2>2, FS_Singleton, SameCardinality
  <2> QED
    BY <2>1, <2>2 DEF RestoreTypes
<1>2. R!Step \ {"migrate"} = AtWork
  BY DEF R!Step, AtWork
<1>3. call \in [Call -> [step : R!Step \cup {"none"}, zip : R!Data, schema : SUBSET R!Migration,
                         marked : BOOLEAN, executed : SUBSET R!Migration]]
  <2>1. R!Step \cup {"none"} = {"none", "checkpoint", "close", "keep", "sidecars", "copy", "written", "migrate"}
    BY DEF R!Step
  <2> QED
    BY <2>1 DEF RestoreTypes, CallType
<1>4. blocked \subseteq Call
  BY DEF RestoreTypes
<1>5. {up, overtaken, behind} \subseteq BOOLEAN
  BY DEF RestoreTypes
<1>6. \A r \in Call : r \in blocked <=> call[r].step \in R!Step \ {"migrate"}
  BY <1>2 DEF RestoreTypes
<1>7. /\ file \in [of : R!Data, applied : SUBSET R!Migration, whole : BOOLEAN]
      /\ wal \subseteq R!Data /\ kept \subseteq R!Data /\ had \subseteq R!Data /\ excused \subseteq R!Data
      /\ blocked # {} => up
  BY DEF RestoreTypes, FileType
<1> QED
  BY <1>1, <1>3, <1>4, <1>5, <1>6, <1>7 DEF R!TypeOK

LEMMA RestoreInit == R!Init => RestoreInv
<1> SUFFICES ASSUME R!Init PROVE RestoreInv
  OBVIOUS
<1>1. call = [r \in Call |-> R!NoCall] /\ call \in [Call -> CallType] /\ \A r \in Call : call[r] = R!NoCall
  BY NoCallIsACall DEF R!Init
<1>2. R!Upto(Latest) \in SUBSET R!Migration /\ 0 \in R!Data /\ Latest \in 0 .. Latest + 1 /\ 0 \in 0 .. Latest + 1
  BY PrefixesAreMigrations, ServicesAssumption DEF R!Data
<1>3. file \in FileType /\ file.of = 0 /\ file.applied = R!Upto(Latest) /\ file.whole
  BY <1>2 DEF R!Init, FileType
<1>4. RestoreTypes
  BY <1>1, <1>2, <1>3, NoCallIsACall DEF RestoreTypes, R!Init, AtWork
<1>5. Alone
  BY <1>1, NoCallIsACall DEF Alone
<1>6. \A r \in Call : HasDone(call[r]) /\ HasRead(call[r])
  BY <1>1, <1>2, NoCallIsACall, PrefixesAreMigrations DEF HasDone, HasRead
<1>7. R!NothingIsLost
  BY <1>3 DEF R!NothingIsLost, R!Init
<1>8. R!SchemaHasNoGap
  BY <1>2, <1>3 DEF R!SchemaHasNoGap
<1>9. Steady
  BY <1>3 DEF Steady
<1> QED
  BY <1>4, <1>5, <1>6, <1>7, <1>8, <1>9 DEF RestoreInv

(* One restore moves while no other is at work.                             *)
LEMMA OneRestoreMoves ==
  ASSUME RestoreTypes, \A t \in Call : HasRead(call[t]),
         NEW r \in Call, NEW x \in CallType, call' = [call EXCEPT ![r] = x], blocked \subseteq {r}, up, up' = up,
         file' \in FileType, wal' \subseteq R!Data, kept' \subseteq R!Data, had' \subseteq R!Data, excused' \subseteq R!Data,
         overtaken' \in BOOLEAN, behind' \in BOOLEAN,
         x.step \in AtWork => blocked' = {r}, x.step \notin AtWork => blocked' = {},
         x.step = "none" => x = R!NoCall,
         HasDone(x)', HasRead(x)
  PROVE  /\ RestoreTypes' /\ call'[r] = x /\ \A t \in Call \ {r} : call'[t] = call[t]
         /\ \A t \in Call : (HasDone(call[t]) /\ HasRead(call[t]))'
<1>1. call'[r] = x /\ call' \in [Call -> CallType] /\ \A t \in Call \ {r} : call'[t] = call[t]
  BY DEF RestoreTypes
<1>2. \A t \in Call \ {r} : t \notin blocked /\ call[t].step \notin AtWork
  BY DEF RestoreTypes
<1>3. \A t \in Call : t \in blocked' <=> call'[t].step \in AtWork
  BY <1>1, <1>2
<1>4. blocked' = {} \/ \E t \in Call : blocked' = {t}
  OBVIOUS
<1>5. \A t \in Call : call'[t].step = "none" => call'[t] = R!NoCall
  BY <1>1 DEF RestoreTypes
<1>6. RestoreTypes'
  BY <1>1, <1>3, <1>4, <1>5 DEF RestoreTypes
<1>7. ASSUME NEW t \in Call PROVE (HasDone(call[t]) /\ HasRead(call[t]))'
  <2>1. CASE t = r
    <3>1. HasRead(x)'
      BY DEF HasRead
    <3> QED
      BY <1>1, <2>1, <3>1
  <2>2. CASE t # r
    <3>1. HasDone(call[t])'
      BY <1>1, <1>2, <2>2 DEF HasDone, AtWork
    <3>2. HasRead(call[t])'
      BY <1>1, <2>2 DEF HasRead
    <3> QED
      BY <3>1, <3>2
  <2> QED
    BY <2>1, <2>2
<1> QED
  BY <1>1, <1>6, <1>7

(* It was under way before, so it is still alone if it was.                 *)
LEMMA StaysAlone ==
  ASSUME Alone, NEW r \in Call, NEW x \in CallType, call'[r] = x, \A t \in Call \ {r} : call'[t] = call[t],
         call[r] # R!NoCall, overtaken' = overtaken,
         x.step = "migrate" /\ ~overtaken => x.executed = file'.applied
  PROVE  Alone'
<1> SUFFICES ASSUME ~overtaken
             PROVE  /\ \A s, t \in Call : call'[s] # R!NoCall /\ call'[t] # R!NoCall => s = t
                    /\ \A t \in Call : call'[t].step = "migrate" => call'[t].executed = file'.applied
  BY DEF Alone
<1>1. \A t \in Call \ {r} : call'[t] = R!NoCall
  BY DEF Alone
<1> QED
  BY <1>1, NoCallIsACall

(* A restore that is at work blocks the process.                            *)
LEMMA AtItsStep ==
  ASSUME RestoreInv, NEW r \in Call, NEW step \in AtWork, R!At(r, step)
  PROVE  /\ up /\ blocked = {r} /\ call[r] \in CallType /\ call[r].step = step /\ call[r] # R!NoCall
         /\ HasDone(call[r]) /\ HasRead(call[r])
<1>1. up /\ call[r].step = step /\ call[r] \in CallType /\ HasDone(call[r]) /\ HasRead(call[r])
  BY DEF R!At, RestoreInv, RestoreTypes
<1>2. blocked = {r}
  BY <1>1 DEF RestoreInv, RestoreTypes
<1>3. call[r] # R!NoCall
  BY <1>1, NoCallIsACall DEF AtWork
<1> QED
  BY <1>1, <1>2, <1>3

LEMMA WriteStep ==
  ASSUME RestoreInv, R!Write
  PROVE  RestoreInv'
<1>1. UNCHANGED <<file, kept, up, call, blocked, had, excused, overtaken, behind>> /\ wal' = wal \cup {file.of}
      /\ blocked = {} /\ up
  BY DEF R!Write, R!history
<1>2. RestoreTypes'
  BY <1>1 DEF RestoreInv, RestoreTypes, FileType
<1>3. Alone'
  BY <1>1 DEF RestoreInv, Alone
<1>4. ASSUME NEW r \in Call PROVE (HasDone(call[r]) /\ HasRead(call[r]))'
  <2>1. call[r].step \notin AtWork /\ HasRead(call[r])
    BY <1>1 DEF RestoreInv, RestoreTypes
  <2>2. HasDone(call[r])'
    BY <1>1, <2>1 DEF HasDone, AtWork
  <2>3. HasRead(call[r])'
    BY <1>1, <2>1 DEF HasRead
  <2> QED
    BY <2>2, <2>3
<1>5. R!NothingIsLost' /\ R!SchemaHasNoGap' /\ Steady'
  BY <1>1 DEF RestoreInv, R!NothingIsLost, R!SchemaHasNoGap, Steady
<1> QED
  BY <1>2, <1>3, <1>4, <1>5 DEF RestoreInv

(* A step of a restore at work, to another one.                             *)
LEMMA StaysAtWork ==
  ASSUME RestoreInv, NEW r \in Call, NEW x \in CallType, call' = [call EXCEPT ![r] = x],
         up, blocked = {r}, call[r].step \in AtWork, x.step \in AtWork,
         UNCHANGED <<up, blocked, had, overtaken, behind>>, file' = file \/ ~file'.whole,
         file' \in FileType, wal' \subseteq R!Data, kept' \subseteq R!Data, excused' \subseteq R!Data,
         HasDone(x)', HasRead(x), R!NothingIsLost', R!SchemaHasNoGap'
  PROVE  RestoreInv'
<1>1. RestoreTypes /\ Alone /\ \A t \in Call : HasRead(call[t])
  BY DEF RestoreInv
<1>2. had' \subseteq R!Data /\ overtaken' \in BOOLEAN /\ behind' \in BOOLEAN /\ blocked \subseteq {r} /\ up' = up
  BY <1>1 DEF RestoreTypes
<1>3. x.step # "none" /\ x.step # "migrate" /\ call[r].step # "migrate" /\ call[r] # R!NoCall
  BY NoCallIsACall DEF AtWork
<1>4. /\ RestoreTypes' /\ call'[r] = x /\ \A t \in Call \ {r} : call'[t] = call[t]
      /\ \A t \in Call : (HasDone(call[t]) /\ HasRead(call[t]))'
  BY <1>1, <1>2, <1>3, OneRestoreMoves
<1>5. Alone'
  BY <1>1, <1>3, <1>4, StaysAlone
<1>6. Steady'
  <2>1. (\A t \in Call : call'[t].step # "migrate") => \A t \in Call : call[t].step # "migrate"
    BY <1>3, <1>4
  <2> QED
    BY <2>1 DEF RestoreInv, Steady, R!Upto
<1> QED
  BY <1>4, <1>5, <1>6 DEF RestoreInv

(* A restore at work that throws leaves the file as it was, or one nobody   *)
(* takes for sound.                                                         *)
LEMMA Throws ==
  ASSUME RestoreInv, NEW r \in Call, call' = [call EXCEPT ![r] = R!NoCall],
         up, blocked = {r}, call[r].step \in AtWork, blocked' = {},
         UNCHANGED <<wal, kept, up, had, excused, overtaken>>,
         \/ UNCHANGED <<file, behind>>
         \/ file' \in FileType /\ file'.applied = {} /\ behind' = TRUE
            /\ (file.of \in kept \cup excused \/ ~file.whole)
  PROVE  RestoreInv'
<1>1. /\ RestoreTypes /\ Alone /\ (\A t \in Call : HasRead(call[t])) /\ R!NothingIsLost
      /\ R!SchemaHasNoGap /\ Steady
  BY DEF RestoreInv
<1>2. /\ file' \in FileType /\ wal' \subseteq R!Data /\ kept' \subseteq R!Data /\ had' \subseteq R!Data
      /\ excused' \subseteq R!Data /\ overtaken' \in BOOLEAN /\ behind' \in BOOLEAN
      /\ blocked \subseteq {r} /\ up' = up
  BY <1>1 DEF RestoreTypes
<1>3. call[r].step # "migrate" /\ call[r] # R!NoCall
  BY NoCallIsACall DEF AtWork
<1>4. 0 \in 0 .. Latest + 1
  BY ServicesAssumption
<1>5. HasRead(R!NoCall) /\ HasDone(R!NoCall)' /\ R!NoCall.step \notin AtWork /\ R!NoCall \in CallType
      /\ R!NoCall.step # "migrate"
  BY <1>4, NoCallIsACall, PrefixesAreMigrations DEF HasRead, HasDone, AtWork
<1>6. /\ RestoreTypes' /\ call'[r] = R!NoCall /\ \A t \in Call \ {r} : call'[t] = call[t]
      /\ \A t \in Call : (HasDone(call[t]) /\ HasRead(call[t]))'
  BY <1>1, <1>2, <1>5, OneRestoreMoves
<1>7. Alone'
  BY <1>1, <1>3, <1>5, <1>6, StaysAlone
<1>8. R!NothingIsLost'
  BY <1>1 DEF R!NothingIsLost
<1>9. R!SchemaHasNoGap'
  <2>1. CASE file' = file
    BY <1>1, <2>1 DEF R!SchemaHasNoGap
  <2>2. CASE file'.applied = {}
    BY <1>4, <2>2, PrefixesAreMigrations DEF R!SchemaHasNoGap, R!Upto
  <2> QED
    BY <2>1, <2>2
<1>10. Steady'
  <2>1. (\A t \in Call : call'[t].step # "migrate") => \A t \in Call : call[t].step # "migrate"
    BY <1>3, <1>6
  <2>2. CASE UNCHANGED <<file, behind>>
    BY <1>1, <2>1, <2>2 DEF Steady, R!Upto
  <2>3. CASE behind' = TRUE
    BY <2>3 DEF Steady
  <2> QED
    BY <2>2, <2>3
<1> QED
  BY <1>6, <1>7, <1>8, <1>9, <1>10 DEF RestoreInv

LEMMA AtStep ==
  ASSUME NEW q \in CallType, NEW step \in AtWork, NEW x, x = [q EXCEPT !.step = step]
  PROVE  x \in CallType /\ x.step = step /\ x.schema = q.schema /\ x.zip = q.zip /\ (HasRead(q) => HasRead(x))
BY DEF CallType, AtWork, HasRead

LEMMA CheckpointStep ==
  ASSUME RestoreInv, NEW r \in Call, R!Checkpoint(r) \/ R!Close(r)
  PROVE  RestoreInv'
<1>1. PICK step \in {"checkpoint", "close"} : R!At(r, step)
  BY DEF R!Checkpoint, R!Close
<1>2. step \in AtWork
  BY DEF AtWork
<1>3. up /\ blocked = {r} /\ call[r] \in CallType /\ call[r].step \in AtWork /\ HasRead(call[r])
  BY <1>1, <1>2, AtItsStep
<1>4. PICK next \in {"close", "keep"} : R!Go(r, next)
  BY DEF R!Checkpoint, R!Close
<1>5. PICK x : x = [call[r] EXCEPT !.step = next]
  OBVIOUS
<1>6. next \in AtWork
  BY DEF AtWork
<1>7. x \in CallType /\ x.step = next /\ HasRead(x)
  BY <1>3, <1>5, <1>6, AtStep
<1>8. call' = [call EXCEPT ![r] = x]
  BY <1>4, <1>5 DEF R!Go
<1>9. UNCHANGED <<file, kept, up, blocked, had, excused, overtaken, behind>> /\ (wal' = {} \/ wal' = wal)
  BY DEF R!Checkpoint, R!Close, R!history
<1>10. HasDone(x)'
  BY <1>7 DEF HasDone
<1>11. R!NothingIsLost' /\ R!SchemaHasNoGap'
  BY <1>9 DEF RestoreInv, R!NothingIsLost, R!SchemaHasNoGap
<1>12. file' \in FileType /\ wal' \subseteq R!Data /\ kept' \subseteq R!Data /\ excused' \subseteq R!Data
  BY <1>9 DEF RestoreInv, RestoreTypes
<1> QED
  BY <1>3, <1>6, <1>7, <1>8, <1>9, <1>10, <1>11, <1>12, StaysAtWork

LEMMA KeepCopyStep ==
  ASSUME RestoreInv, NEW r \in Call, R!KeepCopy(r)
  PROVE  RestoreInv'
<1>1. R!At(r, "keep") /\ "keep" \in AtWork /\ "sidecars" \in AtWork
  BY DEF R!KeepCopy, AtWork
<1>2. up /\ blocked = {r} /\ call[r] \in CallType /\ call[r].step \in AtWork /\ HasRead(call[r])
  BY <1>1, AtItsStep
<1>3. PICK x : x = [call[r] EXCEPT !.step = "sidecars"]
  OBVIOUS
<1>4. x \in CallType /\ x.step = "sidecars" /\ HasRead(x)
  BY <1>1, <1>2, <1>3, AtStep
<1>5. call' = [call EXCEPT ![r] = x] /\ UNCHANGED <<file, wal, up, blocked, had, overtaken, behind>>
  BY <1>3 DEF R!KeepCopy, R!Go
<1>6. file \in FileType /\ file.of \in R!Data /\ kept \subseteq R!Data /\ excused \subseteq R!Data /\ wal \subseteq R!Data
  BY DEF RestoreInv, RestoreTypes, FileType
<1>7. /\ kept \subseteq kept' /\ excused \subseteq excused' /\ kept' \subseteq R!Data /\ excused' \subseteq R!Data
      /\ file.of \in kept' \cup excused' \/ ~file.whole
  BY <1>6 DEF R!KeepCopy
<1>8. HasDone(x)'
  BY <1>4, <1>5, <1>7 DEF HasDone
<1>9. R!NothingIsLost' /\ R!SchemaHasNoGap'
  BY <1>5, <1>7 DEF RestoreInv, R!NothingIsLost, R!SchemaHasNoGap
<1> QED
  BY <1>1, <1>2, <1>4, <1>5, <1>6, <1>7, <1>8, <1>9, StaysAtWork

LEMMA RemoveWalSidecarsStep ==
  ASSUME RestoreInv, NEW r \in Call, R!RemoveWalSidecars(r)
  PROVE  RestoreInv'
<1>1. R!At(r, "sidecars") /\ "sidecars" \in AtWork /\ "copy" \in AtWork
  BY DEF R!RemoveWalSidecars, AtWork
<1>2. /\ up /\ blocked = {r} /\ call[r] \in CallType /\ call[r].step = "sidecars" /\ call[r] # R!NoCall
      /\ HasDone(call[r]) /\ HasRead(call[r])
  BY <1>1, AtItsStep
<1>3. PICK x : x = [call[r] EXCEPT !.step = "copy"]
  OBVIOUS
<1>4. x \in CallType /\ x.step = "copy" /\ HasRead(x)
  BY <1>1, <1>2, <1>3, AtStep
<1>5. /\ call' = [call EXCEPT ![r] = x] /\ (wal' = {} \/ wal' = wal)
      /\ UNCHANGED <<file, kept, up, blocked, had, excused, overtaken, behind>>
  BY <1>3 DEF R!RemoveWalSidecars, R!Go, R!history
<1>6. HasDone(x)'
  BY <1>2, <1>4, <1>5 DEF HasDone
<1>7. R!NothingIsLost' /\ R!SchemaHasNoGap'
  BY <1>5 DEF RestoreInv, R!NothingIsLost, R!SchemaHasNoGap
<1>8. file \in FileType /\ kept \subseteq R!Data /\ excused \subseteq R!Data /\ wal \subseteq R!Data
  BY DEF RestoreInv, RestoreTypes
<1> QED
  BY <1>1, <1>2, <1>4, <1>5, <1>6, <1>7, <1>8, StaysAtWork

LEMMA StartCopyStep ==
  ASSUME RestoreInv, NEW r \in Call, R!StartCopy(r)
  PROVE  RestoreInv'
<1>1. R!At(r, "copy") /\ "copy" \in AtWork /\ "written" \in AtWork
  BY DEF R!StartCopy, AtWork
<1>2. /\ up /\ blocked = {r} /\ call[r] \in CallType /\ call[r].step = "copy" /\ call[r] # R!NoCall
      /\ HasDone(call[r]) /\ HasRead(call[r])
  BY <1>1, AtItsStep
<1>3. PICK x : x = [call[r] EXCEPT !.step = "written"]
  OBVIOUS
<1>4. x \in CallType /\ x.step = "written" /\ HasRead(x)
  BY <1>1, <1>2, <1>3, AtStep
<1>5. PICK f : f = [of |-> call[r].zip, applied |-> {}, whole |-> FALSE]
  OBVIOUS
<1>6. /\ call' = [call EXCEPT ![r] = x] /\ file' = f
      /\ UNCHANGED <<wal, kept, up, blocked, had, excused, overtaken, behind>>
  BY <1>3, <1>5 DEF R!StartCopy, R!Go, R!history
<1>7. f \in FileType /\ f.applied = {} /\ ~f.whole
  BY <1>2, <1>5 DEF FileType, CallType
<1>8. file.of \in kept \cup excused \/ ~file.whole
  BY <1>2 DEF HasDone
<1>9. HasDone(x)'
  BY <1>4, <1>6, <1>7, <1>8 DEF HasDone
<1>10. R!NothingIsLost'
  BY <1>6, <1>8 DEF RestoreInv, R!NothingIsLost
<1>11. R!SchemaHasNoGap'
  <2>1. 0 \in 0 .. Latest + 1 /\ file'.applied = R!Upto(0)
    BY <1>6, <1>7, PrefixesAreMigrations, ServicesAssumption
  <2> QED
    BY <2>1 DEF R!SchemaHasNoGap, R!Upto
<1>12. kept \subseteq R!Data /\ excused \subseteq R!Data /\ wal \subseteq R!Data
  BY DEF RestoreInv, RestoreTypes
<1> QED
  BY <1>1, <1>2, <1>4, <1>6, <1>7, <1>9, <1>10, <1>11, <1>12, StaysAtWork

(* A copy, or a close, that throws.                                         *)
LEMMA ThrowsStep ==
  ASSUME RestoreInv, NEW r \in Call, R!CloseThrows(r) \/ R!CopyThrows(r)
  PROVE  RestoreInv'
<1>1. CASE R!CloseThrows(r)
  <2>1. R!At(r, "close") /\ "close" \in AtWork
    BY <1>1 DEF R!CloseThrows, AtWork
  <2>2. up /\ blocked = {r} /\ call[r].step \in AtWork
    BY <2>1, AtItsStep
  <2> QED
    BY <1>1, <2>2, Throws DEF R!CloseThrows, R!history
<1>2. CASE R!CopyThrows(r)
  <2>1. R!At(r, "copy") /\ "copy" \in AtWork
    BY <1>2 DEF R!CopyThrows, AtWork
  <2>2. /\ up /\ blocked = {r} /\ call[r].step = "copy" /\ call[r].step \in AtWork
        /\ call[r] \in CallType /\ HasDone(call[r])
    BY <2>1, AtItsStep
  <2>3. file.of \in kept \cup excused \/ ~file.whole
    BY <2>2 DEF HasDone
  <2>4. \/ UNCHANGED <<file, behind>>
        \/ file' \in FileType /\ file'.applied = {} /\ behind' = TRUE
    BY <1>2, <2>2 DEF R!CopyThrows, FileType, CallType
  <2>5. /\ call' = [call EXCEPT ![r] = R!NoCall] /\ blocked' = {}
        /\ UNCHANGED <<wal, kept, up, had, excused, overtaken>>
    BY <1>2 DEF R!CopyThrows
  <2> QED
    BY <2>2, <2>3, <2>4, <2>5, Throws
<1> QED
  BY <1>1, <1>2

LEMMA BeginStep ==
  ASSUME RestoreInv, NEW r \in Call, NEW d \in R!Data, NEW k \in 0 .. Latest + 1, NEW marked \in BOOLEAN,
         R!Begin(r, d, k, marked)
  PROVE  RestoreInv'
<1>1. PICK x : x = [R!NoCall EXCEPT !.step = "checkpoint", !.zip = d, !.schema = R!Upto(k), !.marked = marked]
  OBVIOUS
<1>2. x \in CallType /\ x.step = "checkpoint" /\ x.schema = R!Upto(k) /\ x # R!NoCall
  BY <1>1, NoCallIsACall, PrefixesAreMigrations DEF CallType
<1>3. /\ up /\ blocked = {} /\ call[r] = R!NoCall /\ call' = [call EXCEPT ![r] = x] /\ blocked' = {r}
      /\ overtaken' = (overtaken \/ \E s \in Call \ {r} : call[s] # R!NoCall)
      /\ UNCHANGED <<file, wal, kept, up, had, excused, behind>>
  BY <1>1 DEF R!Begin
<1>4. HasDone(x)' /\ HasRead(x) /\ x.step \in AtWork
  BY <1>2 DEF HasDone, HasRead, AtWork
<1>5. /\ RestoreTypes /\ \A t \in Call : HasRead(call[t])
      /\ file \in FileType /\ wal \subseteq R!Data /\ kept \subseteq R!Data /\ had \subseteq R!Data
      /\ excused \subseteq R!Data /\ behind \in BOOLEAN
  BY DEF RestoreInv, RestoreTypes
<1>6. overtaken' \in BOOLEAN /\ blocked \subseteq {r} /\ up' = up
  BY <1>3
<1>7. /\ RestoreTypes' /\ call'[r] = x /\ \A t \in Call \ {r} : call'[t] = call[t]
      /\ \A t \in Call : (HasDone(call[t]) /\ HasRead(call[t]))'
  BY <1>2, <1>3, <1>4, <1>5, <1>6, OneRestoreMoves
<1>8. Alone'
  <2> SUFFICES ASSUME ~overtaken'
               PROVE  /\ \A s, t \in Call : call'[s] # R!NoCall /\ call'[t] # R!NoCall => s = t
                      /\ \A t \in Call : call'[t].step = "migrate" => call'[t].executed = file'.applied
    BY DEF Alone
  <2>1. \A t \in Call \ {r} : call'[t] = R!NoCall
    BY <1>3, <1>7
  <2> QED
    BY <1>2, <1>7, <2>1, NoCallIsACall
<1>9. R!NothingIsLost' /\ R!SchemaHasNoGap'
  BY <1>3 DEF RestoreInv, R!NothingIsLost, R!SchemaHasNoGap
<1>10. Steady'
  <2>1. (\A t \in Call : call'[t].step # "migrate") => \A t \in Call : call[t].step # "migrate"
    BY <1>3, <1>7, NoCallIsACall
  <2> QED
    BY <1>3, <2>1 DEF RestoreInv, Steady, R!Upto
<1> QED
  BY <1>7, <1>8, <1>9, <1>10 DEF RestoreInv

LEMMA ReopenStep ==
  ASSUME RestoreInv, NEW r \in Call, R!Reopen(r)
  PROVE  RestoreInv'
<1>1. R!At(r, "written") /\ "written" \in AtWork
  BY DEF R!Reopen, AtWork
<1>2. PICK c : c = call[r]
  OBVIOUS
<1>3. /\ up /\ blocked = {r} /\ c \in CallType /\ c.step = "written" /\ c # R!NoCall
      /\ HasDone(c) /\ HasRead(c)
  BY <1>1, <1>2, AtItsStep
<1>4. ~file.whole
  BY <1>3 DEF HasDone
<1>5. PICK migrates \in BOOLEAN : migrates <=> R!MustMigrate(c) /\ R!Pending(c.schema) # {}
  OBVIOUS
<1>6. PICK spoiled \in BOOLEAN : spoiled <=> ~(wal \subseteq {c.zip})
  OBVIOUS
<1>7. PICK y : y = IF migrates THEN [c EXCEPT !.step = "migrate", !.executed = c.schema] ELSE R!NoCall
  OBVIOUS
<1>A. /\ y \in CallType
      /\ migrates => y.step = "migrate" /\ y.executed = c.schema /\ y.schema = c.schema
      /\ ~migrates => y = R!NoCall /\ y.step = "none" /\ y.schema = {}
  BY <1>3, <1>7, NoCallIsACall DEF CallType
<1>8. /\ had' = had \cup {c.zip}
      /\ blocked' = {} /\ UNCHANGED <<wal, kept, up, overtaken>>
      /\ excused' = IF spoiled THEN excused \cup {c.zip} ELSE excused
  BY <1>2, <1>6 DEF R!Reopen
<1>9. file' \in FileType /\ file'.of = c.zip /\ file'.applied = c.schema /\ (file'.whole <=> ~spoiled)
  <2>1. file' = [of |-> c.zip, applied |-> c.schema, whole |-> ~ ~(wal \subseteq {c.zip})]
    BY <1>2 DEF R!Reopen
  <2>2. (~ ~(wal \subseteq {c.zip})) \in BOOLEAN
    OBVIOUS
  <2> QED
    BY <1>3, <1>6, <2>1, <2>2 DEF FileType, CallType
<1>10. PICK x \in CallType :
         /\ call' = [call EXCEPT ![r] = x]
         /\ (x = y /\ behind' = FALSE) \/ (x = R!NoCall /\ behind' = TRUE)
  <2>1. \/ call' = [call EXCEPT ![r] = y] /\ behind' = FALSE
        \/ call' = [call EXCEPT ![r] = R!NoCall] /\ behind' = TRUE
    BY <1>2, <1>5, <1>7 DEF R!Reopen
  <2> QED
    BY <1>A, <2>1, NoCallIsACall
<1>B. \/ migrates /\ x.step = "migrate" /\ x.executed = c.schema /\ x.schema = c.schema /\ behind' = FALSE
      \/ /\ x = R!NoCall /\ x.step = "none" /\ x.schema = {}
         /\ (behind' = FALSE /\ ~migrates) \/ behind' = TRUE
  BY <1>A, <1>10, NoCallIsACall
<1>11. PICK k \in 0 .. Latest + 1 : c.schema = R!Upto(k)
  BY <1>3 DEF HasRead
<1>12. HasRead(x)
  <2>1. CASE migrates /\ x.step = "migrate" /\ x.executed = c.schema /\ x.schema = c.schema
    <3>1. R!Pending(R!Upto(k)) # {}
      BY <1>5, <1>11, <2>1
    <3>2. k \in 0 .. Latest /\ k < Latest
      BY <3>1, ServicesAssumption DEF R!Pending, R!Upto
    <3> QED
      BY <1>11, <2>1, <3>2 DEF HasRead
  <2>2. CASE x.step = "none" /\ x.schema = {}
    <3>1. 0 \in 0 .. Latest + 1
      BY ServicesAssumption
    <3> QED
      BY <2>2, <3>1, PrefixesAreMigrations DEF HasRead
  <2> QED
    BY <1>B, <2>1, <2>2
<1>13. HasDone(x)' /\ x.step \notin AtWork /\ (x.step = "none" => x = R!NoCall)
  BY <1>B DEF HasDone, AtWork
<1>14. /\ RestoreTypes /\ Alone /\ \A t \in Call : HasRead(call[t])
       /\ kept' \subseteq R!Data /\ had' \subseteq R!Data /\ excused' \subseteq R!Data /\ wal' \subseteq R!Data
       /\ overtaken' \in BOOLEAN /\ behind' \in BOOLEAN
  BY <1>3, <1>8, <1>B DEF RestoreInv, RestoreTypes, CallType
<1>15. /\ RestoreTypes' /\ call'[r] = x /\ \A t \in Call \ {r} : call'[t] = call[t]
       /\ \A t \in Call : (HasDone(call[t]) /\ HasRead(call[t]))'
  <2>1. up' = up /\ blocked \subseteq {r} /\ file' \in FileType
    BY <1>3, <1>8, <1>9
  <2> QED
    BY <1>3, <1>8, <1>10, <1>12, <1>13, <1>14, <2>1, OneRestoreMoves
<1>16. Alone'
  <2>1. x.step = "migrate" => x.executed = file'.applied
    BY <1>9, <1>B
  <2> QED
    BY <1>2, <1>3, <1>8, <1>14, <1>15, <2>1, StaysAlone
<1>17. R!NothingIsLost'
  <2> SUFFICES ASSUME NEW d \in had', d \notin excused'
               PROVE  (file'.of = d /\ file'.whole) \/ d \in kept'
    BY DEF R!NothingIsLost
  <2>1. CASE d = c.zip
    BY <1>8, <1>9, <2>1
  <2>2. CASE d \in had
    BY <1>4, <1>8, <2>2 DEF RestoreInv, R!NothingIsLost
  <2> QED
    BY <1>8, <2>1, <2>2
<1>18. R!SchemaHasNoGap'
  BY <1>9, <1>11 DEF R!SchemaHasNoGap, R!Upto
<1>19. Steady'
  <2>1. CASE x.step = "migrate" \/ behind' = TRUE
    BY <1>15, <2>1 DEF Steady
  <2>2. CASE ~migrates
    <3>1. R!Upto(Latest) \subseteq c.schema
      BY <1>5, <2>2 DEF R!MustMigrate, R!Pending
    <3> QED
      BY <1>9, <3>1 DEF Steady, R!Upto
  <2> QED
    BY <1>B, <2>1, <2>2
<1> QED
  BY <1>15, <1>16, <1>17, <1>18, <1>19 DEF RestoreInv

(* runMigrations takes what is pending in the order of the numbers.         *)
LEMMA NextOfAPrefix ==
  ASSUME NEW k \in 0 .. Latest, k < Latest
  PROVE  /\ R!NextMigration(R!Upto(k)) = k + 1
         /\ R!Upto(k) \cup {k + 1} = R!Upto(k + 1) /\ k + 1 \in 0 .. Latest /\ k + 1 \in 0 .. Latest + 1
         /\ R!Pending(R!Upto(k + 1)) = {} <=> k + 1 = Latest
<1>1. Latest \in Nat /\ k \in Nat
  BY ServicesAssumption
<1>2. R!Pending(R!Upto(k)) = (k + 1) .. Latest
  BY <1>1 DEF R!Pending, R!Upto
<1>3. k + 1 \in R!Pending(R!Upto(k)) /\ \A n \in R!Pending(R!Upto(k)) : k + 1 <= n
  BY <1>1, <1>2
<1>4. R!NextMigration(R!Upto(k)) = k + 1
  <2>1. R!NextMigration(R!Upto(k)) \in R!Pending(R!Upto(k))
        /\ \A n \in R!Pending(R!Upto(k)) : R!NextMigration(R!Upto(k)) <= n
    BY <1>3 DEF R!NextMigration
  <2> QED
    BY <1>1, <1>2, <1>3, <2>1
<1>5. R!Upto(k) \cup {k + 1} = R!Upto(k + 1)
  BY <1>1 DEF R!Upto
<1>6. R!Pending(R!Upto(k + 1)) = {} <=> k + 1 = Latest
  BY <1>1 DEF R!Pending, R!Upto
<1> QED
  BY <1>1, <1>4, <1>5, <1>6

LEMMA MigrateStep ==
  ASSUME RestoreInv, NEW r \in Call, R!Migrate(r)
  PROVE  RestoreInv'
<1>1. PICK c : c = call[r]
  OBVIOUS
<1>2. /\ RestoreTypes /\ Alone /\ \A t \in Call : HasRead(call[t])
      /\ kept \subseteq R!Data /\ had \subseteq R!Data /\ excused \subseteq R!Data /\ wal \subseteq R!Data
      /\ overtaken \in BOOLEAN /\ file \in FileType
  BY DEF RestoreInv, RestoreTypes
<1>3. up /\ blocked = {} /\ c.step = "migrate" /\ c \in CallType /\ HasRead(c) /\ c # R!NoCall
  BY <1>1, <1>2, NoCallIsACall DEF R!Migrate, R!At, RestoreTypes
<1>4. PICK k \in 0 .. Latest : k < Latest /\ c.executed = R!Upto(k)
  BY <1>3 DEF HasRead
<1>5. PICK m : m = k + 1
  OBVIOUS
<1>6. /\ R!NextMigration(c.executed) = m
      /\ c.executed \cup {m} = R!Upto(m) /\ m \in 0 .. Latest /\ m \in 0 .. Latest + 1 /\ m \in R!Migration
      /\ R!Pending(R!Upto(m)) = {} <=> m = Latest
  <2>1. k + 1 \in R!Migration
    BY ServicesAssumption DEF R!Migration
  <2> QED
    BY <1>4, <1>5, <2>1, NextOfAPrefix
<1>7. PICK done : done = [c EXCEPT !.executed = c.executed \cup {m}]
  OBVIOUS
<1>8. /\ done \in CallType /\ done.executed = R!Upto(m) /\ done.step = "migrate" /\ done.schema = c.schema
  BY <1>3, <1>6, <1>7 DEF CallType
<1>9. PICK f : f = [file EXCEPT !.applied = file.applied \cup {m}]
  OBVIOUS
<1>10. f \in FileType /\ f.applied = file.applied \cup {m} /\ f.of = file.of /\ f.whole = file.whole
  BY <1>2, <1>6, <1>9 DEF FileType
<1>11. UNCHANGED <<wal, kept, up, blocked, had, excused, overtaken>>
  BY DEF R!Migrate
<1>12. \/ /\ file' = f /\ call' = [call EXCEPT ![r] = IF R!Pending(done.executed) = {} THEN R!NoCall ELSE done]
          /\ behind' = behind
       \/ call' = [call EXCEPT ![r] = R!NoCall] /\ behind' = TRUE /\ file' = file
  BY <1>1, <1>6, <1>7, <1>9 DEF R!Migrate
<1>13. HasRead(R!NoCall) /\ HasDone(R!NoCall)' /\ R!NoCall.step \notin AtWork
  <2>1. 0 \in 0 .. Latest + 1
    BY ServicesAssumption
  <2> QED
    BY <2>1, NoCallIsACall, PrefixesAreMigrations DEF HasRead, HasDone, AtWork
<1>14. PICK x \in CallType :
         /\ call' = [call EXCEPT ![r] = x]
         /\ x = R!NoCall \/ (x = done /\ R!Pending(done.executed) # {})
  BY <1>8, <1>12, NoCallIsACall
<1>15. HasRead(x) /\ HasDone(x)' /\ x.step \notin AtWork /\ (x.step = "none" => x = R!NoCall)
  <2>1. CASE x = R!NoCall
    BY <1>13, <2>1
  <2>2. CASE x = done /\ R!Pending(done.executed) # {}
    <3>1. m < Latest
      BY <1>6, <1>8, <2>2, ServicesAssumption
    <3>2. HasRead(done)
      BY <1>3, <1>6, <1>8, <3>1 DEF HasRead
    <3> QED
      BY <1>8, <2>2, <3>2 DEF HasDone, AtWork
  <2> QED
    BY <1>14, <2>1, <2>2
<1>16. /\ RestoreTypes' /\ call'[r] = x /\ \A t \in Call \ {r} : call'[t] = call[t]
       /\ \A t \in Call : (HasDone(call[t]) /\ HasRead(call[t]))'
  <2>1. blocked \subseteq {r} /\ up' = up /\ file' \in FileType /\ behind' \in BOOLEAN /\ blocked' = {}
    BY <1>2, <1>3, <1>10, <1>11, <1>12 DEF RestoreTypes
  <2> QED
    BY <1>2, <1>3, <1>11, <1>14, <1>15, <2>1, OneRestoreMoves
<1>17. ~overtaken => c.executed = file.applied
  BY <1>1, <1>2, <1>3 DEF Alone
<1>18. x.step = "migrate" /\ ~overtaken => x.executed = file'.applied
  <2>1. CASE x = R!NoCall
    BY <2>1, NoCallIsACall
  <2>2. CASE x = done /\ x # R!NoCall
    <3>0. call \in [Call -> CallType]
      BY <1>2 DEF RestoreTypes
    <3>1. file' = f
      BY <1>12, <1>16, <2>2, <3>0
    <3> QED
      BY <1>6, <1>8, <1>10, <1>17, <2>2, <3>1
  <2> QED
    BY <1>14, <2>1, <2>2
<1>19. Alone'
  BY <1>1, <1>2, <1>3, <1>11, <1>16, <1>18, StaysAlone
<1>20. R!NothingIsLost'
  BY <1>10, <1>11, <1>12 DEF RestoreInv, R!NothingIsLost
<1>21. R!SchemaHasNoGap'
  <2>1. CASE file' = file
    BY <1>11, <2>1 DEF RestoreInv, R!SchemaHasNoGap
  <2>2. CASE file' = f
    <3>1. ~overtaken => file'.applied = R!Upto(m)
      BY <1>6, <1>10, <1>17, <2>2
    <3> QED
      BY <1>6, <1>11, <3>1 DEF R!SchemaHasNoGap
  <2> QED
    BY <1>12, <2>1, <2>2
<1>22. Steady'
  <2> SUFFICES ASSUME ~behind', ~overtaken', \A t \in Call : call'[t].step # "migrate"
               PROVE  R!Upto(Latest) \subseteq file'.applied
    BY DEF Steady, R!Upto
  <2>1. file' = f /\ R!Pending(done.executed) = {}
    <3>1. call \in [Call -> CallType]
      BY <1>2 DEF RestoreTypes
    <3>2. call'[r].step # "migrate"
      OBVIOUS
    <3> QED
      BY <1>8, <1>12, <3>1, <3>2
  <2>2. m = Latest
    BY <1>6, <1>8, <2>1
  <2> QED
    BY <1>6, <1>10, <1>11, <1>17, <2>1, <2>2
<1> QED
  BY <1>16, <1>19, <1>20, <1>21, <1>22 DEF RestoreInv

LEMMA NobodyCalls ==
  ASSUME call' = [r \in Call |-> R!NoCall]
  PROVE  /\ call' \in [Call -> CallType] /\ \A r \in Call : call'[r] = R!NoCall
         /\ Alone' /\ \A r \in Call : (HasDone(call[r]) /\ HasRead(call[r]))'
<1>1. call' \in [Call -> CallType] /\ \A r \in Call : call'[r] = R!NoCall
  BY NoCallIsACall
<1>2. Alone'
  BY <1>1, NoCallIsACall DEF Alone
<1>3. 0 \in 0 .. Latest + 1
  BY ServicesAssumption
<1>4. ASSUME NEW r \in Call PROVE (HasDone(call[r]) /\ HasRead(call[r]))'
  BY <1>1, <1>3, NoCallIsACall, PrefixesAreMigrations DEF HasDone, HasRead
<1> QED
  BY <1>1, <1>2, <1>4

LEMMA KillStep ==
  ASSUME RestoreInv, R!Kill
  PROVE  RestoreInv'
<1>1. up' = FALSE /\ call' = [r \in Call |-> R!NoCall] /\ blocked' = {}
      /\ UNCHANGED <<file, wal, kept, had, excused, overtaken, behind>>
  BY DEF R!Kill, R!history
<1>2. /\ call' \in [Call -> CallType] /\ \A r \in Call : call'[r] = R!NoCall
      /\ Alone' /\ \A r \in Call : (HasDone(call[r]) /\ HasRead(call[r]))'
  BY <1>1, NobodyCalls
<1>3. RestoreTypes'
  BY <1>1, <1>2, NoCallIsACall DEF RestoreInv, RestoreTypes, AtWork
<1>4. R!NothingIsLost' /\ R!SchemaHasNoGap' /\ Steady'
  BY <1>1 DEF RestoreInv, R!NothingIsLost, R!SchemaHasNoGap, Steady
<1> QED
  BY <1>2, <1>3, <1>4 DEF RestoreInv

(* What the start adds to a prefix leaves a prefix.                         *)
LEMMA MoreOfAPrefix ==
  ASSUME NEW j \in 0 .. Latest + 1, NEW k \in 0 .. Latest
  PROVE  \E i \in 0 .. Latest + 1 : R!Upto(j) \cup (R!Pending(R!Upto(j)) \cap R!Upto(k)) = R!Upto(i)
<1>1. Latest \in Nat /\ j \in Nat /\ k \in Nat
  BY ServicesAssumption
<1>2. PICK i \in 0 .. Latest + 1 : i = IF j < k THEN k ELSE j
  BY <1>1
<1>3. R!Upto(j) \cup (R!Pending(R!Upto(j)) \cap R!Upto(k)) = R!Upto(i)
  BY <1>1, <1>2 DEF R!Pending, R!Upto
<1> QED
  BY <1>3

LEMMA StartStep ==
  ASSUME RestoreInv, NEW k \in 0 .. Latest, R!Start(k)
  PROVE  RestoreInv'
<1>1. PICK f : f = [file EXCEPT !.applied = file.applied \cup (R!Pending(file.applied) \cap R!Upto(k))]
  OBVIOUS
<1>2. /\ ~up /\ file.whole /\ file' = f /\ up' = (R!Pending(f.applied) = {}) /\ behind' = FALSE
      /\ had' = had \cup {file.of} /\ UNCHANGED <<wal, kept, call, blocked, excused, overtaken>>
  BY <1>1 DEF R!Start
<1>3. file \in FileType /\ RestoreTypes /\ call \in [Call -> CallType]
  BY DEF RestoreInv, RestoreTypes
<1>4. /\ f \in FileType /\ f.of = file.of /\ f.whole = file.whole
      /\ f.applied = file.applied \cup (R!Pending(file.applied) \cap R!Upto(k))
  <2>1. R!Pending(file.applied) \subseteq R!Migration
    BY ServicesAssumption DEF R!Pending, R!Upto, R!Migration
  <2> QED
    BY <1>1, <1>3, <2>1 DEF FileType
<1>5. blocked = {} /\ \A r \in Call : call[r] = R!NoCall
  BY <1>2, <1>3 DEF RestoreTypes
<1>6. call' = [r \in Call |-> R!NoCall]
  BY <1>2, <1>3, <1>5
<1>7. /\ call' \in [Call -> CallType] /\ \A r \in Call : call'[r] = R!NoCall
      /\ Alone' /\ \A r \in Call : (HasDone(call[r]) /\ HasRead(call[r]))'
  BY <1>6, NobodyCalls
<1>8. RestoreTypes'
  <2>1. file.of \in R!Data /\ up' \in BOOLEAN
    BY <1>2, <1>3 DEF FileType
  <2> QED
    BY <1>2, <1>3, <1>4, <1>5, <1>7, <2>1, NoCallIsACall DEF RestoreTypes, AtWork
<1>9. R!NothingIsLost'
  BY <1>2, <1>4 DEF RestoreInv, R!NothingIsLost
<1>10. R!SchemaHasNoGap'
  <2> SUFFICES ASSUME ~overtaken PROVE \E i \in 0 .. Latest + 1 : f.applied = R!Upto(i)
    BY <1>2 DEF R!SchemaHasNoGap, R!Upto
  <2>1. PICK j \in 0 .. Latest + 1 : file.applied = R!Upto(j)
    BY <1>2 DEF RestoreInv, R!SchemaHasNoGap
  <2> QED
    BY <1>4, <2>1, MoreOfAPrefix
<1>11. Steady'
  BY <1>2 DEF Steady, R!Pending, R!Upto
<1> QED
  BY <1>7, <1>8, <1>9, <1>10, <1>11 DEF RestoreInv

-----------------------------------------------------------------------------
LEMMA RestoreStep == RestoreInv /\ [R!Next]_restoreVars => RestoreInv'
<1> SUFFICES ASSUME RestoreInv, [R!Next]_restoreVars PROVE RestoreInv'
  OBVIOUS
<1>1. CASE UNCHANGED restoreVars
  <2>1. UNCHANGED <<file, wal, kept, up, call, blocked, had, excused, overtaken, behind>>
    BY <1>1 DEF restoreVars
  <2>2. RestoreTypes' /\ Alone'
    BY <2>1 DEF RestoreInv, RestoreTypes, Alone
  <2>3. \A r \in Call : (HasDone(call[r]) /\ HasRead(call[r]))'
    BY <2>1 DEF RestoreInv, HasDone, HasRead
  <2>4. R!NothingIsLost' /\ R!SchemaHasNoGap' /\ Steady'
    BY <2>1 DEF RestoreInv, R!NothingIsLost, R!SchemaHasNoGap, Steady
  <2> QED
    BY <2>2, <2>3, <2>4 DEF RestoreInv
<1>2. CASE R!Write \/ R!Kill
  BY <1>2, WriteStep, KillStep
<1>3. ASSUME NEW k \in 0 .. Latest, R!Start(k) PROVE RestoreInv'
  BY <1>3, StartStep
<1>4. ASSUME NEW r \in Call, NEW d \in R!Data, NEW k \in 0 .. Latest + 1, NEW marked \in BOOLEAN, R!Begin(r, d, k, marked)
      PROVE  RestoreInv'
  BY <1>4, BeginStep
<1>5. ASSUME NEW r \in Call,
             \/ R!Checkpoint(r) \/ R!Close(r) \/ R!KeepCopy(r) \/ R!RemoveWalSidecars(r)
             \/ R!StartCopy(r) \/ R!Reopen(r) \/ R!Migrate(r) \/ R!CloseThrows(r) \/ R!CopyThrows(r)
      PROVE  RestoreInv'
  BY <1>5, ThrowsStep, CheckpointStep, KeepCopyStep, RemoveWalSidecarsStep, StartCopyStep, ReopenStep, MigrateStep
<1> QED
  BY <1>1, <1>2, <1>3, <1>4, <1>5 DEF R!Next

(* Wherever a restore is killed or fails, no database that was in use is    *)
(* lost unless its copy or checkpoint failed, or the log of the one before  *)
(* it could not be removed; the schema of a whole file has no gap, and      *)
(* requests meet the schema of this version unless a restore failed halfway *)
(* or two migrated at once (backupRestoreService.js, migrate.js).           *)
THEOREM RestoreStaysSound == Spec => []RestoreSound
<1> DEFINE Inv == part = "restore" => RestoreInv
<1>1. Init => Inv
  BY RestoreInit DEF Init
<1>2. Inv /\ [Next]_vars => Inv'
  BY PartsApart, RestoreStep
<1>3. Inv => RestoreSound
  <2>1. Steady => R!ServesItsSchema
    BY NoCallIsACall DEF Steady, R!ServesItsSchema, R!Upto
  <2> QED
    BY <2>1, RestoreTypesAreTypes DEF RestoreInv, RestoreSound
<1> QED
  BY <1>1, <1>2, <1>3, PTL DEF Spec

-----------------------------------------------------------------------------
(***************************************************************************)
(* ListingLocation.  A place set by hand is safe from every hand that has  *)
(* not read the row before; so the invariant says which hands have         *)
(* (ReadBefore), and that a row that is gone is in nobody's hands.         *)
(***************************************************************************)

ReadBefore ==
  \A l \in manual :
    /\ sweep[l] # Nobody => l \in early["sweep"]
    /\ lookup[l] # Nobody => l \in early["lookup"]
    /\ details[l].busy /\ ~details[l].manual => l \in early["details"]

GoneIsLetGo ==
  \A l \in Writer : presence[l] = "absent" =>
    sweep[l] = Nobody /\ lookup[l] = Nobody /\ ~details[l].busy /\ l \notin twice

LocationInv == L!TypeOK /\ L!DistancesFromHere /\ ReadBefore /\ GoneIsLetGo

LEMMA LocationInit == L!Init => LocationInv
BY ServicesAssumption DEF L!Init, LocationInv, L!TypeOK, L!DistancesFromHere, ReadBefore,
   GoneIsLetGo, L!Place, L!Hand, L!Unread

(* Filling in distances gives none to a row without a place.                *)
LEMMA DistancesFilledIn ==
  ASSUME L!TypeOK, NEW c \in [Writer -> L!Place \cup {Nobody}],
         \A l \in Writer : presence[l] = "absent" => c[l] = Nobody
  PROVE  /\ L!Filled(c) \in [Writer -> L!Place \cup {Nobody}]
         /\ \A l \in Writer : L!Filled(c)[l] \in {c[l], distances[l]}
         /\ \A l \in Writer : distances[l] # Nobody => L!Filled(c)[l] = distances[l]
         /\ \A l \in Writer : presence[l] = "absent" => L!Filled(c)[l] = Nobody
BY DEF L!Filled, L!TypeOK

LEMMA StartSweepStep == ASSUME LocationInv, L!StartSweep PROVE LocationInv'
<1> USE ServicesAssumption DEF LocationInv
<1>1. coords \in [Writer -> L!Place \cup {Nobody}]
      /\ \A l \in Writer : presence[l] = "absent" => coords[l] = Nobody
  BY DEF L!TypeOK
<1>2. /\ distances' \in [Writer -> L!Place \cup {Nobody}]
      /\ \A l \in Writer : distances'[l] \in {coords[l], distances[l]}
      /\ \A l \in Writer : distances[l] # Nobody => distances'[l] = distances[l]
      /\ \A l \in Writer : presence[l] = "absent" => distances'[l] = Nobody
  <2>1. CASE \E l \in Writer : L!ToGeocode(l)
    BY <2>1 DEF L!StartSweep, L!TypeOK
  <2>2. CASE ~ \E l \in Writer : L!ToGeocode(l)
    <3>1. distances' = L!Filled(coords)
      BY <2>2 DEF L!StartSweep
    <3> QED
      BY <1>1, <3>1, DistancesFilledIn
  <2> QED
    BY <2>1, <2>2
<1>3. L!TypeOK'
  BY <1>2 DEF L!StartSweep, L!TypeOK, L!ToGeocode, L!Place, L!seen
<1>4. L!DistancesFromHere'
  BY <1>2 DEF L!StartSweep, L!DistancesFromHere, L!TypeOK, L!seen
<1>5. ReadBefore' /\ GoneIsLetGo'
  BY DEF L!StartSweep, ReadBefore, GoneIsLetGo, L!ToGeocode, L!TypeOK, L!seen
<1> QED
  BY <1>3, <1>4, <1>5

LEMMA SweepAnswerStep ==
  ASSUME LocationInv, NEW l \in Writer, NEW answer \in L!Place \cup {Nobody},
         NEW refused \in BOOLEAN, L!SweepAnswer(l, answer, refused)
  PROVE  LocationInv'
<1> USE ServicesAssumption DEF LocationInv
<1> DEFINE moved == answer # Nobody /\ presence[l] # "absent"
           rest == IF refused THEN [m \in Writer |-> Nobody] ELSE [sweep EXCEPT ![l] = Nobody]
<1>1. /\ sweep[l] # Nobody
      /\ sweep' = rest
      /\ coords' = IF moved THEN [coords EXCEPT ![l] = answer] ELSE coords
      /\ distances' = IF \A m \in Writer : rest[m] = Nobody THEN L!Filled(coords') ELSE distances
      /\ early' = [early EXCEPT !["sweep"] = {m \in early["sweep"] : rest[m] # Nobody}]
      /\ adrift' = IF moved /\ distances[l] \notin {answer, Nobody} THEN adrift \cup {l} ELSE adrift
      /\ UNCHANGED <<presence, address, manual, lookup, details, twice>>
  BY DEF L!SweepAnswer
<1>2. /\ rest \in [Writer -> User \cup {Nobody}]
      /\ \A m \in Writer : rest[m] # Nobody => sweep[m] # Nobody /\ m # l
  BY DEF L!TypeOK
<1> HIDE DEF rest
<1>3. /\ coords' \in [Writer -> L!Place \cup {Nobody}]
      /\ \A m \in Writer : presence[m] = "absent" => coords'[m] = Nobody
      /\ \A m \in Writer \ {l} : coords'[m] = coords[m]
      /\ coords'[l] = IF moved THEN answer ELSE coords[l]
  BY <1>1 DEF L!TypeOK
<1>4. /\ distances' \in [Writer -> L!Place \cup {Nobody}]
      /\ \A m \in Writer : distances'[m] \in {coords'[m], distances[m]}
      /\ \A m \in Writer : distances[m] # Nobody => distances'[m] = distances[m]
      /\ \A m \in Writer : presence[m] = "absent" => distances'[m] = Nobody
  <2>1. CASE \A m \in Writer : rest[m] = Nobody
    <3>1. distances' = L!Filled(coords')
      BY <1>1, <2>1
    <3> QED
      BY <1>3, <3>1, DistancesFilledIn
  <2>2. CASE ~ \A m \in Writer : rest[m] = Nobody
    <3>1. distances' = distances
      BY <1>1, <2>2
    <3> QED
      BY <3>1 DEF L!TypeOK
  <2> QED
    BY <2>1, <2>2
<1>5. /\ early' \in [L!Hand -> SUBSET Writer]
      /\ early'["sweep"] = {m \in early["sweep"] : rest[m] # Nobody}
      /\ early'["lookup"] = early["lookup"]
      /\ early'["details"] = early["details"]
  BY <1>1 DEF L!TypeOK, L!Hand
<1>6. L!TypeOK'
  <2>1. coords' \in [Writer -> L!Place \cup {Nobody}] /\ distances' \in [Writer -> L!Place \cup {Nobody}]
    BY <1>3, <1>4
  <2>2. sweep' \in [Writer -> User \cup {Nobody}]
    BY <1>1, <1>2
  <2>3. early' \in [L!Hand -> SUBSET Writer]
    BY <1>5
  <2>4. adrift' \subseteq Writer
    BY <1>1 DEF L!TypeOK
  <2>5. \A m \in Writer : presence'[m] = "absent" => coords'[m] = Nobody /\ distances'[m] = Nobody
    BY <1>1, <1>3, <1>4
  <2> QED
    BY <1>1, <2>1, <2>2, <2>3, <2>4, <2>5 DEF L!TypeOK
<1>7. L!DistancesFromHere'
  <2> SUFFICES ASSUME NEW m \in Writer, m \notin adrift', distances'[m] # Nobody
               PROVE  distances'[m] = coords'[m]
    BY DEF L!DistancesFromHere
  <2>1. m \notin adrift
    BY <1>1
  <2>2. distances[m] # Nobody => distances'[m] = distances[m] /\ distances[m] = coords[m]
    BY <1>4, <2>1 DEF L!DistancesFromHere
  <2>3. distances[m] = Nobody => distances'[m] = coords'[m]
    BY <1>4
  <2>4. CASE m = l
    <3>1. moved => distances[l] \in {answer, Nobody}
      BY <1>1, <2>4
    <3> QED
      BY <1>3, <2>2, <2>3, <2>4, <3>1
  <2>5. CASE m # l
    BY <1>3, <2>2, <2>3, <2>5
  <2> QED
    BY <2>4, <2>5
<1>8. ReadBefore'
  BY <1>1, <1>2, <1>5 DEF ReadBefore, L!TypeOK
<1>9. GoneIsLetGo'
  BY <1>1, <1>2 DEF GoneIsLetGo, L!TypeOK
<1> QED
  BY <1>6, <1>7, <1>8, <1>9

(* The two buttons.                                                         *)
LEMMA ButtonStep ==
  ASSUME LocationInv, NEW l \in Writer,
         \/ \E found \in User : L!AskLookup(l, found)
         \/ L!LookupAnswer(l)
         \/ L!AskDetails(l)
         \/ \E found \in User \cup {Nobody} : L!DetailsArrive(l, found)
  PROVE  LocationInv'
<1> USE ServicesAssumption DEF LocationInv
<1>1. CASE \E found \in User : L!AskLookup(l, found)
  BY <1>1 DEF L!AskLookup, L!TypeOK, L!DistancesFromHere, ReadBefore, GoneIsLetGo, L!Place,
     L!row, L!seen
<1>2. CASE L!LookupAnswer(l)
  <2>1. /\ early' \in [L!Hand -> SUBSET Writer]
        /\ early'["lookup"] = early["lookup"] \ {l}
        /\ early'["sweep"] = early["sweep"]
        /\ early'["details"] = early["details"]
    BY <1>2 DEF L!LookupAnswer, L!TypeOK, L!Hand
  <2>2. /\ presence[l] # "absent"
        /\ lookup' = [lookup EXCEPT ![l] = Nobody]
        /\ coords' = [coords EXCEPT ![l] = lookup[l]]
        /\ distances' = [distances EXCEPT ![l] = lookup[l]]
        /\ adrift' = adrift \ {l}
        /\ UNCHANGED <<presence, address, manual, sweep, details, twice>>
    BY <1>2 DEF L!LookupAnswer, GoneIsLetGo
  <2>3. L!TypeOK'
    BY <2>1, <2>2 DEF L!TypeOK, L!Place
  <2>4. L!DistancesFromHere'
    BY <2>2 DEF L!DistancesFromHere, L!TypeOK
  <2>5. ReadBefore' /\ GoneIsLetGo'
    BY <2>1, <2>2 DEF ReadBefore, GoneIsLetGo, L!TypeOK
  <2> QED
    BY <2>3, <2>4, <2>5
<1>3. CASE L!AskDetails(l)
  <2>1. /\ presence[l] # "absent"
        /\ details'[l].manual = (l \in manual)
        /\ \A m \in Writer \ {l} : details'[m] = details[m]
        /\ UNCHANGED <<L!row, sweep, lookup, twice, L!seen>>
    BY <1>3 DEF L!AskDetails, L!TypeOK
  <2>2. L!TypeOK'
    BY <1>3, <2>1 DEF L!AskDetails, L!TypeOK, L!row, L!seen
  <2>3. L!DistancesFromHere' /\ ReadBefore' /\ GoneIsLetGo'
    BY <2>1 DEF L!DistancesFromHere, ReadBefore, GoneIsLetGo, L!TypeOK, L!row, L!seen
  <2> QED
    BY <2>2, <2>3
<1>4. CASE \E found \in User \cup {Nobody} : L!DetailsArrive(l, found)
  <2>1. PICK found \in User \cup {Nobody} : L!DetailsArrive(l, found)
    BY <1>4
  <2>2. /\ early' \in [L!Hand -> SUBSET Writer]
        /\ early'["details"] = early["details"] \ {l}
        /\ early'["sweep"] = early["sweep"]
        /\ early'["lookup"] = early["lookup"]
    BY <2>1 DEF L!DetailsArrive, L!TypeOK, L!Hand
  <2>3. L!TypeOK'
    BY <2>1, <2>2 DEF L!DetailsArrive, L!TypeOK, L!Unread
  <2>4. L!DistancesFromHere' /\ ReadBefore' /\ GoneIsLetGo'
    BY <2>1, <2>2 DEF L!DetailsArrive, L!DistancesFromHere, ReadBefore, GoneIsLetGo,
       L!TypeOK, L!Unread
  <2> QED
    BY <2>3, <2>4
<1> QED
  BY <1>1, <1>2, <1>3, <1>4

(* Nobody has a row in hand any more.                                       *)
LEMMA HandsLost ==
  ASSUME L!LoseHands
  PROVE  /\ sweep' \in [Writer -> User \cup {Nobody}]
         /\ lookup' \in [Writer -> User \cup {Nobody}]
         /\ details' \in [Writer -> [address : User \cup {Nobody}, manual : BOOLEAN,
                                      busy : BOOLEAN]]
         /\ twice' = {}
         /\ early' \in [L!Hand -> SUBSET Writer]
         /\ \A l \in Writer : sweep'[l] = Nobody /\ lookup'[l] = Nobody /\ ~details'[l].busy
BY DEF L!LoseHands, L!Unread

(* The place set by hand, in one piece and torn.                            *)
LEMMA PlaceStep ==
  ASSUME LocationInv, NEW l \in Writer, NEW a \in User, NEW p \in User,
         L!PlaceByHand(l, a, p) \/ L!PlaceTorn(l, a, p)
  PROVE  LocationInv'
<1> USE ServicesAssumption DEF LocationInv
<1>1. CASE L!PlaceByHand(l, a, p)
  <2>1. /\ early' \in [L!Hand -> SUBSET Writer]
        /\ \A h \in L!Hand : early[h] \subseteq early'[h]
        /\ sweep[l] # Nobody => l \in early'["sweep"]
        /\ lookup[l] # Nobody => l \in early'["lookup"]
        /\ details[l].busy => l \in early'["details"]
    BY <1>1 DEF L!PlaceByHand, L!HandsOn, L!Hand, L!TypeOK
  <2>2. L!TypeOK' /\ L!DistancesFromHere' /\ GoneIsLetGo'
    BY <1>1, <2>1 DEF L!PlaceByHand, L!SetListingAddress, L!TypeOK, L!DistancesFromHere,
       GoneIsLetGo, L!Place, L!hands
  <2>3. ReadBefore'
    BY <1>1, <2>1 DEF L!PlaceByHand, L!SetListingAddress, ReadBefore, L!TypeOK, L!Hand, L!hands
  <2> QED
    BY <2>2, <2>3
<1>2. CASE L!PlaceTorn(l, a, p)
  <2>1. L!TypeOK' /\ L!DistancesFromHere'
    BY <1>2, HandsLost DEF L!PlaceTorn, L!SetListingAddress, L!TypeOK, L!DistancesFromHere, L!Place
  <2>2. manual' \subseteq Writer
    BY <2>1 DEF L!TypeOK
  <2>3. ReadBefore' /\ GoneIsLetGo'
    BY <1>2, <2>2, HandsLost DEF L!PlaceTorn, ReadBefore, GoneIsLetGo
  <2> QED
    BY <2>1, <2>3
<1> QED
  BY <1>1, <1>2

(* A row comes, goes, is put aside and put back.                            *)
LEMMA RowStep ==
  ASSUME LocationInv, NEW l \in Writer,
         \/ \E a, p \in User \cup {Nobody}, more \in BOOLEAN : L!Insert(l, a, p, more)
         \/ \E p \in User \cup {Nobody} : L!InsertAgain(l, p)
         \/ L!TakeOut(l) \/ L!PutBack(l) \/ L!Delete(l)
  PROVE  LocationInv'
<1> USE ServicesAssumption DEF LocationInv
<1>1. CASE \E a, p \in User \cup {Nobody}, more \in BOOLEAN : L!Insert(l, a, p, more)
  BY <1>1 DEF L!Insert, L!TypeOK, L!DistancesFromHere, ReadBefore, GoneIsLetGo, L!Place, L!hands, L!seen
<1>2. CASE L!TakeOut(l) \/ L!PutBack(l)
  BY <1>2 DEF L!TakeOut, L!PutBack, L!TypeOK, L!DistancesFromHere, ReadBefore, GoneIsLetGo, L!hands, L!seen
<1>3. CASE L!Delete(l)
  <2>1. /\ early' \in [L!Hand -> SUBSET Writer]
        /\ \A h \in L!Hand : early'[h] = early[h] \ {l}
    BY <1>3 DEF L!Delete, L!TypeOK
  <2>2. L!TypeOK' /\ L!DistancesFromHere'
    BY <1>3, <2>1 DEF L!Delete, L!TypeOK, L!DistancesFromHere, L!Unread
  <2>3. ReadBefore' /\ GoneIsLetGo'
    BY <1>3, <2>1 DEF L!Delete, ReadBefore, GoneIsLetGo, L!TypeOK, L!Unread, L!Hand
  <2> QED
    BY <2>2, <2>3
<1>4. CASE \E p \in User \cup {Nobody} : L!InsertAgain(l, p)
  <2>1. PICK p \in User \cup {Nobody} : L!InsertAgain(l, p)
    BY <1>4
  <2>2. presence[l] # "absent"
    BY <2>1 DEF L!InsertAgain, GoneIsLetGo
  <2>3. L!TypeOK' /\ L!DistancesFromHere'
    BY <2>1, <2>2 DEF L!InsertAgain, L!TypeOK, L!DistancesFromHere, L!Place
  <2>4. ReadBefore' /\ GoneIsLetGo'
    BY <2>1 DEF L!InsertAgain, ReadBefore, GoneIsLetGo
  <2> QED
    BY <2>3, <2>4
<1> QED
  BY <1>1, <1>2, <1>3, <1>4

LEMMA SaveAddressesStep == ASSUME LocationInv, L!SaveAddresses PROVE LocationInv'
BY ServicesAssumption DEF LocationInv, L!SaveAddresses, L!TypeOK, L!DistancesFromHere,
   ReadBefore, GoneIsLetGo, L!hands

(* A kill, between two requests or inside the lookup's answer.              *)
LEMMA LocationKillStep ==
  ASSUME LocationInv, L!Restart \/ \E l \in Writer : L!LookupTorn(l)
  PROVE  LocationInv'
<1> USE ServicesAssumption DEF LocationInv
<1>1. CASE L!Restart
  <2>1. L!TypeOK' /\ L!DistancesFromHere'
    BY <1>1, HandsLost DEF L!Restart, L!TypeOK, L!DistancesFromHere, L!row
  <2>2. ReadBefore' /\ GoneIsLetGo'
    BY <1>1, <2>1, HandsLost DEF L!Restart, L!TypeOK, ReadBefore, GoneIsLetGo
  <2> QED
    BY <2>1, <2>2
<1>2. CASE \E l \in Writer : L!LookupTorn(l)
  <2>1. PICK l \in Writer : L!LookupTorn(l)
    BY <1>2
  <2>2. presence[l] # "absent" /\ lookup[l] \in User
    BY <2>1 DEF L!LookupTorn, GoneIsLetGo, L!TypeOK
  <2>3. L!TypeOK' /\ L!DistancesFromHere'
    BY <2>1, <2>2, HandsLost DEF L!LookupTorn, L!TypeOK, L!DistancesFromHere, L!Place
  <2>4. ReadBefore' /\ GoneIsLetGo'
    BY <2>1, <2>3, HandsLost DEF L!LookupTorn, L!TypeOK, ReadBefore, GoneIsLetGo
  <2> QED
    BY <2>3, <2>4
<1> QED
  BY <1>1, <1>2

LEMMA LocationStep == LocationInv /\ [L!Next]_locationVars => LocationInv'
<1> SUFFICES ASSUME LocationInv, [L!Next]_locationVars PROVE LocationInv'
  OBVIOUS
<1>1. CASE L!StartSweep
  BY <1>1, StartSweepStep
<1>2. CASE \E l \in Writer : L!Asked(l)
  BY <1>2, SweepAnswerStep DEF L!Asked
<1>3. CASE \E l \in Writer :
             \/ \E found \in User : L!AskLookup(l, found)
             \/ L!LookupAnswer(l)
             \/ L!AskDetails(l)
             \/ \E found \in User \cup {Nobody} : L!DetailsArrive(l, found)
  BY <1>3, ButtonStep
<1>4. CASE \E l \in Writer, a, p \in User : L!PlaceByHand(l, a, p) \/ L!PlaceTorn(l, a, p)
  BY <1>4, PlaceStep
<1>5. CASE \E l \in Writer :
             \/ \E a, p \in User \cup {Nobody}, more \in BOOLEAN : L!Insert(l, a, p, more)
             \/ \E p \in User \cup {Nobody} : L!InsertAgain(l, p)
             \/ L!TakeOut(l) \/ L!PutBack(l) \/ L!Delete(l)
  BY <1>5, RowStep
<1>6. CASE L!SaveAddresses
  BY <1>6, SaveAddressesStep
<1>7. CASE L!Restart \/ \E l \in Writer : L!LookupTorn(l)
  BY <1>7, LocationKillStep
<1>8. CASE UNCHANGED locationVars
  BY <1>8 DEF LocationInv, L!TypeOK, L!DistancesFromHere, ReadBefore, GoneIsLetGo, locationVars, L!row,
     L!hands, L!seen
<1> QED
  BY <1>1, <1>2, <1>3, <1>4, <1>5, <1>6, <1>7, <1>8 DEF L!Next, L!ServiceStep, L!UserStep

(* One step moves a pinned row only if its user does, or a hand that had    *)
(* read the row before it was pinned.                                       *)
LEMMA StepKeepsPin ==
  ASSUME LocationInv, [L!Next]_locationVars, NEW l \in Writer, L!Pinned(l)
  PROVE  /\ L!KeepsPin(l) \/ l \in early["sweep"] \cup early["lookup"]
         /\ L!KeepsAddress(l) \/ l \in early["details"]
<1> USE DEF LocationInv, L!Pinned, L!KeepsPin, L!KeepsAddress
<1>1. CASE L!StartSweep
  BY <1>1 DEF L!StartSweep
<1>2. CASE \E m \in Writer : L!Asked(m)
  BY <1>2 DEF L!Asked, L!SweepAnswer, ReadBefore, L!TypeOK
<1>3. CASE \E m \in Writer : \E found \in User : L!AskLookup(m, found)
  BY <1>3 DEF L!AskLookup, L!row
<1>4. CASE \E m \in Writer : L!LookupAnswer(m) \/ L!LookupTorn(m)
  BY <1>4 DEF L!LookupAnswer, L!LookupTorn, ReadBefore, L!TypeOK
<1>5. CASE \E m \in Writer : L!AskDetails(m)
  BY <1>5 DEF L!AskDetails, L!row
<1>6. CASE \E m \in Writer, found \in User \cup {Nobody} : L!DetailsArrive(m, found)
  BY <1>6 DEF L!DetailsArrive, ReadBefore, L!TypeOK
<1>7. CASE \E m \in Writer, a, p \in User : L!PlaceByHand(m, a, p) \/ L!PlaceTorn(m, a, p)
  <2>1. PICK m \in Writer, a \in User, p \in User :
               L!PlaceByHand(m, a, p) \/ L!PlaceTorn(m, a, p)
    BY <1>7
  <2>2. CASE m = l
    <3>1. L!Placed(l)
      BY <2>1, <2>2 DEF L!Placed
    <3> QED
      BY <3>1
  <2>3. CASE m # l
    <3>1. coords'[l] = coords[l] /\ address'[l] = address[l]
      BY <2>1, <2>3 DEF L!PlaceByHand, L!PlaceTorn, L!SetListingAddress, L!TypeOK
    <3> QED
      BY <3>1
  <2> QED
    BY <2>2, <2>3
<1>8. CASE \E m \in Writer :
             \/ \E a, p \in User \cup {Nobody}, more \in BOOLEAN : L!Insert(m, a, p, more)
             \/ \E p \in User \cup {Nobody} : L!InsertAgain(m, p)
  BY <1>8 DEF L!Insert, L!InsertAgain, L!TypeOK
<1>9. CASE \E m \in Writer : L!TakeOut(m) \/ L!PutBack(m) \/ L!Delete(m)
  BY <1>9 DEF L!TakeOut, L!PutBack, L!Delete, L!TypeOK
<1>10. CASE L!SaveAddresses
  BY <1>10 DEF L!SaveAddresses
<1>11. CASE L!Restart
  BY <1>11 DEF L!Restart, L!row
<1>12. CASE UNCHANGED locationVars
  BY <1>12 DEF locationVars, L!row
<1> QED
  BY <1>1, <1>2, <1>3, <1>4, <1>5, <1>6, <1>7, <1>8, <1>9, <1>10, <1>11, <1>12
     DEF L!Next, L!ServiceStep, L!UserStep

(* Distances are those of the place shown, unless a late answer or a kill   *)
(* between two statements moved the place, or a second run measured them    *)
(* from where it had found the advert.                                      *)
THEOREM LocationStaysSound == Spec => []LocationSound
<1> DEFINE Inv == part = "location" => LocationInv
<1>1. Init => Inv
  BY LocationInit DEF Init
<1>2. Inv /\ [Next]_vars => Inv'
  BY PartsApart, LocationStep
<1>3. Inv => LocationSound
  BY DEF LocationSound, LocationInv
<1> QED
  BY <1>1, <1>2, <1>3, PTL DEF Spec

(* What the user placed stands against every question asked afterwards.     *)
THEOREM PinsStand == Spec => LaterAnswersKeepThePin
<1> DEFINE Inv == part = "location" => LocationInv
<1>1. Init => Inv
  BY LocationInit DEF Init
<1>2. Inv /\ [Next]_vars => Inv'
  BY PartsApart, LocationStep
<1>3. Inv /\ [Next]_vars => [part = "location" => L!PinStands]_locationVars
  BY PartsApart, StepKeepsPin DEF L!PinStands
<1> QED
  BY <1>1, <1>2, <1>3, PTL DEF Spec, LaterAnswersKeepThePin

=============================================================================
