------------------------------- MODULE Services -------------------------------
(***************************************************************************)
(* Eight small parts of the system that share no state, side by side: a    *)
(* behaviour is a behaviour of the one part it begins with, and the        *)
(* variables of the others are "off".                                      *)
(*                                                                         *)
(* User stands for the accounts of each part, Id for session ids and for   *)
(* authorization codes, Call for requests, creations, clients, restores    *)
(* and readers of the settings, Writer for the users who put a job         *)
(* together, for the restores that swap the settings' table and for the    *)
(* listings that are placed, User for the addresses they are placed at.    *)
(***************************************************************************)
EXTENDS Integers, FiniteSets

CONSTANTS
  User, Id, Call, Writer, Channel, Nobody,
  NoPlace,                   \* ListingLocation: looked, found nothing
  Content,                   \* SettingsCache: contents of the settings table
  Value,                     \* ClientStore: values of one setting
  MaxPairs,                  \* bound: pairs of tokens issued
  MaxInterviews,             \* bound: interviews begun
  MaxRestores,               \* bound: databases a restore brought
  Latest,                    \* the migrations of this version are 1 .. Latest
  Elsewhere,                 \* whether another process can have the database open
  MaxTickets,                \* bound: list requests of a page load
  MaxWrites,                 \* bound: global writes of one process
  Households, Surcharges, Equities, Terms, Discount, Payments, Prices, Threshold, Rounded

ASSUME ServicesAssumption ==
  /\ Nobody \notin User \cup Id \cup Call \cup Content
  /\ NoPlace \notin User \cup {Nobody}
  /\ Call \cap Writer = {}
  /\ Content # {} /\ Value # {}
  /\ {MaxPairs, MaxInterviews, MaxRestores, Latest, MaxTickets, MaxWrites} \subseteq Nat
  /\ Elsewhere \in BOOLEAN
  /\ Households \subseteq [income : Int, costs : Int, debt : Int]
  /\ Surcharges \subseteq Nat /\ Equities \subseteq Nat /\ Payments \subseteq Nat
  /\ Terms \subseteq Nat \X Nat
  /\ Prices \subseteq Nat /\ Threshold \in Nat

VARIABLES
  part,
  account, rows, used, req, crowded,
  holder, client, code, pair, issued, ended,
  usable, draft, creating, begun, heard, made, other, crossed,
  file, wal, kept, up, call, blocked, had, excused, overtaken, behind,
  session, stored, request, user, list, ticket, setting, loading, late, switched, blurred,
  profile, listing,
  table, cached, generation, read, excuse,
  presence, address, coords, manual, distances, sweep, lookup, details, twice, early, adrift

A == INSTANCE Accounts WITH Sid <- Id, Req <- Call, NoUser <- Nobody, NoSid <- Nobody
O == INSTANCE OAuthGrants WITH Holder <- User, Client <- Call, Code <- Id
D == INSTANCE JobDrafts WITH Creation <- Call
R == INSTANCE Restore WITH Restorer <- Call
C == INSTANCE ClientStore WITH Account <- User, Request <- Call
F == INSTANCE FinanceVerdicts
S == INSTANCE SettingsCache WITH Caller <- Call, Restorer <- Writer, Value <- Content, Cold <- Nobody
L == INSTANCE ListingLocation WITH Listing <- Writer, Address <- User, None <- Nobody, stored <- presence

ASSUME RoundingAssumption == \A h \in Households : Rounded[h] \in F!Roundings

accountsVars == <<account, rows, used, req, crowded>>
oauthVars == <<holder, client, code, pair, issued, ended>>
draftsVars == <<usable, draft, creating, begun, heard, made, other, crossed>>
restoreVars == <<file, wal, kept, up, call, blocked, had, excused, overtaken, behind>>
clientStoreVars == <<session, stored, request, user, list, ticket, setting, loading, late, switched, blurred>>
financeVars == <<profile, listing>>
settingsVars == <<table, cached, generation, read, excuse>>
locationVars == <<presence, address, coords, manual, distances, sweep, lookup, details, twice, early, adrift>>

AccountsOff == account = "off" /\ rows = "off" /\ used = "off" /\ req = "off" /\ crowded = "off"
OAuthOff == holder = "off" /\ client = "off" /\ code = "off" /\ pair = "off" /\ issued = "off" /\ ended = "off"
DraftsOff == /\ usable = "off" /\ draft = "off" /\ creating = "off" /\ begun = "off" /\ heard = "off"
             /\ made = "off" /\ other = "off" /\ crossed = "off"
RestoreOff == /\ file = "off" /\ wal = "off" /\ kept = "off" /\ up = "off" /\ call = "off"
              /\ blocked = "off" /\ had = "off" /\ excused = "off" /\ overtaken = "off" /\ behind = "off"
ClientOff == /\ session = "off" /\ stored = "off" /\ request = "off" /\ user = "off" /\ list = "off" /\ ticket = "off"
             /\ setting = "off" /\ loading = "off" /\ late = "off" /\ switched = "off" /\ blurred = "off"
FinanceOff == profile = "off" /\ listing = "off"
SettingsOff == table = "off" /\ cached = "off" /\ generation = "off" /\ read = "off" /\ excuse = "off"
LocationOff == /\ presence = "off" /\ address = "off" /\ coords = "off" /\ manual = "off" /\ distances = "off"
               /\ sweep = "off" /\ lookup = "off" /\ details = "off" /\ twice = "off" /\ early = "off" /\ adrift = "off"

Init ==
  \/ part = "accounts" /\ A!Init /\ OAuthOff /\ DraftsOff /\ RestoreOff /\ ClientOff
     /\ FinanceOff /\ SettingsOff /\ LocationOff
  \/ part = "oauth" /\ O!Init /\ AccountsOff /\ DraftsOff /\ RestoreOff /\ ClientOff
     /\ FinanceOff /\ SettingsOff /\ LocationOff
  \/ part = "drafts" /\ D!Init /\ AccountsOff /\ OAuthOff /\ RestoreOff /\ ClientOff
     /\ FinanceOff /\ SettingsOff /\ LocationOff
  \/ part = "restore" /\ R!Init /\ AccountsOff /\ OAuthOff /\ DraftsOff /\ ClientOff
     /\ FinanceOff /\ SettingsOff /\ LocationOff
  \/ part = "client" /\ C!Init /\ AccountsOff /\ OAuthOff /\ DraftsOff /\ RestoreOff
     /\ FinanceOff /\ SettingsOff /\ LocationOff
  \/ part = "finance" /\ F!Init /\ AccountsOff /\ OAuthOff /\ DraftsOff /\ RestoreOff
     /\ ClientOff /\ SettingsOff /\ LocationOff
  \/ part = "settings" /\ S!Init /\ AccountsOff /\ OAuthOff /\ DraftsOff /\ RestoreOff
     /\ ClientOff /\ FinanceOff /\ LocationOff
  \/ part = "location" /\ L!Init /\ AccountsOff /\ OAuthOff /\ DraftsOff /\ RestoreOff
     /\ ClientOff /\ FinanceOff /\ SettingsOff

Next ==
  \/ part = "accounts" /\ A!Next
     /\ UNCHANGED <<part, oauthVars, draftsVars, restoreVars, clientStoreVars, financeVars, settingsVars, locationVars>>
  \/ part = "oauth" /\ O!Next
     /\ UNCHANGED <<part, accountsVars, draftsVars, restoreVars, clientStoreVars, financeVars, settingsVars, locationVars>>
  \/ part = "drafts" /\ D!Next
     /\ UNCHANGED <<part, accountsVars, oauthVars, restoreVars, clientStoreVars, financeVars, settingsVars, locationVars>>
  \/ part = "restore" /\ R!Next
     /\ UNCHANGED <<part, accountsVars, oauthVars, draftsVars, clientStoreVars, financeVars, settingsVars, locationVars>>
  \/ part = "client" /\ C!Next
     /\ UNCHANGED <<part, accountsVars, oauthVars, draftsVars, restoreVars, financeVars, settingsVars, locationVars>>
  \/ part = "finance" /\ F!Next
     /\ UNCHANGED <<part, accountsVars, oauthVars, draftsVars, restoreVars, clientStoreVars, settingsVars, locationVars>>
  \/ part = "settings" /\ S!Next
     /\ UNCHANGED <<part, accountsVars, oauthVars, draftsVars, restoreVars, clientStoreVars, financeVars, locationVars>>
  \/ part = "location" /\ L!Next
     /\ UNCHANGED <<part, accountsVars, oauthVars, draftsVars, restoreVars, clientStoreVars, financeVars, settingsVars>>

vars == <<part, accountsVars, oauthVars, draftsVars, restoreVars, clientStoreVars, financeVars, settingsVars, locationVars>>
Spec == Init /\ [][Next]_vars

(* Accounts: nobody is signed in who would not get in with the password in  *)
(* force, and somebody can administer the system.                           *)
AccountsSound ==
  part = "accounts" => A!TypeOK /\ A!SignedInWithThePassword /\ A!SomebodyAdministers

(* A session that was ended is not brought back by a request in flight.     *)
EndedStaysEnded == [][part = "accounts" => A!OnlyFreshRows]_accountsVars

(* OAuthGrants: a consent has one good refresh token at most, a family that *)
(* was ended neither calls nor refreshes, and whoever can call is listed.   *)
GrantsSound ==
  part = "oauth" =>
    O!TypeOK /\ O!OneTokenPerConsent /\ O!EndedFamiliesStayEnded /\ O!WhoCallsIsListed

(* The sweep never costs a client what it could still use.                  *)
SweepCostsNothing == [][part = "oauth" /\ O!SweepExpired => O!StillUsable]_oauthVars

(* JobDrafts: no interview is ready before its user heard of the optional   *)
(* filters, and each makes one job of the answers as they stand.            *)
DraftsSound == part = "drafts" => D!TypeOK /\ D!ReadyMeansAsked /\ D!OneJobPerInterview

(* Restore: no database that was in use is lost, migrations leave no gap,   *)
(* and requests are served on the schema of this version.                   *)
RestoreSound ==
  part = "restore" => R!TypeOK /\ R!NothingIsLost /\ R!SchemaHasNoGap /\ R!ServesItsSchema

(* ClientStore: the store is of the account signed in, the setting shown is *)
(* the one stored, and a flag is up only while its action runs.             *)
StoreSound ==
  part = "client" => C!TypeOK /\ C!StoreIsOfItsUser /\ C!ShownIsStored /\ C!NoFlagForever

(* A list never goes back to an earlier request than the one it shows.      *)
ListNeverGoesBack == [][part = "client" => C!NeverBack]_clientStoreVars

(* FinanceVerdicts: filter, chip and scan give one verdict on a listing.    *)
VerdictsAgree == part = "finance" => F!TypeOK /\ F!FilterIsChip /\ F!ScanIsChip

(* SettingsCache: the cache is cold or holds what the table holds, unless a *)
(* restore or a save that threw went past it.                               *)
CacheIsCurrent == part = "settings" => S!TypeOK /\ S!CacheIsCurrent

(* ListingLocation: distances are those of the place shown, unless a late   *)
(* answer of the sweep, or a kill between two statements, moved it, or a    *)
(* second run that had found the advert new measured it from elsewhere.     *)
LocationSound == part = "location" => L!TypeOK /\ L!DistancesFromHere

(* What the user placed stands against every question asked afterwards:     *)
(* only a hand that had read the row before can still move it.              *)
LaterAnswersKeepThePin ==
  [][part = "location" => L!PinStands]_locationVars
=============================================================================
