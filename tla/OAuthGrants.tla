----------------------------- MODULE OAuthGrants -----------------------------
(***************************************************************************)
(* What remote clients may do in a user's name.  A user's consent issues a *)
(* code, the code is exchanged for a pair of tokens, and every refresh     *)
(* exchanges the pair for the next one of its family.  Answers get lost    *)
(* and clients try again with what they have, users take a grant back,     *)
(* accounts are removed, and a sweep drops what has run out.  Every        *)
(* operation is one transaction; what is hard is their order.              *)
(*                                                                         *)
(* Pairs are numbered as they are issued.  The redirect address, the proof *)
(* of the code and the scopes are not told apart.                          *)
(***************************************************************************)
EXTENDS Naturals, FiniteSets

CONSTANTS
  Holder,        \* the accounts that can consent
  Client,        \* registrations: a client id is issued once
  Code,          \* authorization codes: each is issued once
  MaxPairs,      \* bound: pairs issued
  Nobody

VARIABLES
  holder,        \* the accounts that are there
  client,        \* mcp_oauth_clients
  code,          \* mcp_oauth_authorization_codes
  pair,          \* mcp_oauth_access_tokens and mcp_oauth_refresh_tokens
  issued,        \* pairs issued so far
  ended          \* history: the pairs whose families were told to end

vars == <<holder, client, code, pair, issued, ended>>

Pair == 1 .. MaxPairs

(* An access token lasts an hour, the refresh token beside it thirty days.  *)
Age == {"young", "old", "expired"}
Row == {"none", "live", "revoked"}
NoCode == [is |-> "none", client |-> Nobody, holder |-> Nobody]
NoPair == [family |-> 0, code |-> Nobody, client |-> Nobody, holder |-> Nobody,
           age |-> "young", access |-> "none", refresh |-> "none"]

TypeOK ==
  /\ holder \subseteq Holder
  /\ client \in [Client -> {"unknown", "new", "settled", "dropped"}]
  /\ code \in [Code -> [is : {"none", "pending", "late", "gone"}, client : Client \cup {Nobody},
                        holder : Holder \cup {Nobody}]]
  /\ issued \in 0 .. MaxPairs
  /\ pair \in [Pair -> [family : 0 .. MaxPairs, code : Code \cup {Nobody}, client : Client \cup {Nobody},
                        holder : Holder \cup {Nobody}, age : Age, access : Row, refresh : Row]]
  /\ \A p \in Pair : IF p > issued THEN pair[p] = NoPair ELSE pair[p].family \in 1 .. p
  /\ \A p \in Pair : {pair[p].access, pair[p].refresh} # {"none"} =>
       /\ pair[p].holder \in holder
       /\ client[pair[p].client] \in {"new", "settled"}
  /\ ended \subseteq 1 .. issued

Init ==
  /\ holder = Holder
  /\ client = [c \in Client |-> "unknown"]
  /\ code = [k \in Code |-> NoCode]
  /\ pair = [p \in Pair |-> NoPair]
  /\ issued = 0
  /\ ended = {}

Registered(c) == client[c] \in {"new", "settled"}

(* What validateAccessToken and refreshAccessToken accept.                  *)
MayCall(p) == pair[p].access = "live" /\ pair[p].age = "young"
MayRefresh(p) == pair[p].refresh = "live" /\ pair[p].age # "expired"

-----------------------------------------------------------------------------
(* POST /api/oauth/register: createClient.                                  *)
CreateClient(c) ==
  /\ client[c] = "unknown"
  /\ client' = [client EXCEPT ![c] = "new"]
  /\ UNCHANGED <<holder, code, pair, issued, ended>>

(* POST /api/oauth/authorize: createAuthorizationCode.                      *)
CreateAuthorizationCode(k, c, u) ==
  /\ code[k].is = "none"
  /\ Registered(c) /\ u \in holder
  /\ code' = [code EXCEPT ![k] = [is |-> "pending", client |-> c, holder |-> u]]
  /\ UNCHANGED <<holder, client, pair, issued, ended>>

(* issueTokens.                                                             *)
NextPair(family, k, c, u) ==
  [NoPair EXCEPT !.family = family, !.code = k, !.client = c, !.holder = u,
                 !.access = "live", !.refresh = "live"]

(* redeemAuthorizationCode: whatever does not fit the row leaves it alone.  *)
RedeemAuthorizationCode(k, c) ==
  /\ issued < MaxPairs
  /\ code[k].is = "pending" /\ code[k].client = c
  /\ code' = [code EXCEPT ![k].is = "gone"]
  /\ pair' = [pair EXCEPT ![issued + 1] = NextPair(issued + 1, k, c, code[k].holder)]
  /\ issued' = issued + 1
  /\ UNCHANGED <<holder, client, ended>>

Revoke(row) == IF row = "live" THEN "revoked" ELSE row

(* revokeFamilies.                                                          *)
Revoked(families) ==
  [p \in Pair |-> IF pair[p].family \in families
                  THEN [pair[p] EXCEPT !.refresh = Revoke(@), !.access = Revoke(@)] ELSE pair[p]]

Of(families) == {p \in 1 .. issued : pair[p].family \in families}

(* A bug: the token that was exchanged stays good.                          *)
RotateKeepsToken(p, c) ==
  /\ issued < MaxPairs
  /\ MayRefresh(p) /\ pair[p].client = c
  /\ pair' = [pair EXCEPT ![issued + 1] = NextPair(pair[p].family, pair[p].code, c, pair[p].holder)]
  /\ issued' = issued + 1
  /\ UNCHANGED <<holder, client, code, ended>>

(* refreshAccessToken with the token that is good.                          *)
Rotate(p, c) ==
  /\ issued < MaxPairs
  /\ MayRefresh(p) /\ pair[p].client = c
  /\ pair' = [pair EXCEPT ![p].refresh = "revoked",
                          ![issued + 1] = NextPair(pair[p].family, pair[p].code, c, pair[p].holder)]
  /\ issued' = issued + 1
  /\ UNCHANGED <<holder, client, code, ended>>

(* refreshAccessToken with one that was exchanged, revoked, has run out or  *)
(* was issued to another client: two parties hold it.                       *)
Replay(p, c) ==
  /\ pair[p].refresh # "none"
  /\ ~MayRefresh(p) \/ pair[p].client # c
  /\ pair' = Revoked({pair[p].family})
  /\ ended' = ended \cup Of({pair[p].family})
  /\ UNCHANGED <<holder, client, code, issued>>

(* DELETE /api/mcp/oauth/grants/:clientId: revokeGrant; without a grant it  *)
(* is a 404.                                                                *)
RevokeGrant(u, c) ==
  /\ u \in holder
  /\ pair' = Revoked({pair[p].family : p \in {q \in Pair : MayRefresh(q) /\ pair[q].holder = u
                                                           /\ pair[q].client = c}})
  /\ ended' = ended \cup {p \in 1 .. issued : pair[p].holder = u /\ pair[p].client = c}
  /\ <<pair, ended>>' # <<pair, ended>>
  /\ UNCHANGED <<holder, client, code, issued>>

-----------------------------------------------------------------------------
(* ON DELETE CASCADE.                                                       *)
CodesWithout(gone(_)) == [k \in Code |-> IF code[k].is \in {"pending", "late"} /\ gone(code[k])
                                         THEN [code[k] EXCEPT !.is = "gone"] ELSE code[k]]
PairsWithout(gone(_)) == [p \in Pair |-> IF gone(pair[p]) THEN [pair[p] EXCEPT !.access = "none", !.refresh = "none"]
                                         ELSE pair[p]]

(* removeUser.                                                              *)
RemoveHolder(u) ==
  /\ u \in holder
  /\ holder' = holder \ {u}
  /\ LET gone(row) == row.holder = u
     IN  code' = CodesWithout(gone) /\ pair' = PairsWithout(gone)
  /\ UNCHANGED <<client, issued, ended>>

(* A bug: a client without a live access token is taken for unused.         *)
UnusedByAccess(codes, pairs) ==
  {c \in Client : /\ client[c] = "settled"
                  /\ \A k \in Code : codes[k].is \in {"pending", "late"} => codes[k].client # c
                  /\ \A p \in Pair : pairs[p].access # "none" => pairs[p].client # c}

(* A registration of more than an hour ago that nothing refers to.          *)
Unused(codes, pairs) ==
  {c \in Client : /\ client[c] = "settled"
                  /\ \A k \in Code : codes[k].is \in {"pending", "late"} => codes[k].client # c
                  /\ \A p \in Pair : {pairs[p].access, pairs[p].refresh} # {"none"} => pairs[p].client # c}

(* sweepExpired, with the cascade of the clients it drops.                  *)
SweepExpired ==
  LET codes == [k \in Code |-> IF code[k].is = "late" THEN [code[k] EXCEPT !.is = "gone"] ELSE code[k]]
      pairs == [p \in Pair |-> [pair[p] EXCEPT !.access = IF pair[p].age = "young" THEN @ ELSE "none",
                                               !.refresh = IF pair[p].age = "expired" THEN "none" ELSE @]]
      unused == Unused(codes, pairs)
  IN  /\ code' = codes
      /\ pair' = [p \in Pair |-> IF pairs[p].client \in unused
                                 THEN [pairs[p] EXCEPT !.access = "none", !.refresh = "none"] ELSE pairs[p]]
      /\ client' = [c \in Client |-> IF c \in unused THEN "dropped" ELSE client[c]]
      /\ <<code, pair, client>>' # <<code, pair, client>>
      /\ UNCHANGED <<holder, issued, ended>>

(* Time passes: a code lasts five minutes, and what was issued first runs   *)
(* out first.                                                               *)
CodeRunsOut(k) ==
  /\ code[k].is = "pending"
  /\ code' = [code EXCEPT ![k].is = "late"]
  /\ UNCHANGED <<holder, client, pair, issued, ended>>

PairGrowsOld(p) ==
  /\ p <= issued /\ pair[p].age # "expired"
  /\ \A q \in 1 .. p - 1 : pair[p].age = "young" => pair[q].age # "young"
  /\ \A q \in 1 .. p - 1 : pair[p].age = "old" => pair[q].age = "expired"
  /\ pair' = [pair EXCEPT ![p].age = IF @ = "young" THEN "old" ELSE "expired"]
  /\ UNCHANGED <<holder, client, code, issued, ended>>

ClientSettles(c) ==
  /\ client[c] = "new"
  /\ client' = [client EXCEPT ![c] = "settled"]
  /\ UNCHANGED <<holder, code, pair, issued, ended>>

Next ==
  \/ \E c \in Client : CreateClient(c) \/ ClientSettles(c)
  \/ \E k \in Code, c \in Client, u \in Holder : CreateAuthorizationCode(k, c, u)
  \/ \E k \in Code, c \in Client : RedeemAuthorizationCode(k, c)
  \/ \E p \in Pair, c \in Client : Rotate(p, c) \/ Replay(p, c)
  \/ \E u \in Holder, c \in Client : RevokeGrant(u, c)
  \/ \E u \in Holder : RemoveHolder(u)
  \/ \E k \in Code : CodeRunsOut(k)
  \/ \E p \in Pair : PairGrowsOld(p)
  \/ SweepExpired

Spec == Init /\ [][Next]_vars

-----------------------------------------------------------------------------
(***************************************************************************)
(* Properties                                                              *)
(***************************************************************************)

(* However often codes and tokens are sent again, a consent has at most one *)
(* refresh token that is good.                                              *)
OneTokenPerConsent ==
  \A p, q \in Pair : MayRefresh(p) /\ MayRefresh(q) /\ pair[p].code = pair[q].code => p = q

(* A family that was told to end - by a token that came back, or by its     *)
(* user, even where the answer was that there is no grant - never calls or  *)
(* refreshes again.                                                         *)
EndedFamiliesStayEnded == \A p \in ended : ~MayCall(p) /\ ~MayRefresh(p)

(* Whoever can call is on the list a user can revoke from.                  *)
WhoCallsIsListed ==
  \A p \in Pair : MayCall(p) =>
    \E q \in Pair : MayRefresh(q) /\ pair[q].client = pair[p].client /\ pair[q].holder = pair[p].holder

(* The sweep, with all that hangs on the clients it drops, never costs a    *)
(* client what it could still use.                                          *)
StillUsable == \A p \in Pair : (MayRefresh(p) => MayRefresh(p)') /\ (MayCall(p) => MayCall(p)')
SweepCostsNothing == [][SweepExpired => StillUsable]_vars
=============================================================================
