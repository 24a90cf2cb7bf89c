-------------------------------- MODULE Sessions --------------------------------
(***************************************************************************)
(* The refresh tokens of one account: rotated at every refresh from a      *)
(* browser's cookie, kept by the mobile app, revoked by a logout, and      *)
(* ended all at once when the number changes or the account is erased.     *)
(*                                                                         *)
(* Redis holds what is revoked, and forgets it after a time to live; one   *)
(* call to Redis is one step of the model.                                 *)
(***************************************************************************)
EXTENDS Integers, FiniteSets

CONSTANTS
    MaxTokens, Horizon,          \* bounds: tokens signed, ticks of the clock
    Grace, RefreshLife,          \* in ticks
    MaxChain                     \* the rotations a logout walks back

VARIABLES
    now,
    issued,      \* refresh tokens by id: when, and how long they live
    parent,      \* history: the token each was rotated from, 0 for a sign-in
    blacklist,   \* blacklist:<jti>, the time Redis forgets it
    rotated,     \* rotated:<jti>: when it stops being accepted, when Redis forgets that
    from,        \* rotated_from:<jti>: the token it was rotated from, when Redis forgets it
    cutoff,      \* users.tokens_valid_after
    out          \* history: what a logout or a change of number has to end

vars == <<now, issued, parent, blacklist, rotated, from, cutoff, out>>

--------------------------------------------------------------------------------
Ids    == 1..MaxTokens
Never  == Horizon + Grace + RefreshLife + 1
Tokens == {t \in Ids : issued[t] # <<>>}
NewId  == Cardinality(Tokens) + 1

(* What the theorems assume of the constants. *)
Constants == {MaxTokens, Horizon, Grace, RefreshLife, MaxChain} \subseteq Nat

Kept(entry)   == entry # <<>> /\ entry[2] > now        \* Redis still has it
Persistent(t) == issued[t][2] = Never

Expired(t) == ~Persistent(t) /\ now >= issued[t][1] + issued[t][2]
IsTokenRevoked(t) == (blacklist[t] # 0 /\ blacklist[t] > now) \/ (Kept(rotated[t]) /\ now >= rotated[t][1])
MaySignIn(t) == issued[t][1] >= cutoff
Accepted(t)  == ~Expired(t) /\ ~IsTokenRevoked(t) /\ MaySignIn(t)

Sign(t, life, of) ==
    /\ issued' = [issued EXCEPT ![t] = <<now, life>>]
    /\ parent' = [parent EXCEPT ![t] = of]

SignIn(persistent) ==
    /\ NewId \in Ids
    /\ Sign(NewId, IF persistent THEN Never ELSE RefreshLife, 0)
    /\ UNCHANGED <<now, blacklist, rotated, from, cutoff, out>>

(* NX: the first rotation sets the deadline, a reuse in the grace keeps it. *)
RetireRotatedToken(t, successor) ==
    /\ rotated' = IF Kept(rotated[t]) THEN rotated
                  ELSE [rotated EXCEPT ![t] = <<now + Grace, now + RefreshLife + Grace>>]
    /\ from' = [from EXCEPT ![successor] = <<t, now + Grace>>]

(* A cookie is rotated; the token of a header is not retired. *)
Refresh(t, cookie) ==
    /\ t \in Tokens /\ Accepted(t) /\ ~Persistent(t) /\ NewId \in Ids
    /\ Sign(NewId, RefreshLife, IF cookie THEN t ELSE 0)
    /\ IF cookie THEN RetireRotatedToken(t, NewId) ELSE UNCHANGED <<rotated, from>>
    /\ UNCHANGED <<now, blacklist, cutoff, out>>

(* Mutant: a logout does not look for what the token was rotated from. *)
PredecessorNone(t) == {}

PredecessorOf(t) == IF Kept(from[t]) THEN {from[t][1]} ELSE {}

(* The token and what it was rotated from, as far as Redis remembers and   *)
(* the walk goes.                                                          *)
Chain(t) ==
    LET back[n \in 0..MaxChain] == IF n = 0 THEN {t} ELSE back[n - 1] \cup UNION {PredecessorOf(x) : x \in back[n - 1]}
    IN  back[MaxChain]

(* An entry lives as long as the token it refuses. *)
Forgotten(t, persistent) == IF persistent THEN Never ELSE now + RefreshLife

RevokeToken(t) ==
    blacklist' = [x \in Ids |-> IF x = t THEN Forgotten(t, Persistent(t))
                                ELSE IF x \in Chain(t) THEN Forgotten(x, FALSE) ELSE blacklist[x]]

(* The token and the last MaxChain that it was rotated from.  Older ones   *)
(* are not a logout's to end: they end with their grace.                   *)
Ancestors(t) ==
    LET up[n \in 0..MaxChain] == IF n = 0 THEN {t} ELSE up[n - 1] \cup {parent[x] : x \in up[n - 1] \ {0}}
    IN  up[MaxChain] \ {0}

(* A logout needs no valid token, and accepts an expired one. *)
Logout(t) ==
    /\ t \in Tokens
    /\ RevokeToken(t)
    /\ out' = out \cup Ancestors(t)
    /\ UNCHANGED <<now, issued, parent, rotated, from, cutoff>>

(* The number changed: what was signed before this tick ends, the session  *)
(* that changed it gets a new pair and its own token is revoked.           *)
EndSessionsIssuedBefore(t) ==
    /\ t \in Tokens /\ Accepted(t) /\ NewId \in Ids
    /\ cutoff' = now
    /\ RevokeToken(t)
    /\ Sign(NewId, issued[t][2], 0)
    /\ out' = out \cup {x \in Tokens : issued[x][1] < now} \cup Ancestors(t)
    /\ UNCHANGED <<now, rotated, from>>

Tick ==
    /\ now < Horizon /\ now' = now + 1
    /\ UNCHANGED <<issued, parent, blacklist, rotated, from, cutoff, out>>

Init ==
    /\ now = 0 /\ cutoff = 0
    /\ issued = [t \in Ids |-> <<>>] /\ parent = [t \in Ids |-> 0]
    /\ blacklist = [t \in Ids |-> 0]
    /\ rotated = [t \in Ids |-> <<>>] /\ from = [t \in Ids |-> <<>>]
    /\ out = {}

Next ==
    \/ \E p \in BOOLEAN : SignIn(p)
    \/ \E t \in Ids, cookie \in BOOLEAN : Refresh(t, cookie)
    \/ \E t \in Ids : Logout(t) \/ EndSessionsIssuedBefore(t)
    \/ Tick

Spec == Init /\ [][Next]_vars

--------------------------------------------------------------------------------
(* A session that was signed out stays signed out: the token of a logout,  *)
(* the last MaxChain tokens it was rotated from, and all that a change of  *)
(* number ended, are refused for good, although Redis forgets its entries. *)
SignedOutStaysOut == \A t \in out : ~Accepted(t)

(* Tabs that refresh together with the same cookie all succeed: a rotated  *)
(* cookie works for the whole grace unless the session was signed out.     *)
TabsRefreshTogether ==
    \A t \in Tokens : \A s \in Tokens :
        parent[s] = t /\ now < issued[s][1] + Grace /\ (\A r \in Tokens : parent[r] = t => r >= s)
        /\ t \notin out /\ ~Expired(t) /\ MaySignIn(t) /\ blacklist[t] = 0
            => Accepted(t)

(* A rotated cookie does not outlive its grace, however often it is used.  *)
RotatedEnds ==
    \A s \in Tokens : parent[s] # 0 /\ now >= issued[s][1] + Grace => ~Accepted(parent[s])
================================================================================
